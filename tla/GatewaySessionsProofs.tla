------------------------- MODULE GatewaySessionsProofs -------------------------
(***************************************************************************)
(* What holds of the gateway's sessions and answers for any peers, names,  *)
(* scenarios, rates and timeouts, in every interleaving of the two threads:*)
(* a connected device has a session and is greeted once, its hellos are    *)
(* spaced, and its messages are answered in order and to the asker.        *)
(*                                                                         *)
(* ConnectedHasSession is not inductive by itself: create_session writes   *)
(* to the entry it looked up before, so one has to know that the entry is  *)
(* still there unless session_cleanup has marked the pointer as dangling   *)
(* (Found), and what an entry and the state of rx look like.               *)
(***************************************************************************)
EXTENDS GatewaySessions, SequenceFacts

IsEntry(e) ==
    /\ DOMAIN e = {"session", "peer", "connected", "last"}
    /\ e.session \in Nat /\ e.connected \in BOOLEAN

Using == {"message", "event", "create", "greeting", "sending"}

RxShape == rx.pc \in {"idle", "undefined"} \/ DOMAIN rx = {"pc", "id", "dangling"}

Found == rx.pc \in Using /\ ~rx.dangling => rx.id \in DOMAIN board

\* The entry of d may be connected without a session while rx is about to make
\* one, and its pointer is good: if not, the entry was erased, and the one that
\* has taken its place was not marked by rx.
Between(d) == rx.pc \in {"new", "create"} /\ rx.id = d /\ ~rx.dangling

OnlyBetween ==
    \A d \in DOMAIN board : board[d].connected /\ board[d].session = 0 => Between(d)

IInv ==
    /\ sessions \in Nat
    /\ DOMAIN rx # {} /\ "pc" \in DOMAIN rx /\ RxShape
    /\ \A d \in DOMAIN board : IsEntry(board[d])
    /\ Found
    /\ OnlyBetween

\* Writing one entry: what the listeners and the heartbeat check do.
LEMMA UpdateKeeps ==
    ASSUME IInv, NEW d, NEW e, IsEntry(e), e.connected /\ e.session = 0 => Between(d),
           board' = With(board, d, e), rx' = rx, sessions' \in Nat
    PROVE  IInv'
<1>1. /\ DOMAIN board' = DOMAIN board \cup {d}
      /\ board'[d] = e
      /\ \A x \in DOMAIN board : x # d => board'[x] = board[x]
  BY Zenon DEF With
<1>2. \A x \in DOMAIN board' : IsEntry(board'[x])
  BY <1>1, Zenon DEF IInv
<1>3. (DOMAIN rx # {} /\ "pc" \in DOMAIN rx /\ RxShape)'
  BY Zenon DEF IInv, RxShape
<1>4. Found'
  BY <1>1, Zenon DEF IInv, Found
<1>5. OnlyBetween'
  BY <1>1, Zenon DEF IInv, OnlyBetween, Between
<1> QED
  BY <1>2, <1>3, <1>4, <1>5 DEF IInv, IsEntry

\* Looking an entry up, which may add a blank one.
LEMMA DeviceEntry ==
    ASSUME IInv, NEW d
    PROVE  /\ d \in DOMAIN device(board, d)
           /\ IsEntry(device(board, d)[d])
           /\ device(board, d)[d].connected /\ device(board, d)[d].session = 0 => Between(d)
<1>1. CASE d \in DOMAIN board
  BY <1>1, Zenon DEF device, IInv, OnlyBetween, Between
<1>2. CASE d \notin DOMAIN board
  <2>1. d \in DOMAIN With(board, d, Blank) /\ With(board, d, Blank)[d] = Blank
    BY Zenon DEF With
  <2>2. IsEntry(Blank) /\ ~Blank.connected
    BY Zenon DEF IsEntry, Blank
  <2> QED
    BY <1>2, <2>1, <2>2, Zenon DEF device
<1> QED
  BY <1>1, <1>2, Zenon

LEMMA DeviceKeeps ==
    ASSUME IInv, NEW d, board' = device(board, d), rx' = rx, sessions' = sessions
    PROVE  IInv'
<1>1. CASE d \in DOMAIN board
  <2>1. board' = board
    BY <1>1, Zenon DEF device
  <2> QED
    BY <2>1, Zenon DEF IInv, RxShape, Found, OnlyBetween, Between, IsEntry
<1>2. CASE d \notin DOMAIN board
  <2>1. board' = With(board, d, Blank)
    BY <1>2, Zenon DEF device
  <2>2. IsEntry(Blank) /\ ~Blank.connected
    BY Zenon DEF IsEntry, Blank
  <2>3. sessions' \in Nat
    BY Zenon DEF IInv
  <2> QED
    BY <2>1, <2>2, <2>3, UpdateKeeps
<1> QED
  BY <1>1, <1>2, Zenon

\* The receiver thread's lookups: the entry is there when it is used next.
LEMMA LookupKeeps ==
    ASSUME IInv, NEW d, NEW pc, Lookup(d, pc), sessions' = sessions,
           pc \in Using, rx.pc \in {"new", "create"} => pc = "create" /\ d = rx.id
    PROVE  IInv'
<1>1. board' = device(board, d) /\ rx' = [pc |-> pc, id |-> d, dangling |-> FALSE]
  BY Zenon DEF Lookup
<1>2. /\ d \in DOMAIN board'
      /\ \A x \in DOMAIN board' : IsEntry(board'[x])
      /\ \A x \in DOMAIN board' :
            board'[x].connected /\ board'[x].session = 0 => Between(x)
  <2>1. CASE d \in DOMAIN board
    BY <1>1, <2>1, Zenon DEF device, IInv, OnlyBetween, Between
  <2>2. CASE d \notin DOMAIN board
    <3>1. board' = With(board, d, Blank)
      BY <1>1, <2>2, Zenon DEF device
    <3>2. IsEntry(Blank) /\ ~Blank.connected
      BY Zenon DEF IsEntry, Blank
    <3>3. /\ DOMAIN board' = DOMAIN board \cup {d} /\ board'[d] = Blank
          /\ \A x \in DOMAIN board : board'[x] = board[x]
      BY <3>1, <2>2, Zenon DEF With
    <3> QED
      BY <3>2, <3>3, Zenon DEF IInv, OnlyBetween, Between
  <2> QED
    BY <2>1, <2>2, Zenon
<1>3. OnlyBetween'
  <2> SUFFICES ASSUME NEW x \in DOMAIN board', board'[x].connected, board'[x].session = 0
               PROVE  Between(x)'
    BY Zenon DEF OnlyBetween
  <2>1. Between(x)
    BY <1>2, Zenon
  <2> QED
    BY <1>1, <2>1, Zenon DEF Between
<1>4. Found' /\ (DOMAIN rx # {} /\ "pc" \in DOMAIN rx /\ RxShape)'
  BY <1>1, <1>2, Zenon DEF Found, RxShape
<1> QED
  BY <1>2, <1>3, <1>4, Zenon DEF IInv

\* What leaves the board, the sessions and rx alone.
LEMMA FrameKeeps ==
    ASSUME IInv, UNCHANGED <<board, sessions, rx>>
    PROVE  IInv'
BY Zenon DEF IInv, RxShape, Found, OnlyBetween, Between, IsEntry

\* A step of rx that leaves the board alone and does not begin a new device.
LEMMA RxMoves ==
    ASSUME IInv, board' = board, sessions' = sessions,
           rx.pc \notin {"new", "create"},
           \/ rx' = Idle \/ rx' = Undefined
           \/ rx.pc \notin {"idle", "undefined"} /\ \E pc : rx' = [rx EXCEPT !.pc = pc] /\ pc \notin Using
    PROVE  IInv'
<1>1. (DOMAIN rx # {} /\ "pc" \in DOMAIN rx /\ RxShape)' /\ rx'.pc \notin Using
  BY DEF IInv, RxShape, Idle, Undefined, Using
<1>2. Found'
  BY <1>1, Zenon DEF Found
<1>3. OnlyBetween'
  BY Zenon DEF IInv, OnlyBetween, Between
<1> QED
  BY <1>1, <1>2, <1>3 DEF IInv, IsEntry

\* The steps of the receiver thread.
LEMMA RxStepKeeps ==
    ASSUME IInv, RxStep
    PROVE  IInv'
<1>1. CASE Deliver
  <2> DEFINE e == board[rx.id]
             f == [e EXCEPT !.peer = scenario.messages[received].from]
  <2>1. rx.pc = "message" /\ rx' = Idle /\ sessions' = sessions /\ rx.id \in DOMAIN board
    BY <1>1, Zenon DEF Deliver, IInv, Found, Using, bounds
  <2>2. \A d \in DOMAIN board : ~(board[d].connected /\ board[d].session = 0)
    BY <2>1, Zenon DEF IInv, OnlyBetween, Between
  <2>3. CASE board' = board
    BY <2>1, <2>3, RxMoves, Zenon
  <2>4. CASE board' = With(board, rx.id, f)
    <3>1. IsEntry(f) /\ ~(f.connected /\ f.session = 0)
      BY <2>1, <2>2, Zenon DEF IInv, IsEntry
    <3> HIDE DEF f
    <3>2. /\ \A d \in DOMAIN board' : IsEntry(board'[d])
          /\ \A d \in DOMAIN board' : ~(board'[d].connected /\ board'[d].session = 0)
      BY <2>2, <2>4, <3>1, Zenon DEF With, IInv
    <3> QED
      BY <2>1, <3>2, Zenon DEF IInv, RxShape, Found, Using, OnlyBetween, Between, Idle
  <2> QED
    BY <1>1, <2>3, <2>4, Zenon DEF Deliver, Update
<1>2. CASE MarkConnected
  <2> DEFINE f == [board[rx.id] EXCEPT !.connected = TRUE, !.peer = rx.id]
  <2>1. rx.pc = "event" /\ ~rx.dangling /\ sessions' = sessions /\ rx.id \in DOMAIN board
    BY <1>2, Zenon DEF MarkConnected, IInv, Found, Using, bounds
  <2>2. CASE rx' = Idle /\ board' = board
    BY <2>1, <2>2, RxMoves
  <2>3. CASE board' = With(board, rx.id, f) /\ rx' = [rx EXCEPT !.pc = "new"]
    <3>1. IsEntry(f)
      BY <2>1, Zenon DEF IInv, IsEntry
    <3> HIDE DEF f
    <3>2. /\ rx'.pc = "new" /\ rx'.id = rx.id /\ ~rx'.dangling
          /\ DOMAIN rx' = {"pc", "id", "dangling"}
      BY <2>1, <2>3, Zenon DEF IInv, RxShape
    <3>3. \A d \in DOMAIN board' : IsEntry(board'[d])
      BY <2>3, <3>1, Zenon DEF With, IInv
    <3>4. OnlyBetween'
      BY <2>1, <2>3, <3>2, Zenon DEF With, IInv, OnlyBetween, Between
    <3> QED
      BY <2>1, <3>2, <3>3, <3>4 DEF IInv, RxShape, Found, Using
  <2> QED
    BY <1>2, <2>2, <2>3, Zenon DEF MarkConnected, Update
<1>3. CASE LookupAgain
  <2>1. sessions' = sessions
    BY <1>3, Zenon DEF LookupAgain, bounds
  <2>2. CASE rx.pc = "new"
    <3>1. Lookup(rx.id, "create")
      BY <1>3, <2>2, Zenon DEF LookupAgain
    <3> QED
      BY <2>1, <2>2, <3>1, LookupKeeps DEF Using
  <2>3. CASE rx.pc = "greet"
    <3>1. Lookup(rx.id, "greeting")
      BY <1>3, <2>3, Zenon DEF LookupAgain
    <3> QED
      BY <2>1, <2>3, <3>1, LookupKeeps, Zenon DEF Using
  <2>4. CASE rx.pc = "status"
    <3>1. Lookup(rx.id, "sending")
      BY <1>3, <2>4 DEF LookupAgain
    <3> QED
      BY <2>1, <2>4, <3>1, LookupKeeps DEF Using
  <2> QED
    BY <1>3, <2>2, <2>3, <2>4 DEF LookupAgain
<1>4. CASE CreateOnline
  <2> DEFINE f == Created(board[rx.id])
  <2>1. /\ rx.pc = "create" /\ sessions' = sessions + 1 /\ rx.id \in DOMAIN board
        /\ board' = With(board, rx.id, f) /\ rx' = [rx EXCEPT !.pc = "marking"]
    BY <1>4, Zenon DEF CreateOnline, IInv, Found, Using, Update
  <2>2. IsEntry(f) /\ f.session # 0
    BY <2>1 DEF IInv, IsEntry, Created
  <2> HIDE DEF f
  <2>3. rx'.pc = "marking" /\ DOMAIN rx' = {"pc", "id", "dangling"}
    BY <2>1, Zenon DEF IInv, RxShape
  <2>4. \A d \in DOMAIN board' : IsEntry(board'[d])
    BY <2>1, <2>2, Zenon DEF With, IInv
  <2>5. \A d \in DOMAIN board' : ~(board'[d].connected /\ board'[d].session = 0)
    BY <2>1, <2>2, Zenon DEF With, IInv, OnlyBetween, Between
  <2>6. sessions' \in Nat
    BY <2>1 DEF IInv
  <2> QED
    BY <2>3, <2>4, <2>5, <2>6 DEF IInv, RxShape, Found, Using, OnlyBetween, Between
<1>5. CASE MarkChanged
  <2>1. rx.pc = "marking" /\ rx' = [rx EXCEPT !.pc = "greet"] /\ "greet" \notin Using
    BY <1>5, Zenon DEF MarkChanged, Using
  <2>2. board' = board /\ sessions' = sessions
    BY <1>5, Zenon DEF MarkChanged, state, bounds
  <2> QED
    BY <2>1, <2>2, RxMoves, Zenon
<1>6. CASE Greet
  <2>1. rx.pc \in {"greeting", "sending"} /\ "status" \notin Using
        /\ (rx' = Idle \/ rx' = [rx EXCEPT !.pc = "status"])
    BY <1>6, Zenon DEF Greet, Using
  <2>2. board' = board /\ sessions' = sessions
    BY <1>6, Zenon DEF Greet, state, bounds
  <2> QED
    BY <2>1, <2>2, RxMoves, Zenon
<1>7. CASE UseErased
  <2>1. board' = board /\ sessions' = sessions /\ rx' = Undefined /\ rx.dangling
    BY <1>7, Zenon DEF UseErased, state, bounds
  <2> QED
    BY <2>1, Zenon DEF IInv, RxShape, Found, Using, OnlyBetween, Between, Undefined
<1> QED
  BY <1>1, <1>2, <1>3, <1>4, <1>5, <1>6, <1>7 DEF RxStep

\* The steps of the CPU thread.
LEMMA CpuStepKeeps ==
    ASSUME IInv, CpuStep
    PROVE  IInv'
<1>1. CASE StartBatch \/ EndBatch \/ SnapshotBoard \/ SnapshotEntries \/ EndTask
  BY <1>1, FrameKeeps, Zenon DEF StartBatch, EndBatch, SnapshotBoard, SnapshotEntries, EndTask, state, bounds
<1>2. CASE HelloLimited \/ HelloRefused \/ Ping \/ Forward
  BY <1>2, FrameKeeps, Zenon DEF HelloLimited, HelloRefused, Ping, Forward, Listener
<1>3. CASE HelloAccepted
  <2> DEFINE d == device_id(Current)
             e == device(board, d)[d]
  <2>1. board' = With(board, d, Created(e)) /\ sessions' = sessions + 1 /\ rx' = rx
    BY <1>3, Zenon DEF HelloAccepted, Listener, Update
  <2>2. IsEntry(e)
    BY DeviceEntry, Zenon
  <2> HIDE DEF e, d
  <2>3. IsEntry(Created(e)) /\ Created(e).session # 0 /\ sessions' \in Nat
    BY <2>1, <2>2 DEF IInv, IsEntry, Created
  <2> QED
    BY <2>1, <2>3, UpdateKeeps, Zenon
<1>4. CASE AudioFrame
  <2> DEFINE d == device_id(Current)
             e == device(board, d)[d]
             f == [e EXCEPT !.last = 0]
  <2>1. (board' = board \/ board' = With(board, d, f)) /\ sessions' = sessions /\ rx' = rx
    BY <1>4, Zenon DEF AudioFrame, Listener, Update
  <2>2. IsEntry(e) /\ (e.connected /\ e.session = 0 => Between(d))
    BY DeviceEntry, Zenon
  <2> HIDE DEF e, d
  <2>3. IsEntry(f) /\ (f.connected /\ f.session = 0 => Between(d)) /\ sessions' \in Nat
    BY <2>1, <2>2, Zenon DEF IInv, IsEntry
  <2> HIDE DEF f
  <2> QED
    BY <2>1, <2>3, UpdateKeeps, FrameKeeps, Zenon
<1>5. CASE Bye
  <2> DEFINE d == device_id(Current)
             e == device(board, d)[d]
  <2>1. board' = With(board, d, Closed(e)) /\ sessions' = sessions /\ rx' = rx
    BY <1>5, Zenon DEF Bye, Listener, Update
  <2>2. IsEntry(e)
    BY DeviceEntry, Zenon
  <2> HIDE DEF e, d
  <2>3. IsEntry(Closed(e)) /\ ~Closed(e).connected /\ sessions' \in Nat
    BY <2>1, <2>2, Zenon DEF IInv, IsEntry, Closed
  <2> QED
    BY <2>1, <2>3, UpdateKeeps, Zenon
<1>6. CASE PendingIo
  <2>1. sessions' = sessions /\ rx' = rx /\ (board' = board \/ board' = device(board, Head(pending).to))
    BY <1>6, Zenon DEF PendingIo, bounds
  <2> QED
    BY <2>1, FrameKeeps, DeviceKeeps, Zenon
<1>7. ASSUME NEW d \in Ids, Sweep(d)
      PROVE  IInv'
  <2>1. sessions' = sessions /\ (CloseOverdue(d) \/ RemoveOverdue(d))
    BY <1>7, Zenon DEF Sweep, bounds
  <2>2. CASE CloseOverdue(d)
    <3> DEFINE e == device(board, d)[d]
    <3>1. board' = With(board, d, Closed(e)) /\ rx' = rx
      BY <2>2, Zenon DEF CloseOverdue, Update
    <3>2. IsEntry(e)
      BY DeviceEntry, Zenon
    <3> HIDE DEF e
    <3>3. IsEntry(Closed(e)) /\ ~Closed(e).connected /\ sessions' \in Nat
      BY <2>1, <3>2, Zenon DEF IInv, IsEntry, Closed
    <3> QED
      BY <3>1, <3>3, UpdateKeeps, Zenon
  <2>3. CASE RemoveOverdue(d)
    <3>1. /\ DOMAIN board' = DOMAIN board \ {d}
          /\ \A x \in DOMAIN board' : board'[x] = board[x]
      BY <2>3, Zenon DEF RemoveOverdue, Without
    <3>2. \A x \in DOMAIN board' : IsEntry(board'[x])
      BY <3>1, Zenon DEF IInv
    <3>3. CASE rx # Idle /\ rx.id = d
      <4>1. rx' = [rx EXCEPT !.dangling = TRUE]
        BY <2>3, <3>3, Zenon DEF RemoveOverdue
      <4>2. DOMAIN rx' = DOMAIN rx /\ rx'.pc = rx.pc
        BY <4>1, Zenon DEF IInv
      <4>3. RxShape' /\ Found'
        BY <4>1, <4>2, Zenon DEF IInv, RxShape, Found, Using
      <4>4. OnlyBetween'
        BY <3>1, <3>3 DEF IInv, OnlyBetween, Between
      <4> QED
        BY <2>1, <3>2, <4>2, <4>3, <4>4 DEF IInv
    <3>4. CASE ~(rx # Idle /\ rx.id = d)
      <4>1. rx' = rx
        BY <2>3, <3>4, Zenon DEF RemoveOverdue
      <4>2. Found'
        BY <3>1, <3>4, <4>1 DEF IInv, Found, Using, Idle
      <4>3. OnlyBetween'
        BY <3>1, <4>1, Zenon DEF IInv, OnlyBetween, Between
      <4> QED
        BY <2>1, <3>2, <4>1, <4>2, <4>3 DEF IInv, RxShape
    <3> QED
      BY <3>3, <3>4
  <2> QED
    BY <2>1, <2>2, <2>3, Zenon
<1> QED
  BY <1>1, <1>2, <1>3, <1>4, <1>5, <1>6, <1>7 DEF CpuStep

\* Time only makes the activities older.
LEMMA TickKeeps ==
    ASSUME IInv, Tick
    PROVE  IInv'
<1>1. /\ rx' = rx /\ sessions' = sessions
      /\ DOMAIN board' = DOMAIN board
      /\ \A d \in DOMAIN board :
            board'[d] = [board[d] EXCEPT !.last = IF @ = Never THEN @ ELSE @ + 1]
  BY Zenon DEF Tick
<1>2. \A d \in DOMAIN board : /\ IsEntry(board'[d])
                              /\ board'[d].session = board[d].session
                              /\ board'[d].connected = board[d].connected
  BY <1>1 DEF IInv, IsEntry
<1>3. OnlyBetween'
  BY <1>1, <1>2, Zenon DEF IInv, OnlyBetween, Between
<1> QED
  BY <1>1, <1>2, <1>3, Zenon DEF IInv, RxShape, Found

LEMMA InitIInv == Init => IInv
BY DEF Init, IInv, RxShape, Found, Using, OnlyBetween, Empty, Idle

LEMMA NextKeeps ==
    ASSUME IInv, [Next]_vars
    PROVE  IInv'
<1>1. CASE Receive
  <2>1. rx.pc = "idle" /\ sessions' = sessions
        /\ Lookup(device_id(scenario.messages[received']), "message")
    BY <1>1, Zenon DEF Receive
  <2> QED
    BY <2>1, LookupKeeps, Zenon DEF Using
<1>2. ASSUME NEW p \in Peers, PeerOnline(p)
      PROVE  IInv'
  <2>1. rx.pc = "idle" /\ sessions' = sessions /\ Lookup(p, "event")
    BY <1>2, Zenon DEF PeerOnline
  <2> QED
    BY <2>1, LookupKeeps, Zenon DEF Using
<1>3. ASSUME NEW p \in Peers, PeerClosed(p)
      PROVE  IInv'
  BY <1>3, FrameKeeps, Zenon DEF PeerClosed, state
<1>4. CASE RxStep
  BY <1>4, RxStepKeeps
<1>5. CASE CpuStep
  BY <1>5, CpuStepKeeps, Zenon
<1>6. ASSUME NEW t, TaskNow(t)
      PROVE  IInv'
  BY <1>6, FrameKeeps DEF TaskNow, state
<1>7. CASE Tick
  BY <1>7, TickKeeps, Zenon
<1>8. CASE UNCHANGED vars
  BY <1>8, FrameKeeps, Zenon DEF vars, state, bounds
<1> QED
  BY <1>1, <1>2, <1>3, <1>4, <1>5, <1>6, <1>7, <1>8 DEF Next

\* A device that shows as connected has a session, except between the two
\* critical sections of on_tight_peer_event in which it gets one.
THEOREM SessionTheorem == Spec => []ConnectedHasSession
<1>1. Init => IInv
  BY InitIInv, Zenon
<1>2. IInv /\ [Next]_vars => IInv'
  BY NextKeeps, Zenon
<1>3. IInv => ConnectedHasSession
  BY Zenon DEF IInv, OnlyBetween, Between, ConnectedHasSession
<1> QED
  BY <1>1, <1>2, <1>3, PTL DEF Spec

-----------------------------------------------------------------------------
(***************************************************************************)
(* GreetedOnce.  A greeting that rx still owes counts like one that was    *)
(* sent, and a device that is connected may have one more than it was      *)
(* disconnected.                                                           *)
(***************************************************************************)

Owed(d) == IF rx.pc \in {"new", "create", "marking", "greet", "greeting"} /\ rx.id = d THEN 1 ELSE 0
Conn(d) == IF d \in DOMAIN board /\ board[d].connected THEN 1 ELSE 0

GreetInv ==
    /\ greeted \in [Ids -> Nat] /\ ended \in [Ids -> Nat]
    /\ \A d \in Ids : greeted[d] + Owed(d) <= ended[d] + Conn(d)

\* Steps that disconnect nobody and owe no new greeting.
LEMMA GreetFrame ==
    ASSUME GreetInv, UNCHANGED <<greeted, ended>>,
           \A d \in Ids : Conn(d)' >= Conn(d) /\ Owed(d)' <= Owed(d)
    PROVE  GreetInv'
<1>1. \A d \in Ids : Conn(d) \in {0, 1} /\ Conn(d)' \in {0, 1} /\ Owed(d) \in {0, 1} /\ Owed(d)' \in {0, 1}
  BY Zenon DEF Conn, Owed
<1> QED
  BY <1>1 DEF GreetInv

\* The same, when neither the board nor rx changes.
LEMMA GreetStill ==
    ASSUME GreetInv, UNCHANGED <<greeted, ended, board, rx>>
    PROVE  GreetInv'
<1>1. \A d \in Ids : Conn(d)' = Conn(d) /\ Owed(d)' = Owed(d) /\ Conn(d) \in {0, 1} /\ Owed(d) \in {0, 1}
  BY Zenon DEF Conn, Owed
<1> QED
  BY <1>1, GreetFrame

\* Looking up and writing an entry disconnect nobody, the latter if it does not
\* take the connection from the entry.
LEMMA ConnKept ==
    ASSUME IInv, NEW d, NEW e, board' = With(board, d, e),
           d \in DOMAIN board /\ board[d].connected => e.connected
    PROVE  \A x \in Ids : Conn(x)' >= Conn(x)
BY DEF With, Conn

LEMMA ConnLookup ==
    ASSUME IInv, NEW d, board' = device(board, d)
    PROVE  \A x \in Ids : Conn(x)' >= Conn(x)
BY DEF device, With, Conn, Blank

\* A device is disconnected, and that is counted.
LEMMA Disconnect ==
    ASSUME GreetInv, NEW d, rx' = rx \/ (\A x \in Ids : Owed(x)' = Owed(x)),
           greeted' = greeted, ended' = [ended EXCEPT ![d] = @ + 1],
           \A x \in Ids : x # d => Conn(x)' = Conn(x)
    PROVE  GreetInv'
<1>1. \A x \in Ids : /\ Conn(x) \in {0, 1} /\ Conn(x)' \in {0, 1}
                     /\ Owed(x) \in {0, 1} /\ Owed(x)' = Owed(x)
  BY Zenon DEF Conn, Owed
<1>2. ended' \in [Ids -> Nat] /\ \A x \in Ids : ended'[x] = IF x = d THEN ended[x] + 1 ELSE ended[x]
  <2>1. ended \in [Ids -> Nat]
    BY Zenon DEF GreetInv
  <2>2. \A x \in Ids : ended'[x] = IF x = d THEN ended[x] + 1 ELSE ended[x]
    BY <2>1, Zenon
  <2>3. DOMAIN ended' = Ids /\ \A x \in Ids : ended'[x] \in Nat
    BY <2>1, <2>2
  <2> QED
    BY <2>1, <2>2, <2>3, Zenon
<1>3. greeted' \in [Ids -> Nat]
  BY Zenon DEF GreetInv
<1>4. \A x \in Ids : greeted'[x] + Owed(x)' <= ended'[x] + Conn(x)'
  BY <1>1, <1>2 DEF GreetInv
<1> QED
  BY <1>2, <1>3, <1>4 DEF GreetInv

\* One step of either thread keeps the balance.
LEMMA GreetKeeps ==
    ASSUME IInv, GreetInv, [Next]_vars
    PROVE  GreetInv'
<1>1. CASE Receive \/ \E p \in Peers : PeerOnline(p)
  <2>1. PICK d, pc : Lookup(d, pc) /\ pc \in {"message", "event"} /\ UNCHANGED <<greeted, ended>>
    BY <1>1, Zenon DEF Receive, PeerOnline, history
  <2>2. \A x \in Ids : Conn(x)' >= Conn(x)
    BY <2>1, ConnLookup DEF Lookup
  <2>3. \A x \in Ids : Owed(x)' <= Owed(x)
    BY <2>1 DEF Lookup, Owed
  <2> QED
    BY <2>1, <2>2, <2>3, GreetFrame
<1>2. CASE (\E p \in Peers : PeerClosed(p)) \/ UNCHANGED vars
  BY <1>2, GreetStill DEF PeerClosed, state, vars, history
<1>3. CASE \E t \in {"heartbeat_check", "session_cleanup"} : TaskNow(t)
  BY <1>3, GreetStill DEF TaskNow, state, history
<1>4. CASE Deliver
  <2>1. UNCHANGED <<greeted, ended>> /\ rx.pc = "message" /\ rx' = Idle /\ rx.id \in DOMAIN board
    BY <1>4, Zenon DEF Deliver, history, IInv, Found, Using
  <2>2. \A x \in Ids : Owed(x)' <= Owed(x)
    BY <2>1 DEF Owed, Idle
  <2>3. IsEntry(board[rx.id])
    BY <2>1, Zenon DEF IInv
  <2>4. \A x \in Ids : Conn(x)' >= Conn(x)
    <3>1. CASE board' = board
      BY <3>1 DEF Conn
    <3>2. CASE board' # board
      <4> DEFINE f == [board[rx.id] EXCEPT !.peer = scenario.messages[received].from]
      <4>1. board' = With(board, rx.id, f)
        BY <1>4, <3>2, Zenon DEF Deliver, Update
      <4>2. f.connected = board[rx.id].connected
        BY <2>3, Zenon DEF IsEntry
      <4> HIDE DEF f
      <4> QED
        BY <4>1, <4>2, ConnKept
    <3> QED
      BY <3>1, <3>2, Zenon
  <2> QED
    BY <2>1, <2>2, <2>4, GreetFrame
<1>5. CASE MarkConnected
  <2>1. UNCHANGED <<greeted, ended>> /\ rx.pc = "event" /\ rx.id \in DOMAIN board
    BY <1>5, Zenon DEF MarkConnected, history, IInv, Found, Using
  <2>2. IsEntry(board[rx.id])
    BY <2>1, Zenon DEF IInv
  <2>3. CASE rx' = Idle /\ board' = board
    <3>1. \A x \in Ids : Conn(x)' >= Conn(x) /\ Owed(x)' <= Owed(x)
      BY <2>1, <2>3 DEF Conn, Owed, Idle
    <3> QED
      BY <2>1, <3>1, GreetFrame
  <2>4. CASE ~(rx' = Idle /\ board' = board)
    <3> DEFINE f == [board[rx.id] EXCEPT !.connected = TRUE, !.peer = rx.id]
    <3>1. /\ board' = With(board, rx.id, f) /\ rx' = [rx EXCEPT !.pc = "new"]
          /\ ~board[rx.id].connected
      BY <1>5, <2>4, Zenon DEF MarkConnected, Update
    <3>2. f.connected
      BY <2>2, Zenon DEF IsEntry
    <3> HIDE DEF f
    <3>3. rx'.pc = "new" /\ rx'.id = rx.id
      BY <2>1, <3>1, Zenon DEF IInv, RxShape
    <3>4. \A x \in Ids : Owed(x) = 0 /\ Owed(x)' = IF x = rx.id THEN 1 ELSE 0
      BY <2>1, <3>3, Zenon DEF Owed
    <3>5. \A x \in Ids : x # rx.id => Conn(x)' = Conn(x)
      BY <3>1, Zenon DEF Conn, With
    <3>6. \A x \in Ids : x = rx.id => Conn(x) = 0 /\ Conn(x)' = 1
      BY <3>1, <3>2, Zenon DEF Conn, With
    <3>7. \A x \in Ids : Conn(x) \in {0, 1}
      BY Zenon DEF Conn
    <3> QED
      BY <2>1, <3>4, <3>5, <3>6, <3>7 DEF GreetInv
  <2> QED
    BY <2>3, <2>4, Zenon
<1>6. CASE LookupAgain
  <2>1. board' = device(board, rx.id) /\ UNCHANGED <<greeted, ended>>
    BY <1>6, Zenon DEF LookupAgain, Lookup, history
  <2>2. \A x \in Ids : Conn(x)' >= Conn(x)
    BY <2>1, ConnLookup, Zenon
  <2>3. \A x \in Ids : Owed(x)' <= Owed(x)
    BY <1>6 DEF LookupAgain, Lookup, Owed
  <2> QED
    BY <2>1, <2>2, <2>3, GreetFrame
<1>7. CASE CreateOnline
  <2>1. /\ UNCHANGED <<greeted, ended>> /\ rx.pc = "create" /\ rx.id \in DOMAIN board
        /\ board' = With(board, rx.id, Created(board[rx.id])) /\ rx' = [rx EXCEPT !.pc = "marking"]
    BY <1>7, Zenon DEF CreateOnline, history, IInv, Found, Using, Update
  <2>2. Created(board[rx.id]).connected
    BY <2>1, Zenon DEF IInv, IsEntry, Created
  <2>3. \A x \in Ids : Conn(x)' >= Conn(x)
    BY <2>1, <2>2, ConnKept, Zenon
  <2>4. rx'.pc = "marking" /\ rx'.id = rx.id
    BY <2>1, Zenon DEF IInv, RxShape
  <2>5. \A x \in Ids : Owed(x)' <= Owed(x)
    BY <2>1, <2>4 DEF Owed
  <2> QED
    BY <2>1, <2>3, <2>5, GreetFrame
<1>8. CASE MarkChanged
  <2>1. UNCHANGED <<greeted, ended, board>> /\ rx.pc = "marking" /\ rx' = [rx EXCEPT !.pc = "greet"]
    BY <1>8, Zenon DEF MarkChanged, history, state
  <2>2. rx'.pc = "greet" /\ rx'.id = rx.id
    BY <2>1, Zenon DEF IInv, RxShape
  <2>3. \A x \in Ids : Conn(x)' >= Conn(x) /\ Owed(x)' <= Owed(x)
    BY <2>1, <2>2 DEF Owed, Conn
  <2> QED
    BY <2>1, <2>3, GreetFrame, Zenon
<1>9. CASE Greet
  <2>1. UNCHANGED <<ended, board>>
    BY <1>9, Zenon DEF Greet, state
  <2>2. CASE rx.pc = "greeting"
    <3>1. greeted' = [greeted EXCEPT ![rx.id] = @ + 1] /\ rx' = [rx EXCEPT !.pc = "status"]
      BY <1>9, <2>2, Zenon DEF Greet
    <3>2. rx'.pc = "status"
      BY <3>1, Zenon DEF IInv
    <3>3. \A x \in Ids : /\ Conn(x)' = Conn(x) /\ Conn(x) \in {0, 1} /\ Owed(x)' = 0
                         /\ Owed(x) = IF x = rx.id THEN 1 ELSE 0
      BY <2>1, <2>2, <3>2, Zenon DEF Conn, Owed
    <3>4. /\ \A x \in Ids : greeted'[x] = IF x = rx.id THEN greeted[x] + 1 ELSE greeted[x]
          /\ DOMAIN greeted' = Ids
      BY <3>1, Zenon DEF GreetInv
    <3>5. greeted' \in [Ids -> Nat]
      <4>1. greeted \in [Ids -> Nat]
        BY Zenon DEF GreetInv
      <4>2. \A x \in Ids : greeted'[x] \in Nat
        BY <4>1, <3>4
      <4> QED
        BY <4>1, <4>2, <3>1, <3>4, Zenon
    <3>6. \A x \in Ids : greeted'[x] + Owed(x)' <= ended[x] + Conn(x)'
      BY <3>3, <3>4 DEF GreetInv
    <3> QED
      BY <2>1, <3>5, <3>6 DEF GreetInv
  <2>3. CASE rx.pc = "sending"
    <3>1. greeted' = greeted /\ rx' = Idle
      BY <1>9, <2>3, Zenon DEF Greet
    <3>2. \A x \in Ids : Conn(x)' >= Conn(x) /\ Owed(x)' <= Owed(x)
      BY <2>1, <2>3, <3>1 DEF Owed, Conn, Idle
    <3> QED
      BY <2>1, <3>1, <3>2, GreetFrame, Zenon
  <2> QED
    BY <1>9, <2>2, <2>3 DEF Greet
<1>10. CASE UseErased
  <2>1. UNCHANGED <<greeted, ended, board>> /\ rx' = Undefined
    BY <1>10, Zenon DEF UseErased, history, state
  <2>2. \A x \in Ids : Conn(x)' >= Conn(x) /\ Owed(x)' <= Owed(x)
    BY <2>1 DEF Owed, Conn, Undefined
  <2> QED
    BY <2>1, <2>2, GreetFrame, Zenon
<1>11. CASE StartBatch \/ EndBatch \/ SnapshotBoard \/ SnapshotEntries \/ EndTask
  BY <1>11, GreetStill, Zenon DEF StartBatch, EndBatch, SnapshotBoard, SnapshotEntries, EndTask, state, history
<1>12. CASE HelloLimited \/ HelloRefused \/ Ping \/ Forward
  BY <1>12, GreetStill, Zenon DEF HelloLimited, HelloRefused, Ping, Forward, Listener
<1>13. CASE HelloAccepted
  <2> DEFINE d == device_id(Current)
             e == device(board, d)[d]
  <2>1. board' = With(board, d, Created(e)) /\ UNCHANGED <<greeted, ended, rx>>
    BY <1>13, Zenon DEF HelloAccepted, Listener, Update
  <2>2. IsEntry(e)
    BY DeviceEntry, Zenon
  <2> HIDE DEF e, d
  <2>3. Created(e).connected
    BY <2>2, Zenon DEF IsEntry, Created
  <2>4. \A x \in Ids : Conn(x)' >= Conn(x)
    BY <2>1, <2>3, ConnKept, Zenon
  <2>5. \A x \in Ids : Owed(x)' <= Owed(x)
    BY <2>1 DEF Owed
  <2> QED
    BY <2>1, <2>4, <2>5, GreetFrame
<1>14. CASE AudioFrame
  <2> DEFINE d == device_id(Current)
             e == device(board, d)[d]
             f == [e EXCEPT !.last = 0]
  <2>1. (board' = board \/ board' = With(board, d, f)) /\ UNCHANGED <<greeted, ended, rx>>
    BY <1>14, Zenon DEF AudioFrame, Listener, Update
  <2>2. IsEntry(e)
    BY DeviceEntry, Zenon
  <2>3. f.connected = e.connected
    BY <2>2, Zenon DEF IsEntry
  <2>4. d \in DOMAIN board => e = board[d]
    BY Zenon DEF device
  <2> HIDE DEF f, e, d
  <2>5. \A x \in Ids : Conn(x)' >= Conn(x)
    <3>1. CASE board' = board
      BY <3>1 DEF Conn
    <3>2. CASE board' = With(board, d, f)
      BY <2>3, <2>4, <3>2, ConnKept
    <3> QED
      BY <2>1, <3>1, <3>2
  <2>6. \A x \in Ids : Owed(x)' <= Owed(x)
    BY <2>1 DEF Owed
  <2> QED
    BY <2>1, <2>5, <2>6, GreetFrame
<1>15. CASE Bye
  <2> DEFINE d == device_id(Current)
             e == Closed(device(board, d)[d])
  <2>1. /\ board' = With(board, d, e) /\ UNCHANGED <<greeted, rx>>
        /\ ended' = [ended EXCEPT ![d] = @ + 1]
    BY <1>15, Zenon DEF Bye, Listener, Update
  <2> HIDE DEF d, e
  <2>2. \A x \in Ids : x # d => Conn(x)' = Conn(x)
    BY <2>1, Zenon DEF Conn, With
  <2> QED
    BY <2>1, <2>2, Disconnect, Zenon
<1>16. CASE PendingIo
  <2>1. UNCHANGED <<greeted, ended, rx>> /\ (board' = board \/ board' = device(board, Head(pending).to))
    BY <1>16, Zenon DEF PendingIo
  <2>2. \A x \in Ids : Conn(x)' >= Conn(x)
    <3>1. CASE board' = board
      BY <3>1 DEF Conn
    <3> QED
      BY <2>1, <3>1, ConnLookup
  <2>3. \A x \in Ids : Owed(x)' <= Owed(x)
    BY <2>1 DEF Owed
  <2> QED
    BY <2>1, <2>2, <2>3, GreetFrame
<1>17. ASSUME NEW d \in Ids, Sweep(d)
       PROVE  GreetInv'
  <2>1. /\ greeted' = greeted /\ ended' = [ended EXCEPT ![d] = @ + 1]
        /\ CloseOverdue(d) \/ RemoveOverdue(d)
    BY <1>17, Zenon DEF Sweep
  <2>2. \A x \in Ids : x # d => Conn(x)' = Conn(x)
    <3>1. CASE CloseOverdue(d)
      BY <3>1, Zenon DEF CloseOverdue, Update, With, Conn
    <3>2. CASE RemoveOverdue(d)
      BY <3>2, Zenon DEF RemoveOverdue, Without, Conn
    <3> QED
      BY <2>1, <3>1, <3>2
  <2>3. \A x \in Ids : Owed(x)' = Owed(x)
    <3>1. rx' = rx \/ rx' = [rx EXCEPT !.dangling = TRUE]
      BY <2>1, Zenon DEF CloseOverdue, RemoveOverdue
    <3>2. rx'.pc = rx.pc /\ (rx.pc \notin {"idle", "undefined"} => rx'.id = rx.id)
      BY <3>1, Zenon DEF IInv, RxShape
    <3> QED
      BY <3>2, Zenon DEF Owed
  <2> QED
    BY <2>1, <2>2, <2>3, Disconnect, Zenon
<1>18. CASE Tick
  <2>1. /\ UNCHANGED <<greeted, ended, rx>>
        /\ DOMAIN board' = DOMAIN board
        /\ \A d \in DOMAIN board :
              board'[d] = [board[d] EXCEPT !.last = IF @ = Never THEN @ ELSE @ + 1]
    BY <1>18, Zenon DEF Tick
  <2>2. \A d \in DOMAIN board : board'[d].connected = board[d].connected
    BY <2>1, Zenon DEF IInv, IsEntry
  <2>3. \A x \in Ids : Conn(x)' >= Conn(x) /\ Owed(x)' <= Owed(x)
    BY <2>1, <2>2 DEF Conn, Owed
  <2> QED
    BY <2>1, <2>3, GreetFrame
<1> QED
  BY <1>1, <1>2, <1>3, <1>4, <1>5, <1>6, <1>7, <1>8, <1>9, <1>10, <1>11, <1>12, <1>13, <1>14,
     <1>15, <1>16, <1>17, <1>18 DEF Next, RxStep, CpuStep

\* A device gets the "connected" event at most once more often than it was
\* closed or removed, whatever hellos, byes, link events, heartbeat checks and
\* clean-ups come between the steps of on_tight_peer_event.
THEOREM GreetedTheorem == Spec => []GreetedOnce
<1>1. Init => IInv /\ GreetInv
  <2>1. Init => GreetInv
    BY DEF Init, GreetInv, Owed, Conn, Empty, Idle
  <2> QED
    BY <2>1, InitIInv
<1>2. IInv /\ GreetInv /\ [Next]_vars => (IInv /\ GreetInv)'
  BY NextKeeps, GreetKeeps, Zenon
<1>3. GreetInv => GreetedOnce
  <2>1. \A d \in Ids : Owed(d) \in {0, 1} /\ Conn(d) \in {0, 1}
    BY Zenon DEF Owed, Conn
  <2> QED
    BY <2>1 DEF GreetInv, GreetedOnce
<1> QED
  BY <1>1, <1>2, <1>3, PTL DEF Spec

-----------------------------------------------------------------------------
(***************************************************************************)
(* The rate limiter.  A bucket never holds more than what has run in since *)
(* the last hello of the name was admitted: that hello took it to zero,    *)
(* and a check that refuses moves the time into the tokens.                *)
(***************************************************************************)

Connection == Bucket["connection"]

\* What the bucket holds for d, with what has run in since it was last used.
Filled(k) == tokens[k].tokens + tokens[k].idle * Connection.rate

IsBucket(b) == DOMAIN b = {"tokens", "idle"} /\ b.tokens \in Int /\ b.idle \in Nat

SpacingInv ==
    /\ \A k \in DOMAIN tokens : IsBucket(tokens[k])
    /\ \A n \in DOMAIN admitted :
          /\ admitted[n] \in Nat /\ <<n, "connection">> \in DOMAIN tokens
          /\ Filled(<<n, "connection">>) <= admitted[n] * Connection.rate

LEMMA BucketFacts ==
    ASSUME NEW dim \in Dimensions
    PROVE  Bucket[dim].rate \in Nat /\ Bucket[dim].capacity \in Nat /\ Bucket[dim].cost \in Nat
BY SessionsAssumption

LEMMA MinOfTwo ==
    ASSUME NEW a \in Int, NEW b \in Int
    PROVE  Min({a, b}) \in Int /\ Min({a, b}) <= a /\ Min({a, b}) <= b
<1>1. \E x \in {a, b} : \A y \in {a, b} : x <= y
  OBVIOUS
<1>2. Min({a, b}) \in {a, b} /\ \A y \in {a, b} : Min({a, b}) <= y
  BY <1>1 DEF Min
<1> QED
  BY <1>2

LEMMA RefilledFacts ==
    ASSUME SpacingInv, NEW d, NEW dim \in Dimensions
    PROVE  /\ Refilled(d, dim) \in Int /\ Refilled(d, dim) <= Bucket[dim].capacity
           /\ <<d, dim>> \in DOMAIN tokens
                => Refilled(d, dim) <= tokens[<<d, dim>>].tokens + tokens[<<d, dim>>].idle * Bucket[dim].rate
<1> DEFINE t == Tokens(d, dim)
<1>1. Bucket[dim].rate \in Nat /\ Bucket[dim].capacity \in Nat
  BY BucketFacts, Zenon
<1>2. t.tokens \in Int /\ t.idle \in Nat
  <2>1. CASE <<d, dim>> \in DOMAIN tokens
    BY <2>1, Zenon DEF SpacingInv, IsBucket, Tokens
  <2>2. CASE <<d, dim>> \notin DOMAIN tokens
    <3>1. t = [tokens |-> Bucket[dim].capacity, idle |-> 0]
      BY <2>2, Zenon DEF Tokens, Full
    <3> QED
      BY <3>1, <1>1
  <2> QED
    BY <2>1, <2>2, Zenon
<1>3. <<d, dim>> \in DOMAIN tokens => t = tokens[<<d, dim>>]
  BY Zenon DEF Tokens
<1>4. Refilled(d, dim) = Min({Bucket[dim].capacity, t.tokens + t.idle * Bucket[dim].rate})
  BY Zenon DEF Refilled
<1> HIDE DEF t
<1>5. t.tokens + t.idle * Bucket[dim].rate \in Int /\ Bucket[dim].capacity \in Int
  BY <1>1, <1>2
<1>6. /\ Refilled(d, dim) \in Int /\ Refilled(d, dim) <= Bucket[dim].capacity
      /\ Refilled(d, dim) <= t.tokens + t.idle * Bucket[dim].rate
  BY <1>4, <1>5, MinOfTwo, Zenon
<1> QED
  BY <1>3, <1>6, Zenon

\* The bucket after a check: RateLimiter::check writes it whether it allows the
\* request or not.
LEMMA CheckFacts ==
    ASSUME SpacingInv, NEW d, NEW dim \in Dimensions, Check(d, dim)
    PROVE  /\ DOMAIN tokens' = DOMAIN tokens \cup {<<d, dim>>}
           /\ \A k \in DOMAIN tokens : k # <<d, dim>> => tokens'[k] = tokens[k]
           /\ IsBucket(tokens'[<<d, dim>>]) /\ tokens'[<<d, dim>>].idle = 0
           /\ tokens'[<<d, dim>>].tokens <= Refilled(d, dim)
           /\ Allowed(d, dim) => tokens'[<<d, dim>>].tokens = Refilled(d, dim) - Bucket[dim].cost
<1> DEFINE c == IF Allowed(d, dim) THEN Bucket[dim].cost ELSE 0
           b == [tokens |-> Refilled(d, dim) - c, idle |-> 0]
<1>1. tokens' = With(tokens, <<d, dim>>, b)
  BY Zenon DEF Check
<1>2. c \in Nat /\ (Allowed(d, dim) => c = Bucket[dim].cost)
  BY BucketFacts
<1>3. Refilled(d, dim) \in Int
  BY RefilledFacts, Zenon
<1> HIDE DEF c
<1>4. IsBucket(b) /\ b.idle = 0 /\ b.tokens <= Refilled(d, dim) /\ b.tokens = Refilled(d, dim) - c
  BY <1>2, <1>3 DEF IsBucket
<1> HIDE DEF b
<1>5. tokens'[<<d, dim>>] = b
  BY <1>1, Zenon DEF With
<1>6. /\ DOMAIN tokens' = DOMAIN tokens \cup {<<d, dim>>}
      /\ \A k \in DOMAIN tokens : k # <<d, dim>> => tokens'[k] = tokens[k]
  BY <1>1, Zenon DEF With
<1> QED
  BY <1>2, <1>4, <1>5, <1>6, Zenon

\* A check in another dimension, or for another name, leaves a bucket alone.
LEMMA CheckKeeps ==
    ASSUME SpacingInv, NEW d, NEW dim \in Dimensions, Check(d, dim), admitted' = admitted
    PROVE  SpacingInv'
<1>1. \A k \in DOMAIN tokens' : IsBucket(tokens'[k])
  BY CheckFacts, Zenon DEF SpacingInv
<1>2. ASSUME NEW n \in DOMAIN admitted
      PROVE  /\ admitted'[n] \in Nat /\ <<n, "connection">> \in DOMAIN tokens'
             /\ Filled(<<n, "connection">>)' <= admitted'[n] * Connection.rate
  <2> DEFINE k == <<n, "connection">>
  <2>1. admitted'[n] = admitted[n] /\ admitted[n] \in Nat /\ k \in DOMAIN tokens
    BY Zenon DEF SpacingInv
  <2>2. k \in DOMAIN tokens'
    BY <2>1, CheckFacts, Zenon
  <2>3. CASE k # <<d, dim>>
    <3>1. tokens'[k] = tokens[k]
      BY <2>1, <2>3, CheckFacts, Zenon
    <3> QED
      BY <2>1, <2>2, <3>1, Zenon DEF SpacingInv, Filled
  <2>4. CASE k = <<d, dim>>
    <3>1. dim = "connection" /\ d = n
      BY <2>4
    <3>2. Refilled(d, dim) <= Filled(k) /\ Refilled(d, dim) \in Int
      BY <2>1, <3>1, RefilledFacts, Zenon DEF Filled, Connection
    <3>3. tokens'[k].idle = 0 /\ tokens'[k].tokens \in Int /\ tokens'[k].tokens <= Refilled(d, dim)
      BY <2>4, CheckFacts, Zenon DEF IsBucket
    <3>4. Filled(k) \in Int /\ Connection.rate \in Nat
      <4>1. Connection.rate \in Nat
        BY BucketFacts, Zenon DEF Connection, Dimensions
      <4>2. tokens[k].tokens \in Int /\ tokens[k].idle \in Nat
        BY <2>1, Zenon DEF SpacingInv, IsBucket
      <4> QED
        BY <4>1, <4>2 DEF Filled
    <3>5. Filled(k)' = tokens'[k].tokens + tokens'[k].idle * Connection.rate
      BY Zenon DEF Filled, Connection
    <3>6. Filled(k) <= admitted[n] * Connection.rate
      BY <2>1, Zenon DEF SpacingInv
    <3>7. Filled(k)' <= Filled(k) /\ Filled(k)' \in Int
      BY <3>2, <3>3, <3>4, <3>5
    <3> QED
      BY <2>1, <2>2, <3>4, <3>6, <3>7
  <2> QED
    BY <2>3, <2>4, Zenon
<1> QED
  BY <1>1, <1>2, Zenon DEF SpacingInv, Connection

\* An admitted hello empties the bucket, and found it filled for one.
LEMMA AdmitKeeps ==
    ASSUME SpacingInv, NEW d, Check(d, "connection"), Allowed(d, "connection"),
           admitted' = With(admitted, d, 0)
    PROVE  /\ SpacingInv'
           /\ \A n \in DOMAIN admitted :
                 \/ admitted'[n] = admitted[n]
                 \/ admitted[n] * Connection.rate >= Connection.cost
<1> DEFINE own == <<d, "connection">>
<1>0. "connection" \in Dimensions
  BY DEF Dimensions
<1>1. Connection.rate \in Nat /\ Connection.cost \in Nat /\ Connection.capacity \in Nat
  BY <1>0, BucketFacts, Zenon DEF Connection
<1>2. \A k \in DOMAIN tokens' : IsBucket(tokens'[k])
  BY <1>0, CheckFacts, Zenon DEF SpacingInv
<1>3. /\ DOMAIN admitted' = DOMAIN admitted \cup {d} /\ admitted'[d] = 0
      /\ \A n \in DOMAIN admitted : n # d => admitted'[n] = admitted[n]
  BY Zenon DEF With
<1>4. /\ Refilled(d, "connection") \in Int /\ Refilled(d, "connection") <= Connection.capacity
      /\ own \in DOMAIN tokens => Refilled(d, "connection") <= Filled(own)
  BY <1>0, RefilledFacts, Zenon DEF Filled, Connection
<1>5. /\ own \in DOMAIN tokens' /\ tokens'[own].idle = 0
      /\ tokens'[own].tokens = Refilled(d, "connection") - Connection.cost
  BY <1>0, CheckFacts, Zenon DEF Connection
<1>6. Filled(own)' <= 0
  <2>1. Filled(own)' = tokens'[own].tokens + tokens'[own].idle * Connection.rate
    BY Zenon DEF Filled, Connection
  <2>2. Connection.capacity <= Connection.cost
    BY CooldownAssumption, Zenon DEF Connection
  <2> QED
    BY <1>1, <1>4, <1>5, <2>1, <2>2
<1>7. ASSUME NEW n \in DOMAIN admitted'
      PROVE  /\ admitted'[n] \in Nat /\ <<n, "connection">> \in DOMAIN tokens'
             /\ Filled(<<n, "connection">>)' <= admitted'[n] * Connection.rate
  <2>1. CASE n = d
    BY <1>1, <1>3, <1>5, <1>6, <2>1
  <2>2. CASE n # d
    <3> DEFINE k == <<n, "connection">>
    <3>1. n \in DOMAIN admitted /\ k # own
      BY <1>3, <2>2
    <3>2. admitted'[n] = admitted[n] /\ admitted[n] \in Nat /\ k \in DOMAIN tokens
      BY <1>3, <2>2, <3>1, Zenon DEF SpacingInv
    <3>3. tokens'[k] = tokens[k] /\ k \in DOMAIN tokens'
      BY <1>0, <3>1, <3>2, CheckFacts, Zenon
    <3> QED
      BY <3>1, <3>2, <3>3, Zenon DEF SpacingInv, Filled
  <2> QED
    BY <2>1, <2>2, Zenon
<1>8. ASSUME NEW n \in DOMAIN admitted, n = d
      PROVE  admitted[n] * Connection.rate >= Connection.cost
  <2>1. admitted[n] \in Nat /\ own \in DOMAIN tokens /\ Filled(own) <= admitted[n] * Connection.rate
    BY <1>8, Zenon DEF SpacingInv
  <2>2. tokens[own].tokens \in Int /\ tokens[own].idle \in Nat
    BY <2>1, Zenon DEF SpacingInv, IsBucket
  <2>3. Filled(own) \in Int
    BY <1>1, <2>2 DEF Filled
  <2>4. Refilled(d, "connection") >= Connection.cost
    BY Zenon DEF Allowed, Connection
  <2> QED
    BY <1>1, <1>4, <2>1, <2>3, <2>4
<1> QED
  BY <1>2, <1>3, <1>7, <1>8, Zenon DEF SpacingInv, Connection

\* What a step may do to the time since a name was last admitted.
Spaced ==
    \A n \in DOMAIN admitted :
        \/ admitted'[n] = admitted[n]
        \/ admitted[n] \in Nat /\ admitted'[n] = admitted[n] + 1
        \/ admitted[n] * Connection.rate >= Connection.cost

LEMMA SpacingStep ==
    ASSUME SpacingInv, [Next]_vars
    PROVE  SpacingInv' /\ Spaced
<1>1. CASE UNCHANGED <<tokens, admitted>>
  BY <1>1, Zenon DEF SpacingInv, Filled, Spaced, Connection
<1>2. ASSUME NEW d, NEW dim \in Dimensions, Check(d, dim), admitted' = admitted
      PROVE  SpacingInv' /\ Spaced
  BY <1>2, CheckKeeps, Zenon DEF Spaced
<1>3. ASSUME NEW d, Check(d, "connection"), Allowed(d, "connection"), admitted' = With(admitted, d, 0)
      PROVE  SpacingInv' /\ Spaced
  BY <1>3, AdmitKeeps, Zenon DEF Spaced
<1>4. CASE Tick
  <2>1. /\ DOMAIN tokens' = DOMAIN tokens /\ DOMAIN admitted' = DOMAIN admitted
        /\ \A k \in DOMAIN tokens : tokens'[k] = [tokens[k] EXCEPT !.idle = @ + 1]
        /\ \A n \in DOMAIN admitted : admitted'[n] = admitted[n] + 1
    BY <1>4, Zenon DEF Tick
  <2>2. \A k \in DOMAIN tokens : /\ DOMAIN tokens'[k] = {"tokens", "idle"}
                                 /\ tokens'[k].tokens = tokens[k].tokens
                                 /\ tokens'[k].idle = tokens[k].idle + 1
    BY <2>1, Zenon DEF SpacingInv, IsBucket
  <2>3. \A k \in DOMAIN tokens' : IsBucket(tokens'[k])
    BY <2>1, <2>2 DEF SpacingInv, IsBucket
  <2>4. Connection.rate \in Nat
    BY BucketFacts, Zenon DEF Connection, Dimensions
  <2>5. ASSUME NEW n \in DOMAIN admitted
        PROVE  /\ admitted[n] \in Nat /\ admitted'[n] \in Nat /\ <<n, "connection">> \in DOMAIN tokens'
               /\ Filled(<<n, "connection">>)' <= admitted'[n] * Connection.rate
    <3> DEFINE k == <<n, "connection">>
    <3>1. admitted[n] \in Nat /\ k \in DOMAIN tokens /\ Filled(k) <= admitted[n] * Connection.rate
      BY Zenon DEF SpacingInv
    <3>2. tokens[k].tokens \in Int /\ tokens[k].idle \in Nat
      BY <3>1, Zenon DEF SpacingInv, IsBucket
    <3>3. Filled(k)' = tokens[k].tokens + (tokens[k].idle + 1) * Connection.rate
      BY <2>2, <3>1, Zenon DEF Filled, Connection
    <3>4. /\ (tokens[k].idle + 1) * Connection.rate = tokens[k].idle * Connection.rate + Connection.rate
          /\ (admitted[n] + 1) * Connection.rate = admitted[n] * Connection.rate + Connection.rate
          /\ tokens[k].idle * Connection.rate \in Int /\ admitted[n] * Connection.rate \in Int
      BY <2>4, <3>1, <3>2
    <3>5. admitted'[n] = admitted[n] + 1 /\ k \in DOMAIN tokens'
      BY <2>1, <3>1, Zenon
    <3> QED
      BY <2>4, <3>1, <3>2, <3>3, <3>4, <3>5 DEF Filled
  <2>6. SpacingInv'
    BY <2>1, <2>3, <2>5, Zenon DEF SpacingInv, Connection
  <2> QED
    BY <2>1, <2>5, <2>6, Zenon DEF Spaced
<1>5. CASE HelloLimited
  BY <1>2, <1>5, Zenon DEF HelloLimited, Dimensions
<1>6. CASE HelloRefused \/ HelloAccepted
  BY <1>3, <1>6, Zenon DEF HelloRefused, HelloAccepted
<1>7. CASE AudioFrame
  BY <1>2, <1>7, Zenon DEF AudioFrame, Dimensions
<1>8. CASE UNCHANGED vars
  BY <1>1, <1>8, Zenon DEF vars, state, history
<1>9. CASE Receive \/ \E p \in Peers : PeerOnline(p) \/ PeerClosed(p)
  BY <1>1, <1>9, Zenon DEF Receive, PeerOnline, PeerClosed, state, history
<1>10. CASE RxStep
  BY <1>1, <1>10, Zenon DEF RxStep, Deliver, MarkConnected, LookupAgain, CreateOnline, MarkChanged,
     Greet, UseErased, state, history
<1>11. CASE StartBatch \/ Bye \/ Ping \/ Forward \/ PendingIo \/ EndBatch
  BY <1>1, <1>11, Zenon DEF StartBatch, Bye, Ping, Forward, PendingIo, EndBatch, state, history
<1>12. CASE SnapshotBoard \/ SnapshotEntries \/ (\E d \in Ids : Sweep(d)) \/ EndTask
  BY <1>1, <1>12, Zenon DEF SnapshotBoard, SnapshotEntries, Sweep, EndTask, state, history
<1>13. CASE \E t \in {"heartbeat_check", "session_cleanup"} : TaskNow(t)
  BY <1>1, <1>13, Zenon DEF TaskNow, state, history
<1> QED
  BY <1>4, <1>5, <1>6, <1>7, <1>8, <1>9, <1>10, <1>11, <1>12, <1>13, Zenon DEF Next, CpuStep

\* Two hellos of one name that on_hello lets through to authentication are at
\* least as far apart as the bucket takes to fill up for one, for any rate and
\* whatever hellos the limiter refuses in between.
THEOREM SpacingTheorem == Spec => HelloSpacing
<1> DEFINE Rule == \A n \in DOMAIN admitted :
                      admitted'[n] < admitted[n]
                         => admitted[n] * Bucket["connection"].rate >= Bucket["connection"].cost
<1>1. Init => SpacingInv
  BY DEF Init, SpacingInv, Empty
<1>2. SpacingInv /\ [Next]_vars => SpacingInv' /\ Spaced
  BY SpacingStep, Zenon
<1>3. SpacingInv /\ Spaced => Rule
  <2> SUFFICES ASSUME SpacingInv, Spaced, NEW n \in DOMAIN admitted, admitted'[n] < admitted[n]
               PROVE  admitted[n] * Bucket["connection"].rate >= Bucket["connection"].cost
    BY Zenon
  <2>1. admitted[n] \in Nat
    BY Zenon DEF SpacingInv
  <2>2. admitted'[n] # admitted[n] /\ admitted'[n] # admitted[n] + 1
    BY <2>1
  <2> QED
    BY <2>2, Zenon DEF Spaced, Connection
<1>4. SpacingInv /\ [Next]_vars => [Rule]_vars
  BY <1>2, <1>3, Zenon
<1> HIDE DEF Rule
<1>5. Spec => [][Rule]_vars
  BY <1>1, <1>2, <1>4, PTL DEF Spec
<1> QED
  BY <1>5, Zenon DEF HelloSpacing, Rule

-----------------------------------------------------------------------------
(***************************************************************************)
(* Whom an entry is reached by: the peer noted in it is one that uses the  *)
(* name.  on_tight_message notes the first that spoke, on_tight_peer_event *)
(* the peer the entry is named after; nothing else writes m_peer, and only *)
(* session_cleanup takes it away.                                          *)
(***************************************************************************)

PeerInv ==
    /\ scenario \in Scenarios /\ received \in 0..Len(scenario.messages)
    /\ rx.pc = "message" => received > 0 /\ rx.id = device_id(scenario.messages[received])
    /\ rx.pc = "event" => rx.id \in scenario.peers
    /\ \A d \in DOMAIN board : board[d].peer = None \/ board[d].peer \in Uses(d)

\* What a step does to the peers of the entries.
PeersKept ==
    /\ \A d \in DOMAIN board' :
          \/ board'[d].peer = None
          \/ d \in DOMAIN board /\ board'[d].peer = board[d].peer
          \/ rx.pc = "event" /\ d = rx.id /\ board'[d].peer = d
          \/ rx.pc = "message" /\ d = rx.id /\ board'[d].peer = scenario.messages[received].from
    /\ \A d \in DOMAIN board :
          board[d].peer # None => \/ d \in DOMAIN board' /\ board'[d].peer # None
                                  \/ d \in Ids /\ ended' = [ended EXCEPT ![d] = @ + 1]

LEMMA ScenarioFacts ==
    ASSUME PeerInv
    PROVE  /\ scenario.messages \in Seq(Message) /\ scenario.peers \subseteq Peers
           /\ Len(scenario.messages) \in Nat /\ DOMAIN scenario.messages = 1..Len(scenario.messages)
           /\ \A i \in DOMAIN scenario.messages :
                 /\ scenario.messages[i] \in Message /\ scenario.messages[i].from \in Peers
                 /\ scenario.messages[i].name \in Names \cup {NoName}
                 /\ device_id(scenario.messages[i]) \in Ids
<1>1. scenario.messages \in Seq(Message) /\ scenario.peers \subseteq Peers
  BY SessionsAssumption, Zenon DEF PeerInv
<1>2. /\ Len(scenario.messages) \in Nat /\ DOMAIN scenario.messages = 1..Len(scenario.messages)
      /\ \A i \in DOMAIN scenario.messages : scenario.messages[i] \in Message
  BY <1>1, LenFacts
<1>3. \A m \in Message : m.from \in Peers /\ m.name \in Names \cup {NoName}
  BY DEF Message
<1>4. \A m \in Message : device_id(m) \in Ids
  BY <1>3, Zenon DEF device_id, Ids
<1> QED
  BY <1>1, <1>2, <1>3, <1>4, Zenon

LEMMA SamePeers ==
    ASSUME board' = board
    PROVE  PeersKept
BY Zenon DEF PeersKept

LEMMA BlankPeer == Blank.peer = None
BY Zenon DEF Blank

\* Writing one entry, with its peer as it was.
LEMMA WritePeers ==
    ASSUME NEW d, NEW e, board' = With(board, d, e), e.peer = device(board, d)[d].peer
    PROVE  PeersKept
<1>1. /\ DOMAIN board' = DOMAIN board \cup {d} /\ board'[d] = e
      /\ \A x \in DOMAIN board : x # d => board'[x] = board[x]
  BY Zenon DEF With
<1>2. d \in DOMAIN board => e.peer = board[d].peer
  BY Zenon DEF device
<1>3. d \notin DOMAIN board => e.peer = None
  BY BlankPeer, Zenon DEF device, With
<1> QED
  BY <1>1, <1>2, <1>3, Zenon DEF PeersKept

LEMMA LookupPeers ==
    ASSUME NEW d, board' = device(board, d)
    PROVE  PeersKept
<1>1. CASE d \in DOMAIN board
  BY <1>1, SamePeers, Zenon DEF device
<1>2. CASE d \notin DOMAIN board
  <2>1. board' = With(board, d, Blank) /\ device(board, d) = With(board, d, Blank)
    BY <1>2, Zenon DEF device
  <2>2. Blank.peer = device(board, d)[d].peer
    BY <2>1, Zenon DEF With
  <2> QED
    BY <2>1, <2>2, WritePeers, Zenon
<1> QED
  BY <1>1, <1>2, Zenon

LEMMA PeersStep ==
    ASSUME IInv, PeerInv, [Next]_vars
    PROVE  PeersKept
<1>1. CASE UNCHANGED vars
  BY <1>1, SamePeers, Zenon DEF vars, state
<1>2. CASE Receive \/ LookupAgain \/ \E p \in Peers : PeerOnline(p)
  BY <1>2, LookupPeers, Zenon DEF Receive, LookupAgain, PeerOnline, Lookup
<1>3. CASE \E p \in Peers : PeerClosed(p)
  BY <1>3, SamePeers, Zenon DEF PeerClosed, state
<1>4. CASE Deliver
  <2>1. /\ rx.pc = "message" /\ rx.id \in DOMAIN board /\ IsEntry(board[rx.id])
        /\ \/ board' = board
           \/ /\ board[rx.id].peer = None
              /\ board' = With(board, rx.id, [board[rx.id] EXCEPT !.peer = scenario.messages[received].from])
    BY <1>4, Zenon DEF Deliver, Update, IInv, Found, Using
  <2>2. CASE board' # board
    <3>1. /\ DOMAIN board' = DOMAIN board \cup {rx.id} /\ board[rx.id].peer = None
          /\ board'[rx.id] = [board[rx.id] EXCEPT !.peer = scenario.messages[received].from]
          /\ \A x \in DOMAIN board : x # rx.id => board'[x] = board[x]
      BY <2>1, <2>2, Zenon DEF With
    <3>2. board'[rx.id].peer = scenario.messages[received].from
      BY <2>1, <3>1, Zenon DEF IsEntry
    <3> QED
      BY <2>1, <3>1, <3>2, Zenon DEF PeersKept
  <2> QED
    BY <2>2, SamePeers, Zenon
<1>5. CASE MarkConnected
  <2>1. /\ rx.pc = "event" /\ rx.id \in DOMAIN board /\ IsEntry(board[rx.id])
        /\ \/ board' = board
           \/ board' = With(board, rx.id, [board[rx.id] EXCEPT !.connected = TRUE, !.peer = rx.id])
    BY <1>5, Zenon DEF MarkConnected, Update, IInv, Found, Using
  <2>2. CASE board' # board
    <3>1. /\ DOMAIN board' = DOMAIN board \cup {rx.id}
          /\ board'[rx.id] = [board[rx.id] EXCEPT !.connected = TRUE, !.peer = rx.id]
          /\ \A x \in DOMAIN board : x # rx.id => board'[x] = board[x]
      BY <2>1, <2>2, Zenon DEF With
    <3>2. board'[rx.id].peer = rx.id
      BY <2>1, <3>1, Zenon DEF IsEntry
    <3>3. rx.id # None
      BY <2>1, ScenarioFacts, SessionsAssumption, Zenon DEF PeerInv
    <3> QED
      BY <2>1, <3>1, <3>2, <3>3, Zenon DEF PeersKept
  <2> QED
    BY <2>2, SamePeers, Zenon
<1>6. CASE CreateOnline
  <2>1. rx.id \in DOMAIN board /\ board' = With(board, rx.id, Created(board[rx.id]))
    BY <1>6, Zenon DEF CreateOnline, Update, IInv, Found, Using
  <2>2. Created(board[rx.id]).peer = board[rx.id].peer
    BY <2>1, Zenon DEF IInv, IsEntry, Created
  <2>3. board[rx.id] = device(board, rx.id)[rx.id]
    BY <2>1, Zenon DEF device
  <2> QED
    BY <2>1, <2>2, <2>3, WritePeers, Zenon
<1>7. CASE MarkChanged \/ Greet \/ UseErased
  BY <1>7, SamePeers, Zenon DEF MarkChanged, Greet, UseErased, state
<1>8. CASE StartBatch \/ HelloLimited \/ HelloRefused \/ Ping \/ Forward \/ EndBatch
  BY <1>8, SamePeers, Zenon DEF StartBatch, HelloLimited, HelloRefused, Ping, Forward, EndBatch, state
<1>9. ASSUME NEW d, NEW e, e = device(board, d)[d],
             \/ board' = With(board, d, Created(e)) \/ board' = With(board, d, Closed(e))
             \/ board' = With(board, d, [e EXCEPT !.last = 0])
      PROVE  PeersKept
  <2>1. IsEntry(e)
    BY <1>9, DeviceEntry, Zenon
  <2>2. Created(e).peer = e.peer /\ Closed(e).peer = e.peer /\ [e EXCEPT !.last = 0].peer = e.peer
    BY <2>1, Zenon DEF IsEntry, Created, Closed
  <2> QED
    BY <1>9, <2>2, WritePeers, Zenon
<1>10. CASE HelloAccepted
  BY <1>9, <1>10, Zenon DEF HelloAccepted, Update
<1>11. CASE AudioFrame
  BY <1>9, <1>11, SamePeers, Zenon DEF AudioFrame, Update
<1>12. CASE Bye
  BY <1>9, <1>12, Zenon DEF Bye, Update
<1>13. CASE PendingIo
  <2>1. board' = board \/ board' = device(board, Head(pending).to)
    BY <1>13, Zenon DEF PendingIo
  <2> QED
    BY <2>1, SamePeers, LookupPeers, Zenon
<1>14. CASE SnapshotBoard \/ SnapshotEntries \/ EndTask
  BY <1>14, SamePeers, Zenon DEF SnapshotBoard, SnapshotEntries, EndTask, state
<1>15. ASSUME NEW d \in Ids, Sweep(d)
       PROVE  PeersKept
  <2>1. CASE CloseOverdue(d)
    BY <1>9, <2>1, Zenon DEF CloseOverdue, Update
  <2>2. CASE RemoveOverdue(d)
    <3>1. /\ DOMAIN board' = DOMAIN board \ {d} /\ \A x \in DOMAIN board' : board'[x] = board[x]
          /\ ended' = [ended EXCEPT ![d] = @ + 1]
      BY <1>15, <2>2, Zenon DEF RemoveOverdue, Sweep, Without
    <3> QED
      BY <3>1, Zenon DEF PeersKept
  <2> QED
    BY <1>15, <2>1, <2>2, Zenon DEF Sweep
<1>16. CASE \E t \in {"heartbeat_check", "session_cleanup"} : TaskNow(t)
  BY <1>16, SamePeers, Zenon DEF TaskNow, state
<1>17. CASE Tick
  <2>1. /\ DOMAIN board' = DOMAIN board
        /\ \A d \in DOMAIN board :
              board'[d] = [board[d] EXCEPT !.last = IF @ = Never THEN @ ELSE @ + 1]
    BY <1>17, Zenon DEF Tick
  <2>2. \A d \in DOMAIN board : board'[d].peer = board[d].peer
    BY <2>1, Zenon DEF IInv, IsEntry
  <2> QED
    BY <2>1, <2>2, Zenon DEF PeersKept
<1> QED
  BY <1>1, <1>2, <1>3, <1>4, <1>5, <1>6, <1>7, <1>8, <1>10, <1>11, <1>12, <1>13, <1>14, <1>15, <1>16,
     <1>17, Zenon DEF Next, RxStep, CpuStep

\* rx takes up a message only in on_tight_message, a link only in
\* on_tight_peer_event.
RxStays ==
    /\ received' = received
    /\ rx'.pc = "message" => rx.pc = "message" /\ rx'.id = rx.id
    /\ rx'.pc = "event" => rx.pc = "event" /\ rx'.id = rx.id

LEMMA RxChanges ==
    ASSUME IInv, [Next]_vars
    PROVE  scenario' = scenario /\ (Receive \/ (\E p \in Peers : PeerOnline(p)) \/ RxStays)
<1>1. CASE UNCHANGED <<scenario, received, rx>>
  BY <1>1, Zenon DEF RxStays
<1>2. CASE Receive \/ \E p \in Peers : PeerOnline(p)
  BY <1>2, Zenon DEF Receive, PeerOnline
<1>3. CASE RxStep
  <2>1. UNCHANGED <<scenario, received>>
    BY <1>3, Zenon DEF RxStep, Deliver, MarkConnected, LookupAgain, CreateOnline, MarkChanged, Greet,
       UseErased, bounds
  <2>2. rx'.pc \notin {"message", "event"}
    <3>1. CASE rx' = Idle \/ rx' = Undefined
      BY <3>1 DEF Idle, Undefined
    <3>2. CASE MarkConnected /\ rx' # Idle
      <4>1. rx' = [rx EXCEPT !.pc = "new"]
        BY <3>2, Zenon DEF MarkConnected
      <4>2. rx'.pc = "new"
        BY <4>1, Zenon DEF IInv
      <4> QED
        BY <4>2
    <3>3. CASE LookupAgain
      <4>1. rx'.pc = CASE rx.pc = "new" -> "create" [] rx.pc = "greet" -> "greeting"
                       [] rx.pc = "status" -> "sending"
        BY <3>3, Zenon DEF LookupAgain, Lookup
      <4>2. rx.pc \in {"new", "greet", "status"}
        BY <3>3, Zenon DEF LookupAgain
      <4> QED
        BY <4>1, <4>2
    <3>4. CASE CreateOnline
      <4>1. rx' = [rx EXCEPT !.pc = "marking"]
        BY <3>4, Zenon DEF CreateOnline
      <4>2. rx'.pc = "marking"
        BY <4>1, Zenon DEF IInv
      <4> QED
        BY <4>2
    <3>5. CASE MarkChanged
      <4>1. rx' = [rx EXCEPT !.pc = "greet"]
        BY <3>5, Zenon DEF MarkChanged
      <4>2. rx'.pc = "greet"
        BY <4>1, Zenon DEF IInv
      <4> QED
        BY <4>2
    <3>6. CASE Greet /\ rx' # Idle
      <4>1. rx' = [rx EXCEPT !.pc = "status"]
        BY <3>6, Zenon DEF Greet
      <4>2. rx'.pc = "status"
        BY <4>1, Zenon DEF IInv
      <4> QED
        BY <4>2
    <3>7. CASE Deliver \/ UseErased
      BY <3>1, <3>7, Zenon DEF Deliver, UseErased
    <3> QED
      BY <1>3, <3>1, <3>2, <3>3, <3>4, <3>5, <3>6, <3>7, Zenon DEF RxStep
  <2> QED
    BY <2>1, <2>2, Zenon DEF RxStays
<1>4. CASE StartBatch \/ HelloLimited \/ HelloRefused \/ HelloAccepted \/ AudioFrame \/ Bye \/ Ping
           \/ Forward
  BY <1>1, <1>4, Zenon DEF StartBatch, HelloLimited, HelloRefused, HelloAccepted, AudioFrame, Bye, Ping,
     Forward, Listener, bounds
<1>5. CASE PendingIo \/ EndBatch \/ SnapshotBoard \/ SnapshotEntries \/ EndTask
  BY <1>1, <1>5, Zenon DEF PendingIo, EndBatch, SnapshotBoard, SnapshotEntries, EndTask, bounds
<1>6. ASSUME NEW d \in Ids, Sweep(d)
      PROVE  scenario' = scenario /\ RxStays
  <2>1. UNCHANGED <<scenario, received>>
    BY <1>6, Zenon DEF Sweep, bounds
  <2>2. rx' = rx \/ rx' = [rx EXCEPT !.dangling = TRUE]
    BY <1>6, Zenon DEF Sweep, CloseOverdue, RemoveOverdue
  <2>3. rx'.pc = rx.pc /\ (rx.pc \in {"message", "event"} => rx'.id = rx.id)
    BY <2>2, Zenon DEF IInv, RxShape
  <2> QED
    BY <2>1, <2>3, Zenon DEF RxStays
<1>7. CASE UNCHANGED vars \/ Tick \/ (\E p \in Peers : PeerClosed(p))
           \/ \E t \in {"heartbeat_check", "session_cleanup"} : TaskNow(t)
  BY <1>1, <1>7, Zenon DEF vars, Tick, PeerClosed, TaskNow, bounds
<1> QED
  BY <1>2, <1>3, <1>4, <1>5, <1>6, <1>7, Zenon DEF Next, CpuStep

LEMMA PeerKeeps ==
    ASSUME IInv, PeerInv, [Next]_vars
    PROVE  PeerInv'
<1>1. scenario' = scenario
  BY RxChanges, Zenon
<1>2. \A d : Uses(d)' = Uses(d)
  BY <1>1, Zenon DEF Uses
<1>3. \A d \in DOMAIN board' : board'[d].peer = None \/ board'[d].peer \in Uses(d)'
  <2>1. ASSUME rx.pc = "event"
        PROVE  rx.id \in Uses(rx.id)
    BY <2>1, Zenon DEF PeerInv, Uses
  <2>2. ASSUME rx.pc = "message"
        PROVE  scenario.messages[received].from \in Uses(rx.id)
    <3>1. received \in DOMAIN scenario.messages /\ rx.id = device_id(scenario.messages[received])
      BY <2>2, ScenarioFacts DEF PeerInv
    <3> QED
      BY <3>1, Zenon DEF Uses
  <2>3. PeersKept
    BY PeersStep, Zenon
  <2> QED
    BY <1>2, <2>1, <2>2, <2>3, Zenon DEF PeersKept, PeerInv
<1>4. /\ received' \in 0..Len(scenario.messages)
      /\ rx'.pc = "message" => received' > 0 /\ rx'.id = device_id(scenario.messages[received'])
      /\ rx'.pc = "event" => rx'.id \in scenario.peers
  <2>1. CASE Receive
    <3>1. /\ received < Len(scenario.messages) /\ received' = received + 1
          /\ rx' = [pc |-> "message", id |-> device_id(scenario.messages[received']), dangling |-> FALSE]
      BY <2>1, Zenon DEF Receive, Lookup
    <3>2. received' \in 0..Len(scenario.messages) /\ received' > 0
      BY <3>1, ScenarioFacts DEF PeerInv
    <3>3. rx'.pc = "message" /\ rx'.id = device_id(scenario.messages[received'])
      BY <3>1, Zenon
    <3> QED
      BY <3>2, <3>3, Zenon
  <2>2. ASSUME NEW p \in Peers, PeerOnline(p)
        PROVE  received' = received /\ rx'.pc = "event" /\ rx'.id \in scenario.peers
    BY <2>2, Zenon DEF PeerOnline, Lookup
  <2> QED
    BY <2>1, <2>2, RxChanges, Zenon DEF RxStays, PeerInv
<1> QED
  BY <1>1, <1>3, <1>4, Zenon DEF PeerInv

-----------------------------------------------------------------------------
(***************************************************************************)
(* The way of a message: the inbox, the batch, the operations its listener *)
(* schedules, the transport.  Along this way the numbers of the messages   *)
(* fall, and Fresh is the one the next message that is put in will have.   *)
(***************************************************************************)

Op == [msg : Nat, kind : {"hello_err", "hello_ack", "pong", "downstream"}, to : Ids \cup {None}]

Before(a, b) ==
    \/ a.msg < b.msg
    \/ a.msg = b.msg /\ b.kind = "downstream" /\ a.kind # "downstream"

Todo == batch \o inbox
Fresh == IF rx.pc = "message" THEN received ELSE received + 1

Rising(s) == \A i, j \in DOMAIN s : i < j => s[i] < s[j]
InOrder(q) == \A i, j \in DOMAIN q : i < j => Before(q[i], q[j])
Below(q, n) == \A i \in DOMAIN q : q[i].msg < n

Numbers == DOMAIN scenario.messages

WayTypes ==
    /\ inbox \in Seq(Numbers) /\ batch \in Seq(Numbers) /\ pending \in Seq(Op) /\ replies \in Seq(Op)
    /\ cpu.pc \notin {"batch", "undefined"} => batch = <<>>

\* The messages w on the way to a listener, the operations p that wait and the
\* operations r that are done, with n the number of the next message.
Lined(w, p, r, n) ==
    /\ Rising(w) /\ \A j \in DOMAIN w : w[j] < n
    /\ Below(r, n) /\ \A j \in DOMAIN w : Below(r, w[j])
    /\ Below(p, n) /\ \A j \in DOMAIN w : Below(p, w[j])
    /\ InOrder(r) /\ InOrder(p)
    /\ \A i \in DOMAIN r, j \in DOMAIN p : Before(r[i], p[j])

OrderInv == Lined(Todo, pending, replies, Fresh)

LEMMA OpFacts ==
    \A o \in Op : o.msg \in Nat /\ o.to \in Ids \cup {None}
BY DEF Op

LEMMA TodoFacts ==
    ASSUME WayTypes, PeerInv
    PROVE  /\ Todo \in Seq(Nat) /\ Len(Todo) \in Nat /\ DOMAIN Todo = 1..Len(Todo)
           /\ \A j \in DOMAIN Todo : Todo[j] \in Numbers
           /\ batch # <<>> => Todo # <<>> /\ Head(Todo) = Head(batch) /\ Tail(batch) \o inbox = Tail(Todo)
<1>0. Seq(Numbers) \subseteq Seq(Nat)
  <2>1. Numbers \subseteq Nat
    BY ScenarioFacts DEF Numbers
  <2> QED
    BY <2>1, LargerSeq, Zenon
<1>1. Todo \in Seq(Numbers) /\ Len(Todo) = Len(batch) + Len(inbox)
  BY ConcatFacts DEF WayTypes, Todo
<1>2. Len(Todo) \in Nat /\ DOMAIN Todo = 1..Len(Todo) /\ \A j \in 1..Len(Todo) : Todo[j] \in Numbers
  BY <1>1, LenFacts
<1>3. ASSUME batch # <<>>
      PROVE  Todo # <<>> /\ Head(Todo) = Head(batch) /\ Tail(batch) \o inbox = Tail(Todo)
  <2>1. /\ Len(batch) \in Nat \ {0} /\ Len(Tail(batch)) = Len(batch) - 1 /\ Tail(batch) \in Seq(Numbers)
        /\ Len(inbox) \in Nat /\ Head(batch) = batch[1]
        /\ \A i \in 1..Len(Tail(batch)) : Tail(batch)[i] = batch[i + 1]
    BY <1>3, TailFacts, LenFacts DEF WayTypes
  <2>2. Todo # <<>>
    BY <1>1, <2>1, EmptyFacts
  <2>3. /\ Head(Todo) = Todo[1] /\ Tail(Todo) \in Seq(Numbers) /\ Len(Tail(Todo)) = Len(Todo) - 1
        /\ \A i \in 1..Len(Tail(Todo)) : Tail(Todo)[i] = Todo[i + 1]
    BY <1>1, <2>2, TailFacts
  <2>4. \A i \in 1..(Len(batch) + Len(inbox)) :
            Todo[i] = IF i <= Len(batch) THEN batch[i] ELSE inbox[i - Len(batch)]
    BY ConcatFacts DEF WayTypes, Todo
  <2>5. /\ Tail(batch) \o inbox \in Seq(Numbers) /\ Len(Tail(batch) \o inbox) = Len(Tail(batch)) + Len(inbox)
        /\ \A i \in 1..(Len(Tail(batch)) + Len(inbox)) :
              (Tail(batch) \o inbox)[i] =
                 IF i <= Len(Tail(batch)) THEN Tail(batch)[i] ELSE inbox[i - Len(Tail(batch))]
    BY <2>1, ConcatFacts DEF WayTypes
  <2>6. Len(Tail(batch) \o inbox) = Len(Tail(Todo))
    BY <1>1, <2>1, <2>3, <2>5
  <2>7. \A i \in 1..Len(Tail(batch) \o inbox) : (Tail(batch) \o inbox)[i] = Tail(Todo)[i]
    BY <1>1, <2>1, <2>3, <2>4, <2>5
  <2>8. Tail(batch) \o inbox = Tail(Todo)
    BY <2>3, <2>5, <2>6, <2>7, EqualFacts, Zenon
  <2>9. Todo[1] = batch[1]
    BY <2>1, <2>4
  <2> QED
    BY <2>1, <2>2, <2>3, <2>8, <2>9, Zenon
<1> QED
  BY <1>0, <1>1, <1>2, <1>3, Zenon

LEMMA FreshFacts ==
    ASSUME IInv, PeerInv, [Next]_vars
    PROVE  Fresh \in Nat /\ Fresh' \in Nat /\ Fresh <= Fresh'
<1>1. received \in Nat /\ (rx.pc = "message" => received > 0)
  BY DEF PeerInv
<1>2. CASE Receive
  <2>1. rx.pc # "message" /\ received' = received + 1
    BY <1>2, Zenon DEF Receive
  <2>2. Fresh = received + 1
    BY <2>1, Zenon DEF Fresh
  <2>3. Fresh' = received' \/ Fresh' = received' + 1
    BY Zenon DEF Fresh
  <2> QED
    BY <1>1, <2>1, <2>2, <2>3
<1>3. CASE \E p \in Peers : PeerOnline(p)
  <2>1. PICK p \in Peers : PeerOnline(p)
    BY <1>3, Zenon
  <2>2. /\ rx.pc = "idle" /\ received' = received
        /\ rx' = [pc |-> "event", id |-> p, dangling |-> FALSE]
    BY <2>1, Zenon DEF PeerOnline, Lookup
  <2>3. rx.pc # "message" /\ rx'.pc # "message"
    BY <2>2
  <2> QED
    BY <1>1, <2>2, <2>3 DEF Fresh
<1>4. CASE RxStays
  BY <1>1, <1>4 DEF Fresh, RxStays
<1> QED
  BY <1>2, <1>3, <1>4, RxChanges, Zenon

LEMMA OpSeq ==
    ASSUME NEW q \in Seq(Op)
    PROVE  /\ Len(q) \in Nat /\ DOMAIN q = 1..Len(q)
           /\ \A i \in DOMAIN q : q[i] \in Op /\ q[i].msg \in Nat
BY LenFacts, OpFacts

\* Nothing moves along the way; only the number of the next message may grow.
LEMMA LinedGrow ==
    ASSUME NEW w \in Seq(Nat), NEW p \in Seq(Op), NEW r \in Seq(Op), NEW n \in Nat, NEW k \in Nat,
           n <= k, Lined(w, p, r, n)
    PROVE  Lined(w, p, r, k)
<1>1. \A j \in DOMAIN w : w[j] < k
  <2>1. \A j \in DOMAIN w : w[j] \in Nat /\ w[j] < n
    BY LenFacts DEF Lined
  <2> QED
    BY <2>1
<1>2. ASSUME NEW q \in Seq(Op), Below(q, n)
      PROVE  Below(q, k)
  BY <1>2, OpSeq DEF Below
<1> QED
  BY <1>1, <1>2, Zenon DEF Lined

\* on_tight_message puts the message in last.
LEMMA LinedPut ==
    ASSUME NEW w \in Seq(Nat), NEW p \in Seq(Op), NEW r \in Seq(Op), NEW n \in Nat, Lined(w, p, r, n)
    PROVE  Lined(Append(w, n), p, r, n + 1)
<1> DEFINE v == Append(w, n)
<1>1. v \in Seq(Nat) /\ Len(v) = Len(w) + 1 /\ v[Len(w) + 1] = n /\ \A i \in 1..Len(w) : v[i] = w[i]
  BY AppendFacts
<1>2. /\ Len(w) \in Nat /\ DOMAIN w = 1..Len(w) /\ DOMAIN v = 1..(Len(w) + 1)
      /\ \A i \in DOMAIN w : w[i] \in Nat
  BY <1>1, LenFacts
<1> HIDE DEF v
<1>3. \A j \in DOMAIN v : (j \in DOMAIN w /\ v[j] = w[j]) \/ (j = Len(w) + 1 /\ v[j] = n)
  BY <1>1, <1>2
<1>4. \A j \in DOMAIN w : w[j] < n
  BY Zenon DEF Lined
<1>5. Rising(v) /\ \A j \in DOMAIN v : v[j] < n + 1
  <2>1. \A j \in DOMAIN v : v[j] < n + 1
    BY <1>2, <1>3, <1>4
  <2>2. ASSUME NEW i \in DOMAIN v, NEW j \in DOMAIN v, i < j
        PROVE  v[i] < v[j]
    <3>1. i \in DOMAIN w /\ v[i] = w[i]
      BY <1>2, <1>3, <2>2
    <3>2. CASE j \in DOMAIN w /\ v[j] = w[j]
      BY <2>2, <3>1, <3>2, Zenon DEF Lined, Rising
    <3>3. CASE j = Len(w) + 1 /\ v[j] = n
      BY <1>4, <3>1, <3>3, Zenon
    <3> QED
      BY <1>3, <3>2, <3>3, Zenon
  <2> QED
    BY <2>1, <2>2, Zenon DEF Rising
<1>6. ASSUME NEW q \in Seq(Op), Below(q, n), \A j \in DOMAIN w : Below(q, w[j])
      PROVE  Below(q, n + 1) /\ \A j \in DOMAIN v : Below(q, v[j])
  <2>1. Below(q, n + 1)
    BY <1>6, OpSeq DEF Below
  <2> QED
    BY <1>3, <1>6, <2>1, Zenon
<1> QED
  BY <1>5, <1>6, Zenon DEF Lined, v

\* A listener takes the first message and schedules its operations.
LEMMA LinedListen ==
    ASSUME NEW w \in Seq(Nat), NEW p \in Seq(Op), NEW r \in Seq(Op), NEW n \in Nat, NEW ops \in Seq(Op),
           Lined(w, p, r, n), w # <<>>, \A i \in DOMAIN ops : ops[i].msg = Head(w), InOrder(ops)
    PROVE  Lined(Tail(w), p \o ops, r, n)
<1> DEFINE v == Tail(w)
           q == p \o ops
<1>1. /\ Len(w) \in Nat \ {0} /\ Head(w) = w[1] /\ v \in Seq(Nat) /\ Len(v) = Len(w) - 1
      /\ \A i \in 1..Len(v) : v[i] = w[i + 1]
  BY TailFacts
<1>2. /\ DOMAIN w = 1..Len(w) /\ DOMAIN v = 1..Len(v) /\ \A i \in DOMAIN w : w[i] \in Nat
  BY <1>1, LenFacts
<1>3. /\ q \in Seq(Op) /\ Len(q) = Len(p) + Len(ops)
      /\ \A i \in 1..(Len(p) + Len(ops)) : q[i] = IF i <= Len(p) THEN p[i] ELSE ops[i - Len(p)]
  BY ConcatFacts
<1>4. /\ Len(p) \in Nat /\ Len(ops) \in Nat /\ DOMAIN p = 1..Len(p) /\ DOMAIN ops = 1..Len(ops)
      /\ DOMAIN q = 1..(Len(p) + Len(ops))
  BY <1>3, OpSeq
<1> HIDE DEF v, q
<1>5. \A i \in DOMAIN q : \/ i \in DOMAIN p /\ q[i] = p[i]
                          \/ i - Len(p) \in DOMAIN ops /\ q[i] = ops[i - Len(p)] /\ i > Len(p)
  BY <1>3, <1>4
<1>6. ASSUME NEW j \in DOMAIN v
      PROVE  j + 1 \in DOMAIN w /\ v[j] = w[j + 1] /\ 1 < j + 1
  BY <1>6, TailDomain, Zenon DEF v
<1>7. 1 \in DOMAIN w /\ w[1] < n /\ Below(r, w[1]) /\ Below(p, w[1])
  <2>1. 1 \in DOMAIN w
    BY <1>1, <1>2
  <2> QED
    BY <2>1, Zenon DEF Lined
<1>8. ASSUME NEW j \in DOMAIN v
      PROVE  w[1] < v[j] /\ v[j] < n /\ Below(r, v[j]) /\ Below(p, v[j])
  <2>1. w[1] < w[j + 1]
    BY <1>6, <1>7, Zenon DEF Lined, Rising
  <2>2. w[j + 1] < n /\ Below(r, w[j + 1]) /\ Below(p, w[j + 1])
    BY <1>6, Zenon DEF Lined
  <2> QED
    BY <1>6, <2>1, <2>2, Zenon
<1>9. Rising(v)
  <2> SUFFICES ASSUME NEW i \in DOMAIN v, NEW j \in DOMAIN v, i < j
               PROVE  v[i] < v[j]
    BY Zenon DEF Rising
  <2>1. i + 1 < j + 1
    BY <1>1, <1>2
  <2>2. w[i + 1] < w[j + 1]
    BY <1>6, <2>1, Zenon DEF Lined, Rising
  <2> QED
    BY <1>6, <2>2, Zenon
<1>10. Below(q, n) /\ \A j \in DOMAIN v : Below(q, v[j])
  <2>1. ASSUME NEW k, w[1] < k, Below(p, k)
        PROVE  Below(q, k)
    BY <1>1, <1>5, <2>1, ZenonT(60) DEF Below
  <2>2. Below(p, n)
    BY Zenon DEF Lined
  <2> QED
    BY <1>7, <1>8, <2>1, <2>2, Zenon
<1>11. /\ \A i \in DOMAIN p : p[i].msg < w[1]
       /\ \A i \in DOMAIN r : r[i].msg < w[1]
  BY <1>7, Zenon DEF Below
<1>12. InOrder(q)
  <2> SUFFICES ASSUME NEW i \in DOMAIN q, NEW j \in DOMAIN q, i < j
               PROVE  Before(q[i], q[j])
    BY Zenon DEF InOrder
  <2>1. CASE i \in DOMAIN p /\ q[i] = p[i] /\ j \in DOMAIN p /\ q[j] = p[j]
    BY <2>1, Zenon DEF Lined, InOrder
  <2>2. CASE i \in DOMAIN p /\ q[i] = p[i] /\ j - Len(p) \in DOMAIN ops /\ q[j] = ops[j - Len(p)]
    BY <1>1, <1>11, <2>2, Zenon DEF Before
  <2>3. CASE /\ i - Len(p) \in DOMAIN ops /\ q[i] = ops[i - Len(p)]
             /\ j - Len(p) \in DOMAIN ops /\ q[j] = ops[j - Len(p)]
    <3>1. i - Len(p) < j - Len(p)
      BY <1>4
    <3> QED
      BY <2>3, <3>1, Zenon DEF InOrder
  <2>4. ~(i > Len(p) /\ j \in DOMAIN p)
    BY <1>4
  <2> QED
    BY <1>5, <2>1, <2>2, <2>3, <2>4, Zenon
<1>13. ASSUME NEW i \in DOMAIN r, NEW j \in DOMAIN q
       PROVE  Before(r[i], q[j])
  <2>1. CASE j \in DOMAIN p /\ q[j] = p[j]
    BY <2>1, Zenon DEF Lined
  <2>2. CASE j - Len(p) \in DOMAIN ops /\ q[j] = ops[j - Len(p)]
    BY <1>1, <1>11, <2>2, Zenon DEF Before
  <2> QED
    BY <1>5, <2>1, <2>2, Zenon
<1> QED
  BY <1>8, <1>9, <1>10, <1>12, <1>13, Zenon DEF Lined, v, q

\* execute_pending_io hands on the first operation, to the peer it finds.
LEMMA LinedSend ==
    ASSUME NEW w \in Seq(Nat), NEW p \in Seq(Op), NEW r \in Seq(Op), NEW n, NEW o \in Op,
           Lined(w, p, r, n), p # <<>>, o.msg = Head(p).msg, o.kind = Head(p).kind
    PROVE  Lined(w, Tail(p), Append(r, o), n)
<1> DEFINE q == Tail(p)
           s == Append(r, o)
<1>1. /\ Len(p) \in Nat \ {0} /\ Head(p) = p[1] /\ q \in Seq(Op) /\ Len(q) = Len(p) - 1
      /\ \A i \in 1..Len(q) : q[i] = p[i + 1]
  BY TailFacts
<1>2. DOMAIN p = 1..Len(p) /\ DOMAIN q = 1..Len(q)
  BY <1>1, OpSeq
<1>3. s \in Seq(Op) /\ Len(s) = Len(r) + 1 /\ s[Len(r) + 1] = o /\ \A i \in 1..Len(r) : s[i] = r[i]
  BY AppendFacts
<1>4. Len(r) \in Nat /\ DOMAIN r = 1..Len(r) /\ DOMAIN s = 1..(Len(r) + 1)
  BY <1>3, OpSeq
<1> HIDE DEF q, s
<1>5. 1 \in DOMAIN p
  BY <1>1, <1>2
<1>6. ASSUME NEW j \in DOMAIN q
      PROVE  j + 1 \in DOMAIN p /\ q[j] = p[j + 1] /\ 1 < j + 1
  BY <1>6, TailDomain, Zenon DEF q
<1>7. \A j \in DOMAIN s : (j \in DOMAIN r /\ s[j] = r[j]) \/ (j = Len(r) + 1 /\ s[j] = o)
  BY <1>3, <1>4
<1>8. \A x : /\ Before(x, p[1]) => Before(x, o)
             /\ Before(p[1], x) => Before(o, x)
  BY <1>1, Zenon DEF Before
<1>9. ASSUME NEW k, Below(r, k), Below(p, k)
      PROVE  Below(s, k) /\ Below(q, k)
  <2>1. Below(s, k)
    BY <1>1, <1>5, <1>7, <1>9, Zenon DEF Below
  <2>2. Below(q, k)
    BY <1>6, <1>9, Zenon DEF Below
  <2> QED
    BY <2>1, <2>2, Zenon
<1>10. InOrder(s)
  <2> SUFFICES ASSUME NEW i \in DOMAIN s, NEW j \in DOMAIN s, i < j
               PROVE  Before(s[i], s[j])
    BY Zenon DEF InOrder
  <2>1. i \in DOMAIN r /\ s[i] = r[i]
    BY <1>4, <1>7
  <2>2. CASE j \in DOMAIN r /\ s[j] = r[j]
    BY <2>1, <2>2, Zenon DEF Lined, InOrder
  <2>3. CASE s[j] = o
    <3>1. Before(r[i], p[1])
      BY <1>5, <2>1, Zenon DEF Lined
    <3> QED
      BY <1>8, <2>1, <2>3, <3>1, Zenon
  <2> QED
    BY <1>7, <2>2, <2>3, Zenon
<1>11. InOrder(q)
  <2> SUFFICES ASSUME NEW i \in DOMAIN q, NEW j \in DOMAIN q, i < j
               PROVE  Before(q[i], q[j])
    BY Zenon DEF InOrder
  <2>1. i + 1 < j + 1
    BY <1>1, <1>2
  <2>2. Before(p[i + 1], p[j + 1])
    BY <1>6, <2>1, Zenon DEF Lined, InOrder
  <2> QED
    BY <1>6, <2>2, Zenon
<1>12. ASSUME NEW i \in DOMAIN s, NEW j \in DOMAIN q
       PROVE  Before(s[i], q[j])
  <2>1. CASE i \in DOMAIN r /\ s[i] = r[i]
    BY <1>6, <2>1, Zenon DEF Lined
  <2>2. CASE s[i] = o
    <3>1. Before(p[1], p[j + 1])
      BY <1>5, <1>6, Zenon DEF Lined, InOrder
    <3> QED
      BY <1>6, <1>8, <2>2, <3>1, Zenon
  <2> QED
    BY <1>7, <2>1, <2>2, Zenon
<1>13. /\ Below(s, n) /\ Below(q, n)
       /\ \A j \in DOMAIN w : Below(s, w[j]) /\ Below(q, w[j])
  BY <1>9, Zenon DEF Lined
<1> QED
  BY <1>10, <1>11, <1>12, <1>13, Zenon DEF Lined, q, s

\* Steps that move nothing along the way.
LEMMA OrderFrame ==
    ASSUME IInv, PeerInv, WayTypes, OrderInv, [Next]_vars, UNCHANGED <<inbox, batch, pending, replies>>,
           cpu' = cpu \/ batch = <<>> \/ cpu'.pc = "undefined"
    PROVE  WayTypes' /\ OrderInv'
<1>1. Numbers' = Numbers /\ Todo' = Todo
  BY RxChanges, Zenon DEF Numbers, Todo
<1>2. WayTypes'
  BY <1>1, Zenon DEF WayTypes, Op, Ids
<1>3. Lined(Todo, pending, replies, Fresh')
  <2>1. Fresh \in Nat /\ Fresh' \in Nat /\ Fresh <= Fresh'
    BY FreshFacts, Zenon
  <2>2. Todo \in Seq(Nat) /\ pending \in Seq(Op) /\ replies \in Seq(Op)
    BY TodoFacts, Zenon DEF WayTypes
  <2> QED
    BY <2>1, <2>2, LinedGrow, Zenon DEF OrderInv
<1> QED
  BY <1>1, <1>2, <1>3, Zenon DEF OrderInv

\* What all listeners have in common.
LEMMA OrderListen ==
    ASSUME PeerInv, WayTypes, OrderInv, NEW type, NEW ops \in Seq(Op), Listener(type, ops),
           \A i \in DOMAIN ops : ops[i].msg = Head(batch), InOrder(ops)
    PROVE  WayTypes' /\ OrderInv'
<1>1. /\ batch # <<>> /\ batch' = Tail(batch) /\ pending' = pending \o ops
      /\ UNCHANGED <<inbox, rx, cpu, scenario, received, replies>> /\ cpu.pc = "batch"
  BY Zenon DEF Listener
<1>2. Numbers' = Numbers /\ Fresh' = Fresh
  BY <1>1, Zenon DEF Numbers, Fresh
<1>3. WayTypes'
  <2>1. batch' \in Seq(Numbers)
    BY <1>1, TailFacts DEF WayTypes
  <2>2. pending' \in Seq(Op)
    BY <1>1, ConcatFacts DEF WayTypes
  <2>3. cpu'.pc \in {"batch", "undefined"}
    BY <1>1, Zenon
  <2> QED
    BY <1>1, <1>2, <2>1, <2>2, <2>3, Zenon DEF WayTypes, Op, Ids
<1>4. Todo' = Tail(Todo) /\ Todo # <<>> /\ Head(Todo) = Head(batch) /\ Todo \in Seq(Nat)
  <2>1. Todo' = Tail(batch) \o inbox
    BY <1>1, Zenon DEF Todo
  <2> QED
    BY <1>1, <2>1, TodoFacts, Zenon
<1>5. Fresh \in Nat
  BY DEF PeerInv, Fresh
<1>6. Lined(Tail(Todo), pending \o ops, replies, Fresh)
  <2>1. pending \in Seq(Op) /\ replies \in Seq(Op) /\ \A i \in DOMAIN ops : ops[i].msg = Head(Todo)
    BY <1>4, Zenon DEF WayTypes
  <2> QED
    BY <1>4, <1>5, <2>1, LinedListen, Zenon DEF OrderInv
<1> QED
  BY <1>1, <1>2, <1>3, <1>4, <1>6, Zenon DEF OrderInv

LEMMA CurrentFacts ==
    ASSUME PeerInv, WayTypes, batch # <<>>
    PROVE  /\ Head(batch) \in Numbers /\ Head(batch) \in Nat /\ Current \in Message
           /\ Current.name \in Ids /\ device_id(Current) \in Ids
<1>1. Head(batch) \in Numbers
  BY TailFacts DEF WayTypes
<1>2. Head(batch) \in Nat
  BY <1>1, ScenarioFacts DEF Numbers
<1>3. /\ Current \in Message /\ Current.name \in Names \cup {NoName}
      /\ device_id(Current) \in Ids
  BY <1>1, ScenarioFacts, Zenon DEF Numbers, Current
<1> QED
  BY <1>1, <1>2, <1>3, Zenon DEF Ids

LEMMA ReplyFacts ==
    ASSUME PeerInv, WayTypes, batch # <<>>, NEW d \in Ids,
           NEW kind \in {"hello_err", "hello_ack", "pong"}
    PROVE  /\ Reply(kind, d) \in Op /\ Reply(kind, d).msg = Head(batch) /\ Reply(kind, d).kind = kind
           /\ Reply(kind, d).to = d
           /\ Downstream \in Op /\ Downstream.msg = Head(batch) /\ Downstream.kind = "downstream"
           /\ Before(Reply(kind, d), Downstream)
<1>1. Head(batch) \in Nat
  BY CurrentFacts, Zenon
<1>2. /\ Reply(kind, d) = [msg |-> Head(batch), kind |-> kind, to |-> d]
      /\ Downstream = [msg |-> Head(batch), kind |-> "downstream", to |-> None]
  BY Zenon DEF Reply, Downstream
<1>3. /\ Reply(kind, d).msg = Head(batch) /\ Reply(kind, d).kind = kind /\ Reply(kind, d).to = d
      /\ Downstream.msg = Head(batch) /\ Downstream.kind = "downstream"
  BY <1>2
<1>4. Reply(kind, d) \in Op /\ Downstream \in Op
  BY <1>1, <1>2 DEF Op
<1>5. kind # "downstream"
  OBVIOUS
<1> QED
  BY <1>3, <1>4, <1>5, Zenon DEF Before

LEMMA ShortSeqs ==
    ASSUME NEW a \in Op, NEW b \in Op, Before(a, b), NEW n, a.msg = n, b.msg = n
    PROVE  /\ <<>> \in Seq(Op) /\ InOrder(<<>>) /\ \A i \in DOMAIN <<>> : <<>>[i].msg = n
           /\ <<a>> \in Seq(Op) /\ InOrder(<<a>>) /\ \A i \in DOMAIN <<a>> : <<a>>[i].msg = n
           /\ <<b>> \in Seq(Op) /\ InOrder(<<b>>) /\ \A i \in DOMAIN <<b>> : <<b>>[i].msg = n
           /\ <<a, b>> \in Seq(Op) /\ InOrder(<<a, b>>) /\ \A i \in DOMAIN <<a, b>> : <<a, b>>[i].msg = n
<1>1. <<>> \in Seq(Op) /\ InOrder(<<>>) /\ \A i \in DOMAIN <<>> : <<>>[i].msg = n
  BY DEF InOrder
<1>2. ASSUME NEW c \in Op, c.msg = n
      PROVE  <<c>> \in Seq(Op) /\ InOrder(<<c>>) /\ \A i \in DOMAIN <<c>> : <<c>>[i].msg = n
  BY <1>2 DEF InOrder
<1>3. <<a, b>> \in Seq(Op) /\ InOrder(<<a, b>>) /\ \A i \in DOMAIN <<a, b>> : <<a, b>>[i].msg = n
  BY DEF InOrder
<1> QED
  BY <1>1, <1>2, <1>3, Zenon

\* The listeners schedule at most an answer and then what is passed on.
LEMMA ListenersOrder ==
    ASSUME PeerInv, WayTypes, OrderInv,
           HelloLimited \/ HelloRefused \/ HelloAccepted \/ AudioFrame \/ Bye \/ Ping \/ Forward
    PROVE  WayTypes' /\ OrderInv'
<1>1. batch # <<>>
  BY Zenon DEF HelloLimited, HelloRefused, HelloAccepted, AudioFrame, Bye, Ping, Forward, Listener
<1>2. Current.name \in Ids /\ device_id(Current) \in Ids
  BY <1>1, CurrentFacts, Zenon
<1>3. ASSUME NEW type, NEW ops, Listener(type, ops), NEW d \in Ids,
             NEW kind \in {"hello_err", "hello_ack", "pong"},
             \/ ops = <<>> \/ ops = <<Reply(kind, d)>> \/ ops = <<Downstream>>
             \/ ops = <<Reply(kind, d), Downstream>>
      PROVE  WayTypes' /\ OrderInv'
  <2>1. /\ Reply(kind, d) \in Op /\ Reply(kind, d).msg = Head(batch)
        /\ Downstream \in Op /\ Downstream.msg = Head(batch) /\ Before(Reply(kind, d), Downstream)
    BY <1>1, <1>3, ReplyFacts, Zenon
  <2> DEFINE a == Reply(kind, d)
             b == Downstream
  <2> HIDE DEF a, b
  <2>2. /\ <<>> \in Seq(Op) /\ InOrder(<<>>) /\ \A i \in DOMAIN <<>> : <<>>[i].msg = Head(batch)
        /\ <<a>> \in Seq(Op) /\ InOrder(<<a>>) /\ \A i \in DOMAIN <<a>> : <<a>>[i].msg = Head(batch)
        /\ <<b>> \in Seq(Op) /\ InOrder(<<b>>) /\ \A i \in DOMAIN <<b>> : <<b>>[i].msg = Head(batch)
        /\ <<a, b>> \in Seq(Op) /\ InOrder(<<a, b>>)
        /\ \A i \in DOMAIN <<a, b>> : <<a, b>>[i].msg = Head(batch)
    <3>1. a \in Op /\ b \in Op /\ Before(a, b) /\ a.msg = Head(batch) /\ b.msg = Head(batch)
      BY <2>1, Zenon DEF a, b
    <3> QED
      BY <3>1, ShortSeqs, Zenon
  <2>3. ops = <<>> \/ ops = <<a>> \/ ops = <<b>> \/ ops = <<a, b>>
    BY <1>3, Zenon DEF a, b
  <2>4. ops \in Seq(Op) /\ InOrder(ops) /\ \A i \in DOMAIN ops : ops[i].msg = Head(batch)
    BY <2>2, <2>3, Zenon
  <2> QED
    BY <1>3, <2>4, OrderListen, Zenon
<1>4. CASE HelloLimited
  BY <1>2, <1>3, <1>4, Zenon DEF HelloLimited
<1>5. CASE HelloRefused
  BY <1>2, <1>3, <1>5, Zenon DEF HelloRefused
<1>6. CASE HelloAccepted
  BY <1>2, <1>3, <1>6, Zenon DEF HelloAccepted
<1>7. CASE AudioFrame
  <2>1. \/ Listener("audio", <<Downstream>>)
        \/ Listener("audio", <<>>)
    BY <1>7, Zenon DEF AudioFrame
  <2> QED
    BY <1>2, <1>3, <2>1, Zenon
<1>8. CASE Bye \/ Forward
  BY <1>2, <1>3, <1>8, Zenon DEF Bye, Forward
<1>9. CASE Ping
  BY <1>2, <1>3, <1>9, Zenon DEF Ping
<1> QED
  BY <1>4, <1>5, <1>6, <1>7, <1>8, <1>9, Zenon

\* The operation that execute_pending_io hands to the transport.
LEMMA TargetFacts ==
    ASSUME IInv, PeerInv, WayTypes, PendingIo
    PROVE  \E o \in Op :
              /\ o.msg = Head(pending).msg /\ o.kind = Head(pending).kind
              /\ o.kind # "downstream" => o.to = Target(board, Head(pending).to)
              /\ replies' = Append(replies, o)
<1> DEFINE h == Head(pending)
           t == Target(board, h.to)
<1>1. h \in Op
  BY TailFacts DEF PendingIo, WayTypes
<1>2. CASE h.kind = "downstream"
  BY <1>1, <1>2, Zenon DEF PendingIo
<1>3. CASE h.kind # "downstream"
  <2>1. replies' = Append(replies, [h EXCEPT !.to = t])
    BY <1>3, Zenon DEF PendingIo
  <2>2. t \in Ids \cup {None}
    <3> DEFINE e == device(board, h.to)[h.to]
    <3>1. h.to \in Ids \cup {None}
      BY <1>1, OpFacts, Zenon
    <3>2. e.peer = None \/ e.peer \in Ids
      <4>1. CASE h.to \in DOMAIN board
        <5>1. e.peer = None \/ e.peer \in Uses(h.to)
          BY <4>1, Zenon DEF device, PeerInv
        <5>2. Uses(h.to) \subseteq Peers
          BY ScenarioFacts, Zenon DEF Uses
        <5> QED
          BY <5>1, <5>2, Zenon DEF Ids
      <4>2. CASE h.to \notin DOMAIN board
        BY <4>2, BlankPeer, Zenon DEF device, With
      <4> QED
        BY <4>1, <4>2, Zenon
    <3> QED
      BY <3>1, <3>2, Zenon DEF Target
  <2> HIDE DEF h, t
  <2>3. [h EXCEPT !.to = t] \in Op
    BY <1>1, <2>2 DEF Op
  <2>4. /\ [h EXCEPT !.to = t].msg = h.msg /\ [h EXCEPT !.to = t].kind = h.kind
        /\ [h EXCEPT !.to = t].to = t
    BY <1>1 DEF Op
  <2> QED
    BY <2>1, <2>3, <2>4, Zenon DEF h, t
<1> QED
  BY <1>2, <1>3, Zenon

LEMMA OrderStep ==
    ASSUME IInv, PeerInv, WayTypes, OrderInv, [Next]_vars
    PROVE  WayTypes' /\ OrderInv'
<1>1. CASE UNCHANGED vars
  BY <1>1, OrderFrame, Zenon DEF vars, state, history
<1>2. CASE Receive \/ (\E p \in Peers : PeerOnline(p) \/ PeerClosed(p))
  BY <1>2, OrderFrame, Zenon DEF Receive, PeerOnline, PeerClosed, state, history
<1>3. CASE Deliver
  <2>1. /\ inbox' = Append(inbox, received)
        /\ UNCHANGED <<batch, pending, replies, cpu, received, scenario>>
        /\ rx.pc = "message" /\ rx' = Idle
    BY <1>3, Zenon DEF Deliver, bounds, history
  <2>2. received \in Numbers /\ received \in Nat
    BY <2>1, ScenarioFacts DEF PeerInv, Numbers
  <2>3. Fresh = received /\ Fresh' = received + 1
    BY <2>1 DEF Fresh, Idle
  <2>4. Numbers' = Numbers
    BY <2>1, Zenon DEF Numbers
  <2>5. inbox' \in Seq(Numbers) /\ inbox' = inbox \o <<received>> /\ <<received>> \in Seq(Numbers)
    BY <2>1, <2>2, AppendFacts DEF WayTypes
  <2>6. WayTypes'
    BY <2>1, <2>4, <2>5, Zenon DEF WayTypes, Op, Ids
  <2>7. Todo' = Append(Todo, received) /\ Todo \in Seq(Nat)
    <3>1. batch \in Seq(Numbers) /\ inbox \in Seq(Numbers)
      BY Zenon DEF WayTypes
    <3>2. batch \o Append(inbox, received) = Append(batch \o inbox, received)
      BY <2>2, <3>1, ConcatAppend
    <3>3. Todo' = batch \o Append(inbox, received)
      BY <2>1, Zenon DEF Todo
    <3>4. Todo \in Seq(Nat)
      BY TodoFacts, Zenon
    <3> QED
      BY <3>2, <3>3, <3>4, Zenon DEF Todo
  <2>8. Lined(Append(Todo, received), pending, replies, received + 1)
    <3>1. Lined(Todo, pending, replies, received) /\ pending \in Seq(Op) /\ replies \in Seq(Op)
      BY <2>3, Zenon DEF OrderInv, WayTypes
    <3> QED
      BY <2>2, <2>7, <3>1, LinedPut, Zenon
  <2> QED
    BY <2>1, <2>3, <2>6, <2>7, <2>8, Zenon DEF OrderInv
<1>4. CASE MarkConnected \/ LookupAgain \/ CreateOnline \/ MarkChanged \/ Greet
  BY <1>4, OrderFrame, Zenon DEF MarkConnected, LookupAgain, CreateOnline, MarkChanged, Greet, state, history
<1>5. CASE UseErased
  <2>1. cpu'.pc = "undefined" /\ UNCHANGED <<inbox, batch, pending, replies>>
    BY <1>5, Zenon DEF UseErased, Undefined, state, history
  <2> QED
    BY <2>1, OrderFrame, Zenon
<1>6. CASE StartBatch
  <2>1. /\ batch = <<>> /\ batch' = inbox /\ inbox' = <<>> /\ cpu' = [pc |-> "batch"]
        /\ UNCHANGED <<pending, replies, rx, received, scenario>>
    <3>1. batch = <<>>
      BY <1>6, Zenon DEF StartBatch, WayTypes
    <3> QED
      BY <1>6, <3>1, Zenon DEF StartBatch, bounds, history
  <2>2. Numbers' = Numbers /\ Fresh' = Fresh
    BY <2>1, Zenon DEF Numbers, Fresh
  <2>3. inbox' \in Seq(Numbers)
    BY <2>1, EmptyFacts, Zenon
  <2>4. cpu'.pc \in {"batch", "undefined"}
    BY <2>1
  <2>5. WayTypes'
    BY <2>1, <2>2, <2>3, <2>4, Zenon DEF WayTypes, Op, Ids
  <2>6. inbox \o <<>> = inbox /\ <<>> \o inbox = inbox
    BY ConcatEmpty, Zenon DEF WayTypes
  <2>7. Todo' = Todo
    BY <2>1, <2>6, Zenon DEF Todo
  <2> QED
    BY <2>1, <2>2, <2>5, <2>7, Zenon DEF OrderInv
<1>7. CASE HelloLimited \/ HelloRefused \/ HelloAccepted \/ AudioFrame \/ Bye \/ Ping \/ Forward
  BY <1>7, ListenersOrder, Zenon
<1>8. CASE PendingIo
  <2>1. /\ pending # <<>> /\ pending' = Tail(pending)
        /\ UNCHANGED <<inbox, batch, rx, cpu, received, scenario>>
    BY <1>8, Zenon DEF PendingIo, bounds
  <2>2. PICK o \in Op : /\ o.msg = Head(pending).msg /\ o.kind = Head(pending).kind
                        /\ replies' = Append(replies, o)
    BY <1>8, TargetFacts, Zenon
  <2>3. Numbers' = Numbers /\ Fresh' = Fresh /\ Todo' = Todo
    BY <2>1, Zenon DEF Numbers, Fresh, Todo
  <2>4. pending' \in Seq(Op) /\ replies' \in Seq(Op)
    BY <2>1, <2>2, TailFacts, AppendFacts DEF WayTypes
  <2>5. WayTypes'
    BY <2>1, <2>3, <2>4, Zenon DEF WayTypes, Op, Ids
  <2>6. Lined(Todo, Tail(pending), Append(replies, o), Fresh)
    <3>1. Todo \in Seq(Nat) /\ pending \in Seq(Op) /\ replies \in Seq(Op)
      BY TodoFacts, Zenon DEF WayTypes
    <3> QED
      BY <2>1, <2>2, <3>1, LinedSend, Zenon DEF OrderInv
  <2> QED
    BY <2>1, <2>2, <2>3, <2>5, <2>6, Zenon DEF OrderInv
<1>9. CASE EndBatch \/ SnapshotBoard \/ SnapshotEntries \/ EndTask
  <2>1. batch = <<>> /\ UNCHANGED <<inbox, batch, pending, replies>>
    BY <1>9, Zenon DEF EndBatch, SnapshotBoard, SnapshotEntries, EndTask, WayTypes, state, history
  <2> QED
    BY <2>1, OrderFrame, Zenon
<1>10. CASE (\E d \in Ids : Sweep(d)) \/ (\E t \in {"heartbeat_check", "session_cleanup"} : TaskNow(t))
  <2>1. batch = <<>> /\ UNCHANGED <<inbox, batch, pending, replies>>
    BY <1>10, Zenon DEF Sweep, TaskNow, WayTypes, state, history
  <2> QED
    BY <2>1, OrderFrame, Zenon
<1>11. CASE Tick
  <2>1. (cpu' = cpu \/ batch = <<>>) /\ UNCHANGED <<inbox, batch, pending, replies>>
    BY <1>11, Zenon DEF Tick, WayTypes
  <2> QED
    BY <2>1, OrderFrame, Zenon
<1> QED
  BY <1>1, <1>2, <1>3, <1>4, <1>5, <1>6, <1>7, <1>8, <1>9, <1>10, <1>11, Zenon DEF Next, RxStep, CpuStep

LEMMA WayInit == Init => PeerInv /\ WayTypes /\ OrderInv
<1> SUFFICES ASSUME Init
             PROVE  PeerInv /\ WayTypes /\ OrderInv
  OBVIOUS
<1>1. PeerInv
  <2>1. scenario \in Scenarios /\ received = 0 /\ rx = Idle /\ DOMAIN board = {}
    BY DEF Init, Empty
  <2>2. Len(scenario.messages) \in Nat
    BY <2>1, SessionsAssumption
  <2>3. rx.pc # "message" /\ rx.pc # "event"
    BY <2>1 DEF Idle
  <2> QED
    BY <2>1, <2>2, <2>3 DEF PeerInv
<1>2. WayTypes
  BY EmptyFacts, Zenon DEF Init, WayTypes
<1>3. DOMAIN Todo = {} /\ DOMAIN pending = {} /\ DOMAIN replies = {}
  BY DEF Init, Todo
<1>4. OrderInv
  BY <1>3, Zenon DEF OrderInv, Lined, Rising, Below, InOrder
<1> QED
  BY <1>1, <1>2, <1>4, Zenon

\* What the gateway hands to the transport and passes on, it does in the order
\* in which the messages were received, for each message the answer first, and
\* nothing twice: for any messages, and whatever links and timers do meanwhile.
THEOREM RepliesTheorem == Spec => []RepliesInOrder
<1>1. Init => IInv /\ PeerInv /\ WayTypes /\ OrderInv
  BY InitIInv, WayInit, Zenon
<1>2. IInv /\ PeerInv /\ WayTypes /\ OrderInv /\ [Next]_vars => (IInv /\ PeerInv /\ WayTypes /\ OrderInv)'
  BY NextKeeps, PeerKeeps, OrderStep, Zenon
<1>3. OrderInv => RepliesInOrder
  BY Zenon DEF OrderInv, Lined, InOrder, Before, RepliesInOrder
<1> QED
  BY <1>1, <1>2, <1>3, PTL DEF Spec

-----------------------------------------------------------------------------
(***************************************************************************)
(* Answers.  As long as a device was neither closed nor removed, its entry *)
(* names the peer that its messages on the way came from: on_tight_message *)
(* has noted it before it puts the message in, and send_to_device, which   *)
(* looks the entry up much later, finds it there.                          *)
(***************************************************************************)

Known(n) ==
    LET d == device_id(scenario.messages[n])
    IN  ended[d] = 0 => d \in DOMAIN board /\ board[d].peer # None

Asks(o) ==
    o.kind # "downstream" =>
        LET m == scenario.messages[o.msg]
        IN  o.msg \in Numbers /\ Known(o.msg) /\ (m.name # NoName => o.to = device_id(m))

Answered(o) ==
    o.kind # "downstream" =>
        LET m == scenario.messages[o.msg]
        IN  /\ o.msg \in Numbers
            /\ Exclusive(device_id(m)) /\ m.name # NoName /\ ended[device_id(m)] = 0 => o.to = m.from

AskerInv ==
    /\ \A j \in DOMAIN Todo : Known(Todo[j])
    /\ \A i \in DOMAIN pending : Asks(pending[i])
    /\ \A i \in DOMAIN replies : Answered(replies[i])

\* A device that was closed or removed stays one that was.
LEMMA EndedGrows ==
    ASSUME GreetInv, [Next]_vars
    PROVE  /\ \A d \in Ids : ended'[d] = 0 => ended[d] = 0
           /\ \A d \in Ids : ended' = [ended EXCEPT ![d] = @ + 1] => ended'[d] # 0
<1>1. ended \in [Ids -> Nat]
  BY Zenon DEF GreetInv
<1>2. ASSUME NEW d, ended' = [ended EXCEPT ![d] = @ + 1]
      PROVE  (\A x \in Ids : ended'[x] = 0 => ended[x] = 0) /\ (d \in Ids => ended'[d] # 0)
  BY <1>1, <1>2
<1>3. CASE ended' = ended
  BY <1>2, <1>3, Zenon
<1>4. CASE UNCHANGED vars \/ Receive \/ Tick \/ (\E p \in Peers : PeerOnline(p) \/ PeerClosed(p))
  BY <1>3, <1>4, Zenon DEF vars, Receive, Tick, PeerOnline, PeerClosed, history
<1>5. CASE RxStep
  BY <1>3, <1>5, Zenon DEF RxStep, Deliver, MarkConnected, LookupAgain, CreateOnline, MarkChanged, Greet,
     UseErased, history
<1>6. CASE StartBatch \/ HelloLimited \/ HelloRefused \/ HelloAccepted \/ AudioFrame \/ Ping \/ Forward
  BY <1>3, <1>6, Zenon DEF StartBatch, HelloLimited, HelloRefused, HelloAccepted, AudioFrame, Ping,
     Forward, history
<1>7. CASE PendingIo \/ EndBatch \/ SnapshotBoard \/ SnapshotEntries \/ EndTask
  BY <1>3, <1>7, Zenon DEF PendingIo, EndBatch, SnapshotBoard, SnapshotEntries, EndTask, history
<1>8. CASE Bye \/ \E d \in Ids : Sweep(d)
  BY <1>2, <1>8, Zenon DEF Bye, Sweep
<1>9. CASE \E t \in {"heartbeat_check", "session_cleanup"} : TaskNow(t)
  BY <1>3, <1>9, Zenon DEF TaskNow, history
<1> QED
  BY <1>4, <1>5, <1>6, <1>7, <1>8, <1>9, Zenon DEF Next, CpuStep

LEMMA AskerKept ==
    ASSUME IInv, PeerInv, GreetInv, [Next]_vars
    PROVE  /\ \A n \in Numbers : Known(n) => Known(n)'
           /\ \A o : Asks(o) => Asks(o)'
           /\ \A o : Answered(o) => Answered(o)'
<1>1. scenario' = scenario
  BY RxChanges, Zenon
<1>2. ASSUME NEW n \in Numbers, Known(n)
      PROVE  Known(n)'
  <2> DEFINE d == device_id(scenario.messages[n])
  <2>1. d \in Ids
    BY ScenarioFacts, Zenon DEF Numbers
  <2>2. SUFFICES ASSUME ended'[d] = 0
                 PROVE  d \in DOMAIN board' /\ board'[d].peer # None
    BY <1>1, Zenon DEF Known
  <2> HIDE DEF d
  <2>3. ended[d] = 0
    BY <2>1, <2>2, EndedGrows, Zenon
  <2>4. d \in DOMAIN board /\ board[d].peer # None
    BY <1>2, <2>3, Zenon DEF Known, d
  <2>5. PeersKept
    BY PeersStep, Zenon
  <2> QED
    BY <2>1, <2>2, <2>4, <2>5, EndedGrows, Zenon DEF PeersKept
<1>3. Numbers' = Numbers /\ \A d : Exclusive(d)' <=> Exclusive(d)
  <2>1. \A d : Uses(d)' = Uses(d)
    BY <1>1, Zenon DEF Uses
  <2>2. \A d : Exclusive(d)' <=> Exclusive(d)
    BY <2>1, Zenon DEF Exclusive
  <2> QED
    BY <1>1, <2>2, Zenon DEF Numbers
<1>4. ASSUME NEW o, Asks(o)
      PROVE  Asks(o)'
  <2> SUFFICES ASSUME o.kind # "downstream"
               PROVE  Asks(o)'
    BY Zenon DEF Asks
  <2> DEFINE m == scenario.messages[o.msg]
  <2>1. o.msg \in Numbers /\ Known(o.msg) /\ (m.name # NoName => o.to = device_id(m))
    BY <1>4, Zenon DEF Asks
  <2>2. Known(o.msg)'
    BY <1>2, <2>1, Zenon
  <2> QED
    BY <1>1, <1>3, <2>1, <2>2, Zenon DEF Asks
<1>5. ASSUME NEW o, Answered(o)
      PROVE  Answered(o)'
  <2> SUFFICES ASSUME o.kind # "downstream"
               PROVE  Answered(o)'
    BY Zenon DEF Answered
  <2> DEFINE m == scenario.messages[o.msg]
  <2>1. o.msg \in Numbers
    BY <1>5, Zenon DEF Answered
  <2>2. device_id(m) \in Ids
    BY <2>1, ScenarioFacts, Zenon DEF Numbers
  <2>3. ended'[device_id(m)] = 0 => ended[device_id(m)] = 0
    BY <2>2, EndedGrows, Zenon
  <2> QED
    BY <1>1, <1>3, <1>5, <2>1, <2>3, Zenon DEF Answered
<1> QED
  BY <1>2, <1>4, <1>5, Zenon

\* Steps that move nothing along the way.
LEMMA AskerFrame ==
    ASSUME IInv, PeerInv, GreetInv, WayTypes, AskerInv, [Next]_vars, UNCHANGED <<pending, replies>>,
           Todo' = Todo
    PROVE  AskerInv'
<1>1. \A j \in DOMAIN Todo : Todo[j] \in Numbers
  BY TodoFacts, Zenon
<1>2. \A j \in DOMAIN Todo' : Known(Todo[j])'
  BY <1>1, AskerKept, Zenon DEF AskerInv
<1> QED
  BY <1>2, AskerKept, Zenon DEF AskerInv

LEMMA AskerDeliver ==
    ASSUME IInv, PeerInv, GreetInv, WayTypes, AskerInv, Deliver
    PROVE  AskerInv'
<1>0. [Next]_vars
  BY Zenon DEF Next, RxStep
<1>1. /\ inbox' = Append(inbox, received) /\ UNCHANGED <<batch, pending, replies, received, scenario>>
      /\ rx.pc = "message" /\ rx.id \in DOMAIN board /\ received \in Numbers
  <2>1. /\ inbox' = Append(inbox, received) /\ UNCHANGED <<batch, pending, replies, received, scenario>>
        /\ rx.pc = "message" /\ rx.id \in DOMAIN board
    BY Zenon DEF Deliver, bounds, history, IInv, Found, Using
  <2>2. received \in Numbers
    BY <2>1, ScenarioFacts DEF PeerInv, Numbers
  <2> QED
    BY <2>1, <2>2, Zenon
<1>2. Todo' = Append(Todo, received)
  <2>1. batch \o Append(inbox, received) = Append(batch \o inbox, received)
    BY <1>1, ConcatAppend DEF WayTypes
  <2> QED
    BY <1>1, <2>1, Zenon DEF Todo
<1>3. \A j \in DOMAIN Todo' : (j \in DOMAIN Todo /\ Todo'[j] = Todo[j]) \/ Todo'[j] = received
  <2>1. received \in Nat /\ Todo \in Seq(Nat) /\ Len(Todo) \in Nat /\ DOMAIN Todo = 1..Len(Todo)
    BY TodoFacts DEF PeerInv
  <2>2. /\ Todo' \in Seq(Nat) /\ Len(Todo') = Len(Todo) + 1
        /\ Todo'[Len(Todo) + 1] = received /\ \A i \in 1..Len(Todo) : Todo'[i] = Todo[i]
    BY <1>2, <2>1, AppendFacts
  <2>3. DOMAIN Todo' = 1..(Len(Todo) + 1)
    BY <2>2, LenFacts
  <2>4. \A j \in 1..(Len(Todo) + 1) : j \in 1..Len(Todo) \/ j = Len(Todo) + 1
    BY <2>1
  <2> QED
    BY <2>1, <2>2, <2>3, <2>4, Zenon
<1>4. Known(received)'
  <2> DEFINE m == scenario.messages[received]
             e == board[rx.id]
  <2>1. rx.id = device_id(m) /\ received \in DOMAIN scenario.messages
    BY <1>1, ScenarioFacts DEF PeerInv
  <2>2. m.from # None
    BY <2>1, ScenarioFacts, SessionsAssumption, Zenon
  <2>3. rx.id \in DOMAIN board' /\ board'[rx.id].peer # None
    <3>1. CASE e.peer # None
      BY <1>1, <3>1, Zenon DEF Deliver
    <3>2. CASE e.peer = None
      <4>1. board' = With(board, rx.id, [e EXCEPT !.peer = m.from])
        BY <3>2, Zenon DEF Deliver, Update
      <4>2. rx.id \in DOMAIN board' /\ board'[rx.id] = [e EXCEPT !.peer = m.from]
        BY <4>1, Zenon DEF With
      <4>3. IsEntry(e)
        BY <1>1, Zenon DEF IInv
      <4>4. board'[rx.id].peer = m.from
        BY <4>2, <4>3, Zenon DEF IsEntry
      <4> QED
        BY <2>2, <4>2, <4>4, Zenon
    <3> QED
      BY <3>1, <3>2, Zenon
  <2> QED
    BY <1>1, <2>1, <2>3, Zenon DEF Known
<1>5. ASSUME NEW j \in DOMAIN Todo'
      PROVE  Known(Todo[j])'
  <2>1. CASE j \in DOMAIN Todo /\ Todo'[j] = Todo[j]
    <3>1. Todo[j] \in Numbers /\ Known(Todo[j])
      BY <2>1, TodoFacts, Zenon DEF AskerInv
    <3>2. PICK n \in Numbers : n = Todo[j]
      BY <3>1, Zenon
    <3>3. Known(n)'
      BY <1>0, <3>1, <3>2, AskerKept, Zenon
    <3>4. Todo'[j] = n
      BY <2>1, <3>2, Zenon
    <3> QED
      BY <3>3, <3>4, Zenon DEF Known
  <2>2. CASE Todo'[j] = received
    BY <1>1, <1>4, <2>2, Zenon DEF Known
  <2> QED
    BY <1>3, <2>1, <2>2, Zenon
<1> QED
  BY <1>0, <1>1, <1>5, AskerKept, Zenon DEF AskerInv

\* A listener answers to the device its message names.
LEMMA AskerListen ==
    ASSUME IInv, PeerInv, GreetInv, WayTypes, AskerInv, [Next]_vars, NEW type, NEW ops \in Seq(Op),
           Listener(type, ops),
           \A i \in DOMAIN ops : ops[i].msg = Head(batch),
           \A i \in DOMAIN ops : \/ ops[i].kind = "downstream"
                                 \/ Current.name # NoName => ops[i].to = device_id(Current)
    PROVE  AskerInv'
<1>1. /\ batch # <<>> /\ batch' = Tail(batch) /\ pending' = pending \o ops
      /\ UNCHANGED <<inbox, scenario, replies>>
  BY Zenon DEF Listener
<1>2. Todo' = Tail(Todo) /\ Todo # <<>> /\ Head(Todo) = Head(batch) /\ Todo \in Seq(Nat)
  <2>1. Todo' = Tail(batch) \o inbox
    BY <1>1, Zenon DEF Todo
  <2> QED
    BY <1>1, <2>1, TodoFacts, Zenon
<1>3. /\ 1 \in DOMAIN Todo /\ Head(Todo) = Todo[1]
      /\ \A j \in DOMAIN Todo' : j + 1 \in DOMAIN Todo /\ Todo'[j] = Todo[j + 1]
  BY <1>2, TailDomain, Zenon
<1>4. \A j \in DOMAIN Todo : Todo[j] \in Numbers /\ Known(Todo[j])
  BY TodoFacts, Zenon DEF AskerInv
<1>5. ASSUME NEW j \in DOMAIN Todo'
      PROVE  Known(Todo[j])'
  <2>1. PICK n \in Numbers : n = Todo[j + 1]
    BY <1>3, <1>4, Zenon
  <2>2. Known(n)'
    BY <1>3, <1>4, <2>1, AskerKept, Zenon
  <2>3. Todo'[j] = n
    BY <1>3, <2>1, Zenon
  <2> QED
    BY <2>2, <2>3, Zenon DEF Known
<1>6. Head(batch) \in Numbers /\ Known(Head(batch))
  BY <1>2, <1>3, <1>4, Zenon
<1>7. ASSUME NEW i \in DOMAIN ops
      PROVE  Asks(ops[i])
  BY <1>6, Zenon DEF Asks, Current
<1>8. \A i \in DOMAIN pending' : \/ i \in DOMAIN pending /\ pending'[i] = pending[i]
                                 \/ \E k \in DOMAIN ops : pending'[i] = ops[k]
  <2>1. /\ pending' \in Seq(Op) /\ Len(pending') = Len(pending) + Len(ops)
        /\ \A i \in 1..(Len(pending) + Len(ops)) :
              pending'[i] = IF i <= Len(pending) THEN pending[i] ELSE ops[i - Len(pending)]
    BY <1>1, ConcatFacts DEF WayTypes
  <2>2. /\ Len(pending) \in Nat /\ Len(ops) \in Nat /\ DOMAIN pending = 1..Len(pending)
        /\ DOMAIN ops = 1..Len(ops) /\ DOMAIN pending' = 1..(Len(pending) + Len(ops))
    BY <2>1, OpSeq DEF WayTypes
  <2>3. ASSUME NEW i \in 1..(Len(pending) + Len(ops)), ~(i <= Len(pending))
        PROVE  i - Len(pending) \in 1..Len(ops)
    BY <2>2, <2>3
  <2>4. ASSUME NEW i \in 1..(Len(pending) + Len(ops)), i <= Len(pending)
        PROVE  i \in 1..Len(pending)
    BY <2>2, <2>4
  <2> QED
    BY <2>1, <2>2, <2>3, <2>4, Zenon
<1>9. ASSUME NEW i \in DOMAIN pending'
      PROVE  Asks(pending[i])'
  <2>1. PICK o : o = pending'[i]
    BY Zenon
  <2>2. Asks(o)
    BY <1>7, <1>8, <2>1, Zenon DEF AskerInv
  <2>3. Asks(o)'
    BY <2>2, AskerKept, Zenon
  <2> QED
    BY <2>1, <2>3, Zenon DEF Asks
<1> QED
  BY <1>1, <1>5, <1>9, AskerKept, Zenon DEF AskerInv

\* send_to_device looks the entry up and finds the peer that asked.
LEMMA AskerSend ==
    ASSUME IInv, PeerInv, GreetInv, WayTypes, AskerInv, PendingIo
    PROVE  AskerInv'
<1>0. [Next]_vars
  BY Zenon DEF Next, CpuStep
<1>1. pending # <<>> /\ pending' = Tail(pending) /\ UNCHANGED <<inbox, batch>>
  BY Zenon DEF PendingIo
<1>2. /\ 1 \in DOMAIN pending /\ Head(pending) = pending[1]
      /\ \A j \in DOMAIN pending' : j + 1 \in DOMAIN pending /\ pending'[j] = pending[j + 1]
  BY <1>1, TailDomain, Zenon DEF WayTypes
<1>3. PICK o \in Op : /\ o.msg = Head(pending).msg /\ o.kind = Head(pending).kind
                      /\ o.kind # "downstream" => o.to = Target(board, Head(pending).to)
                      /\ replies' = Append(replies, o)
  BY TargetFacts, Zenon
<1>4. Answered(o)
  <2> DEFINE m == scenario.messages[o.msg]
             d == device_id(m)
  <2> SUFFICES ASSUME o.kind # "downstream"
               PROVE  Answered(o)
    BY Zenon DEF Answered
  <2>1. Asks(Head(pending)) /\ Head(pending).kind # "downstream"
    BY <1>2, <1>3, Zenon DEF AskerInv
  <2>2. o.msg \in Numbers /\ Known(o.msg) /\ (m.name # NoName => Head(pending).to = d)
    BY <1>3, <2>1, Zenon DEF Asks
  <2>3. ASSUME Exclusive(d), m.name # NoName, ended[d] = 0
        PROVE  o.to = m.from
    <3>1. d \in DOMAIN board /\ board[d].peer # None
      BY <2>2, <2>3, Zenon DEF Known
    <3>2. board[d].peer \in Uses(d)
      BY <3>1, Zenon DEF PeerInv
    <3>3. m.from \in Uses(d)
      BY <2>2, Zenon DEF Uses, Numbers
    <3>4. board[d].peer = m.from
      BY <2>3, <3>2, <3>3, Zenon DEF Exclusive
    <3>5. o.to = Target(board, d)
      BY <1>3, <2>2, <2>3, Zenon
    <3> QED
      BY <3>1, <3>4, <3>5, Zenon DEF Target, device
  <2> QED
    BY <2>2, <2>3, Zenon DEF Answered
<1>5. \A i \in DOMAIN replies' : (i \in DOMAIN replies /\ replies'[i] = replies[i]) \/ replies'[i] = o
  <2>1. /\ replies' \in Seq(Op) /\ Len(replies') = Len(replies) + 1 /\ replies'[Len(replies) + 1] = o
        /\ \A i \in 1..Len(replies) : replies'[i] = replies[i]
    BY <1>3, AppendFacts DEF WayTypes
  <2>2. Len(replies) \in Nat /\ DOMAIN replies = 1..Len(replies) /\ DOMAIN replies' = 1..(Len(replies) + 1)
    BY <2>1, OpSeq DEF WayTypes
  <2> QED
    BY <2>1, <2>2
<1>6. ASSUME NEW i \in DOMAIN replies'
      PROVE  Answered(replies[i])'
  <2>1. PICK a : a = replies'[i]
    BY Zenon
  <2>2. Answered(a)
    BY <1>4, <1>5, <2>1, Zenon DEF AskerInv
  <2>3. Answered(a)'
    BY <1>0, <2>2, AskerKept, Zenon
  <2> QED
    BY <2>1, <2>3, Zenon DEF Answered
<1>7. ASSUME NEW i \in DOMAIN pending'
      PROVE  Asks(pending[i])'
  <2>1. PICK a : a = pending'[i]
    BY Zenon
  <2>2. Asks(a)
    BY <1>2, <2>1, Zenon DEF AskerInv
  <2>3. Asks(a)'
    BY <1>0, <2>2, AskerKept, Zenon
  <2> QED
    BY <2>1, <2>3, Zenon DEF Asks
<1>8. ASSUME NEW j \in DOMAIN Todo'
      PROVE  Known(Todo[j])'
  <2>1. Todo' = Todo
    BY <1>1, Zenon DEF Todo
  <2>2. PICK n \in Numbers : n = Todo[j] /\ Known(n)
    BY <2>1, TodoFacts, Zenon DEF AskerInv
  <2>3. Known(n)'
    BY <1>0, <2>2, AskerKept, Zenon
  <2> QED
    BY <2>1, <2>2, <2>3, Zenon DEF Known
<1> QED
  BY <1>6, <1>7, <1>8, Zenon DEF AskerInv

LEMMA ListenersAsk ==
    ASSUME IInv, PeerInv, GreetInv, WayTypes, AskerInv, [Next]_vars,
           HelloLimited \/ HelloRefused \/ HelloAccepted \/ AudioFrame \/ Bye \/ Ping \/ Forward
    PROVE  AskerInv'
<1>1. batch # <<>>
  BY Zenon DEF HelloLimited, HelloRefused, HelloAccepted, AudioFrame, Bye, Ping, Forward, Listener
<1>2. Current.name \in Ids /\ device_id(Current) \in Ids
  BY <1>1, CurrentFacts, Zenon
<1>3. ASSUME NEW type, NEW ops, Listener(type, ops), NEW d \in Ids,
             NEW kind \in {"hello_err", "hello_ack", "pong"},
             Current.name # NoName => d = device_id(Current),
             \/ ops = <<>> \/ ops = <<Reply(kind, d)>> \/ ops = <<Downstream>>
             \/ ops = <<Reply(kind, d), Downstream>>
      PROVE  AskerInv'
  <2> DEFINE a == Reply(kind, d)
             b == Downstream
             Fits(o) == \/ o.kind = "downstream"
                        \/ Current.name # NoName => o.to = device_id(Current)
  <2>1. /\ a \in Op /\ a.msg = Head(batch) /\ a.to = d
        /\ b \in Op /\ b.msg = Head(batch) /\ b.kind = "downstream" /\ Before(a, b)
    BY <1>1, <1>3, ReplyFacts, Zenon
  <2>2. Fits(a) /\ Fits(b)
    BY <1>3, <2>1, Zenon
  <2>3. ops = <<>> \/ ops = <<a>> \/ ops = <<b>> \/ ops = <<a, b>>
    BY <1>3, Zenon
  <2> HIDE DEF a, b, Fits
  <2>4. ops \in Seq(Op) /\ \A i \in DOMAIN ops : ops[i].msg = Head(batch)
    <3>1. /\ <<>> \in Seq(Op) /\ \A i \in DOMAIN <<>> : <<>>[i].msg = Head(batch)
          /\ <<a>> \in Seq(Op) /\ \A i \in DOMAIN <<a>> : <<a>>[i].msg = Head(batch)
          /\ <<b>> \in Seq(Op) /\ \A i \in DOMAIN <<b>> : <<b>>[i].msg = Head(batch)
          /\ <<a, b>> \in Seq(Op) /\ \A i \in DOMAIN <<a, b>> : <<a, b>>[i].msg = Head(batch)
      BY <2>1, ShortSeqs, Zenon
    <3> QED
      BY <2>3, <3>1, Zenon
  <2>5. \A i \in DOMAIN ops : ops[i] = a \/ ops[i] = b
    BY <2>3
  <2>6. \A i \in DOMAIN ops : Fits(ops[i])
    BY <2>2, <2>5, Zenon
  <2> QED
    BY <1>3, <2>4, <2>6, AskerListen, Zenon DEF Fits
<1>4. CASE HelloLimited
  <2>1. Current.name # NoName => Current.name = device_id(Current)
    BY <1>4, Zenon DEF HelloLimited, Listener, device_id
  <2> QED
    BY <1>2, <1>3, <1>4, <2>1, Zenon DEF HelloLimited
<1>5. CASE HelloRefused
  BY <1>2, <1>3, <1>5, Zenon DEF HelloRefused
<1>6. CASE HelloAccepted
  BY <1>2, <1>3, <1>6, Zenon DEF HelloAccepted
<1>7. CASE AudioFrame
  <2>1. \/ Listener("audio", <<Downstream>>)
        \/ Listener("audio", <<>>)
    BY <1>7, Zenon DEF AudioFrame
  <2> QED
    BY <1>2, <1>3, <2>1, Zenon
<1>8. CASE Bye \/ Forward
  BY <1>2, <1>3, <1>8, Zenon DEF Bye, Forward
<1>9. CASE Ping
  BY <1>2, <1>3, <1>9, Zenon DEF Ping
<1> QED
  BY <1>4, <1>5, <1>6, <1>7, <1>8, <1>9, Zenon

LEMMA AskerStep ==
    ASSUME IInv, PeerInv, GreetInv, WayTypes, AskerInv, [Next]_vars
    PROVE  AskerInv'
<1>1. CASE UNCHANGED <<inbox, batch, pending, replies>>
  <2>1. Todo' = Todo
    BY <1>1, Zenon DEF Todo
  <2> QED
    BY <1>1, <2>1, AskerFrame, Zenon
<1>2. CASE UNCHANGED vars \/ Receive \/ Tick \/ (\E p \in Peers : PeerOnline(p) \/ PeerClosed(p))
  BY <1>1, <1>2, Zenon DEF vars, Receive, Tick, PeerOnline, PeerClosed, state, history
<1>3. CASE MarkConnected \/ LookupAgain \/ CreateOnline \/ MarkChanged \/ Greet \/ UseErased
  BY <1>1, <1>3, Zenon DEF MarkConnected, LookupAgain, CreateOnline, MarkChanged, Greet, UseErased, state,
     history
<1>4. CASE EndBatch \/ SnapshotBoard \/ SnapshotEntries \/ EndTask \/ (\E d \in Ids : Sweep(d))
           \/ (\E t \in {"heartbeat_check", "session_cleanup"} : TaskNow(t))
  BY <1>1, <1>4, Zenon DEF EndBatch, SnapshotBoard, SnapshotEntries, EndTask, Sweep, TaskNow, state, history
<1>5. CASE StartBatch
  <2>1. batch = <<>> /\ batch' = inbox /\ inbox' = <<>> /\ UNCHANGED <<pending, replies>>
    <3>1. batch = <<>>
      BY <1>5, Zenon DEF StartBatch, WayTypes
    <3> QED
      BY <1>5, <3>1, Zenon DEF StartBatch, history
  <2>2. inbox \o <<>> = inbox /\ <<>> \o inbox = inbox
    BY ConcatEmpty, Zenon DEF WayTypes
  <2>3. Todo' = Todo
    BY <2>1, <2>2, Zenon DEF Todo
  <2> QED
    BY <2>1, <2>3, AskerFrame, Zenon
<1> QED
  BY <1>2, <1>3, <1>4, <1>5, AskerDeliver, ListenersAsk, AskerSend, Zenon DEF Next, RxStep, CpuStep

\* An answer goes to the peer whose message it answers, although the listener
\* only gives the name of the device and send_to_device looks the peer up later:
\* as long as one peer uses the name, and the device was not closed or removed.
THEOREM AskerTheorem == Spec => []AnswersReachAsker
<1> DEFINE Inv == IInv /\ GreetInv /\ PeerInv /\ WayTypes /\ OrderInv /\ AskerInv
<1>1. Init => Inv
  <2>1. Init => GreetInv
    BY DEF Init, GreetInv, Owed, Conn, Empty, Idle
  <2>2. Init => DOMAIN Todo = {} /\ DOMAIN pending = {} /\ DOMAIN replies = {}
    BY DEF Init, Todo
  <2>3. Init => AskerInv
    BY <2>2, Zenon DEF AskerInv
  <2> QED
    BY <2>1, <2>3, InitIInv, WayInit, Zenon
<1>2. Inv /\ [Next]_vars => Inv'
  BY NextKeeps, GreetKeeps, PeerKeeps, OrderStep, AskerStep, Zenon
<1>3. Inv => AnswersReachAsker
  BY Zenon DEF AskerInv, Answered, AnswersReachAsker
<1> QED
  BY <1>1, <1>2, <1>3, PTL DEF Spec

=============================================================================
