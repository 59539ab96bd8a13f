------------------------------ MODULE MCSessions ------------------------------
(* The instances of GatewaySessions that TLC checks. *)
EXTENDS GatewaySessions

Msg(t, p, n, ok) == [type |-> t, from |-> p, name |-> n, complete |-> ok]

\* One second a tick: a hello every two, one audio frame each.
Buckets == [connection |-> [rate |-> 1, capacity |-> 2, cost |-> 2],
            bandwidth |-> [rate |-> 1, capacity |-> 1, cost |-> 1]]

Both == {"heartbeat_check", "session_cleanup"}
Story(msgs, ps, ts, n) == [messages |-> msgs, peers |-> ps, tasks |-> ts, ticks |-> n]

Hello(p) == Msg("hello", p, "d", TRUE)

Stories ==
    { \* a device that says hello too often
      Story(<<Hello("p"), Hello("p"), Hello("p")>>, {}, {}, 3),
      \* incomplete credentials, and none
      Story(<<Msg("hello", "p", "d", FALSE), Msg("hello", "q", NoName, TRUE)>>, {"p"}, {}, 1),
      \* a call, with the timer functions in between
      Story(<<Hello("p"), Msg("bye", "p", "d", TRUE)>>, {}, Both, 2),
      Story(<<Msg("audio", "p", "d", TRUE), Msg("audio", "p", "d", TRUE)>>, {"p"},
            {"session_cleanup"}, 1),
      \* a device named like its peer, so that both threads work on one entry
      Story(<<Msg("hello", "p", "p", TRUE), Msg("bye", "p", "p", TRUE)>>, {"p"}, Both, 1),
      \* the name of a device from a second peer
      Story(<<Hello("p"), Msg("forward", "q", "d", TRUE), Msg("ping", "p", "d", TRUE)>>,
            {"q"}, {"heartbeat_check"}, 1),
      \* a device of one peer, named like another that comes online
      Story(<<Msg("hello", "q", "p", TRUE)>>, {"p"}, {}, 0) }
Race == {Story(<<>>, {"p"}, {"heartbeat_check"}, 0)}
===============================================================================
