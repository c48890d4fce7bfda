------------------------------ MODULE MCCommands ------------------------------
(* The command channel on small instances. *)
EXTENDS DeliveryInvariant

MCIntervals == {100, 200, 300}
Set(v) == [kind |-> "set_interval", interval_ms |-> v]
Plain(k) == [kind |-> k, interval_ms |-> NoInterval]
Message(id, c) == [request_id |-> id, command |-> c]

\* Both entries change the interval; the remote one also asks for statistics
\* and sends duplicates, a conflict and messages to be rejected.
SetLocally == {Set(200)}
SetRemotely == {Message("r1", Set(300))}
RemoteMix ==
    SetRemotely \cup
    {Message("r2", Plain("get_storage_stats")), Message("r1", Plain("query")),
     Message("r3", Unsupported), Message(BadId, Plain("query"))}

PauseLocally == {Plain("pause_collection")}
NoCommands == {}
=============================================================================
