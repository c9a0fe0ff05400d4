------------------------------ MODULE Launcher ------------------------------
(***************************************************************************)
(* The launcher (launcher/src/main.rs): a thread per shard that starts its *)
(* process and polls it, and the main thread, which starts the router when *)
(* all shards are ready, watches both and shuts everything down.  The      *)
(* threads share the flag shutdown and two channels: statuses, and one     *)
(* whose senders are dropped when the threads return.                      *)
(***************************************************************************)
EXTENDS Processes

VARIABLES
    running,        \* no signal to stop has been received
    main,           \* the main thread
    manager,        \* the thread of a shard
    ready,          \* what it knows of the shard
    statuses,       \* the status channel
    shard_ready,    \* shards that have reported
    shutdown

launcherVars == <<running, main, manager, ready, statuses, shard_ready, shutdown>>

\* The environment may set the two cache directories differently, for all threads.
LauncherInit ==
    /\ running = TRUE /\ main = "wait_shards"
    /\ \E at \in {"start", "misconfigured"} : manager = [s \in Shards |-> at]
    /\ ready = [s \in Shards |-> FALSE] /\ statuses = <<>> /\ shard_ready = 0
    /\ shutdown = FALSE

-----------------------------------------------------------------------------
(* shard_manager.  Its loop polls the process, the flag and, until the      *)
(* shard is ready, the socket; a round that changes nothing is no step.     *)

ManagerAt(s, from, to) == manager[s] = from /\ manager' = [manager EXCEPT ![s] = to]

LeavesSocket(s) == {socket}    \* mutant
\* What may become of the socket of an earlier run: that it cannot be removed (it is
\* stuck) is ignored.
CleanPreviousRuns(s) ==
    {[socket EXCEPT ![s] = "absent"]}
        \union (IF socket[s] = "stale" THEN {[socket EXCEPT ![s] = "stuck"]} ELSE {})

StartShard(s) ==
    /\ ManagerAt(s, "start", "poll")
    /\ socket' \in CleanPreviousRuns(s) /\ shard' = [shard EXCEPT ![s] = "starting"]
    /\ UNCHANGED <<router, crashes, running, main, ready, statuses, shard_ready, shutdown>>

\* The caches differ: the thread panics, and drops its senders without a status.
StartShardPanics(s) ==
    /\ ManagerAt(s, "misconfigured", "gone")
    /\ socket' \in CleanPreviousRuns(s)
    /\ UNCHANGED <<shard, router, crashes, running, main, ready, statuses, shard_ready, shutdown>>

\* The process cannot be started.
StartShardFails(s) ==
    /\ ManagerAt(s, "start", "gone") /\ Fails
    /\ socket' \in CleanPreviousRuns(s) /\ statuses' = Append(statuses, "Failed")
    /\ UNCHANGED <<shard, router, running, main, ready, shard_ready, shutdown>>

\* The process has ended or is to be killed; otherwise the socket is looked at, by
\* when the process may have ended.
PollShard(s) ==
    /\ \/ ~Alive(s) /\ ~shutdown /\ ManagerAt(s, "poll", "join_output") /\ UNCHANGED shard
       \/ shutdown /\ ManagerAt(s, "poll", "gone") /\ shard' = [shard EXCEPT ![s] = "exited"]
       \/ Alive(s) /\ ~shutdown /\ ~ready[s] /\ ManagerAt(s, "poll", "check_socket") /\ UNCHANGED shard
    /\ UNCHANGED <<socket, router, crashes, running, main, ready, statuses, shard_ready, shutdown>>

UdsExists(s) == socket[s] # "absent"

CheckSocket(s) ==
    /\ ManagerAt(s, "check_socket", "poll")
    /\ UdsExists(s) \/ ~Alive(s) \/ shutdown
    /\ ready' = [ready EXCEPT ![s] = UdsExists(s)]
    /\ statuses' = IF UdsExists(s) THEN Append(statuses, "Ready") ELSE statuses
    /\ UNCHANGED <<procVars, running, main, shard_ready, shutdown>>

\* A process that ended without being told to is reported once its output has been
\* read to the end.
ReportFailed(s) ==
    /\ ManagerAt(s, "join_output", "gone")
    /\ statuses' = Append(statuses, "Failed")
    /\ UNCHANGED <<procVars, running, main, ready, shard_ready, shutdown>>

Manager(s) == StartShard(s) \/ StartShardPanics(s) \/ PollShard(s) \/ CheckSocket(s) \/ ReportFailed(s)

-----------------------------------------------------------------------------
(* main.                                                                    *)

\* The handler of the signals clears the flag.
CtrlC ==
    /\ running /\ running' = FALSE
    /\ UNCHANGED <<procVars, main, manager, ready, statuses, shard_ready, shutdown>>

\* shutdown_shards: set the flag, then wait for the senders.
ShutdownShards == shutdown' = TRUE /\ main' = "wait_senders"

\* One round of the loop that waits for the shards.
WaitShards ==
    /\ main = "wait_shards"
    /\ \/ /\ running /\ statuses # <<>> /\ Head(statuses) = "Ready"
          /\ shard_ready' = shard_ready + 1
          /\ main' = IF shard_ready' = Cardinality(Shards) THEN "start_router" ELSE main
          /\ UNCHANGED shutdown
       \/ /\ running /\ statuses # <<>> /\ Head(statuses) = "Failed"
          /\ ShutdownShards /\ UNCHANGED shard_ready
       \/ ~running /\ ShutdownShards /\ UNCHANGED shard_ready
    /\ statuses' = IF running THEN Tail(statuses) ELSE statuses
    /\ UNCHANGED <<procVars, running, manager, ready>>

StartRouter ==
    /\ main = "start_router"
    /\ \/ /\ running /\ router' = "starting" /\ main' = "monitor"
          /\ UNCHANGED <<shutdown, crashes>>
       \/ /\ running /\ Fails /\ ShutdownShards
          /\ UNCHANGED router
       \/ ~running /\ ShutdownShards /\ UNCHANGED <<router, crashes>>
    /\ UNCHANGED <<shard, socket, running, manager, ready, statuses, shard_ready>>

\* SIGTERM ends a router that has not installed its handler yet.
Sigterm == IF router = "serving" THEN "stopping" ELSE IF router = "starting" THEN "exited" ELSE router

ForgetsRouter == ShutdownShards /\ UNCHANGED router    \* mutant
\* terminate_gracefully: signal the router and wait for it before the shards go.
TerminateGracefully == router' = Sigterm /\ main' = "wait_router" /\ UNCHANGED shutdown

OnlyWhileStarting == FALSE    \* mutant
ShardFailed == statuses # <<>> /\ Head(statuses) = "Failed"

\* The loop that watches shards and router; either may fail while the other is
\* looked at.
Monitor ==
    /\ main = "monitor"
    /\ \/ running /\ ShardFailed /\ TerminateGracefully
       \/ running /\ router = "exited" /\ ShutdownShards /\ UNCHANGED router
       \/ ~running /\ TerminateGracefully
    /\ statuses' = IF running /\ ShardFailed /\ main' = "wait_router" THEN Tail(statuses) ELSE statuses
    /\ UNCHANGED <<shard, socket, crashes, running, manager, ready, shard_ready>>

WaitRouter ==
    /\ main = "wait_router" /\ router = "exited"
    /\ ShutdownShards
    /\ UNCHANGED <<procVars, running, manager, ready, statuses, shard_ready>>

NotAwaited == TRUE    \* mutant
SendersDropped == \A s \in Shards : manager[s] = "gone"

Exit ==
    /\ main = "wait_senders" /\ SendersDropped
    /\ main' = "exited"
    /\ UNCHANGED <<procVars, running, manager, ready, statuses, shard_ready, shutdown>>

Main == WaitShards \/ StartRouter \/ Monitor \/ WaitRouter \/ Exit
=============================================================================
