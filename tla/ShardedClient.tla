--------------------------- MODULE ShardedClient ----------------------------
(***************************************************************************)
(* The router's connections to all shards (client/src/sharded_client.rs)   *)
(* and the health check (health.rs, health in server.rs).  A client has a  *)
(* broadcast channel and a task per shard that makes the calls on its      *)
(* shard one by one; the first answer to a call is its result.  The        *)
(* batching task is one client, and every health check clones another, so  *)
(* that calls of different clients reach the shards in any order.  The     *)
(* forward pass of a call is collective: a shard gets through it with all  *)
(* others, or fails by the timeout of the collective operations.           *)
(***************************************************************************)
EXTENDS Processes

CONSTANTS
    Capacity,       \* of the broadcast channel
    MaxCalls,       \* bound: calls of the batching task
    Checks          \* bound: health checks, numbered from 1

ASSUME ClientAssumption == Capacity \in Nat \ {0} /\ MaxCalls \in Nat /\ Checks \subseteq Nat \ {0}

Batcher == 0
Clients == {Batcher} \union Checks

VARIABLES
    sent,               \* calls a client has broadcast
    waiting,            \* it awaits the first answer to the last of them
    result,             \* that answer
    task,               \* its task of a shard
    next,               \* the call that the task makes or waits for
    inbox,              \* calls that a shard has received, the first being handled
    generation_health,
    check               \* what a health check does

clientVars == <<sent, waiting, result, task, next, inbox, generation_health, check>>

ClientInit ==
    /\ sent = [c \in Clients |-> 0] /\ waiting = [c \in Clients |-> FALSE] /\ result = [c \in Clients |-> "none"]
    /\ task = [c \in Clients |-> [s \in Shards |-> "recv"]] /\ next = [c \in Clients |-> [s \in Shards |-> 1]]
    /\ inbox = [s \in Shards |-> <<>>] /\ generation_health = FALSE /\ check = [c \in Checks |-> "none"]

\* The router's process is gone, and its memory with it.
RouterGone ==
    /\ waiting' = [c \in Clients |-> FALSE] /\ result' = [c \in Clients |-> "none"]
    /\ task' = [c \in Clients |-> [s \in Shards |-> "ended"]]
    /\ sent' = [c \in Clients |-> 0] /\ next' = [c \in Clients |-> [s \in Shards |-> 1]]
    /\ check' = [c \in Checks |-> "done"] /\ generation_health' = FALSE
    /\ UNCHANGED inbox

-----------------------------------------------------------------------------
(* prefill and next_token of ShardedClient, and its tasks.                  *)

\* Without a receiver the broadcast fails.
Broadcast(c) ==
    IF \A s \in Shards : task[c][s] = "ended"
    THEN waiting' = [waiting EXCEPT ![c] = TRUE] /\ result' = [result EXCEPT ![c] = "error"] /\ UNCHANGED sent
    ELSE /\ sent' = [sent EXCEPT ![c] = sent[c] + 1]
         /\ waiting' = [waiting EXCEPT ![c] = TRUE] /\ result' = [result EXCEPT ![c] = "none"]

Lagged(c, s) == sent[c] - next[c][s] + 1 > Capacity

\* A task takes the next call; one that has lagged behind the channel ends.
Receive(c, s) ==
    /\ task[c][s] = "recv" /\ next[c][s] <= sent[c]
    /\ task' = [task EXCEPT ![c][s] = IF Lagged(c, s) THEN "ended" ELSE IF shard[s] = "serving" THEN "call" ELSE "error"]
    /\ inbox' = IF ~Lagged(c, s) /\ shard[s] = "serving" THEN [inbox EXCEPT ![s] = Append(@, <<c, next[c][s]>>)] ELSE inbox
    /\ UNCHANGED <<procVars, sent, waiting, result, next, generation_health, check>>

ConnectionHangs(s) == FALSE    \* mutant
ConnectionLost(s) == shard[s] = "exited"

CallFails(c, s) ==
    /\ task[c][s] = "call" /\ ConnectionLost(s)
    /\ task' = [task EXCEPT ![c][s] = "error"]
    /\ UNCHANGED <<procVars, sent, waiting, result, next, inbox, generation_health, check>>

\* response_chan.try_send: only the first answer to the last call is seen.
Respond(c, s) ==
    /\ task[c][s] \in {"ok", "error"}
    /\ result' = IF waiting[c] /\ next[c][s] = sent[c] /\ result[c] = "none" THEN [result EXCEPT ![c] = task[c][s]] ELSE result
    /\ task' = [task EXCEPT ![c][s] = "recv"]
    /\ next' = [next EXCEPT ![c][s] = @ + 1]
    /\ UNCHANGED <<procVars, sent, waiting, inbox, generation_health, check>>

-----------------------------------------------------------------------------
(* The handlers of the shards.                                              *)

Handled(S, answer) ==
    /\ inbox' = [s \in Shards |-> IF s \in S THEN Tail(inbox[s]) ELSE inbox[s]]
    /\ task' = [c \in Clients |-> [s \in Shards |->
            IF s \in S /\ Head(inbox[s])[1] = c /\ task[c][s] = "call" THEN answer ELSE task[c][s]]]
    /\ UNCHANGED <<procVars, sent, waiting, result, next, generation_health, check>>

\* All shards handle the same call, and answer or raise alike.
Collective ==
    /\ \A s \in Shards : shard[s] = "serving" /\ inbox[s] # <<>> /\ Head(inbox[s]) = Head(inbox[0])
    /\ \E answer \in {"ok", "error"} : Handled(Shards, answer)

\* One of them raises on its own, having run out of memory.
RankRaises(s) ==
    /\ shard[s] = "serving" /\ inbox[s] # <<>> /\ Fails
    /\ inbox' = [inbox EXCEPT ![s] = Tail(@)]
    /\ task' = [c \in Clients |-> IF Head(inbox[s])[1] = c /\ task[c][s] = "call" THEN [task[c] EXCEPT ![s] = "error"] ELSE task[c]]
    /\ UNCHANGED <<shard, socket, router, sent, waiting, result, next, generation_health, check>>

\* Whether a shard may still take part in a call that another one handles.
MayJoin(s, call) ==
    /\ shard[s] = "serving"
    /\ IF inbox[s] # <<>> THEN Head(inbox[s]) = call
       ELSE task[call[1]][s] \in {"recv", "ok", "error"}
            /\ next[call[1]][s] <= call[2] - (IF task[call[1]][s] = "recv" THEN 0 ELSE 1)

\* initialize_torch_distributed sets a timeout: the process ends (NCCL), or the
\* handler raises (gloo).
CollectiveTimesOut(s) ==
    /\ shard[s] = "serving" /\ inbox[s] # <<>>
    /\ \E u \in Shards : ~MayJoin(u, Head(inbox[s]))
    /\ \/ /\ shard' = [shard EXCEPT ![s] = "exited"] /\ inbox' = [inbox EXCEPT ![s] = <<>>]
          /\ UNCHANGED <<socket, router, crashes, sent, waiting, result, task, next, generation_health, check>>
       \/ Handled({s}, "error")

-----------------------------------------------------------------------------
(* The callers: the batching task, and Health::check.                       *)

BatcherCalls ==
    /\ router \in {"serving", "stopping", "draining"} /\ ~waiting[Batcher] /\ sent[Batcher] < MaxCalls
    /\ Broadcast(Batcher)
    /\ UNCHANGED <<procVars, task, next, inbox, generation_health, check>>

\* _wrap_future; a next_token that only cleaned up does not tell of the health.
BatcherAnswered ==
    /\ waiting[Batcher] /\ result[Batcher] # "none"
    /\ waiting' = [waiting EXCEPT ![Batcher] = FALSE] /\ result' = [result EXCEPT ![Batcher] = "none"]
    /\ generation_health' \in IF result[Batcher] = "ok" THEN {TRUE, generation_health} ELSE {FALSE}
    /\ UNCHANGED <<procVars, sent, task, next, inbox, check>>

\* A check asks the shards for their health, or probes with a prefill.
CheckStarts(c) ==
    /\ router = "serving" /\ check[c] = "none"
    /\ \/ generation_health /\ check' = [check EXCEPT ![c] = "basic"] /\ UNCHANGED <<sent, waiting, result>>
       \/ ~generation_health /\ check' = [check EXCEPT ![c] = "probe"] /\ Broadcast(c)
    /\ UNCHANGED <<procVars, task, next, inbox, generation_health>>

\* All shards have answered, or their connections have failed.
BasicEnds(c) ==
    /\ check[c] = "basic" /\ \A s \in Shards : shard[s] = "serving" => inbox[s] = <<>>
    /\ check' = [check EXCEPT ![c] = "done"]
    /\ UNCHANGED <<procVars, sent, waiting, result, task, next, inbox, generation_health>>

ProbeEnds(c) ==
    /\ check[c] = "probe" /\ result[c] # "none"
    /\ check' = [check EXCEPT ![c] = "done"] /\ waiting' = [waiting EXCEPT ![c] = FALSE]
    /\ generation_health' = (result[c] = "ok") /\ result' = [result EXCEPT ![c] = "none"]
    /\ UNCHANGED <<procVars, sent, task, next, inbox>>

\* The caller leaves, or PROBE_TIMEOUT_SECS have passed; a probe that was broadcast
\* stays with the tasks.
CheckCancelled(c) ==
    /\ check[c] \in {"basic", "probe"}
    /\ check' = [check EXCEPT ![c] = "done"]
    /\ waiting' = [waiting EXCEPT ![c] = FALSE] /\ result' = [result EXCEPT ![c] = "none"]
    /\ UNCHANGED <<procVars, sent, task, next, inbox, generation_health>>

Task(c, s) == Receive(c, s) \/ CallFails(c, s) \/ Respond(c, s)
=============================================================================
