----------------------------- MODULE Deployment -----------------------------
(***************************************************************************)
(* The launcher, the shards and the router together: processes that fail,  *)
(* calls in flight when they do, health checks that race with them, and a  *)
(* shutdown in which everybody waits for somebody.                         *)
(***************************************************************************)
EXTENDS Launcher, ShardedClient

vars == <<procVars, launcherVars, clientVars>>

Init == ProcInit /\ LauncherInit /\ ClientInit

-----------------------------------------------------------------------------
\* A shard fails, at any time.
ShardCrashes(s) ==
    /\ Alive(s) /\ Fails
    /\ shard' = [shard EXCEPT ![s] = "exited"] /\ inbox' = [inbox EXCEPT ![s] = <<>>]
    /\ UNCHANGED <<socket, router, launcherVars, sent, waiting, result, task, next, generation_health, check>>

\* The router connects to all shards and clears their caches, or panics.
RouterConnects ==
    /\ router = "starting"
    /\ IF \A s \in Shards : shard[s] = "serving" THEN router' = "serving" /\ UNCHANGED clientVars
       ELSE router' = "exited" /\ RouterGone
    /\ UNCHANGED <<shard, socket, crashes, launcherVars>>

RouterCrashes ==
    /\ router \in {"starting", "serving", "stopping", "draining"} /\ Fails
    /\ router' = "exited" /\ RouterGone
    /\ UNCHANGED <<shard, socket, launcherVars>>

\* do_run after the signal: the HTTP server ends when no check is left, then the
\* gRPC server when no request is.
ChecksEnd ==
    /\ router = "stopping" /\ \A c \in Checks : check[c] \notin {"basic", "probe"}
    /\ router' = "draining"
    /\ UNCHANGED <<shard, socket, crashes, launcherVars, clientVars>>

RouterStops ==
    /\ router = "draining" /\ ~waiting[Batcher]
    /\ router' = "exited" /\ RouterGone
    /\ UNCHANGED <<shard, socket, crashes, launcherVars>>

\* What is scheduled: threads and tasks, a shard that was started comes up and handles
\* the calls it receives, the collective operations and the health checks time out.
Scheduled ==
    \/ UNCHANGED clientVars /\ (Main \/ \E s \in Shards : Manager(s))
    \/ RouterConnects \/ ChecksEnd \/ RouterStops
    \/ UNCHANGED launcherVars /\ \/ \E s \in Shards, c \in Clients : Task(c, s)
                                 \/ Collective \/ \E s \in Shards : CollectiveTimesOut(s)
                                 \/ BatcherAnswered \/ \E c \in Checks : ProbeEnds(c) \/ CheckCancelled(c)
    \/ \E s \in Shards : ShardServes(s) /\ UNCHANGED <<launcherVars, clientVars>>

\* What may happen: signals, failures, and calls.
Unscheduled ==
    \/ UNCHANGED clientVars /\ (CtrlC \/ \E s \in Shards : StartShardFails(s))
    \/ RouterCrashes \/ \E s \in Shards : ShardCrashes(s)
    \/ UNCHANGED launcherVars /\ \/ \E s \in Shards : RankRaises(s)
                                 \/ BatcherCalls \/ \E c \in Checks : CheckStarts(c) \/ BasicEnds(c)

Next == Scheduled \/ Unscheduled

Spec == Init /\ [][Next]_vars

\* There are finitely many steps in all, so that it is enough that one of those
\* scheduled is taken as long as there is any.
FairSpec == Spec /\ WF_vars(Scheduled)

-----------------------------------------------------------------------------
(* Properties.                                                              *)

\* "Clean previous runs": the router is started only once each shard has bound its
\* socket in this run; a file left by an earlier one does not pass for it, unless it
\* could not be removed.
RouterFollowsShards ==
    router = "starting" => \A s \in Shards : shard[s] \in {"serving", "exited"} \/ socket[s] = "stuck"

\* When the launcher has ended, so have all processes it started (they are in
\* process groups of their own and get no signal with it).
NoOrphans == main = "exited" => router \in {"none", "exited"} /\ \A s \in Shards : ~Alive(s)

\* No shard is told to go while the router still runs: terminate_gracefully lets the
\* requests in flight finish first.
RouterGoesFirst == shutdown => router \in {"none", "exited"}

\* A signal, or the end of a shard or of the router for whatever reason, ends the
\* deployment: a shard's thread reports it or is told to stop, the router's calls are
\* answered though a shard is dead or stuck in a collective operation, and nobody
\* waits for anybody forever.
EverythingEnds ==
    ~running \/ router = "exited" \/ (\E s \in Shards : shard[s] = "exited") ~> main = "exited"

\* Every call of the batching task is answered or ends with the router, even if the
\* shards handle a probe and a call in different orders and block each other.
CallsEnd == waiting[Batcher] ~> ~waiting[Batcher]
=============================================================================
