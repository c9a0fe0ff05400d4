----------------------------- MODULE Processes ------------------------------
(***************************************************************************)
(* The processes of a deployment that the launcher starts and that talk to *)
(* each other over unix sockets: one shard per rank, and the router.       *)
(***************************************************************************)
EXTENDS Integers, Sequences, FiniteSets, SequencesExt

CONSTANTS
    Shards,         \* the ranks
    MaxCrashes      \* bound: processes that fail by themselves

ASSUME ShardsAssumption ==
    /\ IsFiniteSet(Shards) /\ Shards # {} /\ Shards = 0 .. Cardinality(Shards) - 1
    /\ MaxCrashes \in Nat

VARIABLES
    shard,          \* the process of a rank
    socket,         \* the file of its unix socket
    router,         \* the router's process
    crashes

procVars == <<shard, socket, router, crashes>>

\* A file of an earlier run may be left (stale).
ProcInit ==
    /\ shard = [s \in Shards |-> "none"] /\ socket \in [Shards -> {"absent", "stale"}]
    /\ router = "none" /\ crashes = 0

Alive(s) == shard[s] \in {"starting", "serving"}
Fails == crashes < MaxCrashes /\ crashes' = crashes + 1

\* serve, up to the server's start: the port is bound last.
ShardServes(s) ==
    /\ shard[s] = "starting"
    /\ shard' = [shard EXCEPT ![s] = "serving"] /\ socket' = [socket EXCEPT ![s] = "bound"]
    /\ UNCHANGED <<router, crashes>>
=============================================================================
