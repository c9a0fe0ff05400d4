-------------------------- MODULE DeploymentProofs --------------------------
(***************************************************************************)
(* Proofs about the launcher and the processes it starts, for any number   *)
(* of shards, calls, health checks and crashes: the router is started only *)
(* after all shards, goes before them, and nothing outlives the launcher.  *)
(***************************************************************************)
EXTENDS Deployment, FiniteSetTheorems, TLAPS

(* The inductive invariant. *)

ProcTypes ==
    /\ shard \in [Shards -> {"none", "starting", "serving", "exited"}]
    /\ socket \in [Shards -> {"absent", "stale", "stuck", "bound"}]
    /\ router \in {"none", "starting", "serving", "stopping", "draining", "exited"}

LauncherTypes ==
    /\ manager \in [Shards -> {"start", "misconfigured", "poll", "check_socket", "join_output", "gone"}]
    /\ ready \in [Shards -> BOOLEAN]
    /\ main \in {"wait_shards", "start_router", "monitor", "wait_router", "wait_senders", "exited"}
    /\ shutdown \in BOOLEAN
    /\ statuses \in Seq({"Ready", "Failed"})
    /\ shard_ready \in Nat

\* What the thread of a shard and the state of its process say of each other: once the
\* thread has cleaned the socket of an earlier run, a socket is that of a process that
\* has come up or could not be removed, and the thread returns only when the process is
\* gone.
ThreadFits(s) ==
    /\ manager[s] \in {"start", "misconfigured"} => shard[s] = "none" /\ ~ready[s]
    /\ shard[s] = "none" => manager[s] \in {"start", "misconfigured", "gone"}
    /\ manager[s] \in {"join_output", "gone"} => shard[s] \in {"none", "exited"}
    /\ manager[s] = "check_socket" => ~ready[s]
    /\ manager[s] \in {"poll", "check_socket"} => socket[s] # "stale"
    /\ socket[s] = "bound" => shard[s] \in {"serving", "exited"}
    /\ ready[s] => socket[s] \in {"stuck", "bound"}
ThreadsFit == \A s \in Shards : ThreadFits(s)

\* What the main thread has done when it gets where it is.
MainFits ==
    /\ shutdown <=> main \in {"wait_senders", "exited"}
    /\ main \in {"wait_shards", "start_router"} => router = "none"
    /\ router \notin {"none", "exited"} => main \in {"monitor", "wait_router"}
    /\ main = "exited" => SendersDropped
    /\ main \in {"start_router", "monitor", "wait_router"} => \A s \in Shards : ready[s]

\* No shard is counted twice: the statuses counted so far are of the shards in C, those
\* still in the channel of others, f[i] having sent the one at i.
CountedBy(C, f) ==
    /\ Cardinality(C) = shard_ready
    /\ \A s \in C : ready[s]
    /\ \A i \in DOMAIN statuses : statuses[i] = "Ready" =>
            /\ ready[f[i]] /\ f[i] \notin C
            /\ \A j \in DOMAIN statuses : statuses[j] = "Ready" /\ f[i] = f[j] => i = j
ReadyOnce == \E C \in SUBSET Shards, f \in [DOMAIN statuses -> Shards] : CountedBy(C, f)

LauncherInv == ProcTypes /\ LauncherTypes /\ ThreadsFit /\ MainFits /\ ReadyOnce

-----------------------------------------------------------------------------
\* A step of the router or of its clients that leaves the processes and the launcher as
\* they are changes nothing that the invariant speaks of.
LEMMA ClientStep ==
    ASSUME LauncherInv, UNCHANGED <<shard, socket, router, launcherVars>>
    PROVE  LauncherInv'
<1> USE DEF LauncherInv, launcherVars
<1>1. ProcTypes' /\ LauncherTypes'
  BY DEF ProcTypes, LauncherTypes
<1>2. ThreadsFit' /\ MainFits'
  BY DEF ThreadsFit, ThreadFits, MainFits, SendersDropped
<1>3. ReadyOnce'
  BY DEF ReadyOnce, CountedBy
<1> QED BY <1>1, <1>2, <1>3

\* The count of the shards is not touched by what keeps the channel, the counter and
\* the flags of the managers.
LEMMA CountKept ==
    ASSUME ReadyOnce, UNCHANGED <<ready, statuses, shard_ready>>
    PROVE  ReadyOnce'
BY DEF ReadyOnce, CountedBy

\* A shard's thread that reports a shard that it had not reported, or a failure, keeps
\* the count exact.
LEMMA CountReports ==
    ASSUME LauncherTypes, ReadyOnce, NEW s \in Shards, NEW m \in {"Ready", "Failed"},
           statuses' = Append(statuses, m), shard_ready' = shard_ready,
           IF m = "Ready" THEN ~ready[s] /\ ready' = [ready EXCEPT ![s] = TRUE] ELSE ready' = ready
    PROVE  ReadyOnce'
<1>1. PICK C \in SUBSET Shards, f \in [DOMAIN statuses -> Shards] : CountedBy(C, f)
  BY DEF ReadyOnce
<1> DEFINE n == Len(statuses) + 1
<1>2. /\ n \in Nat /\ DOMAIN statuses = 1 .. Len(statuses) /\ DOMAIN statuses' = 1 .. n
      /\ \A i \in 1 .. Len(statuses) : statuses'[i] = statuses[i]
      /\ statuses'[n] = m
  BY DEF LauncherTypes
<1>3. PICK g \in [DOMAIN statuses' -> Shards] : \A i \in DOMAIN statuses' : g[i] = IF i = n THEN s ELSE f[i]
  <2> WITNESS [i \in DOMAIN statuses' |-> IF i = n THEN s ELSE f[i]] \in [DOMAIN statuses' -> Shards]
  <2> QED BY <1>2
<1>4. \A r \in Shards : ready[r] => ready'[r]
  BY DEF LauncherTypes
<1>5. Cardinality(C) = shard_ready' /\ \A r \in C : ready'[r]
  BY <1>1, <1>4 DEF CountedBy
<1>6. ASSUME NEW i \in DOMAIN statuses', statuses'[i] = "Ready"
      PROVE  /\ ready'[g[i]] /\ g[i] \notin C
             /\ \A j \in DOMAIN statuses' : statuses'[j] = "Ready" /\ g[i] = g[j] => i = j
  <2>1. ASSUME NEW k \in 1 .. Len(statuses), statuses[k] = "Ready"
        PROVE  /\ g[k] = f[k] /\ ready[f[k]] /\ f[k] \in Shards /\ f[k] \notin C
               /\ \A j \in 1 .. Len(statuses) : statuses[j] = "Ready" /\ f[k] = f[j] => k = j
    BY <1>3, <1>1, <1>2, <2>1 DEF CountedBy
  <2>2. CASE i = n
    <3>1. m = "Ready" /\ ~ready[s] /\ ready'[s]
      BY <1>2, <1>6, <2>2 DEF LauncherTypes
    <3>2. g[i] = s
      BY <1>3, <2>2, <1>2
    <3>3. s \notin C
      BY <1>1, <3>1 DEF CountedBy
    <3>4. ASSUME NEW j \in DOMAIN statuses', statuses'[j] = "Ready", g[j] = s PROVE j = n
      BY <3>1, <2>1, <1>2, <3>4
    <3> QED BY <3>1, <3>2, <3>3, <3>4, <2>2
  <2>3. CASE i # n
    <3>1. i \in 1 .. Len(statuses) /\ statuses[i] = "Ready"
      BY <1>2, <1>6, <2>3
    <3>2. ready'[g[i]] /\ g[i] \notin C
      BY <2>1, <3>1, <1>4
    <3>3. ASSUME NEW j \in DOMAIN statuses', statuses'[j] = "Ready", g[i] = g[j] PROVE i = j
      <4>1. CASE j = n
        <5>1. m = "Ready" /\ ~ready[s] /\ g[j] = s
          BY <1>3, <4>1, <1>2, <3>3
        <5> QED BY <5>1, <2>1, <3>1, <3>3
      <4>2. CASE j # n
        <5>1. j \in 1 .. Len(statuses) /\ statuses[j] = "Ready"
          BY <4>2, <1>2, <3>3
        <5> QED BY <5>1, <2>1, <3>1, <3>3
      <4> QED BY <4>1, <4>2
    <3> QED BY <3>2, <3>3
  <2> QED BY <2>2, <2>3
<1>7. CountedBy(C, g)'
  BY <1>5, <1>6 DEF CountedBy
<1> QED BY <1>3, <1>7 DEF ReadyOnce

\* The main thread takes the first status off the channel: the shard it is of, if it is
\* ready, is one more that is counted.
LEMMA CountTakes ==
    ASSUME LauncherTypes, ReadyOnce, statuses # <<>>, statuses' = Tail(statuses), ready' = ready,
           shard_ready' = IF Head(statuses) = "Ready" THEN shard_ready + 1 ELSE shard_ready
    PROVE  ReadyOnce'
<1>1. PICK C \in SUBSET Shards, f \in [DOMAIN statuses -> Shards] : CountedBy(C, f)
  BY DEF ReadyOnce
<1>2. /\ Len(statuses) \in Nat \ {0} /\ DOMAIN statuses = 1 .. Len(statuses)
      /\ Head(statuses) = statuses[1] /\ 1 \in DOMAIN statuses
      /\ DOMAIN statuses' = 1 .. Len(statuses) - 1
      /\ \A i \in 1 .. Len(statuses) - 1 : i + 1 \in DOMAIN statuses /\ statuses'[i] = statuses[i + 1]
  BY DEF LauncherTypes
<1>8. PICK D \in SUBSET Shards : D = IF Head(statuses) = "Ready" THEN C \union {f[1]} ELSE C
  BY <1>2
<1>3. PICK g \in [DOMAIN statuses' -> Shards] : \A i \in DOMAIN statuses' : g[i] = f[i + 1]
  <2> WITNESS [i \in DOMAIN statuses' |-> f[i + 1]] \in [DOMAIN statuses' -> Shards]
  <2> QED BY <1>2
<1>4. Cardinality(D) = shard_ready'
  <2>1. IsFiniteSet(C)
    BY ShardsAssumption, FS_Subset
  <2>2. CASE Head(statuses) = "Ready"
    BY <1>8, <2>1, <2>2, <1>1, <1>2, FS_AddElement, ZenonT(60) DEF CountedBy
  <2>3. CASE Head(statuses) # "Ready"
    BY <1>8, <2>3, <1>1 DEF CountedBy
  <2> QED BY <2>2, <2>3
<1>5. \A s \in D : ready'[s]
  BY <1>8, <1>1, <1>2 DEF CountedBy
<1>6. ASSUME NEW i \in DOMAIN statuses', statuses'[i] = "Ready"
      PROVE  /\ ready'[g[i]] /\ g[i] \notin D
             /\ \A j \in DOMAIN statuses' : statuses'[j] = "Ready" /\ g[i] = g[j] => i = j
  <2>1. i + 1 \in DOMAIN statuses /\ statuses[i + 1] = "Ready" /\ g[i] = f[i + 1] /\ i \in Nat \ {0}
    BY <1>3, <1>2, <1>6
  <2>2. ready[f[i + 1]] /\ f[i + 1] \notin C
    BY <2>1, <1>1 DEF CountedBy
  <2>3. f[i + 1] \notin D
    BY <1>8, <2>1, <2>2, <1>1, <1>2 DEF CountedBy
  <2>4. ASSUME NEW j \in DOMAIN statuses', statuses'[j] = "Ready", g[i] = g[j] PROVE i = j
    <3>1. j + 1 \in DOMAIN statuses /\ statuses[j + 1] = "Ready" /\ g[j] = f[j + 1] /\ j \in Nat
      BY <1>3, <1>2, <2>4
    <3>2. i + 1 = j + 1
      BY <3>1, <2>1, <2>4, <1>1 DEF CountedBy
    <3> QED BY <3>1, <3>2, <2>1
  <2> QED BY <2>1, <2>2, <2>3, <2>4
<1>7. CountedBy(D, g)'
  BY <1>4, <1>5, <1>6 DEF CountedBy
<1> QED BY <1>3, <1>7 DEF ReadyOnce

\* When as many shards are counted as there are, all are.
LEMMA AllCounted ==
    ASSUME NEW C \in SUBSET Shards, Cardinality(C) = Cardinality(Shards)
    PROVE  C = Shards
BY ShardsAssumption, FS_Subset

-----------------------------------------------------------------------------
(* The invariant, action by action. *)

\* A process that ends, by a crash or by the timeout of a collective operation.
LEMMA ProcessEnds ==
    ASSUME LauncherInv, NEW s \in Shards, Alive(s), shard' = [shard EXCEPT ![s] = "exited"],
           UNCHANGED <<socket, router, launcherVars>>
    PROVE  LauncherInv'
<1> USE DEF LauncherInv, launcherVars
<1>1. ProcTypes' /\ LauncherTypes'
  BY DEF ProcTypes, LauncherTypes
<1>2. ThreadsFit'
  BY DEF ThreadsFit, ThreadFits, ProcTypes, LauncherTypes, Alive
<1>3. MainFits'
  BY DEF MainFits, SendersDropped
<1>4. ReadyOnce'
  BY CountKept
<1> QED BY <1>1, <1>2, <1>3, <1>4

\* A shard binds its socket when it has come up.
LEMMA ServesStep ==
    ASSUME LauncherInv, NEW s \in Shards, ShardServes(s), UNCHANGED launcherVars
    PROVE  LauncherInv'
<1> USE DEF LauncherInv, launcherVars, ShardServes
<1>1. ProcTypes' /\ LauncherTypes'
  BY DEF ProcTypes, LauncherTypes
<1>2. ThreadsFit'
  BY DEF ThreadsFit, ThreadFits, ProcTypes, LauncherTypes
<1>3. MainFits'
  BY DEF MainFits, SendersDropped
<1>4. ReadyOnce'
  BY CountKept
<1> QED BY <1>1, <1>2, <1>3, <1>4

\* The router connects, stops or crashes; only one that has been started does.
LEMMA RouterStep ==
    ASSUME LauncherInv, router \notin {"none", "exited"},
           router' \in {"serving", "draining", "exited"}, UNCHANGED <<shard, socket, launcherVars>>
    PROVE  LauncherInv'
<1> USE DEF LauncherInv, launcherVars
<1>1. ProcTypes' /\ LauncherTypes'
  BY DEF ProcTypes, LauncherTypes
<1>2. ThreadsFit'
  BY DEF ThreadsFit, ThreadFits
<1>3. MainFits'
  BY DEF MainFits, SendersDropped
<1>4. ReadyOnce'
  BY CountKept
<1> QED BY <1>1, <1>2, <1>3, <1>4

\* Each step of shard_manager: it starts the process, fails to, polls it, looks for the
\* socket or reports its end.
LEMMA ManagerStep ==
    ASSUME LauncherInv, NEW s \in Shards, Manager(s) \/ StartShardFails(s)
    PROVE  LauncherInv'
<1> USE DEF LauncherInv, ManagerAt
<1>0. main' = main /\ shutdown' = shutdown /\ router' = router /\ shard_ready' = shard_ready
  BY DEF Manager, StartShard, StartShardPanics, StartShardFails, PollShard, CheckSocket, ReportFailed, procVars
<1>1. CASE StartShard(s)
  <2>1. ProcTypes' /\ LauncherTypes'
    BY <1>1 DEF StartShard, ProcTypes, LauncherTypes, CleanPreviousRuns
  <2>2. ThreadsFit'
    BY <1>1 DEF StartShard, ThreadsFit, ThreadFits, ProcTypes, LauncherTypes, CleanPreviousRuns
  <2>3. MainFits'
    BY <1>1, <1>0 DEF StartShard, MainFits, SendersDropped, LauncherTypes
  <2>4. ReadyOnce'
    BY <1>1, CountKept DEF StartShard
  <2> QED BY <2>1, <2>2, <2>3, <2>4
<1>6. CASE StartShardPanics(s)
  <2>1. ProcTypes' /\ LauncherTypes'
    BY <1>6 DEF StartShardPanics, ProcTypes, LauncherTypes, CleanPreviousRuns
  <2>2. ThreadsFit'
    BY <1>6 DEF StartShardPanics, ThreadsFit, ThreadFits, ProcTypes, LauncherTypes, CleanPreviousRuns
  <2>3. MainFits'
    BY <1>6, <1>0 DEF StartShardPanics, MainFits, SendersDropped, LauncherTypes
  <2>4. ReadyOnce'
    BY <1>6, CountKept DEF StartShardPanics
  <2> QED BY <2>1, <2>2, <2>3, <2>4
<1>2. CASE StartShardFails(s)
  <2>1. ProcTypes' /\ LauncherTypes'
    BY <1>2 DEF StartShardFails, ProcTypes, LauncherTypes, CleanPreviousRuns
  <2>2. ThreadsFit'
    BY <1>2 DEF StartShardFails, ThreadsFit, ThreadFits, ProcTypes, LauncherTypes, CleanPreviousRuns
  <2>3. MainFits'
    BY <1>2, <1>0 DEF StartShardFails, MainFits, SendersDropped, LauncherTypes
  <2>4. ReadyOnce'
    BY <1>2, CountReports DEF StartShardFails
  <2> QED BY <2>1, <2>2, <2>3, <2>4
<1>3. CASE PollShard(s)
  <2>1. ProcTypes' /\ LauncherTypes'
    BY <1>3 DEF PollShard, ProcTypes, LauncherTypes
  <2>2. ThreadsFit'
    BY <1>3 DEF PollShard, ThreadsFit, ThreadFits, ProcTypes, LauncherTypes, Alive
  <2>3. MainFits'
    BY <1>3, <1>0 DEF PollShard, MainFits, SendersDropped, LauncherTypes
  <2>4. ReadyOnce'
    BY <1>3, CountKept DEF PollShard
  <2> QED BY <2>1, <2>2, <2>3, <2>4
<1>4. CASE CheckSocket(s)
  <2> USE <1>4 DEF CheckSocket, UdsExists, procVars
  <2>1. ProcTypes' /\ LauncherTypes'
    BY DEF ProcTypes, LauncherTypes
  <2>2. ThreadsFit'
    BY DEF ThreadsFit, ThreadFits, ProcTypes, LauncherTypes, Alive
  <2>3. ~ready[s]
    BY DEF ThreadsFit, ThreadFits
  <2>4. MainFits'
    BY <2>3, <1>0 DEF MainFits, SendersDropped, LauncherTypes
  <2>5. ReadyOnce'
    <3>1. CASE UdsExists(s)
      <4>1. ready' = [ready EXCEPT ![s] = TRUE] /\ statuses' = Append(statuses, "Ready")
        BY <3>1
      <4> QED BY <2>3, <4>1, <1>0, CountReports
    <3>2. CASE ~UdsExists(s)
      <4>1. ready' = ready /\ statuses' = statuses
        BY <2>3, <3>2 DEF LauncherTypes
      <4> QED BY <4>1, <1>0, CountKept
    <3> QED BY <3>1, <3>2
  <2> QED BY <2>1, <2>2, <2>4, <2>5
<1>5. CASE ReportFailed(s)
  <2> USE <1>5 DEF ReportFailed, procVars
  <2>1. ProcTypes' /\ LauncherTypes'
    BY DEF ProcTypes, LauncherTypes
  <2>2. ThreadsFit'
    BY DEF ThreadsFit, ThreadFits, LauncherTypes
  <2>3. MainFits'
    BY <1>0 DEF MainFits, SendersDropped, LauncherTypes
  <2>4. ReadyOnce'
    BY CountReports
  <2> QED BY <2>1, <2>2, <2>3, <2>4
<1> QED BY <1>1, <1>2, <1>3, <1>4, <1>5, <1>6 DEF Manager

\* Each step of the main thread.
LEMMA MainStep ==
    ASSUME LauncherInv, Main
    PROVE  LauncherInv'
<1> USE DEF LauncherInv, procVars, ShutdownShards
<1>0. UNCHANGED <<shard, socket, manager, ready>>
  BY DEF Main, WaitShards, StartRouter, Monitor, WaitRouter, Exit
<1>1. ThreadsFit'
  BY <1>0 DEF ThreadsFit, ThreadFits
<1>2. CASE WaitShards
  <2> USE <1>2 DEF WaitShards
  <2>1. ProcTypes' /\ LauncherTypes'
    <3>1. statuses' \in Seq({"Ready", "Failed"})
      BY DEF LauncherTypes
    <3>2. shard_ready' \in Nat
      BY DEF LauncherTypes
    <3>4. shutdown' \in BOOLEAN
      BY Zenon DEF LauncherTypes
    <3>3. main' \in {"wait_shards", "start_router", "wait_senders"}
      OBVIOUS
    <3> QED BY <3>1, <3>2, <3>3, <3>4 DEF ProcTypes, LauncherTypes
  <2>2. ReadyOnce'
    <3>1. CASE running /\ Head(statuses) = "Ready"
      BY <3>1, CountTakes
    <3>2. CASE running /\ Head(statuses) # "Ready"
      BY <3>2, CountTakes
    <3>3. CASE ~running
      BY <3>3, CountKept
    <3> QED BY <3>1, <3>2, <3>3
  <2>3. main' = "start_router" => \A s \in Shards : ready'[s]
    <3>1. SUFFICES ASSUME main' = "start_router" PROVE \A s \in Shards : ready'[s]
      OBVIOUS
    <3>2. shard_ready' = Cardinality(Shards)
      BY <3>1
    <3>3. PICK C \in SUBSET Shards, f \in [DOMAIN statuses' -> Shards] : CountedBy(C, f)'
      BY <2>2 DEF ReadyOnce
    <3>4. C = Shards
      BY <3>2, <3>3, AllCounted DEF CountedBy
    <3> QED BY <3>3, <3>4 DEF CountedBy
  <2>4. MainFits'
    BY <2>3, <1>0 DEF MainFits, SendersDropped
  <2> QED BY <1>1, <2>1, <2>2, <2>4
<1>3. CASE StartRouter
  <2> USE <1>3 DEF StartRouter
  <2>1. ProcTypes' /\ LauncherTypes'
    BY DEF ProcTypes, LauncherTypes
  <2>2. MainFits'
    BY DEF MainFits, SendersDropped
  <2> QED BY <1>1, <2>1, <2>2, CountKept
<1>4. CASE Monitor
  <2> USE <1>4 DEF Monitor, TerminateGracefully, Sigterm, ShardFailed
  <2>1. ProcTypes' /\ LauncherTypes'
    <3>1. statuses' \in Seq({"Ready", "Failed"})
      BY DEF LauncherTypes
    <3>2. main' \in {"wait_router", "wait_senders"} /\ shutdown' \in BOOLEAN
      BY DEF LauncherTypes
    <3> QED BY <3>1, <3>2 DEF ProcTypes, LauncherTypes
  <2>2. MainFits'
    BY DEF MainFits, SendersDropped
  <2>3. ReadyOnce'
    <3>1. CASE statuses' = statuses
      BY <3>1, CountKept
    <3>2. CASE statuses' # statuses
      BY <3>2, CountTakes
    <3> QED BY <3>1, <3>2
  <2> QED BY <1>1, <2>1, <2>2, <2>3
<1>5. CASE WaitRouter
  <2> USE <1>5 DEF WaitRouter
  <2>1. ProcTypes' /\ LauncherTypes'
    BY DEF ProcTypes, LauncherTypes
  <2>2. MainFits'
    BY DEF MainFits, SendersDropped
  <2> QED BY <1>1, <2>1, <2>2, CountKept
<1>6. CASE Exit
  <2> USE <1>6 DEF Exit
  <2>1. ProcTypes' /\ LauncherTypes'
    BY DEF ProcTypes, LauncherTypes
  <2>2. MainFits'
    BY DEF MainFits, SendersDropped
  <2> QED BY <1>1, <2>1, <2>2, CountKept
<1> QED BY <1>2, <1>3, <1>4, <1>5, <1>6 DEF Main

\* Every step of the deployment keeps the invariant.
LEMMA DeploymentStep ==
    ASSUME LauncherInv, [Next]_vars
    PROVE  LauncherInv'
<1>1. ASSUME NEW s \in Shards, Manager(s) \/ StartShardFails(s) PROVE LauncherInv'
  BY <1>1, ManagerStep
<1>2. CASE Main
  BY <1>2, MainStep
<1>3. CASE CtrlC
  <2> USE <1>3 DEF CtrlC, procVars, LauncherInv
  <2>1. ProcTypes' /\ LauncherTypes' /\ ThreadsFit' /\ MainFits'
    BY DEF ProcTypes, LauncherTypes, ThreadsFit, ThreadFits, MainFits, SendersDropped
  <2> QED BY <2>1, CountKept
<1>4. CASE RouterConnects \/ ChecksEnd \/ RouterStops \/ RouterCrashes
  BY <1>4, RouterStep DEF RouterConnects, ChecksEnd, RouterStops, RouterCrashes
<1>5. ASSUME NEW s \in Shards, ShardServes(s), UNCHANGED launcherVars PROVE LauncherInv'
  BY <1>5, ServesStep
<1>6. ASSUME NEW s \in Shards, ShardCrashes(s) PROVE LauncherInv'
  BY <1>6, ProcessEnds DEF ShardCrashes
<1>7. ASSUME NEW s \in Shards, CollectiveTimesOut(s), UNCHANGED launcherVars PROVE LauncherInv'
  <2>1. CASE shard' = [shard EXCEPT ![s] = "exited"] /\ UNCHANGED <<socket, router>>
    BY <1>7, <2>1, ProcessEnds DEF CollectiveTimesOut, Alive
  <2>2. CASE Handled({s}, "error")
    BY <1>7, <2>2, ClientStep DEF Handled, procVars
  <2> QED BY <1>7, <2>1, <2>2 DEF CollectiveTimesOut
<1>8. ASSUME UNCHANGED launcherVars,
             \/ \E s \in Shards, c \in Clients : Task(c, s)
             \/ Collective \/ BatcherAnswered \/ BatcherCalls
             \/ \E c \in Checks : ProbeEnds(c) \/ CheckCancelled(c) \/ CheckStarts(c) \/ BasicEnds(c)
             \/ \E s \in Shards : RankRaises(s)
      PROVE  LauncherInv'
  <2>1. UNCHANGED <<shard, socket, router>>
    BY <1>8 DEF Task, Receive, CallFails, Respond, Collective, Handled, BatcherAnswered, BatcherCalls,
                ProbeEnds, CheckCancelled, CheckStarts, BasicEnds, RankRaises, procVars
  <2> QED BY <1>8, <2>1, ClientStep
<1>9. CASE UNCHANGED vars
  BY <1>9, ClientStep DEF vars, procVars
<1> QED BY <1>1, <1>2, <1>3, <1>4, <1>5, <1>6, <1>7, <1>8, <1>9 DEF Next, Scheduled, Unscheduled

\* The launcher starts with nothing running, whatever sockets an earlier run has left.
LEMMA DeploymentStarts == Init => LauncherInv
<1> SUFFICES ASSUME Init PROVE LauncherInv
  OBVIOUS
<1> USE DEF Init, ProcInit, LauncherInit
<1>1. ProcTypes /\ LauncherTypes
  <2>1. ProcTypes
    BY DEF ProcTypes
  <2>2. statuses \in Seq({"Ready", "Failed"}) /\ shard_ready \in Nat /\ ready \in [Shards -> BOOLEAN]
    OBVIOUS
  <2>3. LauncherTypes
    BY <2>2 DEF LauncherTypes
  <2> QED BY <2>1, <2>3
<1>4. ThreadsFit /\ MainFits
  BY DEF ThreadsFit, ThreadFits, MainFits
<1>2. CountedBy({}, <<>>)
  BY FS_EmptySet DEF CountedBy
<1>3. <<>> \in [DOMAIN statuses -> Shards]
  OBVIOUS
<1>5. ReadyOnce
  BY <1>2, <1>3 DEF ReadyOnce
<1> QED BY <1>1, <1>4, <1>5 DEF LauncherInv

\* What the launcher knows of its threads and processes is right in every state.
THEOREM LauncherCorrect == Spec => []LauncherInv
BY DeploymentStarts, DeploymentStep, PTL DEF Spec

\* "Clean previous runs" and the count of ready shards: for any number of shards, the
\* router is started only once each of them has bound its socket in this run, save for
\* one whose old socket could not be removed.
THEOREM RouterFollows == Spec => []RouterFollowsShards
<1>1. LauncherInv => RouterFollowsShards
  BY DEF LauncherInv, MainFits, ThreadsFit, ThreadFits, RouterFollowsShards
<1> QED BY <1>1, LauncherCorrect, PTL

\* shutdown_shards waits until all threads have dropped their senders, and each has
\* seen its process end: the launcher leaves no process behind, whatever has failed.
THEOREM NothingOutlives == Spec => []NoOrphans
<1>1. LauncherInv => NoOrphans
  BY DEF LauncherInv, MainFits, ThreadsFit, ThreadFits, NoOrphans, SendersDropped, Alive
<1> QED BY <1>1, LauncherCorrect, PTL

\* The shards are told to go only when the router has ended or was never started.
THEOREM RouterFirst == Spec => []RouterGoesFirst
<1>1. LauncherInv => RouterGoesFirst
  BY DEF LauncherInv, MainFits, RouterGoesFirst
<1> QED BY <1>1, LauncherCorrect, PTL
=============================================================================
