------------------------ MODULE TextGenerationProofs ------------------------
(***************************************************************************)
(* TextGeneration for every value of its constants and whatever fails: its *)
(* types, SenderHeld, the refinement of RequestService, RoomAgrees and     *)
(* KvMatchesCache.  And, as long as the shard reports no request of its    *)
(* own as failed: the router's requests in progress and the shard's cached *)
(* requests are the same ones, through every prefill, step and failed      *)
(* call.  EntriesOnShard, NoStraysWhileCallsSucceed, AscendingIds,         *)
(* NoneMeansAllCompleted, NoPanic, PrefillFailureIsolated and              *)
(* NoTokenUnderflow follow.                                                *)
(***************************************************************************)
EXTENDS TextGeneration, FiniteSetTheorems, WellFoundedInduction, SequenceTheorems, TLAPS

-----------------------------------------------------------------------------
(* Types.                                                                   *)

\* What the types of the shard's cache rest on: a Prefill names its batch.
TypeInv == TypeOK /\ (call.method = "prefill" => call.batch_id \in BatchIds)

\* The cached batch there is before the first one has its type.
LEMMA NoBatchType == NoBatch \in CachedBatch
  BY DEF NoBatch, CachedBatch

\* The initial state has its types,
LEMMA InitType == Init => TypeInv
  <1> SUFFICES ASSUME Init PROVE TypeInv
      OBVIOUS
  <1> USE DEF Init, RouterInit, RpcInit, ShardInit
  <1>1. ClientTypeOK
      BY DEF ClientTypeOK
  <1>2. QueueTypeOK
      BY DEF QueueTypeOK
  <1>3. EntriesTypeOK
      <2>1. entries \in [{} -> Requests]
          OBVIOUS
      <2>. QED  BY <2>1 DEF EntriesTypeOK
  <1>4. ProcessTypeOK
      <2>1. outputs \in [{} -> Nat \ {0}]
          BY DEF NoIds
      <2>2. completed_ids \in Seq(Ids)
          OBVIOUS
      <2>. QED  BY <2>1, <2>2 DEF ProcessTypeOK
  <1>5. LoopTypeOK
      <2>1. waiting_tokens \in 1 .. MaxWaitingTokens
          BY ConfigAssumption
      <2>2. batches \in Seq(CachedBatch)
          OBVIOUS
      <2>3. pc \in {"next_batch", "rpc", "process", "loop", "decode", "panic"}
          OBVIOUS
      <2>. QED  BY NoBatchType, <2>1, <2>2, <2>3 DEF LoopTypeOK
  <1>6. CallTypeOK
      <2>1. NoCall \in CallsFor({})
          BY DEF NoCall, CallsFor, NoIds, NoStartId
      <2>. QED  BY <2>1 DEF CallTypeOK
  <1>7. ReplyTypeOK
      <2>1. NoReply \in RepliesFor({})
          BY DEF NoReply, Answer, RepliesFor, NoIds
      <2>. QED  BY <2>1 DEF ReplyTypeOK
  <1>8. ShardTypeOK
      BY ShardAssumption, SMTT(30) DEF ShardTypeOK
  <1>. QED
      BY <1>1, <1>2, <1>3, <1>4, <1>5, <1>6, <1>7, <1>8
      DEF TypeInv, TypeOK, RouterTypeOK, RpcTypeOK, NoCall

\* Unchanged components keep their types.
LEMMA KeptTypes ==
  /\ ClientTypeOK /\ UNCHANGED clientVars => ClientTypeOK'
  /\ QueueTypeOK /\ UNCHANGED <<queueVars, serviced>> => QueueTypeOK'
  /\ EntriesTypeOK /\ UNCHANGED <<entries, generated, generation_health>> => EntriesTypeOK'
  /\ ProcessTypeOK /\ UNCHANGED processVars => ProcessTypeOK'
  /\ LoopTypeOK /\ UNCHANGED <<pc, loopVars>> => LoopTypeOK'
  /\ CallTypeOK /\ UNCHANGED call => CallTypeOK'
  /\ ReplyTypeOK /\ UNCHANGED reply => ReplyTypeOK'
  /\ ShardTypeOK /\ UNCHANGED shardVars => ShardTypeOK'
  <1>1. ClientTypeOK /\ UNCHANGED clientVars => ClientTypeOK'
      BY DEF ClientTypeOK, clientVars
  <1>2. QueueTypeOK /\ UNCHANGED <<queueVars, serviced>> => QueueTypeOK'
      BY DEF QueueTypeOK, queueVars
  <1>3. EntriesTypeOK /\ UNCHANGED <<entries, generated, generation_health>> => EntriesTypeOK'
      BY DEF EntriesTypeOK
  <1>4. ProcessTypeOK /\ UNCHANGED processVars => ProcessTypeOK'
      BY DEF ProcessTypeOK, processVars
  <1>5. LoopTypeOK /\ UNCHANGED <<pc, loopVars>> => LoopTypeOK'
      BY DEF LoopTypeOK, loopVars
  <1>6. CallTypeOK /\ UNCHANGED call => CallTypeOK'
      BY DEF CallTypeOK
  <1>7. ReplyTypeOK /\ UNCHANGED reply => ReplyTypeOK'
      BY DEF ReplyTypeOK
  <1>8. ShardTypeOK /\ UNCHANGED shardVars => ShardTypeOK'
      BY DEF ShardTypeOK, shardVars
  <1>. QED  BY <1>1, <1>2, <1>3, <1>4, <1>5, <1>6, <1>7, <1>8

----------------------------------------------------------------------------
(* One lemma per action: it keeps the types.                                *)

\* a client's step keeps them,
LEMMA ClientType ==
  ASSUME TypeInv, ClientActs
  PROVE  TypeInv'
  <1> USE DEF TypeInv, TypeOK, RouterTypeOK, RpcTypeOK, rpcVars, queueVars, processVars, loopVars
  <1>0. PICK r \in Requests : Enqueue(r) \/ Reject(r) \/ Cancel(r) \/ Expire(r)
      BY DEF ClientActs, ClientStep
  <1>1. UNCHANGED shardVars
      BY DEF ClientActs
  <1>2. CASE Enqueue(r)
      <2>1. ClientTypeOK'
          BY <1>2 DEF Enqueue, ClientTypeOK
      <2>2. QueueTypeOK'
          BY <1>2 DEF Enqueue, QueueTypeOK
      <2>. QED  BY <1>1, <1>2, <2>1, <2>2, KeptTypes DEF Enqueue
  <1>3. CASE Reject(r)
      <2>1. ClientTypeOK'
          BY <1>3 DEF Reject, ClientTypeOK
      <2>. QED  BY <1>1, <1>3, <2>1, KeptTypes DEF Reject
  <1>4. CASE Cancel(r)
      <2>1. ClientTypeOK'
          BY <1>4 DEF Cancel, ClientTypeOK
      <2>. QED  BY <1>1, <1>4, <2>1, KeptTypes DEF Cancel
  <1>5. CASE Expire(r)
      <2>1. ClientTypeOK'
          BY <1>5 DEF Expire, ClientTypeOK
      <2>. QED  BY <1>1, <1>5, <2>1, KeptTypes DEF Expire
  <1>. QED  BY <1>0, <1>2, <1>3, <1>4, <1>5

\* SendFinal gives answers of the right type.
LEMMA SendFinalType ==
  ASSUME ClientTypeOK, NEW rs, NEW result \in {"none", "ok", "error", "timeout"},
         SendFinal(rs, result), UNCHANGED <<receiver, expired>>
  PROVE  ClientTypeOK'
  BY DEF ClientTypeOK, SendFinal

\* a step of the queue servicer keeps them,
LEMMA QueueType ==
  ASSUME TypeInv, QueueActs
  PROVE  TypeInv'
  <1> USE DEF TypeInv, TypeOK, RouterTypeOK, RpcTypeOK, rpcVars, processVars, loopVars
  <1>1. UNCHANGED shardVars
      BY DEF QueueActs
  <1>2. CASE PruneBuffer
      <2>1. ClientTypeOK'
          BY <1>2, SendFinalType DEF PruneBuffer
      <2>2. QueueTypeOK'
          BY <1>2 DEF PruneBuffer, QueueTypeOK
      <2>. QED  BY <1>1, <1>2, <2>1, <2>2, KeptTypes DEF PruneBuffer
  <1>3. CASE ServiceQueue
      <2>1. QueueTypeOK'
          BY <1>3 DEF ServiceQueue, QueueTypeOK
      <2>. QED  BY <1>1, <1>3, <2>1, KeptTypes DEF ServiceQueue
  <1>. QED  BY <1>2, <1>3 DEF QueueActs, QueueStep

----------------------------------------------------------------------------
(* The batching task.                                                       *)

\* what try_next_batch takes has them,
LEMMA TakeBatchType ==
  ASSUME TypeInv, NEW n \in 1 .. SizeLimit, NewIds(n) \subseteq Ids,
         NEW new \in [NewIds(n) -> buffer],
         NEW to_prune \in Seq(CachedBatch), NEW start_id \in Ids \cup {NoStartId},
         TakeBatch(n, new, to_prune, start_id), UNCHANGED <<channel, generated, generation_health>>
  PROVE  /\ QueueTypeOK' /\ EntriesTypeOK' /\ CallTypeOK'
         /\ call'.method = "prefill" /\ call'.batch_id \in BatchIds
         /\ pc' = "rpc"
  <1> USE DEF TypeInv, TypeOK, RouterTypeOK
  <1>1. QueueTypeOK'
      <2>1. next_id' \in Nat /\ next_batch_id' \in Nat
          BY ConfigAssumption DEF TakeBatch, QueueTypeOK
      <2>. QED  BY <2>1 DEF TakeBatch, QueueTypeOK
  <1>2. EntriesTypeOK'
      <2>1. PICK D \in SUBSET Ids : entries \in [D -> Requests]
          BY DEF EntriesTypeOK
      <2>2. entries' \in [D \cup NewIds(n) -> Requests]
          BY <2>1 DEF TakeBatch, QueueTypeOK
      <2>. QED  BY <2>2 DEF EntriesTypeOK
  <1>3. call' \in CallsFor(NewIds(n))
      <2>1. [i \in NewIds(n) |-> Params[new[i]].max_new] \in [NewIds(n) -> Nat \ {0}]
          BY RequestAssumption DEF QueueTypeOK, ParamsType
      <2>. QED  BY <2>1 DEF TakeBatch, PrefillCall, CallsFor
  <1>. QED
      BY <1>1, <1>2, <1>3, IdAssumption DEF CallTypeOK, TakeBatch, PrefillCall

\* the batch taken by an idle server keeps them,
LEMMA NextBatchType ==
  ASSUME TypeInv, NextBatch, UNCHANGED shardVars
  PROVE  TypeInv'
  <1> USE DEF TypeInv, TypeOK, RouterTypeOK, RpcTypeOK
  <1>1. PICK n \in 1 .. SizeLimit :
            /\ NewIds(n) \subseteq Ids
            /\ \E new \in [NewIds(n) -> buffer] : TakeBatch(n, new, <<>>, NoStartId)
      BY DEF NextBatch
  <1>2. PICK new \in [NewIds(n) -> buffer] : TakeBatch(n, new, <<>>, NoStartId)
      BY <1>1
  <1>3. <<>> \in Seq(CachedBatch)
      OBVIOUS
  <1>4. /\ QueueTypeOK' /\ EntriesTypeOK' /\ CallTypeOK'
        /\ call'.method = "prefill" /\ call'.batch_id \in BatchIds
        /\ pc' = "rpc"
      BY <1>1, <1>2, <1>3, TakeBatchType DEF NextBatch
  <1>5. LoopTypeOK'
      BY <1>4 DEF NextBatch, LoopTypeOK, loopVars
  <1>. QED  BY <1>4, <1>5, KeptTypes DEF NextBatch

\* an add-on batch keeps them,
LEMMA ExtendBatchType ==
  ASSUME TypeInv, ExtendBatch, UNCHANGED shardVars
  PROVE  TypeInv'
  <1> USE DEF TypeInv, TypeOK, RouterTypeOK, RpcTypeOK
  <1>1. PICK n \in 1 .. SizeLimit :
            /\ NewIds(n) \subseteq Ids
            /\ \E new \in [NewIds(n) -> buffer] : TakeBatch(n, new, ToPrune, next_id)
      BY DEF ExtendBatch
  <1>2. PICK new \in [NewIds(n) -> buffer] : TakeBatch(n, new, ToPrune, next_id)
      BY <1>1
  <1>3. ToPrune \in Seq(CachedBatch)
      BY DEF ToPrune, LoopTypeOK
  <1>4. next_id \in Ids
      BY <1>1, ConfigAssumption DEF NewIds, QueueTypeOK
  <1>5. /\ QueueTypeOK' /\ EntriesTypeOK' /\ CallTypeOK'
        /\ call'.method = "prefill" /\ call'.batch_id \in BatchIds
        /\ pc' = "rpc"
      BY <1>1, <1>2, <1>3, <1>4, TakeBatchType DEF ExtendBatch
  <1>6. LoopTypeOK'
      BY <1>5 DEF ExtendBatch, LoopTypeOK
  <1>. QED  BY <1>5, <1>6, KeptTypes DEF ExtendBatch

\* Entries stay well typed when some are removed.
LEMMA RestrictEntriesType ==
  ASSUME EntriesTypeOK, NEW S, entries' = Restrict(entries, DOMAIN entries \ S),
         generated' \in [Requests -> Nat], generation_health' \in BOOLEAN
  PROVE  EntriesTypeOK'
  <1>1. PICK D \in SUBSET Ids : entries \in [D -> Requests]
      BY DEF EntriesTypeOK
  <1>2. entries' \in [D \ S -> Requests]
      BY <1>1 DEF Restrict
  <1>. QED  BY <1>2 DEF EntriesTypeOK

\* What follows an await leaves the loop's variables well typed.
LEMMA ResumeType ==
  ASSUME TypeInv, NEW result \in CachedBatch, Resume(result)
  PROVE  LoopTypeOK' /\ CallTypeOK' /\ ReplyTypeOK' /\ call'.method = "none"
  <1> USE DEF TypeInv, TypeOK, RouterTypeOK
  <1>1. CallTypeOK' /\ call'.method = "none"
      <2>1. NoCall \in CallsFor({}) /\ NoCall.method = "none"
          BY DEF NoCall, CallsFor, NoIds, NoStartId
      <2>. QED  BY <2>1 DEF CallTypeOK, Resume
  <1>2. ReplyTypeOK'
      <2>1. NoReply \in RepliesFor({})
          BY DEF NoReply, Answer, RepliesFor, NoIds
      <2>. QED  BY <2>1 DEF ReplyTypeOK, Resume
  <1>3. 1 \in 1 .. MaxWaitingTokens
      BY ConfigAssumption
  <1>4. <<>> \in Seq(CachedBatch)
      OBVIOUS
  <1>5. LeaveLoop => LoopTypeOK'
      BY <1>3, <1>4, NoBatchType DEF LeaveLoop, LoopTypeOK
  <1>6. CASE ResumeFirstPrefill(result)
      BY <1>1, <1>2, <1>3, <1>4, <1>5, <1>6 DEF ResumeFirstPrefill, EnterLoop, LoopTypeOK
  <1>7. CASE ResumeExtend(result)
      <2>1. PrunedBatches \in Seq(CachedBatch)
          <3>0. <<>> \in Seq(Ids)
              OBVIOUS
          <3>1. [cached_batch EXCEPT !.completed_ids = <<>>] \in CachedBatch
              BY <3>0 DEF LoopTypeOK, CachedBatch
          <3>. QED  BY <3>1, <1>4 DEF PrunedBatches
      <2>2. ExtendedBy(PrunedBatches, result) \in Seq(CachedBatch)
          BY <2>1 DEF ExtendedBy
      <2>. QED  BY <1>1, <1>2, <1>3, <1>5, <1>7, <2>1, <2>2 DEF ResumeExtend, LoopTypeOK
  <1>8. CASE ResumeNextToken(result)
      <2>1. result # NoBatch => waiting_tokens' \in 1 .. MaxWaitingTokens
          BY <1>8, ConfigAssumption DEF ResumeNextToken, LoopTypeOK
      <2>. QED  BY <1>1, <1>2, <1>4, <1>5, <1>8, <2>1 DEF ResumeNextToken, EnterLoop, LoopTypeOK
  <1>. QED  BY <1>6, <1>7, <1>8 DEF Resume

\* the end of an awaited call keeps them,
LEMMA ReceiveType ==
  ASSUME TypeInv, ReceiveEmpty \/ ReceiveError \/ ReceiveTokens, UNCHANGED shardVars
  PROVE  TypeInv'
  <1> USE DEF TypeInv, TypeOK, RouterTypeOK, RpcTypeOK
  <1>1. CASE ReceiveEmpty
      BY <1>1, NoBatchType, ResumeType, KeptTypes DEF ReceiveEmpty
  <1>2. CASE ReceiveError
      <2>1. ClientTypeOK'
          BY <1>2, SendFinalType DEF ReceiveError
      <2>2. EntriesTypeOK'
          BY <1>2, RestrictEntriesType DEF ReceiveError, EntriesTypeOK
      <2>. QED  BY <1>2, <2>1, <2>2, NoBatchType, ResumeType, KeptTypes DEF ReceiveError, queueVars
  <1>3. CASE ReceiveTokens
      <2>1. PICK D \in SUBSET Ids : reply \in RepliesFor(D)
          BY DEF ReplyTypeOK
      <2>2. ReplyTypeOK'
          BY <1>3, <2>1 DEF ReceiveTokens, ReplyTypeOK, RepliesFor
      <2>3. ProcessTypeOK'
          <3>1. outputs' \in [D -> Nat \ {0}]
              BY <1>3, <2>1 DEF ReceiveTokens, RepliesFor
          <3>2. completed_ids' \in Seq(Ids)
              BY <1>3 DEF ReceiveTokens
          <3>. QED  BY <1>3, <2>1, <3>1, <3>2 DEF ReceiveTokens, RepliesFor, ProcessTypeOK
      <2>4. LoopTypeOK'
          BY <1>3 DEF ReceiveTokens, LoopTypeOK, loopVars
      <2>. QED  BY <1>3, <2>2, <2>3, <2>4, KeptTypes DEF ReceiveTokens, queueVars
  <1>. QED  BY <1>1, <1>2, <1>3

\* the handling of an output or an error keeps them,
LEMMA ProcessType ==
  ASSUME TypeInv, IgnoreOutput \/ Finish \/ DecodeFails \/ Continue \/ ProcessError \/ FinishStep,
         UNCHANGED shardVars
  PROVE  TypeInv'
  <1> USE DEF TypeInv, TypeOK, RouterTypeOK, RpcTypeOK, rpcVars
  <1>1. ASSUME NEW i \in DOMAIN outputs, ConsumeOutput(i)
        PROVE  (\E D \in SUBSET Ids : outputs' \in [D -> Nat \ {0}]) /\ processed' \in Nat
      <2>1. PICK D \in SUBSET Ids : outputs \in [D -> Nat \ {0}]
          BY DEF ProcessTypeOK
      <2>2. outputs' \in [D -> Nat \ {0}] \/ outputs' \in [D \ {i} -> Nat \ {0}]
          BY <1>1, <2>1 DEF ConsumeOutput, Restrict
      <2>3. processed' \in Nat
          BY <1>1 DEF ConsumeOutput, ProcessTypeOK
      <2>. QED  BY <2>2, <2>3
  <1>2. ASSUME NEW i \in DOMAIN entries, RemoveEntry(i),
               generated' \in [Requests -> Nat], UNCHANGED generation_health
        PROVE  EntriesTypeOK' /\ completed_ids' \in Seq(Ids)
      <2>1. EntriesTypeOK'
          BY <1>2, RestrictEntriesType DEF RemoveEntry, EntriesTypeOK
      <2>2. i \in Ids
          BY DEF EntriesTypeOK
      <2>. QED  BY <1>2, <2>1, <2>2 DEF RemoveEntry, ProcessTypeOK
  <1>3. ASSUME NEW i \in DOMAIN entries, NEW result \in {"none", "ok", "error"},
               ProcessOutput(i, result),
               RemoveEntry(i) \/ UNCHANGED <<entries, completed_ids>>
        PROVE  TypeInv'
      <2>1. ClientTypeOK'
          BY <1>3, SendFinalType DEF ProcessOutput
      <2>2. generated' \in [Requests -> Nat]
          BY <1>3 DEF ProcessOutput, EntriesTypeOK
      <2>3. EntriesTypeOK' /\ completed_ids' \in Seq(Ids)
          BY <1>2, <1>3, <2>2 DEF ProcessOutput, EntriesTypeOK, ProcessTypeOK
      <2>4. ProcessTypeOK'
          BY <1>1, <1>3, <2>3 DEF ProcessOutput, NextOutput, ProcessTypeOK
      <2>. QED  BY <1>3, <2>1, <2>3, <2>4, KeptTypes DEF ProcessOutput
  <1>4. CASE IgnoreOutput
      <2>1. ProcessTypeOK'
          BY <1>1, <1>4 DEF IgnoreOutput, NextOutput, ProcessTypeOK
      <2>. QED  BY <1>4, <2>1, KeptTypes DEF IgnoreOutput
  <1>5. CASE Finish \/ DecodeFails \/ Continue
      BY <1>3, <1>5 DEF Finish, DecodeFails, Continue
  <1>6. CASE ProcessError
      <2>1. ASSUME NEW i \in DOMAIN entries, SendFinal({entries[i]}, "error"), RemoveEntry(i),
                   UNCHANGED pc
            PROVE  ClientTypeOK' /\ EntriesTypeOK' /\ completed_ids' \in Seq(Ids) /\ LoopTypeOK'
          BY <1>2, <1>6, <2>1, SendFinalType DEF ProcessError, EntriesTypeOK, LoopTypeOK, loopVars
      <2>2. ASSUME UNCHANGED <<answer, entries, completed_ids>>, pc' = "panic"
            PROVE  ClientTypeOK' /\ EntriesTypeOK' /\ completed_ids' \in Seq(Ids) /\ LoopTypeOK'
          BY <1>6, <2>2, KeptTypes
          DEF ProcessError, clientVars, ProcessTypeOK, LoopTypeOK, loopVars
      <2>3. ClientTypeOK' /\ EntriesTypeOK' /\ completed_ids' \in Seq(Ids) /\ LoopTypeOK'
          BY <1>6, <2>1, <2>2 DEF ProcessError
      <2>4. ProcessTypeOK'
          BY <1>6, <2>3 DEF ProcessError, ProcessTypeOK
      <2>. QED  BY <1>6, <2>3, <2>4, KeptTypes DEF ProcessError
  <1>7. CASE FinishStep
      <2>1. ProcessedBatch \in CachedBatch
          <3>1. PICK D \in SUBSET Ids : reply \in RepliesFor(D)
              BY DEF ReplyTypeOK
          <3>. QED  BY <3>1 DEF ProcessedBatch, RepliesFor, CachedBatch, ProcessTypeOK
      <2>2. ProcessTypeOK'
          <3>1. completed_ids' \in Seq(Ids)
              BY <1>7 DEF FinishStep
          <3>. QED  BY <1>7, <3>1 DEF FinishStep, ProcessTypeOK
      <2>3. EntriesTypeOK'
          BY <1>7 DEF FinishStep, EntriesTypeOK
      <2>. QED  BY <1>7, <2>1, <2>2, <2>3, ResumeType, KeptTypes DEF FinishStep
  <1>. QED  BY <1>4, <1>5, <1>6, <1>7

\* and so does every step of the batching task.
LEMMA TaskType ==
  ASSUME TypeInv, TaskActs
  PROVE  TypeInv'
  <1> USE DEF TypeInv, TypeOK, RouterTypeOK, RpcTypeOK, rpcVars
  <1>1. UNCHANGED shardVars
      BY DEF TaskActs
  <1>2. CASE FillBuffer
      <2>1. QueueTypeOK'
          BY <1>2 DEF FillBuffer, QueueTypeOK
      <2>. QED  BY <1>1, <1>2, <2>1, KeptTypes DEF FillBuffer
  <1>3. CASE NextBatch
      BY <1>1, <1>3, NextBatchType
  <1>4. CASE ExtendBatch
      BY <1>1, <1>4, ExtendBatchType
  <1>5. CASE KeepBatch
      <2>1. batches' \in Seq(CachedBatch)
          BY <1>5 DEF KeepBatch, LoopTypeOK
      <2>2. prefill_delayed' \in BOOLEAN
          BY <1>5 DEF KeepBatch, LoopTypeOK
      <2>3. LoopTypeOK'
          BY <1>5, <2>1, <2>2 DEF KeepBatch, LoopTypeOK
      <2>. QED  BY <1>1, <1>5, <2>3, KeptTypes DEF KeepBatch
  <1>6. CASE SendNextToken
      <2>1. call' \in CallsFor({})
          BY <1>6 DEF SendNextToken, NextTokenCall, CallsFor, NoIds, NoStartId, LoopTypeOK
      <2>2. CallTypeOK' /\ call'.method # "prefill"
          BY <1>6, <2>1 DEF CallTypeOK, SendNextToken, NextTokenCall
      <2>3. QueueTypeOK' /\ LoopTypeOK'
          BY <1>6 DEF SendNextToken, QueueTypeOK, queueVars, LoopTypeOK, loopVars
      <2>. QED  BY <1>1, <1>6, <2>2, <2>3, KeptTypes DEF SendNextToken
  <1>. QED
      BY <1>1, <1>2, <1>3, <1>4, <1>5, <1>6, ReceiveType, ProcessType DEF TaskActs, TaskStep

----------------------------------------------------------------------------
(* The shard.                                                               *)

\* What is left of a pruned batch are ids of a cached batch.
LEMMA PruneTyped ==
  ASSUME ShardTypeOK, NEW cb
  PROVE  /\ Prune(cb) \subseteq Ids
         /\ Prune(cb) # {} => cb.batch_id \in DOMAIN cache /\ cb.batch_id \in BatchIds
  <1>1. PICK B \in SUBSET BatchIds : cache \in [B -> SUBSET Ids]
      BY DEF ShardTypeOK
  <1>. QED  BY <1>1 DEF Prune, BatchOf

\* The pruned cache maps batch ids to sets of request ids.
LEMMA PrunedCacheType ==
  ASSUME ShardTypeOK, NEW cbs
  PROVE  \E B \in SUBSET BatchIds : PrunedCache(cbs) \in [B -> SUBSET Ids]
  <1> DEFINE kept == {cbs[k].batch_id : k \in {h \in DOMAIN cbs : Prune(cbs[h]) # {}}}
  <1>1. PICK B \in SUBSET BatchIds : cache \in [B -> SUBSET Ids]
      BY DEF ShardTypeOK
  <1>2. kept \subseteq BatchIds
      BY PruneTyped
  <1>3. PrunedCache(cbs) \in [(B \ Named(cbs)) \cup kept -> SUBSET Ids]
      BY <1>1, PruneTyped DEF PrunedCache
  <1>. QED  BY <1>1, <1>2, <1>3

\* A nonempty set of positions has a least one.
LEMMA LeastExists ==
  ASSUME NEW S \in SUBSET Nat, S # {}
  PROVE  \E k \in S : \A h \in S : k <= h
  <1> DEFINE less == OpToRel(<, Nat)
  <1>1. PICK k \in S : \A h \in S : <<h, k>> \notin less
      <2> HIDE DEF less
      <2>1. IsWellFoundedOn(less, Nat)
          BY NatLessThanWellFounded DEF less
      <2>. QED  BY <2>1, WFMin
  <1>2. ASSUME NEW h \in S PROVE k <= h
      <2>1. <<h, k>> \in Nat \X Nat /\ <<h, k>>[1] = h /\ <<h, k>>[2] = k
          OBVIOUS
      <2>2. ~(h < k)
          BY <1>1, <2>1 DEF OpToRel
      <2>. QED  BY <2>2
  <1>. QED  BY <1>2

\* The number of some ids is a natural number.
LEMMA IdsCounted ==
  ASSUME NEW S \in SUBSET Ids
  PROVE  IsFiniteSet(S) /\ Cardinality(S) \in Nat
  BY IdAssumption, FS_Subset, FS_CardinalityType

\* A reply without outputs has its type.
LEMMA AnswerType ==
  ASSUME NEW kind \in {"error", "empty"}, reply' = Answer(kind)
  PROVE  ReplyTypeOK'
  <1>1. reply' \in RepliesFor({})
      BY DEF Answer, RepliesFor, NoIds
  <1>. QED  BY <1>1 DEF ReplyTypeOK

\* The handlers that fail or find nothing to do: only cache and kv change.
LEMMA NoTokensType ==
  ASSUME TypeInv,
         \/ PrefillNotFound \/ PrefillNoBatch \/ NextTokenNotFound \/ NextTokenEmpty
         \/ ShardFails
  PROVE  ReplyTypeOK' /\ ShardTypeOK' /\ UNCHANGED call
  <1> USE DEF TypeInv, TypeOK, RpcTypeOK
  <1>1. ReplyTypeOK' /\ UNCHANGED call
      BY AnswerType
      DEF PrefillNotFound, PrefillNoBatch, NextTokenNotFound, NextTokenEmpty, ShardFails,
          CallLost, ReplyLost, PrefillRaises, NextTokenRaises
  <1>2. PICK D \in SUBSET Ids : call \in CallsFor(D)
      BY DEF CallTypeOK
  <1>3. DOMAIN call.requests \in SUBSET Ids
      BY <1>2 DEF CallsFor
  <1>4. PICK B \in SUBSET BatchIds : cache \in [B -> SUBSET Ids]
      BY DEF ShardTypeOK
  <1>5. FailCall => rpc_failures' \in 0 .. MaxRpcFailures
      BY ShardAssumption DEF FailCall, ShardTypeOK
  <1>6. [b \in {} |-> {}] \in [{} -> SUBSET Ids]
      OBVIOUS
  <1>7. CASE PrefillNotFound
      BY <1>1, <1>7, KeptTypes DEF PrefillNotFound
  <1>8. CASE PrefillNoBatch
      <2>1. request_errors' \in 0 .. MaxRequestErrors
          BY <1>3, <1>8, IdsCounted, ShardAssumption DEF PrefillNoBatch, ShardTypeOK
      <2>2. kv' \in SUBSET Ids /\ UNCHANGED <<room, rpc_failures>>
          BY <1>8 DEF PrefillNoBatch, ShardTypeOK
      <2>3. \E C \in SUBSET BatchIds : cache' \in [C -> SUBSET Ids]
          BY <1>8, PrunedCacheType DEF PrefillNoBatch
      <2>. QED  BY <1>1, <2>1, <2>2, <2>3 DEF ShardTypeOK
  <1>9. CASE NextTokenNotFound
      <2>1. PICK k \in DOMAIN call.cached :
                /\ cache' = Restrict(cache, DOMAIN cache \ {call.cached[h].batch_id : h \in 1 .. k})
                /\ kv' = kv \ UNION {FreedIds(call.cached[h]) : h \in 1 .. k}
          BY <1>9 DEF NextTokenNotFound
      <2>2. cache' \in [B \ {call.cached[h].batch_id : h \in 1 .. k} -> SUBSET Ids]
          BY <1>4, <2>1 DEF Restrict
      <2>3. kv' \in SUBSET Ids /\ UNCHANGED <<room, request_errors, rpc_failures>>
          BY <1>9, <2>1 DEF NextTokenNotFound, ShardTypeOK
      <2>. QED  BY <1>1, <2>2, <2>3 DEF ShardTypeOK
  <1>10. CASE NextTokenEmpty
      BY <1>1, <1>6, <1>10 DEF NextTokenEmpty, ShardTypeOK
  <1>11. CASE CallLost \/ ReplyLost
      BY <1>1, <1>5, <1>11 DEF CallLost, ReplyLost, ShardTypeOK
  <1>12. CASE PrefillRaises
      <2>1. kv' \in SUBSET Ids /\ UNCHANGED <<room, request_errors>>
          BY <1>3, <1>12 DEF PrefillRaises, ShardTypeOK
      <2>2. \E C \in SUBSET BatchIds : cache' \in [C -> SUBSET Ids]
          BY <1>12, PrunedCacheType DEF PrefillRaises
      <2>. QED  BY <1>1, <1>5, <1>12, <2>1, <2>2 DEF PrefillRaises, ShardTypeOK
  <1>13. CASE NextTokenRaises
      BY <1>1, <1>5, <1>6, <1>13 DEF NextTokenRaises, ShardTypeOK
  <1>. QED
      BY <1>7, <1>8, <1>9, <1>10, <1>11, <1>12, <1>13 DEF ShardFails

\* Prefill keeps the types,
LEMMA PrefillType ==
  ASSUME TypeInv, PrefillRequest
  PROVE  ReplyTypeOK' /\ ShardTypeOK' /\ UNCHANGED call
  <1> USE DEF TypeInv, TypeOK, RpcTypeOK
  <1>1. PICK errs1 \in SUBSET DOMAIN call.requests :
            \E errs2 \in SUBSET (DOMAIN call.requests \ errs1) :
                \E both \in SUBSET errs2 : Prefill(errs1, errs2, both)
      BY DEF PrefillRequest
  <1>2. PICK errs2 \in SUBSET (DOMAIN call.requests \ errs1) :
            \E both \in SUBSET errs2 : Prefill(errs1, errs2, both)
      BY <1>1
  <1>3. PICK both \in SUBSET errs2 : Prefill(errs1, errs2, both)
      BY <1>2
  <1>4. PICK D \in SUBSET Ids : call \in CallsFor(D)
      BY DEF CallTypeOK
  <1>5. call.requests \in [D -> Nat \ {0}]
      BY <1>4 DEF CallsFor
  <1>6. call.batch_id \in BatchIds
      BY <1>3 DEF Prefill, InFlight
  <1> DEFINE batch == DOMAIN call.requests \ errs1
             outs  == (batch \ errs2) \cup both
  <1>7. batch \in SUBSET Ids /\ outs \in SUBSET Ids /\ errs1 \in SUBSET Ids /\ errs2 \in SUBSET Ids
      BY <1>1, <1>2, <1>3, <1>5
  <1>8. request_errors' \in 0 .. MaxRequestErrors
      BY <1>3, <1>7, IdsCounted, ShardAssumption DEF Prefill, ShardTypeOK
  <1>9. \E B \in SUBSET BatchIds : cache' \in [B -> SUBSET Ids]
      <2>1. PICK C \in SUBSET BatchIds : PrunedCache(call.cached) \in [C -> SUBSET Ids]
          BY PrunedCacheType
      <2>2. cache' \in [C \cup {call.batch_id} -> SUBSET Ids]
          BY <1>3, <1>7, <2>1 DEF Prefill
      <2>. QED  BY <1>6, <2>2
  <1>10. room' \in [Ids -> Nat]
      <2>1. \A i \in batch : call.requests[i] - 1 \in Nat
          BY <1>5
      <2>. QED  BY <1>3, <2>1 DEF Prefill, ShardTypeOK
  <1>11. kv' \in SUBSET Ids
      BY <1>3, <1>7 DEF Prefill, ShardTypeOK
  <1>12. reply' \in RepliesFor(outs)
      <2>1. [i \in outs |-> 1] \in [outs -> Nat \ {0}]
          OBVIOUS
      <2>. QED  BY <1>3, <1>6, <1>7, <2>1 DEF Prefill, OkReply, RepliesFor
  <1>. QED
      BY <1>3, <1>7, <1>8, <1>9, <1>10, <1>11, <1>12 DEF ReplyTypeOK, ShardTypeOK, Prefill

\* NextToken keeps them,
LEMMA NextTokenType ==
  ASSUME TypeInv, NextTokenRequest
  PROVE  ReplyTypeOK' /\ ShardTypeOK' /\ UNCHANGED call
  <1> USE DEF TypeInv, TypeOK, RpcTypeOK
  <1> DEFINE live  == LiveBatches(call.cached)
             first == CHOOSE k \in live : \A h \in live : k <= h
             batch == UNION {Prune(call.cached[k]) : k \in live}
  <1>1. PICK D \in SUBSET batch :
            \E errs \in SUBSET D, tokens \in [D -> 1 .. MaxTokensPerStep] :
                \E both \in IF Paged /\ MaxTokensPerStep > 1 THEN SUBSET errs ELSE {{}} :
                    NextToken(errs, both, tokens)
      BY DEF NextTokenRequest
  <1>2. PICK errs \in SUBSET D, tokens \in [D -> 1 .. MaxTokensPerStep] :
            \E both \in IF Paged /\ MaxTokensPerStep > 1 THEN SUBSET errs ELSE {{}} :
                NextToken(errs, both, tokens)
      BY <1>1
  <1>3. PICK both \in SUBSET errs : NextToken(errs, both, tokens)
      BY <1>2
  <1>4. batch \in SUBSET Ids
      BY PruneTyped
  <1>5. first \in live
      <2>1. PICK E \in SUBSET Ids : call \in CallsFor(E)
          BY DEF CallTypeOK
      <2>2. live \in SUBSET Nat
          BY <2>1 DEF CallsFor, LiveBatches
      <2>3. live # {}
          BY <1>3 DEF NextToken
      <2>. QED  BY <2>2, <2>3, LeastExists
  <1>6. call.cached[first].batch_id \in BatchIds
      BY <1>5, PruneTyped DEF LiveBatches
  <1> DEFINE outs == (D \ errs) \cup both
  <1>7. tokens \in [D -> Nat \ {0}]
      BY ShardAssumption
  <1>8. reply' = OkReply(call.cached[first].batch_id, Restrict(tokens, outs), {}, errs)
      BY <1>3 DEF NextToken
  <1>9. reply' \in RepliesFor(outs)
      <2>1. Restrict(tokens, outs) \in [outs -> Nat \ {0}]
          BY <1>7 DEF Restrict
      <2>2. errs \in SUBSET Ids
          BY <1>4
      <2>. QED  BY <1>6, <1>8, <2>1, <2>2 DEF OkReply, RepliesFor
  <1>10. request_errors' \in 0 .. MaxRequestErrors
      BY <1>3, <1>4, IdsCounted, ShardAssumption DEF NextToken, ShardTypeOK
  <1>11. cache' \in [{call.cached[first].batch_id} -> SUBSET Ids]
      BY <1>3, <1>4 DEF NextToken
  <1>12. room' \in [Ids -> Nat]
      <2>1. room' = RoomAfter(tokens)
          BY <1>3 DEF NextToken
      <2>. QED  BY <1>7, <2>1 DEF RoomAfter, ShardTypeOK
  <1>13. kv' \in SUBSET Ids
      BY <1>3 DEF NextToken, ShardTypeOK
  <1>14. UNCHANGED <<call, rpc_failures>>
      BY <1>3 DEF NextToken
  <1>. QED
      BY <1>4, <1>6, <1>9, <1>10, <1>11, <1>12, <1>13, <1>14 DEF ReplyTypeOK, ShardTypeOK

\* and so does every step.
LEMMA NextType ==
  ASSUME TypeInv, [Next]_vars
  PROVE  TypeInv'
  <1> USE DEF TypeInv, TypeOK, RouterTypeOK, RpcTypeOK
  <1>1. CASE ShardActs
      <2>1. ReplyTypeOK' /\ ShardTypeOK' /\ UNCHANGED call
          BY <1>1, NoTokensType, PrefillType, NextTokenType DEF ShardActs, ShardHandles
      <2>. QED  BY <1>1, <2>1, KeptTypes DEF ShardActs, routerVars
  <1>2. CASE UNCHANGED vars
      BY <1>2, KeptTypes DEF vars, routerVars, rpcVars
  <1>. QED  BY <1>1, <1>2, ClientType, TaskType, QueueType DEF Next, Quiescent

\* The state of every component always has its type (for the shard: a NextToken
\* never has an unknown batch put in the Cache of cache.py, and the space of a
\* request never becomes negative).
THEOREM TypeCorrect == Spec => []TypeOK
  <1>1. Spec => []TypeInv
      BY InitType, NextType, PTL DEF Spec
  <1>. QED  BY <1>1, PTL DEF TypeInv

-----------------------------------------------------------------------------
(* Every client that waits has a sender: SenderHeld and the refinement.     *)

Held == channel \cup buffer \cup Range(entries)

\* What a request has got so far, by where its entry is.  The queue and the
\* entries hold only unanswered requests, ids below next_id, and no request that
\* has reached its limit.
Progress ==
    /\ \A r \in Held : receiver[r] # "unsent" /\ answer[r] = "none"
    /\ \A r \in Requests : receiver[r] = "unsent" \/ r \in channel \cup buffer =>
            answer[r] = "none" /\ generated[r] = 0
    /\ \A i \in DOMAIN entries : i < next_id /\ generated[entries[i]] < Params[entries[i]].max_new

HeldInv == TypeInv /\ SenderHeld /\ Progress

\* The part of the state that HeldInv, beyond the types, and RequestService see.
heldVars == <<clientVars, channel, buffer, next_id, entries, generated>>

ServiceStep == [Service!Next]_(Service!vars)

\* The invariant holds initially, in an initial state of the service.
LEMMA HeldInit == Init => HeldInv /\ Service!Init
  <1> SUFFICES ASSUME Init PROVE SenderHeld /\ Progress /\ Service!Init
      BY InitType DEF HeldInv
  <1>1. SenderHeld
      BY DEF Init, RouterInit, SenderHeld, Waiting, Range, IsInjective
  <1>2. Progress
      BY DEF Init, RouterInit, Progress, Held, Range
  <1>3. Service!Init
      BY DEF Init, RouterInit, Service!Init
  <1>. QED  BY <1>1, <1>2, <1>3

\* A step that leaves clients, queue and entries alone keeps it and is none of the service's.
LEMMA HeldStutter ==
  ASSUME SenderHeld, Progress, UNCHANGED heldVars
  PROVE  SenderHeld' /\ Progress' /\ ServiceStep
  <1> USE DEF heldVars, clientVars
  <1>1. SenderHeld'
      BY DEF SenderHeld, Waiting, Range, IsInjective
  <1>2. Progress'
      BY DEF Progress, Held, Range
  <1>. QED  BY <1>1, <1>2 DEF ServiceStep, Service!vars

\* The typed part of the state that the steps below change.
LEMMA HeldTypes ==
  ASSUME TypeInv
  PROVE  /\ receiver \in [Requests -> {"unsent", "open", "closed"}]
         /\ answer \in [Requests -> {"none", "ok", "error", "timeout", "rejected"}]
         /\ generated \in [Requests -> Nat]
         /\ channel \subseteq Requests /\ buffer \subseteq Requests /\ expired \subseteq Requests
         /\ entries \in [DOMAIN entries -> Requests]
         /\ DOMAIN entries \subseteq Ids /\ next_id \in Nat
  BY DEF TypeInv, TypeOK, RouterTypeOK, ClientTypeOK, QueueTypeOK, EntriesTypeOK

\* A client's step keeps it and is one of the service,
LEMMA ClientHeld ==
  ASSUME HeldInv, ClientActs
  PROVE  SenderHeld' /\ Progress' /\ ServiceStep
  <1> USE DEF HeldInv, queueVars, ServiceStep, Service!Next
  <1>0. PICK r \in Requests : Enqueue(r) \/ Reject(r) \/ Cancel(r) \/ Expire(r)
      BY DEF ClientActs, ClientStep
  <1>1. CASE Enqueue(r)
      <2>0. receiver[r] = "unsent"
          BY <1>1 DEF Enqueue, Arrives
      <2>1. SenderHeld'
          BY <1>1, <2>0, HeldTypes DEF Enqueue, SenderHeld, Progress, Held, Waiting, IsInjective, Range
      <2>2. Progress'
          BY <1>1, <2>0, HeldTypes DEF Enqueue, Progress, Held, Range
      <2>3. Service!Submit(r)
          BY <1>1, <2>0 DEF Enqueue, Service!Submit
      <2>. QED  BY <2>1, <2>2, <2>3
  <1>2. CASE Reject(r)
      <2>0. receiver[r] = "unsent"
          BY <1>2 DEF Reject, Arrives
      <2>1. SenderHeld'
          BY <1>2, <2>0, HeldTypes DEF Reject, SenderHeld, Waiting, IsInjective, Range
      <2>2. Progress'
          BY <1>2, <2>0, HeldTypes DEF Reject, Progress, Held, Range
      <2>3. Service!Submit(r)
          BY <1>2, <2>0 DEF Reject, Service!Submit
      <2>. QED  BY <2>1, <2>2, <2>3
  <1>3. CASE Cancel(r)
      <2>1. SenderHeld'
          BY <1>3, HeldTypes DEF Cancel, SenderHeld, Waiting, IsInjective, Range
      <2>2. Progress'
          BY <1>3, HeldTypes DEF Cancel, Progress, Held, Range
      <2>3. Service!Leave(r)
          BY <1>3 DEF Cancel, Service!Leave, Service!Waiting
      <2>. QED  BY <2>1, <2>2, <2>3
  <1>4. CASE Expire(r)
      <2>1. SenderHeld'
          BY <1>4 DEF Expire, SenderHeld, Waiting, IsInjective, Range
      <2>2. Progress'
          BY <1>4 DEF Expire, Progress, Held, Range
      <2>3. Service!PassDeadline(r)
          BY <1>4 DEF Expire, Service!PassDeadline
      <2>. QED  BY <2>1, <2>2, <2>3
  <1>. QED  BY <1>0, <1>1, <1>2, <1>3, <1>4

\* so is a step of the queue servicer,
LEMMA QueueHeld ==
  ASSUME HeldInv, QueueActs \/ FillBuffer
  PROVE  SenderHeld' /\ Progress' /\ ServiceStep
  <1> USE DEF HeldInv, ServiceStep, Service!vars, clientVars
  <1>1. CASE PruneBuffer
      <2> DEFINE cancelled == {r \in buffer : receiver[r] = "closed"}
                 late      == (buffer \ cancelled) \cap expired
      <2>0. /\ buffer' = buffer \ (cancelled \cup late)
            /\ SendFinal(late, "timeout")
            /\ UNCHANGED <<receiver, expired, channel, next_id, entries, generated>>
          BY <1>1 DEF PruneBuffer
      <2>1. \A r \in late : Waiting(r) /\ r \in expired /\ generated[r] = 0
          BY HeldTypes DEF Progress, Held, Waiting
      <2>2. answer' = [r \in Requests |-> IF r \in late THEN "timeout" ELSE answer[r]]
          BY <2>0, <2>1 DEF SendFinal, Waiting
      <2>3. SenderHeld'
          BY <2>0, <2>1, <2>2, HeldTypes DEF SenderHeld, Waiting, IsInjective, Range
      <2>4. Progress'
          BY <2>0, <2>1, <2>2, HeldTypes DEF SenderHeld, Progress, Held, Range
      <2>5. Service!TimeOut(late)
          BY <2>0, <2>1, <2>2 DEF Service!TimeOut, Service!Waiting, Waiting
      <2>6. late \in SUBSET Requests
          BY HeldTypes
      <2>. QED  BY <2>3, <2>4, <2>5, <2>6 DEF Service!Next
  <1>2. CASE ServiceQueue \/ FillBuffer
      <2>1. PICK S \in SUBSET channel :
                /\ channel' = channel \ S /\ buffer' = buffer \cup S
                /\ UNCHANGED <<receiver, answer, expired, next_id, entries, generated>>
          <3>1. CASE ServiceQueue
              <4>1. PICK r \in channel : channel' = channel \ {r} /\ buffer' = buffer \cup {r}
                  BY <3>1 DEF ServiceQueue
              <4>. QED  BY <3>1, <4>1 DEF ServiceQueue
          <3>2. CASE FillBuffer
              BY <3>2 DEF FillBuffer
          <3>. QED  BY <1>2, <3>1, <3>2
      <2>2. SenderHeld'
          BY <2>1 DEF SenderHeld, Waiting, IsInjective, Range
      <2>3. Progress'
          BY <2>1 DEF Progress, Held, Range
      <2>. QED  BY <2>1, <2>2, <2>3
  <1>. QED  BY <1>1, <1>2 DEF QueueActs, QueueStep

\* A batch takes distinct waiting requests under ids that no entry has.
LEMMA TakeBatchHeld ==
  ASSUME HeldInv, NEW n \in Nat, NewIds(n) \subseteq Ids, NEW new \in [NewIds(n) -> buffer],
         NEW to_prune, NEW start_id, TakeBatch(n, new, to_prune, start_id),
         UNCHANGED <<clientVars, channel, generated>>
  PROVE  SenderHeld' /\ Progress' /\ ServiceStep
  <1> USE DEF HeldInv, clientVars
  <1>1. /\ buffer' = buffer \ Range(new)
        /\ next_id' = next_id + n
        /\ DOMAIN entries' = DOMAIN entries \cup NewIds(n)
        /\ \A i \in DOMAIN entries' :
              entries'[i] = IF i \in NewIds(n) THEN new[i] ELSE entries[i]
      BY DEF TakeBatch
  <1>2. \A i, j \in NewIds(n) : new[i] = new[j] => i = j
      <2>1. \A i, j \in NewIds(n) : i \in Nat /\ j \in Nat /\ (i < j => new[i] < new[j])
          BY IdAssumption DEF TakeBatch, Choice
      <2>2. \A i \in NewIds(n) : new[i] \in Nat
          BY HeldTypes, RequestAssumption
      <2>. QED  BY <2>1, <2>2
  <1>3. \A i \in DOMAIN entries : i \notin NewIds(n) /\ i < next_id + n
      BY HeldTypes, IdAssumption DEF Progress, NewIds
  <1>4. \A i \in NewIds(n) : i < next_id + n
      BY HeldTypes DEF NewIds
  <1>5. Range(entries') = Range(entries) \cup Range(new)
      BY <1>1, <1>3 DEF Range
  <1>6. SenderHeld'
      <2>1. \A r \in Requests : Waiting(r)' => r \in (channel \cup buffer \cup Range(entries))'
          BY <1>1, <1>5 DEF SenderHeld, Waiting
      <2>2. (channel \cap buffer = {} /\ (channel \cup buffer) \cap Range(entries) = {})'
          <3>1. Range(new) \subseteq buffer
              BY DEF Range
          <3>. QED  BY <1>1, <1>5, <3>1 DEF SenderHeld
      <2>3. IsInjective(entries)'
          <3>1. \A i \in NewIds(n), j \in DOMAIN entries : new[i] # entries[j]
              BY DEF SenderHeld, Range
          <3>. QED  BY <1>1, <1>2, <1>3, <3>1 DEF SenderHeld, IsInjective
      <2>. QED  BY <2>1, <2>2, <2>3 DEF SenderHeld
  <1>7. Progress'
      <2>1. \A i \in NewIds(n) :
                /\ new[i] \in Requests /\ new[i] \in buffer
                /\ generated[new[i]] = 0 /\ 0 < Params[new[i]].max_new
          BY HeldTypes, RequestAssumption DEF Progress, ParamsType
      <2>2. Held' \subseteq Held
          BY <1>1, <1>5, <2>1 DEF Held, Range
      <2>3. \A i \in DOMAIN entries' :
                i < next_id' /\ generated[entries'[i]] < Params[entries'[i]].max_new
          BY <1>1, <1>3, <1>4, <2>1 DEF Progress
      <2>. QED  BY <1>1, <2>2, <2>3 DEF Progress
  <1>. QED  BY <1>6, <1>7 DEF ServiceStep, Service!vars

\* Entries leave together with their senders; who still waits gets the error.
LEMMA DropHeld ==
  ASSUME HeldInv, NEW S \in SUBSET DOMAIN entries,
         SendFinal({entries[i] : i \in S}, "error"),
         entries' = Restrict(entries, DOMAIN entries \ S),
         UNCHANGED <<receiver, expired, channel, buffer, next_id, generated>>
  PROVE  SenderHeld' /\ Progress' /\ ServiceStep
  <1> USE DEF HeldInv
  <1> DEFINE rs == {r \in Requests : receiver[r] = "open" /\ \E i \in S : r = entries[i]}
  <1>1. answer' = [r \in Requests |-> IF r \in rs THEN "error" ELSE answer[r]]
      BY DEF SendFinal
  <1>2. /\ DOMAIN entries' = DOMAIN entries \ S
        /\ \A i \in DOMAIN entries' : entries'[i] = entries[i]
      BY DEF Restrict
  <1>3. \A i \in DOMAIN entries' : entries[i] \notin rs
      BY <1>2 DEF SenderHeld, IsInjective
  <1>4. \A r \in rs : r \notin channel \cup buffer /\ receiver[r] # "unsent" /\ Waiting(r)
      BY DEF SenderHeld, Progress, Held, Range, Waiting
  <1>5. SenderHeld'
      <2>1. ASSUME NEW r \in Requests, Waiting(r)'
            PROVE  r \in (channel \cup buffer \cup Range(entries))'
          <3>1. Waiting(r) /\ r \notin rs
              BY <1>1, <2>1 DEF Waiting
          <3>2. CASE r \in channel \cup buffer
              BY <3>2
          <3>3. CASE r \in Range(entries)
              <4>1. PICK i \in DOMAIN entries : r = entries[i]
                  BY <3>3 DEF Range
              <4>2. i \notin S
                  BY <3>1, <4>1 DEF Waiting
              <4>. QED  BY <1>2, <4>1, <4>2 DEF Range
          <3>. QED  BY <3>1, <3>2, <3>3 DEF SenderHeld
      <2>2. Range(entries') \subseteq Range(entries)
          BY <1>2 DEF Range
      <2>3. IsInjective(entries')
          BY <1>2 DEF SenderHeld, IsInjective
      <2>. QED  BY <2>1, <2>2, <2>3 DEF SenderHeld
  <1>6. Progress'
      <2>1. \A r \in Held' : r \in Held /\ r \notin rs /\ r \in Requests
          <3>1. \A r \in Range(entries') : r \in Range(entries) /\ r \notin rs
              BY <1>2, <1>3 DEF Range
          <3>2. Held \subseteq Requests
              BY HeldTypes DEF Held, Range
          <3>. QED  BY <1>4, <3>1, <3>2 DEF Held
      <2>2. \A r \in Requests : receiver[r] = "unsent" \/ r \in channel \cup buffer => r \notin rs
          BY <1>4
      <2>. QED  BY <1>1, <1>2, <2>1, <2>2 DEF Progress
  <1>7. Service!Fail(rs)
      BY <1>1, <1>4 DEF Service!Fail, Service!Waiting, Waiting
  <1>. QED  BY <1>5, <1>6, <1>7 DEF ServiceStep, Service!Next

\* A token is generated; the entry stays only below its limit and unanswered.
LEMMA GenerateHeld ==
  ASSUME HeldInv, NEW i \in DOMAIN entries, NEW result \in {"none", "ok", "error"},
         ProcessOutput(i, result),
         \/ RemoveEntry(i) /\ (result # "none" \/ receiver[entries[i]] = "closed")
         \/ result = "none" /\ UNCHANGED entries /\ MayContinue(entries[i], generated[entries[i]] + 1),
         result = "ok" => MayFinish(entries[i], generated[entries[i]] + 1)
  PROVE  SenderHeld' /\ Progress' /\ ServiceStep
  <1> USE DEF HeldInv
  <1>0. PICK r \in Requests : r = entries[i]
      BY HeldTypes
  <1> USE <1>0
  <1>1. /\ generated' = [generated EXCEPT ![r] = @ + 1]
        /\ UNCHANGED <<receiver, expired, channel, buffer, next_id>>
      BY DEF ProcessOutput, queueVars
  <1>2. /\ answer' \in [Requests -> {"none", "ok", "error", "timeout", "rejected"}]
        /\ \A q \in Requests : q # r => answer'[q] = answer[q]
        /\ answer'[r] = IF result # "none" /\ receiver[r] = "open" THEN result ELSE answer[r]
      BY HeldTypes DEF ProcessOutput, SendFinal
  <1>3. /\ r \notin channel \cup buffer
        /\ receiver[r] # "unsent" /\ answer[r] = "none"
        /\ generated[r] \in Nat /\ generated[r] < Params[r].max_new
      BY HeldTypes DEF SenderHeld, Progress, Held, Range
  <1>4. \/ /\ DOMAIN entries' = DOMAIN entries \ {i}
           /\ \A j \in DOMAIN entries' : entries'[j] = entries[j]
           /\ receiver[r] = "closed" \/ answer'[r] # "none"
        \/ /\ entries' = entries /\ answer'[r] = "none"
           /\ generated[r] + 1 < Params[r].max_new
      <2>1. CASE RemoveEntry(i) /\ (result # "none" \/ receiver[r] = "closed")
          <3>1. receiver[r] = "closed" \/ answer'[r] # "none"
              BY <1>2, <1>3, <2>1, HeldTypes
          <3>. QED  BY <2>1, <3>1 DEF RemoveEntry, Restrict
      <2>2. CASE result = "none" /\ UNCHANGED entries /\ MayContinue(r, generated[r] + 1)
          <3>1. Params[r].min_new \in Nat /\ Params[r].max_new \in Nat
                /\ Params[r].min_new <= Params[r].max_new
              BY <1>3, RequestAssumption DEF ParamsType
          <3>. QED  BY <1>2, <1>3, <2>2, <3>1 DEF MayContinue
      <2>. QED  BY <2>1, <2>2
  <1>5. SenderHeld'
      <2>1. \A j \in DOMAIN entries' : j \in DOMAIN entries /\ entries'[j] = entries[j]
          BY <1>4
      <2>2. \A j \in DOMAIN entries : j \in DOMAIN entries' \/ j = i
          BY <1>4
      <2>3. Waiting(r)' => i \in DOMAIN entries'
          BY <1>1, <1>4 DEF Waiting
      <2>. QED  BY <1>1, <1>2, <2>1, <2>2, <2>3 DEF SenderHeld, Waiting, IsInjective, Range
  <1>6. Progress'
      BY <1>1, <1>2, <1>3, <1>4, HeldTypes
      DEF Progress, Held, Range, SenderHeld, IsInjective
  <1>7. Service!Generate(r)
      BY <1>1, <1>2, <1>3, HeldTypes DEF Service!Generate, Service!Waiting, MayFinish
  <1>. QED  BY <1>3, <1>5, <1>6, <1>7 DEF ServiceStep, Service!Next

\* and a step of the batching task.
LEMMA TaskHeld ==
  ASSUME HeldInv, TaskActs
  PROVE  SenderHeld' /\ Progress' /\ ServiceStep
  <1> USE DEF HeldInv
  <1>1. CASE FillBuffer
      BY <1>1, QueueHeld
  <1>2. CASE NextBatch
      <2>1. PICK n \in 1 .. SizeLimit :
                /\ NewIds(n) \subseteq Ids
                /\ \E new \in [NewIds(n) -> buffer] : TakeBatch(n, new, <<>>, NoStartId)
          BY <1>2 DEF NextBatch
      <2>2. n \in Nat
          BY ConfigAssumption
      <2>. QED  BY <1>2, <2>1, <2>2, TakeBatchHeld DEF NextBatch
  <1>3. CASE ExtendBatch
      <2>1. PICK n \in 1 .. SizeLimit :
                /\ NewIds(n) \subseteq Ids
                /\ \E new \in [NewIds(n) -> buffer] : TakeBatch(n, new, ToPrune, next_id)
          BY <1>3 DEF ExtendBatch
      <2>2. n \in Nat
          BY ConfigAssumption
      <2>. QED  BY <1>3, <2>1, <2>2, TakeBatchHeld DEF ExtendBatch
  <1>4. CASE \/ KeepBatch \/ SendNextToken \/ ReceiveEmpty \/ ReceiveTokens \/ IgnoreOutput
             \/ FinishStep
      <2>1. UNCHANGED heldVars
          BY <1>4 DEF KeepBatch, SendNextToken, ReceiveEmpty, ReceiveTokens, IgnoreOutput,
                      FinishStep, heldVars, clientVars, queueVars
      <2>. QED  BY <2>1, HeldStutter
  <1>5. CASE ReceiveError
      <2>1. FailedIds(call.start_id) \in SUBSET DOMAIN entries
          BY DEF FailedIds
      <2>. QED  BY <1>5, <2>1, DropHeld DEF ReceiveError, queueVars
  <1>6. CASE Finish
      <2>1. PICK i \in DOMAIN entries :
                /\ ProcessOutput(i, "ok")
                /\ MayFinish(entries[i], generated[entries[i]] + 1)
                /\ RemoveEntry(i)
          BY <1>6 DEF Finish
      <2>. QED  BY <2>1, GenerateHeld
  <1>7. CASE DecodeFails
      <2>1. PICK i \in DOMAIN entries : ProcessOutput(i, "error") /\ RemoveEntry(i)
          BY <1>7 DEF DecodeFails
      <2>. QED  BY <2>1, GenerateHeld
  <1>8. CASE Continue
      <2>1. PICK i \in DOMAIN entries :
                /\ ProcessOutput(i, "none")
                /\ MayContinue(entries[i], generated[entries[i]] + 1)
                /\ IF SeenCancelled(entries[i], generated[entries[i]] + 1) THEN RemoveEntry(i)
                   ELSE UNCHANGED <<entries, completed_ids>>
          BY <1>8 DEF Continue
      <2>. QED  BY <2>1, GenerateHeld DEF SeenCancelled
  <1>9. CASE ProcessError
      <2>0. UNCHANGED <<receiver, expired, channel, buffer, next_id, generated>>
          BY <1>9 DEF ProcessError, queueVars
      <2>1. ASSUME NEW i \in DOMAIN entries, SendFinal({entries[i]}, "error"), RemoveEntry(i)
            PROVE  SenderHeld' /\ Progress' /\ ServiceStep
          <3>1. {i} \in SUBSET DOMAIN entries /\ {entries[j] : j \in {i}} = {entries[i]}
              OBVIOUS
          <3>. QED  BY <2>0, <2>1, <3>1, DropHeld DEF RemoveEntry
      <2>2. ASSUME UNCHANGED <<answer, entries>>
            PROVE  SenderHeld' /\ Progress' /\ ServiceStep
          BY <2>0, <2>2, HeldStutter DEF heldVars, clientVars
      <2>. QED  BY <1>9, <2>1, <2>2 DEF ProcessError
  <1>. QED
      BY <1>1, <1>2, <1>3, <1>4, <1>5, <1>6, <1>7, <1>8, <1>9 DEF TaskActs, TaskStep

\* Every step keeps the invariant and maps to a step of the service or a stutter.
LEMMA HeldNext ==
  ASSUME HeldInv, [Next]_vars
  PROVE  HeldInv' /\ ServiceStep
  <1>1. TypeInv'
      BY NextType DEF HeldInv
  <1>2. CASE ShardActs \/ Quiescent \/ UNCHANGED vars
      <2>1. UNCHANGED heldVars
          BY <1>2 DEF ShardActs, Quiescent, vars, routerVars, heldVars, queueVars
      <2>. QED  BY <1>1, <2>1, HeldStutter DEF HeldInv
  <1>3. CASE ClientActs \/ TaskActs \/ QueueActs
      BY <1>1, <1>3, ClientHeld, TaskHeld, QueueHeld DEF HeldInv
  <1>. QED  BY <1>2, <1>3 DEF Next

\* The invariant always holds.
LEMMA HeldAlways == Spec => []HeldInv
  BY HeldInit, HeldNext, PTL DEF Spec

\* While a client waits, the entry with the sending half of its channel exists,
\* once: the unwrap of the received result in infer (batcher.rs) cannot fail,
\* unless the batching task itself panics.
THEOREM SendersHeld == Spec => []SenderHeld
  BY HeldAlways, PTL DEF HeldInv

\* Every behaviour of the router and the shard, with all their failures, is one
\* of RequestService: at most one terminating response per request, tokens only
\* before it and within max_new_tokens, a normal one only from min_new_tokens on
\* or past the deadline, a timeout only before the first token (send_final,
\* check_stopping_criteria, send_errors, service_queue).
THEOREM Refinement == Spec => ImplementsService
  <1>1. Spec => Service!Init /\ [][Service!Next]_(Service!vars)
      BY HeldInit, HeldAlways, HeldNext, PTL DEF Spec, ServiceStep
  <1>. QED  BY <1>1 DEF ImplementsService, Service!Spec

-----------------------------------------------------------------------------
(* What the router and the shard know of each other: which call is in       *)
(* flight, which batches are cached and in which order, how much space a    *)
(* request has left, and which sequences the paged KV cache holds.          *)

\* Where the call in flight is, by where the batching task is, and what it carries.
CallPhase ==
    /\ pc \in {"next_batch", "loop", "decode"} => call = NoCall /\ reply = NoReply
    /\ pc = "rpc" => call.method # "none" /\ reply.kind # "taken"
    /\ pc = "process" => call.method # "none" /\ reply.kind = "taken"
    /\ pc = "panic" => reply.kind = "taken"
    /\ reply.kind = "empty" => call.method = "next_token"
    /\ reply.kind \in {"ok", "taken"} =>
          /\ reply.batch_id \in DOMAIN cache
          /\ call.method = "prefill" => reply.batch_id = call.batch_id
    /\ reply.kind = "ok" /\ call.method = "prefill" =>
          DOMAIN reply.outputs \cup reply.input_errors \cup reply.decode_errors \subseteq DOMAIN call.requests
    /\ call.method = "prefill" => call.cached = ToPrune /\ DOMAIN call.requests # {}
    /\ call.method = "next_token" =>
          call.cached = batches /\ call.requests = NoIds /\ call.start_id = NoStartId
    /\ call.method = "prefill" /\ pc = "rpc" /\ call.start_id # NoStartId =>
          DOMAIN call.requests = {i \in DOMAIN entries : i >= call.start_id}

\* The existing batch as the loop knows it.
BatchKnown ==
    /\ pc = "next_batch" => cached_batch = NoBatch
    /\ pc = "loop" => cached_batch.batch_id \in DOMAIN cache
    /\ call.method = "prefill" /\ reply.kind = "none" =>
          IF call.start_id = NoStartId THEN cached_batch = NoBatch
          ELSE cached_batch.batch_id \in DOMAIN cache

Ordered(cbs) == \A h, k \in DOMAIN cbs : h < k => cbs[h].batch_id < cbs[k].batch_id

\* A newer batch has a larger id and requests with larger ids, in the cache and in
\* what the router names.
CacheOrder ==
    /\ \A b \in DOMAIN cache :
          b < next_batch_id /\ cache[b] # {} /\ \A i \in cache[b] : i < next_id
    /\ \A b, c \in DOMAIN cache : b < c => \A i \in cache[b], j \in cache[c] : i < j
NamesOrder ==
    /\ next_batch_id > 0 /\ cached_batch.batch_id < next_batch_id
    /\ \A k \in DOMAIN batches : batches[k].batch_id < next_batch_id
    /\ Ordered(batches)
    /\ call.method = "prefill" =>
          /\ call.batch_id < next_batch_id /\ cached_batch.batch_id < call.batch_id
          /\ \A i \in DOMAIN call.requests : i < next_id
    /\ call.method = "prefill" /\ reply.kind = "none" =>
          \A b \in DOMAIN cache :
             b < call.batch_id /\ \A i \in cache[b], j \in DOMAIN call.requests : i < j

ProtocolInv == CallPhase /\ BatchKnown /\ CacheOrder /\ NamesOrder

\* The space that the shard has for a request is what the router will still let it
\* generate, less the tokens that the router has not seen yet.  A request whose error
\* is reported, and one of a failed call, no longer count.
Remaining(i) == Params[entries[i]].max_new - generated[entries[i]]
Tokens(outs, i) == IF i \in DOMAIN outs THEN outs[i] ELSE 0

RoomInv ==
    /\ pc \in {"next_batch", "loop", "decode"} \/ reply.kind = "empty" =>
          \A i \in DOMAIN entries : room[i] = Remaining(i)
    /\ pc = "rpc" /\ reply.kind = "none" =>
          \A i \in DOMAIN entries :
             (IF i \in DOMAIN call.requests THEN call.requests[i] ELSE room[i]) = Remaining(i)
    /\ reply.kind = "ok" =>
          \A i \in DOMAIN entries \ (reply.input_errors \cup reply.decode_errors) :
             room[i] + Tokens(reply.outputs, i) = Remaining(i)
    /\ pc = "process" =>
          \A i \in DOMAIN entries \ (input_errors \cup decode_errors) :
             room[i] + Tokens(outputs, i) = Remaining(i)
    /\ reply.kind = "error" /\ call.start_id # NoStartId =>
          \A i \in DOMAIN entries : i < call.start_id => room[i] = Remaining(i)

\* No sequence of a cached request is freed.
KvHeld == Paged => UNION Range(cache) \subseteq kv

CacheInv == ProtocolInv /\ RoomInv /\ KvHeld

-----------------------------------------------------------------------------
\* The types of the state that the proofs below use, one by one.
LEMMA CoreTypes ==
  ASSUME TypeInv
  PROVE  /\ entries \in [DOMAIN entries -> Requests] /\ DOMAIN entries \subseteq Ids
         /\ generated \in [Requests -> Nat]
         /\ next_id \in Nat /\ next_batch_id \in Nat
         /\ pc \in {"next_batch", "rpc", "process", "loop", "decode", "panic"}
         /\ cached_batch \in CachedBatch /\ batches \in Seq(CachedBatch)
         /\ outputs \in [DOMAIN outputs -> Nat \ {0}] /\ DOMAIN outputs \subseteq Ids
         /\ completed_ids \in Seq(Ids) /\ processed \in Nat
         /\ input_errors \subseteq Ids /\ decode_errors \subseteq Ids
  BY DEF TypeInv, TypeOK, RouterTypeOK, QueueTypeOK, EntriesTypeOK, ProcessTypeOK, LoopTypeOK

\* The types of the call, the answer and the shard's state.
LEMMA WireTypes ==
  ASSUME TypeInv
  PROVE  /\ call.method \in {"none", "prefill", "next_token"}
         /\ call.batch_id \in BatchIds \cup {0}
         /\ call.method = "prefill" => call.batch_id \in BatchIds
         /\ call.requests \in [DOMAIN call.requests -> Nat \ {0}] /\ DOMAIN call.requests \subseteq Ids
         /\ call.cached \in Seq(CachedBatch)
         /\ call.start_id \in Ids \cup {NoStartId}
         /\ reply.kind \in {"none", "ok", "empty", "error", "taken"}
         /\ reply.batch_id \in BatchIds \cup {0}
         /\ reply.outputs \in [DOMAIN reply.outputs -> Nat \ {0}] /\ DOMAIN reply.outputs \subseteq Ids
         /\ reply.input_errors \subseteq Ids /\ reply.decode_errors \subseteq Ids
         /\ cache \in [DOMAIN cache -> SUBSET Ids] /\ DOMAIN cache \subseteq BatchIds
         /\ room \in [Ids -> Nat] /\ kv \subseteq Ids
         /\ request_errors \in Nat /\ rpc_failures \in Nat
  <1> USE DEF TypeInv, TypeOK, RpcTypeOK
  <1>1. PICK D \in SUBSET Ids : call \in CallsFor(D)
      BY DEF CallTypeOK
  <1>2. PICK E \in SUBSET Ids : reply \in RepliesFor(E)
      BY DEF ReplyTypeOK
  <1>3. /\ cache \in [DOMAIN cache -> SUBSET Ids] /\ DOMAIN cache \subseteq BatchIds
        /\ room \in [Ids -> Nat] /\ kv \subseteq Ids
        /\ request_errors \in Nat /\ rpc_failures \in Nat
      BY ShardAssumption DEF ShardTypeOK
  <1>4. /\ call.method \in {"none", "prefill", "next_token"}
        /\ call.batch_id \in BatchIds \cup {0}
        /\ call.method = "prefill" => call.batch_id \in BatchIds
        /\ call.requests \in [DOMAIN call.requests -> Nat \ {0}] /\ DOMAIN call.requests \subseteq Ids
        /\ call.cached \in Seq(CachedBatch)
        /\ call.start_id \in Ids \cup {NoStartId}
      BY <1>1 DEF CallsFor
  <1>5. /\ reply.kind \in {"none", "ok", "empty", "error", "taken"}
        /\ reply.batch_id \in BatchIds \cup {0}
        /\ reply.outputs \in [DOMAIN reply.outputs -> Nat \ {0}] /\ DOMAIN reply.outputs \subseteq Ids
        /\ reply.input_errors \subseteq Ids /\ reply.decode_errors \subseteq Ids
      BY <1>2 DEF RepliesFor
  <1>. QED  BY <1>3, <1>4, <1>5

\* Names of batches are numbers.
LEMMA NameTypes ==
  ASSUME TypeInv
  PROVE  /\ cached_batch.batch_id \in Nat /\ call.batch_id \in Nat /\ reply.batch_id \in Nat
         /\ \A b \in DOMAIN cache : b \in Nat \ {0} /\ \A i \in cache[b] : i \in Nat
         /\ Len(batches) \in Nat /\ DOMAIN batches = 1 .. Len(batches)
         /\ \A k \in DOMAIN batches : batches[k] \in CachedBatch /\ batches[k].batch_id \in Nat
         /\ \A cb \in CachedBatch : cb.batch_id \in Nat
  <1>0. BatchIds \cup {0} \subseteq Nat
      BY IdAssumption
  <1>1. \A cb \in CachedBatch : cb.batch_id \in Nat
      <2>1. \A cb \in CachedBatch : cb.batch_id \in BatchIds \cup {0}
          BY DEF CachedBatch
      <2>. QED  BY <1>0, <2>1
  <1>2. \A b \in DOMAIN cache : b \in Nat \ {0} /\ \A i \in cache[b] : i \in Nat
      BY WireTypes, IdAssumption
  <1>3. cached_batch.batch_id \in Nat /\ call.batch_id \in Nat /\ reply.batch_id \in Nat
      <2>1. cached_batch \in CachedBatch
          BY CoreTypes
      <2>2. call.batch_id \in BatchIds \cup {0} /\ reply.batch_id \in BatchIds \cup {0}
          BY WireTypes
      <2>. QED  BY <1>0, <1>1, <2>1, <2>2
  <1>4. /\ Len(batches) \in Nat /\ DOMAIN batches = 1 .. Len(batches)
        /\ \A k \in DOMAIN batches : batches[k] \in CachedBatch
      BY CoreTypes
  <1>. QED  BY <1>1, <1>2, <1>3, <1>4

\* Steps that touch neither the loop nor the call: clients, and the queue.
idleVars == <<pc, rpcVars, entries, generated, next_id, next_batch_id, processVars,
              cached_batch, batches, batch_max_remaining_tokens, shardVars>>

\* A step that touches neither the batch nor the cache keeps the cache as the router
\* knows it.
LEMMA CacheIdle ==
  ASSUME CacheInv, UNCHANGED idleVars
  PROVE  CacheInv'
  <1> USE DEF CacheInv, ProtocolInv, idleVars, rpcVars, processVars, shardVars
  <1>1. CallPhase' /\ BatchKnown'
      BY DEF CallPhase, BatchKnown, ToPrune
  <1>2. CacheOrder' /\ NamesOrder'
      BY DEF CacheOrder, NamesOrder, Ordered
  <1>3. RoomInv'
      BY DEF RoomInv, Remaining, Tokens
  <1>4. KvHeld'
      BY DEF KvHeld, Range
  <1>. QED  BY <1>1, <1>2, <1>3, <1>4

\* The cache is empty before any request.
LEMMA CacheStarts == Init => CacheInv
  <1> SUFFICES ASSUME Init PROVE CacheInv
      OBVIOUS
  <1> USE DEF Init, RouterInit, RpcInit, ShardInit
  <1>1. CallPhase /\ BatchKnown
      BY DEF CallPhase, BatchKnown, NoCall, NoReply, Answer
  <1>2. CacheOrder /\ NamesOrder
      BY DEF CacheOrder, NamesOrder, Ordered, NoCall, NoBatch
  <1>3. RoomInv
      BY DEF RoomInv, NoReply, Answer
  <1>4. KvHeld
      BY DEF KvHeld, Range
  <1>. QED  BY <1>1, <1>2, <1>3, <1>4 DEF CacheInv, ProtocolInv

-----------------------------------------------------------------------------
(* The batching task.                                                       *)

\* A batch is taken from the queue: new requests under new ids, and a prefill for them.
Taken(n, new) ==
    /\ DOMAIN entries' = DOMAIN entries \cup NewIds(n)
    /\ \A i \in DOMAIN entries' : entries'[i] = IF i \in NewIds(n) THEN new[i] ELSE entries[i]
    /\ next_id' = next_id + n /\ next_batch_id' = next_batch_id + 1
    /\ call'.method = "prefill" /\ call'.batch_id = next_batch_id /\ call'.cached = ToPrune
    /\ DOMAIN call'.requests = NewIds(n)
    /\ \A i \in NewIds(n) : call'.requests[i] = Params[new[i]].max_new
    /\ call'.start_id = IF pc = "next_batch" THEN NoStartId ELSE next_id
    /\ pc' = "rpc"
    /\ UNCHANGED <<generated, processVars, cached_batch, batches, reply>>

\* What taking a batch from the queue does: fresh ids, one prefill call for all of them.
LEMMA TakeFacts ==
  ASSUME HeldInv, CacheInv, NextBatch \/ ExtendBatch
  PROVE  \E n \in Nat \ {0} : \E new \in [NewIds(n) -> Requests] :
            /\ NewIds(n) \subseteq Ids /\ NewIds(n) # {}
            /\ \A i \in NewIds(n) : i >= next_id /\ i < next_id + n
            /\ \A i \in NewIds(n) : generated[new[i]] = 0
            /\ Taken(n, new)
  <1> DEFINE start == IF pc = "next_batch" THEN NoStartId ELSE next_id
  <1>1. PICK n \in 1 .. SizeLimit :
            /\ NewIds(n) \subseteq Ids
            /\ \E new \in [NewIds(n) -> buffer] : TakeBatch(n, new, ToPrune, start)
      <2>1. CASE NextBatch
          <3>1. pc = "next_batch" /\ ToPrune = <<>>
              BY <2>1 DEF NextBatch, CacheInv, ProtocolInv, BatchKnown, ToPrune, NoBatch
          <3>. QED  BY <2>1, <3>1 DEF NextBatch
      <2>2. CASE ExtendBatch
          BY <2>2 DEF ExtendBatch
      <2>. QED  BY <2>1, <2>2
  <1>2. PICK new \in [NewIds(n) -> buffer] : TakeBatch(n, new, ToPrune, start)
      BY <1>1
  <1>3. n \in Nat \ {0} /\ next_id \in Nat
      BY ConfigAssumption, CoreTypes DEF HeldInv
  <1>4. new \in [NewIds(n) -> Requests] /\ \A i \in NewIds(n) : generated[new[i]] = 0
      BY HeldTypes DEF HeldInv, Progress
  <1>5. NewIds(n) # {} /\ \A i \in NewIds(n) : i >= next_id /\ i < next_id + n
      <2>1. next_id \in NewIds(n)
          BY <1>3 DEF NewIds
      <2>2. \A i \in NewIds(n) : i >= next_id /\ i < next_id + n
          BY <1>3 DEF NewIds
      <2>. QED  BY <2>1, <2>2
  <1>6. UNCHANGED <<generated, processVars, cached_batch, batches, reply>>
      BY DEF NextBatch, ExtendBatch, loopVars
  <1>7. Taken(n, new)
      BY <1>2, <1>6 DEF TakeBatch, PrefillCall, Taken
  <1>. QED  BY <1>1, <1>3, <1>4, <1>5, <1>7

\* Taking requests from the queue keeps CacheInv.
LEMMA TakeCache ==
  ASSUME HeldInv, CacheInv, NextBatch \/ ExtendBatch, UNCHANGED shardVars
  PROVE  CacheInv'
  <1> USE DEF HeldInv, CacheInv, ProtocolInv, shardVars
  <1>1. PICK n \in Nat \ {0} : \E new \in [NewIds(n) -> Requests] :
            /\ NewIds(n) \subseteq Ids /\ NewIds(n) # {}
            /\ \A i \in NewIds(n) : i >= next_id /\ i < next_id + n
            /\ \A i \in NewIds(n) : generated[new[i]] = 0
            /\ Taken(n, new)
      BY TakeFacts
  <1>2. PICK new \in [NewIds(n) -> Requests] :
            /\ NewIds(n) \subseteq Ids /\ NewIds(n) # {}
            /\ \A i \in NewIds(n) : i >= next_id /\ i < next_id + n
            /\ \A i \in NewIds(n) : generated[new[i]] = 0
            /\ Taken(n, new)
      BY <1>1
  <1>3. pc \in {"next_batch", "loop"}
      BY DEF NextBatch, ExtendBatch
  <1>4. reply = NoReply /\ reply.kind = "none" /\ reply' = reply
      BY <1>2, <1>3 DEF CallPhase, NoReply, Answer, Taken
  <1>5. \A i \in DOMAIN entries : i \in Nat /\ i < next_id
      BY CoreTypes, IdAssumption DEF Progress
  <1>6. CallPhase'
      <2>1. ToPrune' = ToPrune
          BY <1>2 DEF Taken, ToPrune
      <2>2. call'.start_id # NoStartId =>
                DOMAIN call'.requests = {i \in DOMAIN entries' : i >= call'.start_id}
          BY <1>2, <1>5, CoreTypes DEF Taken
      <2>. QED  BY <1>2, <1>4, <2>1, <2>2 DEF CallPhase, Taken
  <1>7. BatchKnown'
      BY <1>2, <1>3, CoreTypes DEF BatchKnown, Taken, NoStartId
  <1>8. CacheOrder'
      <2>1. next_id \in Nat /\ next_batch_id \in Nat /\ UNCHANGED cache
          BY CoreTypes
      <2>2. next_id' = next_id + n /\ next_batch_id' = next_batch_id + 1
          BY <1>2 DEF Taken
      <2>. QED  BY <2>1, <2>2, NameTypes DEF CacheOrder
  <1>9. NamesOrder'
      <2>0. next_id \in Nat /\ next_batch_id \in Nat
          BY CoreTypes
      <2>1. next_batch_id' > 0 /\ cached_batch'.batch_id < next_batch_id'
          BY <1>2, <2>0, NameTypes DEF NamesOrder, Taken
      <2>2. Ordered(batches)' /\ \A k \in DOMAIN batches' : batches'[k].batch_id < next_batch_id'
          BY <1>2, <2>0, NameTypes DEF NamesOrder, Taken, Ordered
      <2>3. /\ call'.batch_id < next_batch_id' /\ cached_batch'.batch_id < call'.batch_id
            /\ \A i \in DOMAIN call'.requests : i < next_id'
          BY <1>2, <2>0 DEF NamesOrder, Taken
      <2>4. \A b \in DOMAIN cache :
               b < call'.batch_id /\ \A i \in cache[b], j \in DOMAIN call'.requests : i < j
          BY <1>2, <2>0, WireTypes, IdAssumption DEF CacheOrder, Taken
      <2>. QED  BY <2>1, <2>2, <2>3, <2>4 DEF NamesOrder
  <1>10. RoomInv'
      <2>1. \A i \in DOMAIN entries : room[i] = Remaining(i)
          BY <1>3 DEF RoomInv
      <2>2. ASSUME NEW i \in DOMAIN entries'
            PROVE  (IF i \in DOMAIN call'.requests THEN call'.requests[i] ELSE room'[i]) = Remaining(i)'
          <3>1. CASE i \in NewIds(n)
              <4>1. new[i] \in Requests /\ Params[new[i]].max_new \in Nat
                  BY <3>1, <1>2, RequestAssumption DEF ParamsType
              <4>. QED  BY <3>1, <4>1, <1>2 DEF Taken, Remaining
          <3>2. CASE i \notin NewIds(n)
              BY <3>2, <2>1, <1>2 DEF Taken, Remaining
          <3>. QED  BY <3>1, <3>2
      <2>. QED  BY <1>2, <1>4, <2>2 DEF RoomInv, Taken
  <1>11. KvHeld'
      BY DEF KvHeld, Range
  <1>. QED  BY <1>6, <1>7, <1>8, <1>9, <1>10, <1>11

\* The loop keeps its batch, and calls for the next tokens.
LEMMA MoveCache ==
  ASSUME HeldInv, CacheInv, KeepBatch \/ SendNextToken, UNCHANGED shardVars
  PROVE  CacheInv'
  <1> USE DEF HeldInv, CacheInv, ProtocolInv, shardVars, rpcVars, queueVars, loopVars
  <1>1. CASE KeepBatch
      <2> USE <1>1 DEF KeepBatch
      <2>1. CallPhase' /\ BatchKnown'
          BY DEF CallPhase, BatchKnown, NoCall, NoReply, Answer
      <2>2. CacheOrder'
          BY DEF CacheOrder
      <2>3. NamesOrder'
          BY DEF NamesOrder, Ordered, CallPhase, NoCall
      <2>4. RoomInv'
          BY DEF RoomInv, Remaining, CallPhase, NoReply, Answer
      <2>5. KvHeld'
          BY DEF KvHeld, Range
      <2>. QED  BY <2>1, <2>2, <2>3, <2>4, <2>5
  <1>2. CASE SendNextToken
      <2> USE <1>2 DEF SendNextToken
      <2>1. CallPhase' /\ BatchKnown'
          BY DEF CallPhase, BatchKnown, NextTokenCall, NoReply, Answer
      <2>2. CacheOrder'
          BY DEF CacheOrder
      <2>3. NamesOrder'
          BY DEF NamesOrder, Ordered, CallPhase, NextTokenCall
      <2>4. RoomInv'
          BY DEF RoomInv, Remaining, CallPhase, NextTokenCall, NoReply, Answer, NoIds
      <2>5. KvHeld'
          BY DEF KvHeld, Range
      <2>. QED  BY <2>1, <2>2, <2>3, <2>4, <2>5
  <1>. QED  BY <1>1, <1>2

\* What comes after an add-on prefill: the existing batch, taken to be pruned, and the
\* new one.
Unlisted == [cached_batch EXCEPT !.completed_ids = <<>>]
AllBatches(result) ==
    IF result = NoBatch THEN PrunedBatches ELSE ExtendedBy(PrunedBatches, result)

\* The batches that the next call names, in terms of the result of this one.
LEMMA AllBatchesAre ==
  ASSUME NEW result \in CachedBatch
  PROVE  AllBatches(result) =
            IF cached_batch.done
            THEN IF result = NoBatch THEN <<>> ELSE <<result>>
            ELSE IF result = NoBatch THEN <<Unlisted>> ELSE <<Unlisted, result>>
  <1>1. ASSUME NEW c PROVE Append(<<c>>, result) = <<c, result>>
      <2> DEFINE s == Append(<<c>>, result)
                 t == <<c, result>>
      <2>1. <<c>> \in Seq({c, result}) /\ Len(<<c>>) = 1
          OBVIOUS
      <2>2. s \in Seq({c, result}) /\ Len(s) = 2 /\ s[1] = c /\ s[2] = result
          BY <2>1
      <2>3. t \in Seq({c, result}) /\ Len(t) = 2 /\ t[1] = c /\ t[2] = result
          OBVIOUS
      <2>4. \A i \in 1 .. 2 : i = 1 \/ i = 2
          OBVIOUS
      <2> HIDE DEF s, t
      <2>5. s = t
          BY <2>2, <2>3, <2>4, SeqEqual
      <2>. QED  BY <2>5 DEF s, t
  <1>2. Append(<<>>, result) = <<result>>
      OBVIOUS
  <1>. QED  BY <1>1, <1>2 DEF AllBatches, PrunedBatches, ExtendedBy, Unlisted

\* Where the loop goes after an await.
Resumed(result) ==
    /\ call' = NoCall /\ reply' = NoReply
    /\ \/ /\ pc' = "next_batch"
          /\ cached_batch' = NoBatch /\ batches' = <<>> /\ batch_max_remaining_tokens' = NotCounted
          /\ result = NoBatch
          /\ call.method = "prefill" /\ call.start_id # NoStartId => cached_batch.done
       \/ /\ pc' = "loop" /\ result # NoBatch
          /\ cached_batch' = result /\ batches' = <<>>
          /\ ~(call.method = "prefill" /\ call.start_id # NoStartId)
          /\ batch_max_remaining_tokens' =
                IF call.method = "prefill" \/ result.done \/ result.completed_ids # <<>>
                THEN NotCounted ELSE batch_max_remaining_tokens
       \/ /\ pc' = "decode"
          /\ call.method = "prefill" /\ call.start_id # NoStartId
          /\ batches' = AllBatches(result) /\ batches' # <<>>
          /\ batch_max_remaining_tokens' = NotCounted
          /\ UNCHANGED cached_batch

\* What each way back to the loop, of a first or an add-on prefill or of a step, does.
LEMMA ResumeFacts ==
  ASSUME NEW result \in CachedBatch, Resume(result)
  PROVE  Resumed(result)
  <1>0. call' = NoCall /\ reply' = NoReply
      BY DEF Resume
  <1>1. CASE ResumeFirstPrefill(result)
      BY <1>0, <1>1 DEF ResumeFirstPrefill, LeaveLoop, EnterLoop, Resumed
  <1>2. CASE ResumeExtend(result)
      <2>1. /\ call.method = "prefill" /\ call.start_id # NoStartId
            /\ \/ AllBatches(result) = <<>> /\ LeaveLoop
               \/ /\ AllBatches(result) # <<>> /\ pc' = "decode" /\ batches' = AllBatches(result)
                  /\ batch_max_remaining_tokens' = NotCounted /\ UNCHANGED cached_batch
          BY <1>2 DEF ResumeExtend, AllBatches
      <2>2. CASE AllBatches(result) = <<>> /\ LeaveLoop
          <3>1. result = NoBatch /\ cached_batch.done
              BY <2>2, AllBatchesAre
          <3>. QED  BY <1>0, <2>1, <2>2, <3>1 DEF LeaveLoop, Resumed
      <2>. QED  BY <1>0, <2>1, <2>2 DEF Resumed
  <1>3. CASE ResumeNextToken(result)
      BY <1>0, <1>3 DEF ResumeNextToken, LeaveLoop, EnterLoop, Resumed
  <1>. QED  BY <1>1, <1>2, <1>3 DEF Resume

\* The loop's names are in order after an await, if the call has produced no batch or
\* the one that its reply names.
LEMMA ResumeNames ==
  ASSUME TypeInv, ProtocolInv, NEW result \in CachedBatch, Resume(result), UNCHANGED <<next_id, next_batch_id, cache>>,
         result = NoBatch \/ (reply.kind \in {"ok", "taken"} /\ result.batch_id = reply.batch_id)
  PROVE  ProtocolInv'
  <1> USE DEF ProtocolInv
  <1>0. Resumed(result)
      BY ResumeFacts
  <1>1. NoCall.method = "none" /\ NoReply.kind = "none" /\ NoBatch.batch_id = 0
      BY DEF NoCall, NoReply, Answer, NoBatch
  <1>2. result = NoBatch \/ (result.batch_id \in DOMAIN cache /\ (call.method = "prefill" => result.batch_id = call.batch_id))
      BY DEF CallPhase
  <1>3. CallPhase'
      BY <1>0, <1>1 DEF CallPhase, Resumed
  <1>4. BatchKnown'
      BY <1>0, <1>1, <1>2 DEF BatchKnown, Resumed
  <1>5. CacheOrder'
      BY DEF CacheOrder
  <1>6. NamesOrder'
      <2>0. call'.method = "none" /\ next_batch_id \in Nat /\ next_batch_id > 0
          BY <1>0, <1>1, CoreTypes DEF Resumed, NamesOrder
      <2>1. result.batch_id < next_batch_id
          BY <1>1, <1>2, <2>0 DEF CacheOrder
      <2>2. cached_batch'.batch_id < next_batch_id'
          BY <1>0, <1>1, <2>0, <2>1 DEF Resumed, NamesOrder
      <2>3. (\A k \in DOMAIN batches : batches[k].batch_id < next_batch_id) /\ cached_batch.batch_id < next_batch_id
          BY DEF NamesOrder
      <2>4. (\A k \in DOMAIN batches' : batches'[k].batch_id < next_batch_id') /\ Ordered(batches')
          <3>1. CASE batches' = <<>>
              BY <3>1 DEF Ordered
          <3>2. CASE batches' # <<>>
              <4>1. batches' = AllBatches(result) /\ call.method = "prefill"
                  BY <1>0, <3>2 DEF Resumed
              <4>2. Unlisted.batch_id = cached_batch.batch_id
                  BY CoreTypes DEF Unlisted, CachedBatch
              <4>3. result # NoBatch => cached_batch.batch_id < result.batch_id
                  BY <4>1, <1>2 DEF NamesOrder
              <4>. QED  BY <2>1, <2>3, <3>2, <4>1, <4>2, <4>3, AllBatchesAre DEF Ordered
          <3>. QED  BY <3>1, <3>2
      <2>. QED  BY <2>0, <2>2, <2>4 DEF NamesOrder
  <1>. QED  BY <1>3, <1>4, <1>5, <1>6

\* The reply is received: nothing was to be done, the call has failed, or there are
\* tokens.
LEMMA ReceiveCache ==
  ASSUME HeldInv, CacheInv, ReceiveEmpty \/ ReceiveError \/ ReceiveTokens, UNCHANGED shardVars
  PROVE  CacheInv'
  <1> USE DEF HeldInv, CacheInv, shardVars, queueVars, processVars
  <1>1. NoCall.method = "none" /\ NoReply.kind = "none"
      BY DEF NoCall, NoReply, Answer
  <1>2. KvHeld'
      BY DEF KvHeld, Range
  <1>3. CASE ReceiveEmpty
      <2> USE <1>3 DEF ReceiveEmpty
      <2>1. ProtocolInv'
          BY NoBatchType, ResumeNames
      <2>2. Resumed(NoBatch)
          BY NoBatchType, ResumeFacts
      <2>3. RoomInv'
          BY <1>1, <2>2 DEF RoomInv, Remaining, Resumed
      <2>. QED  BY <1>2, <2>1, <2>3
  <1>4. CASE ReceiveError
      <2> USE <1>4 DEF ReceiveError
      <2>1. ProtocolInv'
          BY NoBatchType, ResumeNames
      <2>2. Resumed(NoBatch)
          BY NoBatchType, ResumeFacts
      <2>3. /\ DOMAIN entries' = DOMAIN entries \ FailedIds(call.start_id)
            /\ \A i \in DOMAIN entries' : entries'[i] = entries[i]
          BY DEF Restrict
      <2>4. \A i \in DOMAIN entries' : call.start_id # NoStartId /\ i < call.start_id
          BY <2>3, CoreTypes, WireTypes, IdAssumption DEF FailedIds
      <2>5. \A i \in DOMAIN entries' : room'[i] = Remaining(i)'
          BY <2>3, <2>4 DEF RoomInv, Remaining
      <2>6. RoomInv'
          BY <1>1, <2>2, <2>5 DEF RoomInv, Resumed
      <2>. QED  BY <1>2, <2>1, <2>6
  <1>5. CASE ReceiveTokens
      <2> USE <1>5 DEF ReceiveTokens, loopVars
      <2>1. /\ reply'.kind = "taken" /\ reply'.batch_id = reply.batch_id
            /\ reply'.outputs = reply.outputs
          <3>1. PICK D \in SUBSET Ids : reply \in RepliesFor(D)
              BY DEF TypeInv, TypeOK, RpcTypeOK, ReplyTypeOK
          <3>. QED  BY <3>1 DEF RepliesFor
      <2>2. CallPhase'
          BY <2>1 DEF ProtocolInv, CallPhase, ToPrune
      <2>3. BatchKnown' /\ CacheOrder' /\ NamesOrder'
          BY <2>1 DEF ProtocolInv, BatchKnown, CacheOrder, NamesOrder, Ordered
      <2>4. RoomInv'
          BY <2>1 DEF RoomInv, Remaining, Tokens
      <2>. QED  BY <1>2, <2>2, <2>3, <2>4 DEF ProtocolInv
  <1>. QED  BY <1>3, <1>4, <1>5

\* One output is consumed: the request has one token less to come.
LEMMA ConsumeFacts ==
  ASSUME TypeInv, NEW i \in DOMAIN outputs, ConsumeOutput(i)
  PROVE  /\ DOMAIN outputs' \subseteq DOMAIN outputs
         /\ \A j \in DOMAIN outputs : j # i => j \in DOMAIN outputs' /\ outputs'[j] = outputs[j]
         /\ Tokens(outputs', i) = Tokens(outputs, i) - 1
         /\ \A j : j # i => Tokens(outputs', j) = Tokens(outputs, j)
         /\ processed' = processed + 1
  <1>1. outputs \in [DOMAIN outputs -> Nat \ {0}]
      BY CoreTypes
  <1>2. processed' = processed + 1
      BY DEF ConsumeOutput
  <1>3. CASE outputs[i] > 1
      BY <1>1, <1>2, <1>3 DEF ConsumeOutput, Tokens
  <1>4. CASE ~(outputs[i] > 1)
      <2>1. outputs[i] = 1
          BY <1>1, <1>4
      <2>. QED  BY <1>1, <1>2, <1>4, <2>1 DEF ConsumeOutput, Tokens, Restrict
  <1>. QED  BY <1>3, <1>4

\* An output of a request in progress is processed.
Processed(i) ==
    /\ i \in DOMAIN outputs /\ i \in DOMAIN entries /\ NextOutput(i) /\ ConsumeOutput(i)
    /\ generated' = [generated EXCEPT ![entries[i]] = @ + 1]
    /\ \/ UNCHANGED <<entries, completed_ids>>
       \/ /\ entries' = Restrict(entries, DOMAIN entries \ {i})
          /\ completed_ids' = Append(completed_ids, i)
    /\ pc = "process"
    /\ UNCHANGED <<queueVars, input_errors, decode_errors, pc, loopVars, rpcVars>>

\* What processing one output does to the entries.
LEMMA ProcessedFacts ==
  ASSUME Finish \/ DecodeFails \/ Continue
  PROVE  \E i \in DOMAIN entries : Processed(i)
  <1>1. CASE Finish
      BY <1>1 DEF Finish, ProcessOutput, RemoveEntry, Processed, NextOutput
  <1>2. CASE DecodeFails
      BY <1>2 DEF DecodeFails, ProcessOutput, RemoveEntry, Processed, NextOutput
  <1>3. CASE Continue
      BY <1>3 DEF Continue, ProcessOutput, RemoveEntry, Processed, NextOutput
  <1>. QED  BY <1>1, <1>2, <1>3

\* While the outputs and errors of a reply are processed, the call stays as it is.
LEMMA ProtocolProcess ==
  ASSUME ProtocolInv, pc = "process", pc' \in {"process", "panic"},
         UNCHANGED <<rpcVars, next_id, next_batch_id, cached_batch, batches, cache>>
  PROVE  ProtocolInv'
  <1> USE DEF ProtocolInv, rpcVars
  <1>1. CallPhase' /\ BatchKnown'
      BY DEF CallPhase, BatchKnown, ToPrune
  <1>2. CacheOrder' /\ NamesOrder'
      BY DEF CacheOrder, NamesOrder, Ordered
  <1>. QED  BY <1>1, <1>2

\* Each step of process_tokens keeps CacheInv.
LEMMA ProcessCache ==
  ASSUME HeldInv, CacheInv, UNCHANGED shardVars,
         IgnoreOutput \/ Finish \/ DecodeFails \/ Continue \/ ProcessError \/ FinishStep
  PROVE  CacheInv'
  <1> USE DEF HeldInv, CacheInv, shardVars
  <1>1. pc = "process" /\ reply.kind = "taken"
      BY DEF IgnoreOutput, Finish, DecodeFails, Continue, ProcessOutput, ProcessError, FinishStep,
             ProtocolInv, CallPhase
  <1>2. KvHeld'
      BY DEF KvHeld, Range
  <1>3. \A i \in DOMAIN entries \ (input_errors \cup decode_errors) :
            room[i] + Tokens(outputs, i) = Remaining(i)
      BY <1>1 DEF RoomInv
  <1>4. CASE IgnoreOutput
      <2>1. PICK i \in DOMAIN outputs \ DOMAIN entries : ConsumeOutput(i)
          BY <1>4 DEF IgnoreOutput
      <2>2. /\ UNCHANGED <<rpcVars, next_id, next_batch_id, cached_batch, batches>>
            /\ UNCHANGED <<pc, entries, generated, input_errors, decode_errors>>
          BY <1>4 DEF IgnoreOutput, queueVars, loopVars
      <2>3. ProtocolInv'
          BY <1>1, <2>2, ProtocolProcess
      <2>4. \A j \in DOMAIN entries : Tokens(outputs', j) = Tokens(outputs, j)
          BY <2>1, ConsumeFacts
      <2>5. RoomInv'
          BY <1>1, <1>3, <2>2, <2>4 DEF RoomInv, Remaining, rpcVars
      <2>. QED  BY <1>2, <2>3, <2>5
  <1>5. CASE Finish \/ DecodeFails \/ Continue
      <2>1. PICK i \in DOMAIN entries : Processed(i)
          BY <1>5, ProcessedFacts
      <2>2. UNCHANGED <<rpcVars, next_id, next_batch_id, cached_batch, batches, pc, input_errors, decode_errors>>
          BY <2>1 DEF Processed, queueVars, loopVars
      <2>3. ProtocolInv'
          BY <1>1, <2>2, ProtocolProcess
      <2>4. DOMAIN entries' \subseteq DOMAIN entries /\ \A j \in DOMAIN entries' : entries'[j] = entries[j]
          BY <2>1 DEF Processed, Restrict
      <2>5. ASSUME NEW j \in DOMAIN entries' \ (input_errors \cup decode_errors)
            PROVE  room[j] + Tokens(outputs', j) = Remaining(j)'
          <3>1. j \in DOMAIN entries /\ entries'[j] = entries[j] /\ entries[j] \in Requests
              BY <2>4, CoreTypes
          <3>2. room[j] + Tokens(outputs, j) = Remaining(j) /\ room[j] \in Nat
              BY <1>3, <2>5, <3>1, CoreTypes, WireTypes
          <3>3. Params[entries[j]].max_new \in Nat /\ generated[entries[j]] \in Nat
              BY <3>1, CoreTypes, RequestAssumption DEF ParamsType
          <3>4. CASE j = i
              <4>1. generated'[entries[j]] = generated[entries[j]] + 1
                  BY <2>1, <3>1, <3>4, CoreTypes DEF Processed
              <4>2. Tokens(outputs', j) = Tokens(outputs, j) - 1 /\ Tokens(outputs, j) \in Nat
                  BY <2>1, <3>4, ConsumeFacts, CoreTypes DEF Processed, Tokens
              <4>. QED  BY <3>1, <3>2, <3>3, <4>1, <4>2 DEF Remaining
          <3>5. CASE j # i
              <4>1. entries[j] # entries[i]
                  BY <3>1, <3>5 DEF SenderHeld, IsInjective
              <4>2. generated'[entries[j]] = generated[entries[j]]
                  BY <2>1, <3>1, <4>1, CoreTypes DEF Processed
              <4>3. Tokens(outputs', j) = Tokens(outputs, j)
                  BY <2>1, <3>5, ConsumeFacts DEF Processed
              <4>. QED  BY <3>1, <3>2, <4>2, <4>3 DEF Remaining
          <3>. QED  BY <3>4, <3>5
      <2>6. RoomInv'
          BY <1>1, <2>2, <2>5 DEF RoomInv, rpcVars
      <2>. QED  BY <1>2, <2>3, <2>6
  <1>6. CASE ProcessError
      <2>1. PICK i \in input_errors \cup decode_errors :
                /\ input_errors' = input_errors \ {i} /\ decode_errors' = decode_errors \ {i}
                /\ \/ entries' = Restrict(entries, DOMAIN entries \ {i}) /\ pc' = pc
                   \/ entries' = entries /\ pc' = "panic"
          BY <1>6 DEF ProcessError, RemoveEntry
      <2>2. UNCHANGED <<rpcVars, next_id, next_batch_id, cached_batch, batches, generated, outputs>>
          BY <1>6 DEF ProcessError, queueVars, loopVars
      <2>3. ProtocolInv'
          BY <1>1, <2>1, <2>2, ProtocolProcess
      <2>4. pc' = "process" => \A j \in DOMAIN entries' \ (input_errors' \cup decode_errors') :
                  j \in DOMAIN entries \ (input_errors \cup decode_errors) /\ entries'[j] = entries[j]
          BY <2>1 DEF Restrict
      <2>5. RoomInv'
          BY <1>1, <1>3, <2>1, <2>2, <2>4 DEF RoomInv, Remaining, rpcVars
      <2>. QED  BY <1>2, <2>3, <2>5
  <1>7. CASE FinishStep
      <2>1. ProcessedBatch \in CachedBatch /\ ProcessedBatch.batch_id = reply.batch_id
          BY CoreTypes, WireTypes DEF ProcessedBatch, CachedBatch
      <2>2. /\ Resume(ProcessedBatch) /\ DOMAIN outputs = {} /\ input_errors \cup decode_errors = {}
            /\ UNCHANGED <<next_id, next_batch_id, entries, generated, outputs>>
          BY <1>7 DEF FinishStep, queueVars
      <2>3. ProtocolInv'
          BY <1>1, <2>1, <2>2, ResumeNames
      <2>4. Resumed(ProcessedBatch)
          BY <2>1, <2>2, ResumeFacts
      <2>5. NoReply.kind = "none"
          BY DEF NoReply, Answer
      <2>6. \A i \in DOMAIN entries : room[i] = Remaining(i)
          <3>1. \A i \in DOMAIN entries : room[i] \in Nat /\ Tokens(outputs, i) = 0
              BY <2>2, CoreTypes, WireTypes DEF Tokens
          <3>. QED  BY <1>3, <2>2, <3>1
      <2>7. RoomInv'
          BY <2>2, <2>4, <2>5, <2>6 DEF RoomInv, Resumed, Remaining
      <2>. QED  BY <1>2, <2>3, <2>7
  <1>. QED  BY <1>4, <1>5, <1>6, <1>7

-----------------------------------------------------------------------------
(* The shard.                                                               *)

\* A handler runs while the router awaits the call.
LEMMA HandlerPhase ==
  ASSUME TypeInv, CallPhase,
         (call.method # "none" /\ reply.kind = "none") \/ reply.kind \in {"ok", "empty", "error"}
  PROVE  pc = "rpc" /\ call.method # "none"
  <1>1. NoCall.method = "none" /\ NoReply.kind = "none"
      BY DEF NoCall, NoReply, Answer
  <1>2. pc = "rpc"
      BY <1>1, CoreTypes DEF CallPhase
  <1>. QED  BY <1>2 DEF CallPhase

\* No request is in two cached batches.
LEMMA CacheDisjoint ==
  ASSUME TypeInv, CacheOrder
  PROVE  /\ \A b, c \in DOMAIN cache : b # c => cache[b] \cap cache[c] = {}
         /\ \A b, c : b # c => BatchOf(b) \cap BatchOf(c) = {}
  <1>1. ASSUME NEW b \in DOMAIN cache, NEW c \in DOMAIN cache, b # c PROVE cache[b] \cap cache[c] = {}
      <2>1. b \in Nat /\ c \in Nat /\ (\A i \in cache[b] : i \in Nat) /\ (\A i \in cache[c] : i \in Nat)
          BY NameTypes
      <2>2. CASE b < c
          BY <2>1, <2>2 DEF CacheOrder
      <2>3. CASE c < b
          BY <2>1, <2>3 DEF CacheOrder
      <2>. QED  BY <1>1, <2>1, <2>2, <2>3
  <1>. QED  BY <1>1 DEF BatchOf

\* Batches that disappear or lose some of their requests leave the cache in order.
LEMMA ShrinkCache ==
  ASSUME CacheOrder, DOMAIN cache' \subseteq DOMAIN cache, UNCHANGED <<next_id, next_batch_id>>,
         \A b \in DOMAIN cache' : cache'[b] # {} /\ cache'[b] \subseteq cache[b]
  PROVE  CacheOrder'
  <1>1. \A b \in DOMAIN cache' : b < next_batch_id' /\ cache'[b] # {} /\ \A i \in cache'[b] : i < next_id'
      BY DEF CacheOrder
  <1>2. \A b, c \in DOMAIN cache' : b < c => \A i \in cache'[b], j \in cache'[c] : i < j
      BY DEF CacheOrder
  <1>. QED  BY <1>1, <1>2 DEF CacheOrder

\* The pruning of Prefill: what becomes of the existing batch.
LEMMA PrunedCacheIs ==
  ASSUME TypeInv, CacheOrder
  PROVE  /\ DOMAIN PrunedCache(ToPrune) =
               {b \in DOMAIN cache : b = cached_batch.batch_id => Prune(cached_batch) # {}}
         /\ \A b \in DOMAIN PrunedCache(ToPrune) :
               PrunedCache(ToPrune)[b] =
                  IF b = cached_batch.batch_id THEN Prune(cached_batch) ELSE cache[b]
         /\ Prune(cached_batch) \subseteq BatchOf(cached_batch.batch_id)
         /\ Paged => FreedBy(ToPrune) = BatchOf(cached_batch.batch_id) \ Prune(cached_batch)
  <1> DEFINE cb == cached_batch
  <1>1. Prune(cb) \subseteq BatchOf(cb.batch_id)
      BY DEF Prune
  <1>2. CASE ToPrune = <<>>
      <2>1. ~cb.done /\ cb.completed_ids = <<>>
          BY <1>2 DEF ToPrune
      <2>2. Prune(cb) = BatchOf(cb.batch_id)
          BY <2>1 DEF Prune, PrunedIds, IdsSeenByMerge, Range
      <2>3. PrunedCache(<<>>) = [b \in DOMAIN cache |-> cache[b]]
          BY DEF PrunedCache, Named
      <2>4. FreedBy(<<>>) = {}
          BY DEF FreedBy
      <2>5. \A b \in DOMAIN cache : cache[b] # {}
          BY DEF CacheOrder
      <2>. QED  BY <1>1, <1>2, <2>2, <2>3, <2>4, <2>5 DEF BatchOf
  <1>3. CASE ToPrune = <<cb>>
      <2> DEFINE cbs == <<cb>>
                 kept == {cbs[k].batch_id : k \in {h \in DOMAIN cbs : Prune(cbs[h]) # {}}}
      <2>1. DOMAIN cbs = {1} /\ cbs[1] = cb
          OBVIOUS
      <2>2. kept = IF Prune(cb) # {} THEN {cb.batch_id} ELSE {}
          BY <2>1
      <2>3. Named(cbs) = {cb.batch_id}
          BY <2>1 DEF Named
      <2>4. Prune(cb) # {} => cb.batch_id \in DOMAIN cache
          BY DEF Prune, BatchOf
      <2>5. (CHOOSE k \in DOMAIN cbs : cbs[k].batch_id = cb.batch_id) = 1
          BY <2>1
      <2>6. FreedBy(cbs) = FreedIds(cb)
          BY <2>1 DEF FreedBy
      <2>7. Paged => FreedIds(cb) = BatchOf(cb.batch_id) \ Prune(cb)
          BY DEF FreedIds, Prune, PrunedIds
      <2>8. PrunedCache(cbs) = [b \in (DOMAIN cache \ Named(cbs)) \cup kept |->
                IF b \in kept THEN Prune(cbs[CHOOSE k \in DOMAIN cbs : cbs[k].batch_id = b]) ELSE cache[b]]
          BY DEF PrunedCache
      <2> HIDE DEF cbs, kept
      <2>9. DOMAIN PrunedCache(cbs) = {b \in DOMAIN cache : b = cb.batch_id => Prune(cb) # {}}
          BY <2>2, <2>3, <2>4, <2>8
      <2>10. \A b \in DOMAIN PrunedCache(cbs) :
                PrunedCache(cbs)[b] = IF b = cb.batch_id THEN Prune(cb) ELSE cache[b]
          BY <2>1, <2>2, <2>3, <2>5, <2>8
      <2>. QED  BY <1>1, <1>3, <2>6, <2>7, <2>9, <2>10 DEF cbs
  <1>. QED  BY <1>2, <1>3 DEF ToPrune

\* Pruning keeps the order of the cache, and the sequences of what stays.
LEMMA PruningKeeps ==
  ASSUME TypeInv, CacheOrder, KvHeld
  PROVE  /\ \A b \in DOMAIN PrunedCache(ToPrune) :
               /\ b \in DOMAIN cache /\ PrunedCache(ToPrune)[b] # {}
               /\ PrunedCache(ToPrune)[b] \subseteq cache[b]
         /\ Paged => UNION Range(PrunedCache(ToPrune)) \subseteq kv \ FreedBy(ToPrune)
  <1>1. \A b \in DOMAIN PrunedCache(ToPrune) :
               /\ b \in DOMAIN cache /\ PrunedCache(ToPrune)[b] # {}
               /\ PrunedCache(ToPrune)[b] \subseteq cache[b]
      BY PrunedCacheIs DEF CacheOrder, BatchOf
  <1>2. ASSUME Paged, NEW b \in DOMAIN PrunedCache(ToPrune), NEW i \in PrunedCache(ToPrune)[b]
        PROVE  i \in kv \ FreedBy(ToPrune)
      <2>1. i \in cache[b] /\ b \in DOMAIN cache
          BY <1>1
      <2>2. i \in kv
          BY <1>2, <2>1 DEF KvHeld, Range
      <2>3. FreedBy(ToPrune) = BatchOf(cached_batch.batch_id) \ Prune(cached_batch)
          BY <1>2, PrunedCacheIs
      <2>4. CASE b = cached_batch.batch_id
          BY <2>2, <2>3, <2>4, PrunedCacheIs
      <2>5. CASE b # cached_batch.batch_id
          BY <2>1, <2>2, <2>3, <2>5, CacheDisjoint DEF BatchOf
      <2>. QED  BY <2>4, <2>5
  <1>. QED  BY <1>1, <1>2 DEF Range

\* The answer to a call leaves what the router knows in order.
LEMMA AnswerProtocol ==
  ASSUME ProtocolInv, pc = "rpc", UNCHANGED <<call, routerVars>>, CacheOrder',
         \/ reply'.kind = "error"
         \/ reply'.kind = "empty" /\ call.method = "next_token"
         \/ /\ reply'.kind = "ok" /\ reply'.batch_id \in DOMAIN cache'
            /\ call.method = "prefill" =>
                  /\ reply'.batch_id = call.batch_id
                  /\ DOMAIN reply'.outputs \cup reply'.input_errors \cup reply'.decode_errors \subseteq DOMAIN call.requests
  PROVE  ProtocolInv'
  <1> USE DEF ProtocolInv, routerVars, queueVars, loopVars
  <1>1. CallPhase'
      BY DEF CallPhase, ToPrune
  <1>2. BatchKnown'
      BY DEF BatchKnown
  <1>3. NamesOrder'
      BY DEF NamesOrder, Ordered
  <1>. QED  BY <1>1, <1>2, <1>3

\* An error instead of a reply: the requests before those of the call keep their space.
LEMMA ErrorRoom ==
  ASSUME TypeInv, CallPhase, RoomInv, pc = "rpc", reply' = Answer("error"),
         UNCHANGED <<call, routerVars, room>>
  PROVE  RoomInv'
  <1> USE DEF routerVars
  <1>1. reply'.kind = "error"
      BY DEF Answer
  <1>2. ASSUME call.start_id # NoStartId, NEW i \in DOMAIN entries, i < call.start_id
        PROVE  room[i] = Remaining(i)
      <2>1. call.method = "prefill"
          BY <1>2, WireTypes DEF CallPhase
      <2>2. i \notin DOMAIN call.requests
          BY <1>2, <2>1, CoreTypes, WireTypes, IdAssumption DEF CallPhase
      <2>3. room[i] \in Nat
          BY CoreTypes, WireTypes
      <2>4. CASE reply.kind = "ok"
          <3>1. i \notin DOMAIN reply.outputs /\ i \notin reply.input_errors \cup reply.decode_errors
              BY <2>1, <2>2, <2>4 DEF CallPhase
          <3>. QED  BY <2>3, <2>4, <3>1 DEF RoomInv, Tokens
      <2>5. reply.kind \in {"none", "ok", "empty", "error"}
          BY WireTypes DEF CallPhase
      <2>. QED  BY <1>2, <2>2, <2>4, <2>5 DEF RoomInv
  <1>. QED  BY <1>1, <1>2 DEF RoomInv, Remaining

\* A freed sequence is that of a request of the named batch.
LEMMA FreedInBatch ==
  ASSUME NEW cb
  PROVE  FreedIds(cb) \subseteq BatchOf(cb.batch_id)
  BY DEF FreedIds

\* A call that fails on the shard keeps CacheInv, though it may have popped or pruned
\* cached batches before it failed.
LEMMA ErrorCache ==
  ASSUME HeldInv, CacheInv, UNCHANGED routerVars,
         PrefillNotFound \/ PrefillNoBatch \/ NextTokenNotFound \/ ShardFails
  PROVE  CacheInv'
  <1> USE DEF HeldInv, CacheInv, ProtocolInv
  <1>1. reply' = Answer("error") /\ reply'.kind = "error" /\ UNCHANGED <<call, room>>
      BY DEF PrefillNotFound, PrefillNoBatch, NextTokenNotFound, ShardFails, CallLost, ReplyLost,
             PrefillRaises, NextTokenRaises, Answer, shardVars
  <1>2. pc = "rpc"
      <2>1. (call.method # "none" /\ reply.kind = "none") \/ reply.kind \in {"ok", "empty", "error"}
          BY DEF PrefillNotFound, PrefillNoBatch, NextTokenNotFound, ShardFails, CallLost, ReplyLost,
                 PrefillRaises, NextTokenRaises, InFlight
      <2>. QED  BY <2>1, HandlerPhase
  <1>3. RoomInv'
      BY <1>1, <1>2, ErrorRoom
  <1>4. UNCHANGED <<next_id, next_batch_id>>
      BY DEF routerVars, queueVars
  <1>5. SUFFICES CacheOrder' /\ KvHeld'
      BY <1>1, <1>2, <1>3, AnswerProtocol
  <1>6. CASE PrefillNotFound \/ CallLost \/ ReplyLost
      <2>1. UNCHANGED <<cache, kv>>
          BY <1>6 DEF PrefillNotFound, CallLost, ReplyLost, shardVars
      <2>. QED  BY <1>4, <2>1 DEF CacheOrder, KvHeld, Range
  <1>7. CASE PrefillNoBatch \/ PrefillRaises
      <2>1. call.cached = ToPrune
          BY <1>7 DEF PrefillNoBatch, PrefillRaises, InFlight, CallPhase
      <2>2. cache' = PrunedCache(ToPrune) /\ kv \ FreedBy(ToPrune) \subseteq kv'
          BY <1>7, <2>1 DEF PrefillNoBatch, PrefillRaises
      <2>3. CacheOrder'
          BY <1>4, <2>2, PruningKeeps, ShrinkCache
      <2>4. KvHeld'
          BY <2>2, PruningKeeps DEF KvHeld
      <2>. QED  BY <2>3, <2>4
  <1>8. CASE NextTokenNotFound
      <2>1. PICK k \in DOMAIN call.cached :
                /\ cache' = Restrict(cache, DOMAIN cache \ {call.cached[h].batch_id : h \in 1 .. k})
                /\ kv' = kv \ UNION {FreedIds(call.cached[h]) : h \in 1 .. k}
          BY <1>8 DEF NextTokenNotFound
      <2>2. /\ DOMAIN cache' = DOMAIN cache \ {call.cached[h].batch_id : h \in 1 .. k}
            /\ \A b \in DOMAIN cache' : cache'[b] = cache[b]
          BY <2>1 DEF Restrict
      <2>3. CacheOrder'
          BY <1>4, <2>2, ShrinkCache DEF CacheOrder
      <2>4. ASSUME Paged, NEW b \in DOMAIN cache', NEW i \in cache'[b] PROVE i \in kv'
          <3>1. b \in DOMAIN cache /\ i \in cache[b] /\ i \in kv
              BY <2>2, <2>4 DEF KvHeld, Range
          <3>2. ASSUME NEW h \in 1 .. k PROVE i \notin FreedIds(call.cached[h])
              <4>1. b # call.cached[h].batch_id
                  BY <2>2
              <4>. QED  BY <3>1, <4>1, CacheDisjoint, FreedInBatch DEF BatchOf
          <3>. QED  BY <2>1, <3>1, <3>2
      <2>. QED  BY <2>3, <2>4 DEF KvHeld, Range
  <1>9. CASE NextTokenRaises
      BY <1>9 DEF NextTokenRaises, CacheOrder, KvHeld, Range
  <1>. QED  BY <1>6, <1>7, <1>8, <1>9 DEF ShardFails

\* A Prefill that succeeds: the existing batch is pruned and the new one is cached.
Prefilled(errs1, errs2, outs) ==
    /\ call.method = "prefill" /\ reply.kind = "none"
    /\ errs1 \subseteq DOMAIN call.requests /\ errs1 # DOMAIN call.requests
    /\ errs2 \subseteq DOMAIN call.requests \ errs1
    /\ (DOMAIN call.requests \ errs1) \ errs2 \subseteq outs
    /\ outs \subseteq DOMAIN call.requests \ errs1
    /\ request_errors' = request_errors + Cardinality(errs1) + Cardinality(errs2)
    /\ DOMAIN cache' = DOMAIN PrunedCache(ToPrune) \cup {call.batch_id}
    /\ cache'[call.batch_id] = DOMAIN call.requests \ errs1
    /\ \A b \in DOMAIN PrunedCache(ToPrune) : b # call.batch_id => cache'[b] = PrunedCache(ToPrune)[b]
    /\ \A i \in Ids : room'[i] = IF i \in DOMAIN call.requests \ errs1 THEN call.requests[i] - 1
                                 ELSE room[i]
    /\ kv' = (kv \ FreedBy(ToPrune)) \cup (IF Paged THEN DOMAIN call.requests \ errs1 ELSE {})
    /\ reply' = OkReply(call.batch_id, [i \in outs |-> 1], errs1, errs2)
    /\ UNCHANGED <<call, rpc_failures>>

\* What a prefill that succeeds does to the cache, the room and the KV cache.
LEMMA PrefilledFacts ==
  ASSUME CallPhase, PrefillRequest
  PROVE  \E errs1, errs2, outs : Prefilled(errs1, errs2, outs)
  <1>1. PICK errs1 \in SUBSET DOMAIN call.requests :
            \E errs2 \in SUBSET (DOMAIN call.requests \ errs1) :
                \E both \in SUBSET errs2 : Prefill(errs1, errs2, both)
      BY DEF PrefillRequest
  <1>2. PICK errs2 \in SUBSET (DOMAIN call.requests \ errs1) :
            \E both \in SUBSET errs2 : Prefill(errs1, errs2, both)
      BY <1>1
  <1>3. PICK both \in SUBSET errs2 : Prefill(errs1, errs2, both)
      BY <1>2
  <1> DEFINE batch == DOMAIN call.requests \ errs1
             outs  == (batch \ errs2) \cup both
  <1>4. call.cached = ToPrune /\ call.method = "prefill" /\ reply.kind = "none"
      BY <1>3 DEF Prefill, InFlight, CallPhase
  <1>5. /\ cache' = [b \in DOMAIN PrunedCache(ToPrune) \cup {call.batch_id} |->
                        IF b = call.batch_id THEN batch ELSE PrunedCache(ToPrune)[b]]
        /\ room' = [i \in Ids |-> IF i \in batch THEN call.requests[i] - 1 ELSE room[i]]
        /\ kv' = (kv \ FreedBy(ToPrune)) \cup (IF Paged THEN batch ELSE {})
        /\ reply' = OkReply(call.batch_id, [i \in outs |-> 1], errs1, errs2)
      BY <1>3, <1>4 DEF Prefill
  <1>6. /\ errs1 # DOMAIN call.requests /\ UNCHANGED <<call, rpc_failures>>
        /\ request_errors' = request_errors + Cardinality(errs1) + Cardinality(errs2)
      BY <1>3 DEF Prefill
  <1>7. Prefilled(errs1, errs2, outs)
      BY <1>1, <1>2, <1>3, <1>4, <1>5, <1>6 DEF Prefilled
  <1>. QED  BY <1>7

\* A prefill that succeeds keeps CacheInv.
LEMMA PrefillCache ==
  ASSUME HeldInv, CacheInv, PrefillRequest, UNCHANGED routerVars
  PROVE  CacheInv'
  <1> USE DEF HeldInv, CacheInv, ProtocolInv
  <1>1. PICK errs1, errs2, outs : Prefilled(errs1, errs2, outs)
      BY PrefilledFacts
  <1> DEFINE batch == DOMAIN call.requests \ errs1
             pruned == PrunedCache(ToPrune)
  <1>2. pc = "rpc" /\ call.method = "prefill" /\ reply.kind = "none" /\ UNCHANGED call
      BY <1>1, HandlerPhase DEF Prefilled
  <1>3. /\ reply'.kind = "ok" /\ reply'.batch_id = call.batch_id /\ reply'.outputs = [i \in outs |-> 1]
        /\ reply'.input_errors = errs1 /\ reply'.decode_errors = errs2
      BY <1>1 DEF Prefilled, OkReply
  <1>4. \A b \in DOMAIN pruned : /\ b \in DOMAIN cache /\ b \in Nat /\ pruned[b] # {}
                                 /\ pruned[b] \subseteq cache[b]
      BY PruningKeeps, NameTypes
  <1>5. UNCHANGED <<next_id, next_batch_id, entries, generated, pc>>
      BY DEF routerVars, queueVars
  <1>6. \A b \in DOMAIN cache :
             b < call.batch_id /\ \A i \in cache[b], j \in DOMAIN call.requests : i < j
      BY <1>2 DEF NamesOrder
  <1>7. call.batch_id \in Nat /\ call.batch_id < next_batch_id /\ \A i \in batch : i < next_id
      BY <1>2, NameTypes DEF NamesOrder
  <1>8. /\ DOMAIN cache' = DOMAIN pruned \cup {call.batch_id} /\ cache'[call.batch_id] = batch
        /\ \A b \in DOMAIN pruned : b # call.batch_id /\ cache'[b] = pruned[b]
        /\ batch # {}
      <2>1. \A b \in DOMAIN pruned : b # call.batch_id
          BY <1>4, <1>6, <1>7
      <2>. QED  BY <1>1, <2>1 DEF Prefilled
  <1> HIDE DEF batch, pruned
  <1>9. CacheOrder'
      <2>1. \A b \in DOMAIN cache' : b < next_batch_id' /\ cache'[b] # {} /\ \A i \in cache'[b] : i < next_id'
          BY <1>4, <1>5, <1>7, <1>8 DEF CacheOrder
      <2>2. ASSUME NEW b \in DOMAIN cache', NEW c \in DOMAIN cache', b < c,
                   NEW i \in cache'[b], NEW j \in cache'[c]
            PROVE  i < j
          <3>1. CASE b \in DOMAIN pruned /\ c \in DOMAIN pruned
              BY <1>4, <1>8, <2>2, <3>1 DEF CacheOrder
          <3>2. CASE b \in DOMAIN pruned /\ c = call.batch_id
              BY <1>4, <1>6, <1>8, <2>2, <3>2 DEF batch
          <3>3. CASE b = call.batch_id
              BY <1>4, <1>6, <1>7, <1>8, <2>2, <3>3
          <3>. QED  BY <1>8, <3>1, <3>2, <3>3
      <2>. QED  BY <2>1, <2>2 DEF CacheOrder
  <1>10. ProtocolInv'
      <2>1. DOMAIN reply'.outputs \cup reply'.input_errors \cup reply'.decode_errors \subseteq DOMAIN call.requests
          BY <1>1, <1>3 DEF Prefilled
      <2>. QED  BY <1>2, <1>3, <1>8, <1>9, <2>1, AnswerProtocol
  <1>11. RoomInv'
      <2>1. ASSUME NEW i \in DOMAIN entries' \ (reply'.input_errors \cup reply'.decode_errors)
            PROVE  room'[i] + Tokens(reply'.outputs, i) = Remaining(i)'
          <3>1. i \in DOMAIN entries /\ i \in Ids /\ i \notin errs1 \cup errs2 /\ Remaining(i)' = Remaining(i)
              BY <1>3, <1>5, CoreTypes DEF Remaining
          <3>2. CASE i \in DOMAIN call.requests
              <4>1. room'[i] = call.requests[i] - 1 /\ i \in outs
                  BY <1>1, <3>1, <3>2 DEF Prefilled
              <4>2. call.requests[i] \in Nat /\ call.requests[i] = Remaining(i)
                  BY <1>2, <3>1, <3>2, WireTypes DEF RoomInv
              <4>3. Tokens(reply'.outputs, i) = 1
                  BY <1>3, <4>1 DEF Tokens
              <4>. QED  BY <3>1, <4>1, <4>2, <4>3
          <3>3. CASE i \notin DOMAIN call.requests
              <4>1. room'[i] = room[i] /\ i \notin outs
                  BY <1>1, <3>1, <3>3 DEF Prefilled
              <4>2. room[i] \in Nat /\ room[i] = Remaining(i)
                  BY <1>2, <3>1, <3>3, WireTypes DEF RoomInv
              <4>3. Tokens(reply'.outputs, i) = 0
                  BY <1>3, <4>1 DEF Tokens
              <4>. QED  BY <3>1, <4>1, <4>2, <4>3
          <3>. QED  BY <3>2, <3>3
      <2>. QED  BY <1>2, <1>3, <1>5, <2>1 DEF RoomInv
  <1>12. KvHeld'
      <2>1. ASSUME Paged, NEW b \in DOMAIN cache', NEW i \in cache'[b] PROVE i \in kv'
          <3>1. kv' = (kv \ FreedBy(ToPrune)) \cup batch
              BY <1>1, <2>1 DEF Prefilled, batch
          <3>2. UNION Range(pruned) \subseteq kv \ FreedBy(ToPrune)
              BY <2>1, PruningKeeps DEF pruned
          <3>. QED  BY <1>8, <2>1, <3>1, <3>2 DEF Range
      <2>. QED  BY <2>1 DEF KvHeld, Range
  <1>. QED  BY <1>10, <1>11, <1>12

\* A NextToken that succeeds: what stays of the named batches becomes one batch under
\* the name of the first, and each of its requests with space left gets tokens.
Stepped(D, errs, outs, tokens, first) ==
    /\ call.method = "next_token" /\ reply.kind = "none"
    /\ first \in DOMAIN batches /\ Prune(batches[first]) # {}
    /\ \A k \in DOMAIN batches : Prune(batches[k]) # {} => first <= k
    /\ \A k \in DOMAIN batches : ~batches[k].done => batches[k].batch_id \in DOMAIN cache
    /\ D = IF Paged THEN {i \in LiveOnShard : room[i] > 0} ELSE LiveOnShard
    /\ errs \subseteq D /\ D \ errs \subseteq outs /\ outs \subseteq D
    /\ tokens \in [D -> Nat \ {0}]
    /\ \A i \in D : IF Paged THEN tokens[i] <= room[i] ELSE tokens[i] = 1
    /\ request_errors' = request_errors + Cardinality(errs)
    /\ DOMAIN cache' = {batches[first].batch_id} /\ cache'[batches[first].batch_id] = LiveOnShard
    /\ \A i \in Ids : room'[i] = IF i \in D
                                 THEN IF room[i] > tokens[i] THEN room[i] - tokens[i] ELSE 0
                                 ELSE room[i]
    /\ kv' = kv \ FreedBy(batches)
    /\ reply' = OkReply(batches[first].batch_id, Restrict(tokens, outs), {}, errs)
    /\ UNCHANGED <<call, rpc_failures>>

\* What a next_token that succeeds does to the cache, the room and the KV cache.
LEMMA SteppedFacts ==
  ASSUME TypeInv, CallPhase, NextTokenRequest
  PROVE  \E D, errs, outs, tokens, first : Stepped(D, errs, outs, tokens, first)
  <1> DEFINE live  == LiveBatches(call.cached)
             first == CHOOSE k \in live : \A h \in live : k <= h
             batch == UNION {Prune(call.cached[k]) : k \in live}
  <1>1. PICK D \in SUBSET batch :
            \E errs \in SUBSET D, tokens \in [D -> 1 .. MaxTokensPerStep] :
                \E both \in IF Paged /\ MaxTokensPerStep > 1 THEN SUBSET errs ELSE {{}} :
                    NextToken(errs, both, tokens)
      BY DEF NextTokenRequest
  <1>2. PICK errs \in SUBSET D, tokens \in [D -> 1 .. MaxTokensPerStep] :
            \E both \in IF Paged /\ MaxTokensPerStep > 1 THEN SUBSET errs ELSE {{}} :
                NextToken(errs, both, tokens)
      BY <1>1
  <1>3. PICK both \in SUBSET errs : NextToken(errs, both, tokens)
      BY <1>2
  <1>4. call.method = "next_token" /\ reply.kind = "none" /\ call.cached = batches
      BY <1>3 DEF NextToken, InFlight, CallPhase
  <1> DEFINE outs == (D \ errs) \cup both
  <1>5. batch = LiveOnShard
      <2>1. \A k \in DOMAIN batches : k \notin live => Prune(batches[k]) = {}
          BY <1>4 DEF LiveBatches
      <2>2. live \subseteq DOMAIN batches
          BY <1>4 DEF LiveBatches
      <2> HIDE DEF live
      <2>. QED  BY <1>4, <2>1, <2>2 DEF LiveOnShard
  <1>6. /\ first \in DOMAIN batches /\ Prune(batches[first]) # {}
        /\ \A k \in DOMAIN batches : Prune(batches[k]) # {} => first <= k
      <2>0. live # {}
          BY <1>3 DEF NextToken
      <2>1. live \in SUBSET Nat
          BY <1>4, NameTypes DEF LiveBatches
      <2>2. first \in live /\ \A h \in live : first <= h
          <3> HIDE DEF live
          <3>. QED  BY <2>0, <2>1, LeastExists
      <2> HIDE DEF first
      <2>. QED  BY <1>4, <2>2 DEF LiveBatches
  <1>7. D = IF Paged THEN {i \in batch : room[i] > 0} ELSE batch
      BY <1>3 DEF NextToken
  <1>8. \A i \in D : IF Paged THEN tokens[i] <= room[i] ELSE tokens[i] = 1
      <2>1. \A i \in D : Paged => tokens[i] <= room[i]
          BY <1>3, <1>7 DEF NextToken
      <2>2. ~Paged => \A i \in D : tokens[i] = 1
          BY ShardAssumption
      <2>. QED  BY <2>1, <2>2
  <1>9. tokens \in [D -> Nat \ {0}]
      BY ShardAssumption
  <1>10. \A k \in DOMAIN batches : ~batches[k].done => batches[k].batch_id \in DOMAIN cache
      BY <1>3, <1>4 DEF NextToken, NothingMissing
  <1>11. /\ cache' = [b \in {batches[first].batch_id} |-> batch]
         /\ room' = RoomAfter(tokens) /\ kv' = kv \ FreedBy(batches)
         /\ request_errors' = request_errors + Cardinality(errs)
         /\ UNCHANGED <<call, rpc_failures>>
      BY <1>3, <1>4 DEF NextToken
  <1>12. reply' = OkReply(batches[first].batch_id, Restrict(tokens, outs), {}, errs)
      BY <1>3, <1>4, <1>7 DEF NextToken
  <1> HIDE DEF live, first, batch
  <1>13. \A i \in Ids : room'[i] = IF i \in D THEN IF room[i] > tokens[i] THEN room[i] - tokens[i] ELSE 0
                                   ELSE room[i]
      BY <1>11 DEF RoomAfter
  <1>14. DOMAIN cache' = {batches[first].batch_id} /\ cache'[batches[first].batch_id] = LiveOnShard
      BY <1>5, <1>11
  <1>15. Stepped(D, errs, outs, tokens, first)
      BY <1>4, <1>5, <1>6, <1>7, <1>8, <1>9, <1>10, <1>11, <1>12, <1>13, <1>14 DEF Stepped
  <1>. QED  BY <1>15

\* What a NextToken goes on with is in named batches, and not freed.
LEMMA LiveFacts ==
  ASSUME TypeInv, CacheOrder, NamesOrder
  PROVE  /\ \A i \in LiveOnShard : \E b \in DOMAIN cache : i \in cache[b]
         /\ \A k \in DOMAIN batches : Prune(batches[k]) # {} => batches[k].batch_id \in DOMAIN cache
         /\ Paged => LiveOnShard \cap FreedBy(batches) = {}
  <1>1. \A k \in DOMAIN batches : /\ Prune(batches[k]) \subseteq BatchOf(batches[k].batch_id)
                                  /\ Prune(batches[k]) # {} => batches[k].batch_id \in DOMAIN cache
      BY DEF Prune, BatchOf
  <1>2. ASSUME Paged, NEW k \in DOMAIN batches, NEW h \in DOMAIN batches, NEW i \in Prune(batches[k])
        PROVE  i \notin FreedIds(batches[h])
      <2>1. CASE h = k
          BY <1>2, <2>1 DEF Prune, FreedIds, PrunedIds
      <2>2. CASE h # k
          <3>1. k \in Nat /\ h \in Nat /\ batches[k].batch_id \in Nat /\ batches[h].batch_id \in Nat
              BY NameTypes
          <3>2. batches[h].batch_id # batches[k].batch_id
              BY <2>2, <3>1 DEF NamesOrder, Ordered
          <3>. QED  BY <1>1, <3>2, CacheDisjoint, FreedInBatch
      <2>. QED  BY <2>1, <2>2
  <1>. QED  BY <1>1, <1>2 DEF LiveOnShard, FreedBy, BatchOf

\* A next_token that succeeds keeps CacheInv.
LEMMA StepCache ==
  ASSUME HeldInv, CacheInv, NextTokenRequest, UNCHANGED routerVars
  PROVE  CacheInv'
  <1> USE DEF HeldInv, CacheInv, ProtocolInv
  <1>1. PICK D, errs, outs, tokens, first : Stepped(D, errs, outs, tokens, first)
      BY SteppedFacts
  <1>2. pc = "rpc" /\ call.method = "next_token" /\ reply.kind = "none" /\ UNCHANGED call
      BY <1>1, HandlerPhase DEF Stepped
  <1>3. /\ reply'.kind = "ok" /\ reply'.batch_id = batches[first].batch_id
        /\ reply'.outputs = Restrict(tokens, outs)
        /\ reply'.input_errors = {} /\ reply'.decode_errors = errs
      BY <1>1 DEF Stepped, OkReply
  <1>4. UNCHANGED <<next_id, next_batch_id, entries, generated, pc>>
      BY DEF routerVars, queueVars
  <1> DEFINE b0 == batches[first].batch_id
  <1>5. /\ DOMAIN cache' = {b0} /\ cache'[b0] = LiveOnShard /\ b0 \in DOMAIN cache
        /\ LiveOnShard # {}
      <2>1. Prune(batches[first]) \subseteq LiveOnShard /\ Prune(batches[first]) # {}
          BY <1>1 DEF Stepped, LiveOnShard
      <2>. QED  BY <1>1, <2>1, LiveFacts DEF Stepped
  <1> HIDE DEF b0
  <1>6. CacheOrder'
      <2>1. \A b \in DOMAIN cache' : b < next_batch_id' /\ cache'[b] # {} /\ \A i \in cache'[b] : i < next_id'
          BY <1>4, <1>5, LiveFacts DEF CacheOrder
      <2>2. \A b, c \in DOMAIN cache' : b = c /\ b \in Nat
          BY <1>5, NameTypes
      <2>. QED  BY <2>1, <2>2 DEF CacheOrder
  <1>7. ProtocolInv'
      BY <1>2, <1>3, <1>5, <1>6, AnswerProtocol DEF b0
  <1>8. RoomInv'
      <2>1. ASSUME NEW i \in DOMAIN entries' \ (reply'.input_errors \cup reply'.decode_errors)
            PROVE  room'[i] + Tokens(reply'.outputs, i) = Remaining(i)'
          <3>1. i \in DOMAIN entries /\ i \in Ids /\ i \notin errs /\ Remaining(i)' = Remaining(i)
              BY <1>3, <1>4, CoreTypes DEF Remaining
          <3>2. room[i] \in Nat /\ room[i] = Remaining(i) /\ Remaining(i) > 0
              <4>1. room[i] = Remaining(i)
                  BY <1>2, <3>1 DEF RoomInv, CallPhase, NoIds
              <4>2. entries[i] \in Requests
                  BY <3>1, CoreTypes
              <4>3. Params[entries[i]].max_new \in Nat /\ generated[entries[i]] \in Nat
                  BY <4>2, CoreTypes, RequestAssumption DEF ParamsType
              <4>. QED  BY <3>1, <4>1, <4>3, WireTypes DEF Progress, Remaining
          <3>3. CASE i \in D
              <4>1. /\ i \in outs /\ tokens[i] \in Nat \ {0}
                    /\ IF Paged THEN tokens[i] <= room[i] ELSE tokens[i] = 1
                    /\ room'[i] = IF room[i] > tokens[i] THEN room[i] - tokens[i] ELSE 0
                  BY <1>1, <3>1, <3>3 DEF Stepped
              <4>2. room'[i] = room[i] - tokens[i]
                  BY <3>2, <4>1
              <4>3. Tokens(reply'.outputs, i) = tokens[i]
                  BY <1>3, <4>1 DEF Tokens, Restrict
              <4>. QED  BY <3>1, <3>2, <4>1, <4>2, <4>3
          <3>4. CASE i \notin D
              <4>1. room'[i] = room[i] /\ i \notin outs
                  BY <1>1, <3>1, <3>4 DEF Stepped
              <4>2. Tokens(reply'.outputs, i) = 0
                  BY <1>3, <4>1 DEF Tokens, Restrict
              <4>. QED  BY <3>1, <3>2, <4>1, <4>2
          <3>. QED  BY <3>3, <3>4
      <2>. QED  BY <1>2, <1>3, <1>4, <2>1 DEF RoomInv
  <1>9. KvHeld'
      <2>1. ASSUME Paged, NEW i \in LiveOnShard PROVE i \in kv'
          <3>1. kv' = kv \ FreedBy(batches)
              BY <1>1 DEF Stepped
          <3>2. i \in kv
              BY <2>1, LiveFacts DEF KvHeld, Range
          <3>. QED  BY <2>1, <3>1, <3>2, LiveFacts
      <2>. QED  BY <1>5, <2>1 DEF KvHeld, Range
  <1>. QED  BY <1>7, <1>8, <1>9

\* A NextToken that only cleans up leaves nothing in the cache.
LEMMA EmptyCache ==
  ASSUME HeldInv, CacheInv, NextTokenEmpty, UNCHANGED routerVars
  PROVE  CacheInv'
  <1> USE DEF HeldInv, CacheInv, ProtocolInv
  <1>1. /\ call.method = "next_token" /\ reply.kind = "none" /\ UNCHANGED <<call, room>>
        /\ DOMAIN cache' = {} /\ reply' = Answer("empty") /\ reply'.kind = "empty"
      BY DEF NextTokenEmpty, InFlight, Answer
  <1>2. pc = "rpc"
      BY <1>1, HandlerPhase
  <1>3. CacheOrder' /\ KvHeld'
      BY <1>1 DEF CacheOrder, KvHeld, Range
  <1>4. ProtocolInv'
      BY <1>1, <1>2, <1>3, AnswerProtocol
  <1>5. RoomInv'
      <2>1. \A i \in DOMAIN entries : room[i] = Remaining(i)
          BY <1>1, <1>2 DEF RoomInv, CallPhase, NoIds
      <2>. QED  BY <1>1, <1>2, <2>1 DEF RoomInv, Remaining, routerVars
  <1>. QED  BY <1>3, <1>4, <1>5

-----------------------------------------------------------------------------
\* The steps that touch neither the loop nor the call.
LEMMA IdleSteps ==
  ASSUME ClientActs \/ QueueActs \/ (FillBuffer /\ UNCHANGED shardVars) \/ Quiescent \/ UNCHANGED vars
  PROVE  UNCHANGED idleVars
  <1>1. CASE ClientActs
      BY <1>1 DEF ClientActs, ClientStep, Enqueue, Reject, Cancel, Expire, idleVars, queueVars, loopVars
  <1>2. CASE QueueActs
      BY <1>2 DEF QueueActs, QueueStep, PruneBuffer, ServiceQueue, idleVars, loopVars
  <1>3. CASE FillBuffer /\ UNCHANGED shardVars
      BY <1>3 DEF FillBuffer, idleVars, loopVars
  <1>4. CASE Quiescent \/ UNCHANGED vars
      BY <1>4 DEF Quiescent, vars, routerVars, idleVars, queueVars, loopVars
  <1>. QED  BY <1>1, <1>2, <1>3, <1>4

\* Every step keeps CacheInv.
LEMMA CacheNext ==
  ASSUME HeldInv, CacheInv, [Next]_vars
  PROVE  CacheInv'
  <1>1. CASE ClientActs \/ QueueActs \/ (FillBuffer /\ UNCHANGED shardVars) \/ Quiescent \/ UNCHANGED vars
      BY <1>1, IdleSteps, CacheIdle
  <1>2. CASE TaskActs
      BY <1>1, <1>2, TakeCache, MoveCache, ReceiveCache, ProcessCache DEF TaskActs, TaskStep
  <1>3. CASE ShardActs
      BY <1>3, ErrorCache, PrefillCache, StepCache, EmptyCache DEF ShardActs, ShardHandles
  <1>. QED  BY <1>1, <1>2, <1>3 DEF Next

\* CacheInv holds in every reachable state.
LEMMA CacheAlways == Spec => [](HeldInv /\ CacheInv)
  BY HeldInit, CacheStarts, HeldNext, CacheNext, PTL DEF Spec

\* The shard never has more or less space for a request than the router will still let
\* it generate, after any sequence of prefills, steps, failed requests and failed
\* calls (max_remaining_tokens and total_lengths of the batch types, generated_tokens
\* of batcher.rs).
THEOREM RoomAlwaysAgrees == Spec => []RoomAgrees
  <1>1. HeldInv /\ CacheInv => RoomAgrees
      BY DEF CacheInv, RoomInv, RoomAgrees, Remaining
  <1>. QED  BY <1>1, CacheAlways, PTL

-----------------------------------------------------------------------------
(* The agreement of router and shard.                                       *)

\* What is left of a batch that has been pruned already.
Kept(cb) == IF cb.done THEN {} ELSE BatchOf(cb.batch_id)

Ascending(s) == \A m \in DOMAIN s : \A h \in 1 .. m - 1 : s[h] < s[m]

Awaited == pc = "rpc" /\ reply.kind = "none"
Answered == (pc = "rpc" /\ reply.kind = "ok") \/ pc = "process"

\* The requests that the shard is going on with, by how far the current call is.
OnShard ==
    CASE pc = "loop" -> Prune(cached_batch)
      [] pc = "decode" \/ (Awaited /\ call.method = "next_token") -> LiveOnShard
      [] Awaited /\ call.method = "prefill" -> Prune(cached_batch) \cup DOMAIN call.requests
      [] Answered /\ call.method = "prefill" ->
            Kept(cached_batch) \cup (cache[reply.batch_id] \ Range(completed_ids))
      [] Answered /\ call.method = "next_token" -> cache[reply.batch_id] \ Range(completed_ids)
      [] OTHER -> {}

\* The batches that the router knows the shard to have cached.
Known ==
    CASE pc = "loop" -> {cached_batch.batch_id}
      [] pc = "decode" \/ (Awaited /\ call.method = "next_token") -> Named(batches)
      [] Awaited /\ call.method = "prefill" -> {cached_batch.batch_id} \ {0}
      [] Answered /\ call.method = "prefill" ->
            {reply.batch_id} \cup (IF cached_batch.done THEN {} ELSE {cached_batch.batch_id} \ {0})
      [] Answered /\ call.method = "next_token" -> {reply.batch_id}
      [] OTHER -> {}

\* How the pieces of a step hang together, whatever fails: its outputs are those of the
\* batch that its reply names, a prefill is for requests without tokens, and the count
\* of remaining tokens is taken anew once a request has completed.
Books ==
    /\ pc \in {"next_batch", "loop", "decode", "rpc"} => completed_ids = <<>>
    /\ pc = "process" => \A m \in DOMAIN completed_ids : completed_ids[m] \notin DOMAIN entries
    /\ reply.kind = "ok" => DOMAIN reply.outputs \subseteq cache[reply.batch_id]
    /\ pc = "process" => DOMAIN outputs \subseteq cache[reply.batch_id]
    /\ reply.kind = "ok" /\ call.method = "prefill" => cache[reply.batch_id] \subseteq DOMAIN call.requests
    /\ call.method = "prefill" =>
          IF call.start_id = NoStartId THEN cached_batch = NoBatch ELSE cached_batch.batch_id # 0
    /\ call.method = "prefill" /\ pc = "rpc" =>
          \A i \in DOMAIN call.requests : i \in DOMAIN entries /\ generated[entries[i]] = 0
    /\ pc = "loop" /\ (cached_batch.done \/ cached_batch.completed_ids # <<>>) =>
          batch_max_remaining_tokens = NotCounted

\* Every request in progress is one that the shard goes on with: in particular a batch
\* is taken to be done (as many completed as there were outputs) only when it is.
Agree ==
    /\ pc # "panic"
    /\ reply.kind # "error" => DOMAIN entries \subseteq OnShard
    /\ reply.kind = "error" /\ call.start_id # NoStartId =>
          \A i \in DOMAIN entries : i < call.start_id => i \in Kept(cached_batch)
    /\ reply.kind = "ok" =>
          /\ reply.input_errors = {} /\ reply.decode_errors = {}
          /\ DOMAIN entries \cap cache[reply.batch_id] \subseteq DOMAIN reply.outputs
    /\ pc = "process" =>
          /\ input_errors = {} /\ decode_errors = {}
          /\ Len(completed_ids) <= processed
          /\ \A i \in DOMAIN entries \cap cache[reply.batch_id] :
                i \in DOMAIN outputs \/ Len(completed_ids) < processed
    /\ call.method = "prefill" /\ pc = "rpc" /\ call.start_id = NoStartId =>
          DOMAIN entries = DOMAIN call.requests

\* The lists of completed ids are ascending where the shard merges them with its own.
Listed ==
    ~Paged =>
        /\ Ascending(cached_batch.completed_ids)
        /\ \A k \in DOMAIN batches : Ascending(batches[k].completed_ids)
        /\ pc = "process" =>
              /\ Ascending(completed_ids)
              /\ \A m \in DOMAIN completed_ids, j \in DOMAIN outputs : completed_ids[m] <= j

\* While calls succeed as well, the shard goes on with nothing else, and has nothing
\* else cached or in its KV cache.
Exact ==
    /\ reply.kind # "error"
    /\ DOMAIN cache = Known
    /\ OnShard \subseteq DOMAIN entries
    /\ Paged => kv = UNION Range(cache)
    /\ Awaited /\ call.method = "prefill" /\ call.start_id # NoStartId /\ ~cached_batch.done =>
          Prune(cached_batch) # {}

AgreeInv ==
    /\ Books
    /\ request_errors = 0 => Agree /\ Listed
    /\ request_errors = 0 /\ rpc_failures = 0 => Exact

-----------------------------------------------------------------------------
\* OnShard and Known, phase by phase.
Phases ==
    /\ pc = "next_batch" \/ (pc = "rpc" /\ reply.kind = "empty") => OnShard = {} /\ Known = {}
    /\ pc = "loop" => OnShard = Prune(cached_batch) /\ Known = {cached_batch.batch_id}
    /\ pc = "decode" \/ (Awaited /\ call.method = "next_token") =>
          OnShard = LiveOnShard /\ Known = Named(batches)
    /\ Awaited /\ call.method = "prefill" =>
          /\ OnShard = Prune(cached_batch) \cup DOMAIN call.requests
          /\ Known = {cached_batch.batch_id} \ {0}
    /\ Answered /\ call.method = "prefill" =>
          /\ OnShard = Kept(cached_batch) \cup (cache[reply.batch_id] \ Range(completed_ids))
          /\ Known = {reply.batch_id} \cup
                        (IF cached_batch.done THEN {} ELSE {cached_batch.batch_id} \ {0})
    /\ Answered /\ call.method = "next_token" =>
          OnShard = cache[reply.batch_id] \ Range(completed_ids) /\ Known = {reply.batch_id}

\* OnShard and Known, case by case of where the batching task and its call are.
LEMMA PhasesHold == Phases /\ Phases'
  <1>1. Phases
      <2>1. pc = "next_batch" \/ (pc = "rpc" /\ reply.kind = "empty") => OnShard = {} /\ Known = {}
          BY DEF OnShard, Known, Awaited, Answered
      <2>2. pc = "loop" => OnShard = Prune(cached_batch) /\ Known = {cached_batch.batch_id}
          BY DEF OnShard, Known, Awaited, Answered
      <2>3. pc = "decode" \/ (Awaited /\ call.method = "next_token") =>
                OnShard = LiveOnShard /\ Known = Named(batches)
          BY DEF OnShard, Known, Awaited, Answered
      <2>4. Awaited /\ call.method = "prefill" =>
                /\ OnShard = Prune(cached_batch) \cup DOMAIN call.requests
                /\ Known = {cached_batch.batch_id} \ {0}
          BY DEF OnShard, Known, Awaited, Answered
      <2>5. Answered /\ call.method = "prefill" =>
                /\ OnShard = Kept(cached_batch) \cup (cache[reply.batch_id] \ Range(completed_ids))
                /\ Known = {reply.batch_id} \cup
                              (IF cached_batch.done THEN {} ELSE {cached_batch.batch_id} \ {0})
          BY DEF OnShard, Known, Awaited, Answered
      <2>6. Answered /\ call.method = "next_token" =>
                OnShard = cache[reply.batch_id] \ Range(completed_ids) /\ Known = {reply.batch_id}
          BY DEF OnShard, Known, Awaited, Answered
      <2>. QED  BY <2>1, <2>2, <2>3, <2>4, <2>5, <2>6 DEF Phases
  <1>. QED  BY <1>1, PTL

\* What the shard will keep of a batch depends on the cache alone.
LEMMA SameCache ==
  ASSUME UNCHANGED cache
  PROVE  /\ \A cb : Prune(cb)' = Prune(cb) /\ Kept(cb)' = Kept(cb)
         /\ UNCHANGED batches => UNCHANGED LiveOnShard
  BY DEF Prune, Kept, BatchOf, LiveOnShard

\* The router and the shard agree before any request.
LEMMA AgreeStarts == Init => AgreeInv
  <1> SUFFICES ASSUME Init PROVE AgreeInv
      OBVIOUS
  <1> USE DEF Init, RouterInit, RpcInit, ShardInit
  <1>0. /\ NoCall.method = "none" /\ NoReply.kind = "none"
        /\ NoBatch.completed_ids = <<>> /\ NoBatch.done = FALSE
      BY DEF NoCall, NoReply, Answer, NoBatch
  <1>1. Books
      BY <1>0 DEF Books
  <1>2. Agree
      BY <1>0 DEF Agree
  <1>3. Listed
      BY <1>0 DEF Listed, Ascending
  <1>4. Exact
      BY <1>0, PhasesHold DEF Exact, Phases, Range, Awaited
  <1>. QED  BY <1>1, <1>2, <1>3, <1>4 DEF AgreeInv

\* A step that touches neither the batch nor the cache keeps the agreement.
LEMMA AgreeIdle ==
  ASSUME AgreeInv, UNCHANGED idleVars
  PROVE  AgreeInv'
  <1> USE DEF idleVars, rpcVars, processVars, shardVars
  <1>1. Books => Books'
      BY DEF Books
  <1>2. UNCHANGED <<OnShard, Known>>
      BY SameCache DEF OnShard, Known, Named, Awaited, Answered
  <1>3. Agree => Agree'
      BY <1>2, SameCache DEF Agree
  <1>4. Listed => Listed'
      BY DEF Listed, Ascending
  <1>5. Exact => Exact'
      BY <1>2, SameCache DEF Exact, Range, Awaited
  <1>. QED  BY <1>1, <1>3, <1>4, <1>5 DEF AgreeInv

-----------------------------------------------------------------------------
(* The batching task.                                                       *)

\* Nothing is left of no batch.
LEMMA NoBatchPruned ==
  ASSUME TypeInv
  PROVE  BatchOf(0) = {} /\ Prune(NoBatch) = {} /\ Kept(NoBatch) = {}
  <1>1. 0 \notin DOMAIN cache
      BY NameTypes
  <1>. QED  BY <1>1 DEF BatchOf, Prune, Kept, NoBatch

\* The sum of no terms.
LEMMA NothingRemains ==
  ASSUME DOMAIN entries = {}
  PROVE  MaxRemainingTokens = 0
  <1> DEFINE term(i) == Params[entries[i]].max_new - generated[entries[i]]
             iter == CHOOSE g : g = [s \in SUBSET {} |->
                        IF s = {} THEN 0 ELSE term(CHOOSE x \in s : TRUE) + g[s \ {CHOOSE x \in s : TRUE}]]
             zero == [s \in SUBSET {} |-> 0]
  <1>1. zero = [s \in SUBSET {} |->
                  IF s = {} THEN 0 ELSE term(CHOOSE x \in s : TRUE) + zero[s \ {CHOOSE x \in s : TRUE}]]
      <2>1. \A s \in SUBSET {} : s = {}
          OBVIOUS
      <2>. QED  BY <2>1
  <1>2. iter = [s \in SUBSET {} |->
                  IF s = {} THEN 0 ELSE term(CHOOSE x \in s : TRUE) + iter[s \ {CHOOSE x \in s : TRUE}]]
      <2> HIDE DEF zero
      <2>. QED  BY <1>1
  <1>3. iter[{}] = 0
      <2> HIDE DEF iter
      <2>. QED  BY <1>2
  <1>4. MaxRemainingTokens = iter[{}]
      BY DEF MaxRemainingTokens, MapThenSumSet, MapThenFoldSet
  <1>. QED  BY <1>3, <1>4

\* A batch is extended only while something of it is left.
LEMMA ExtendsSomething ==
  ASSUME TypeInv, CacheOrder, Books, Agree, Exact, ExtendBatch, cached_batch.batch_id \in DOMAIN cache,
         ~cached_batch.done
  PROVE  Prune(cached_batch) # {}
  <1>1. pc = "loop" /\ RemainingTokens >= 2
      BY DEF ExtendBatch
  <1>2. CASE batch_max_remaining_tokens = NotCounted
      <2>1. MaxRemainingTokens # 0
          BY <1>1, <1>2 DEF RemainingTokens
      <2>2. DOMAIN entries # {}
          BY <2>1, NothingRemains
      <2>3. reply.kind # "error" /\ DOMAIN entries \subseteq OnShard
          BY DEF Agree, Exact
      <2>. QED  BY <1>1, <2>2, <2>3, PhasesHold DEF Phases
  <1>3. CASE batch_max_remaining_tokens # NotCounted
      <2>1. cached_batch.completed_ids = <<>>
          BY <1>1, <1>3 DEF Books
      <2>2. Prune(cached_batch) = cache[cached_batch.batch_id]
          BY <2>1 DEF Prune, BatchOf, PrunedIds, IdsSeenByMerge, Range
      <2>. QED  BY <2>2 DEF CacheOrder
  <1>. QED  BY <1>2, <1>3

\* Taking requests from the queue, for a first batch or an add-on, keeps the agreement.
LEMMA TakeAgree ==
  ASSUME HeldInv, CacheInv, AgreeInv, NextBatch \/ ExtendBatch, UNCHANGED shardVars
  PROVE  AgreeInv'
  <1> USE DEF HeldInv, CacheInv, ProtocolInv, shardVars
  <1>1. PICK n \in Nat \ {0} : \E new \in [NewIds(n) -> Requests] :
            /\ NewIds(n) \subseteq Ids /\ NewIds(n) # {}
            /\ \A i \in NewIds(n) : generated[new[i]] = 0
            /\ Taken(n, new)
      BY TakeFacts
  <1>2. PICK new \in [NewIds(n) -> Requests] :
            /\ NewIds(n) \subseteq Ids /\ NewIds(n) # {}
            /\ \A i \in NewIds(n) : generated[new[i]] = 0
            /\ Taken(n, new)
      BY <1>1
  <1>3. /\ \/ pc = "next_batch" /\ cached_batch = NoBatch /\ cached_batch.batch_id = 0
           \/ pc = "loop" /\ ExtendBatch /\ cached_batch.batch_id \in DOMAIN cache
        /\ reply.kind = "none" /\ cached_batch.batch_id \in Nat
      <2>1. pc = "next_batch" \/ (pc = "loop" /\ ExtendBatch)
          BY DEF NextBatch, ExtendBatch
      <2>2. reply.kind = "none"
          BY <2>1 DEF CallPhase, NoReply, Answer
      <2>3. pc = "next_batch" => cached_batch = NoBatch /\ cached_batch.batch_id = 0
          BY DEF BatchKnown, NoBatch
      <2>4. pc = "loop" => cached_batch.batch_id \in DOMAIN cache
          BY DEF BatchKnown
      <2>. QED  BY <2>1, <2>2, <2>3, <2>4, NameTypes
  <1>4. next_id \in Nat /\ NoStartId \notin Nat
      BY CoreTypes DEF NoStartId
  <1>5. /\ DOMAIN entries' = DOMAIN entries \cup NewIds(n)
        /\ \A i \in NewIds(n) : entries'[i] = new[i]
        /\ DOMAIN call'.requests = NewIds(n) /\ call'.method = "prefill"
        /\ call'.start_id = (IF pc = "next_batch" THEN NoStartId ELSE next_id)
        /\ pc' = "rpc" /\ reply'.kind = "none"
        /\ UNCHANGED <<generated, completed_ids, outputs, cached_batch, batches>>
      BY <1>2, <1>3 DEF Taken, processVars
  <1>6. Books'
      <2>1. pc = "loop" => cached_batch.batch_id # 0
          BY <1>3, NameTypes
      <2>. QED  BY <1>2, <1>3, <1>4, <1>5, <2>1 DEF AgreeInv, Books
  <1>7. /\ OnShard' = OnShard \cup NewIds(n) /\ Known' = Known
        /\ OnShard' = Prune(cached_batch) \cup NewIds(n)
      <2>1. OnShard' = Prune(cached_batch) \cup NewIds(n) /\ Known' = {cached_batch.batch_id} \ {0}
          BY <1>5, PhasesHold, SameCache DEF Phases, Awaited
      <2>2. CASE pc = "next_batch"
          BY <1>3, <2>1, <2>2, PhasesHold, NoBatchPruned DEF Phases
      <2>3. CASE pc = "loop"
          <3>1. cached_batch.batch_id # 0
              BY <1>3, <2>3, NameTypes
          <3>. QED  BY <2>1, <2>3, <3>1, PhasesHold DEF Phases
      <2>. QED  BY <1>3, <2>1, <2>2, <2>3
  <1>8. Agree => Agree'
      <2>1. Agree /\ pc = "next_batch" => DOMAIN entries = {}
          BY <1>3, PhasesHold DEF Agree, Phases
      <2>. QED  BY <1>3, <1>4, <1>5, <1>7, <2>1 DEF Agree
  <1>9. Listed => Listed'
      BY <1>5 DEF Listed, Ascending
  <1>10. ASSUME Agree, Exact PROVE Exact'
      <2>1. call'.start_id # NoStartId /\ ~cached_batch.done => Prune(cached_batch) # {}
          BY <1>3, <1>5, <1>10, ExtendsSomething DEF AgreeInv
      <2>2. UNCHANGED <<cache, kv>> /\ Prune(cached_batch)' = Prune(cached_batch)
          BY <1>5, SameCache
      <2>. QED  BY <1>5, <1>7, <1>10, <2>1, <2>2 DEF Exact, Range, Awaited
  <1>. QED  BY <1>6, <1>8, <1>9, <1>10 DEF AgreeInv

\* Going on with the batch, and sending the next_token call, keep the agreement.
LEMMA MoveAgree ==
  ASSUME HeldInv, CacheInv, AgreeInv, KeepBatch \/ SendNextToken, UNCHANGED shardVars
  PROVE  AgreeInv'
  <1> USE DEF HeldInv, CacheInv, ProtocolInv, shardVars
  <1>1. /\ pc \in {"loop", "decode"} /\ pc' \in {"decode", "rpc"}
        /\ reply.kind = "none" /\ reply'.kind = "none"
        /\ pc' = "rpc" => call'.method = "next_token"
        /\ pc' = "decode" => call'.method = "none"
        /\ UNCHANGED <<entries, generated, completed_ids, cached_batch>>
      BY DEF KeepBatch, SendNextToken, CallPhase, NoCall, NoReply, Answer, rpcVars, processVars,
             NextTokenCall, loopVars
  <1>2. Books => Books'
      BY <1>1 DEF Books
  <1>3. OnShard' = OnShard /\ Known' = Known
      <2>1. CASE KeepBatch
          <3>1. pc = "loop" /\ pc' = "decode" /\ batches' = <<cached_batch>>
              BY <2>1 DEF KeepBatch
          <3>2. LiveOnShard' = Prune(cached_batch) /\ Named(batches)' = {cached_batch.batch_id}
              BY <1>1, <3>1, SameCache DEF LiveOnShard, Named
          <3>. QED  BY <3>1, <3>2, PhasesHold DEF Phases
      <2>2. CASE SendNextToken
          <3>1. pc = "decode" /\ Awaited' /\ call'.method = "next_token" /\ UNCHANGED batches
              BY <1>1, <2>2 DEF SendNextToken, Awaited, loopVars
          <3>2. LiveOnShard' = LiveOnShard /\ Named(batches)' = Named(batches)
              BY <3>1, SameCache DEF Named
          <3>. QED  BY <3>1, <3>2, PhasesHold DEF Phases
      <2>. QED  BY <2>1, <2>2
  <1>4. Agree => Agree'
      BY <1>1, <1>3 DEF Agree
  <1>5. Listed => Listed'
      <2>1. batches' = batches \/ batches' = <<cached_batch>>
          BY DEF KeepBatch, SendNextToken, loopVars
      <2>. QED  BY <1>1, <2>1 DEF Listed, Ascending
  <1>6. Exact => Exact'
      BY <1>1, <1>3 DEF Exact, Range, Awaited
  <1>. QED  BY <1>2, <1>4, <1>5, <1>6 DEF AgreeInv

\* The loop goes on after an await.
LEMMA ResumeBooks ==
  ASSUME NEW result \in CachedBatch, Resume(result), completed_ids' = <<>>
  PROVE  Books'
  <1>1. NoCall.method = "none" /\ NoReply.kind = "none"
      BY DEF NoCall, NoReply, Answer
  <1>. QED  BY <1>1, ResumeFacts DEF Books, Resumed

\* Going back to the loop after a call keeps the lists of completed ids ascending.
LEMMA ResumeListed ==
  ASSUME TypeInv, Listed, NEW result \in CachedBatch, Resume(result),
         ~Paged => Ascending(result.completed_ids)
  PROVE  Listed'
  <1>1. Resumed(result)
      BY ResumeFacts
  <1>2. Unlisted.completed_ids = <<>> /\ NoBatch.completed_ids = <<>> /\ Ascending(<<>>)
      BY CoreTypes DEF Unlisted, CachedBatch, NoBatch, Ascending
  <1>3. ~Paged => Ascending(cached_batch'.completed_ids)
      BY <1>1, <1>2 DEF Resumed, Listed
  <1>4. ASSUME ~Paged, NEW k \in DOMAIN batches' PROVE Ascending(batches'[k].completed_ids)
      <2>1. batches' = AllBatches(result)
          BY <1>1, <1>4 DEF Resumed
      <2>. QED  BY <1>2, <1>4, <2>1, AllBatchesAre
  <1>. QED  BY <1>1, <1>3, <1>4 DEF Listed, Resumed, Ascending

\* What the add-on prefill leaves of the existing batch is what it has pruned it to.
LEMMA UnlistedPruned ==
  ASSUME TypeInv
  PROVE  ~cached_batch.done => /\ Prune(Unlisted) = Kept(cached_batch)
                               /\ Unlisted.batch_id = cached_batch.batch_id
  <1>1. Unlisted.batch_id = cached_batch.batch_id /\ Unlisted.done = cached_batch.done
        /\ Unlisted.completed_ids = <<>>
      BY CoreTypes DEF Unlisted, CachedBatch
  <1>. QED  BY <1>1 DEF Prune, Kept, PrunedIds, IdsSeenByMerge, Range

\* The arrival of any answer at the router keeps the agreement: after an error the
\* entries of the failed call are dropped, and only those.
LEMMA ReceiveAgree ==
  ASSUME HeldInv, CacheInv, AgreeInv, ReceiveEmpty \/ ReceiveError \/ ReceiveTokens, UNCHANGED shardVars
  PROVE  AgreeInv'
  <1> USE DEF HeldInv, CacheInv, ProtocolInv, shardVars
  <1>1. /\ NoCall.method = "none" /\ NoReply.kind = "none"
        /\ NoBatch.completed_ids = <<>> /\ Ascending(<<>>)
      BY DEF NoCall, NoReply, Answer, NoBatch, Ascending
  <1>2. CASE ReceiveEmpty
      <2>1. /\ pc = "rpc" /\ reply.kind = "empty" /\ call.method = "next_token"
            /\ UNCHANGED <<entries, completed_ids>>
          BY <1>2 DEF ReceiveEmpty, CallPhase, processVars
      <2>2. Resume(NoBatch) /\ Resumed(NoBatch) /\ NoBatch \in CachedBatch
          BY <1>2, NoBatchType, ResumeFacts DEF ReceiveEmpty
      <2>3. pc' = "next_batch" /\ reply'.kind = "none" /\ call'.method = "none"
          BY <1>1, <2>1, <2>2 DEF Resumed
      <2>4. Books'
          BY <2>1, <2>2, ResumeBooks DEF AgreeInv, Books
      <2>5. Listed => Listed'
          BY <1>1, <2>2, ResumeListed
      <2>6. OnShard = {} /\ OnShard' = {} /\ Known = {} /\ Known' = {}
          BY <2>1, <2>3, PhasesHold DEF Phases
      <2>7. Agree => Agree'
          BY <2>1, <2>3, <2>6 DEF Agree
      <2>8. Exact => Exact'
          BY <2>3, <2>6 DEF Exact, Range, Awaited
      <2>. QED  BY <2>4, <2>5, <2>7, <2>8 DEF AgreeInv
  <1>3. CASE ReceiveError
      <2>1. /\ pc = "rpc" /\ reply.kind = "error" /\ UNCHANGED completed_ids
            /\ DOMAIN entries' = DOMAIN entries \ FailedIds(call.start_id)
          BY <1>3 DEF ReceiveError, processVars, Restrict
      <2>2. Resume(NoBatch) /\ Resumed(NoBatch) /\ NoBatch \in CachedBatch
          BY <1>3, NoBatchType, ResumeFacts DEF ReceiveError
      <2>3. Books'
          BY <2>1, <2>2, ResumeBooks DEF AgreeInv, Books
      <2>4. Listed => Listed'
          BY <1>1, <2>2, ResumeListed
      <2>5. ~Exact
          BY <2>1 DEF Exact
      <2>6. ASSUME Agree PROVE Agree'
          <3>1. call.method = "prefill" \/ call.start_id = NoStartId
              BY <2>1, WireTypes DEF CallPhase
          <3>2. call.start_id = NoStartId => DOMAIN entries' = {}
              BY <2>1 DEF FailedIds
          <3>3. call.start_id # NoStartId => DOMAIN entries' \subseteq Kept(cached_batch)
              <4>1. call.start_id # NoStartId => \A i \in DOMAIN entries' : i < call.start_id
                  BY <2>1, CoreTypes, WireTypes, IdAssumption DEF FailedIds
              <4>. QED  BY <2>1, <2>6, <4>1 DEF Agree
          <3>4. reply'.kind = "none" /\ call'.method = "none" /\ pc' \in {"next_batch", "decode"}
              BY <1>1, <2>2 DEF Resumed
          <3>5. CASE pc' = "next_batch"
              <4>1. call.start_id # NoStartId => cached_batch.done
                  BY <2>2, <3>1, <3>5 DEF Resumed
              <4>2. DOMAIN entries' = {}
                  BY <3>2, <3>3, <4>1 DEF Kept
              <4>. QED  BY <3>4, <3>5, <4>2 DEF Agree
          <3>6. CASE pc' = "decode"
              <4>1. call.start_id # NoStartId /\ batches' = AllBatches(NoBatch) /\ batches' # <<>>
                  BY <2>2, <3>6 DEF Resumed
              <4>2. ~cached_batch.done /\ batches' = <<Unlisted>>
                  BY <2>2, <4>1, AllBatchesAre
              <4>3. LiveOnShard' = Prune(Unlisted)
                  BY <4>2, SameCache DEF LiveOnShard
              <4>4. OnShard' = Kept(cached_batch)
                  BY <3>6, <4>2, <4>3, UnlistedPruned, PhasesHold DEF Phases
              <4>. QED  BY <3>3, <3>4, <3>6, <4>1, <4>4 DEF Agree
          <3>. QED  BY <3>4, <3>5, <3>6
      <2>. QED  BY <2>3, <2>4, <2>5, <2>6 DEF AgreeInv
  <1>4. CASE ReceiveTokens
      <2>1. /\ pc = "rpc" /\ reply.kind = "ok" /\ call.method \in {"prefill", "next_token"}
            /\ reply.batch_id \in DOMAIN cache
          BY <1>4, WireTypes DEF ReceiveTokens, CallPhase
      <2>2. /\ reply'.kind = "taken" /\ reply'.batch_id = reply.batch_id /\ reply'.outputs = reply.outputs
          <3>1. PICK D \in SUBSET Ids : reply \in RepliesFor(D)
              BY DEF TypeInv, TypeOK, RpcTypeOK, ReplyTypeOK
          <3>. QED  BY <1>4, <3>1 DEF RepliesFor, ReceiveTokens
      <2>3. /\ outputs' = reply.outputs /\ input_errors' = reply.input_errors
            /\ decode_errors' = reply.decode_errors /\ processed' = 0 /\ completed_ids' = <<>>
            /\ UNCHANGED <<entries, generated, cached_batch, batches, batch_max_remaining_tokens, call>>
            /\ completed_ids = <<>>
          BY <1>4, <2>1 DEF ReceiveTokens, loopVars, AgreeInv, Books
      <2>4. pc' = "process"
          <3>1. call.method = "prefill" =>
                    \A i \in DOMAIN reply.outputs : i \in DOMAIN entries /\ generated[entries[i]] = 0
              BY <2>1 DEF CallPhase, AgreeInv, Books
          <3>. QED  BY <1>4, <3>1 DEF ReceiveTokens
      <2>5. Books'
          BY <2>1, <2>2, <2>3, <2>4 DEF AgreeInv, Books
      <2>6. OnShard' = OnShard /\ Known' = Known
          <3>1. Answered /\ Answered'
              BY <2>1, <2>4 DEF Answered
          <3>2. Kept(cached_batch)' = Kept(cached_batch)
              BY <2>3, SameCache
          <3>. QED  BY <2>1, <2>2, <2>3, <3>1, <3>2, PhasesHold DEF Phases
      <2>7. Agree => Agree'
          BY <2>1, <2>2, <2>3, <2>4, <2>6 DEF Agree
      <2>8. Listed => Listed'
          BY <2>3 DEF Listed, Ascending
      <2>9. Exact => Exact'
          BY <2>1, <2>2, <2>3, <2>4, <2>6 DEF Exact, Range, Awaited
      <2>. QED  BY <2>5, <2>7, <2>8, <2>9 DEF AgreeInv
  <1>. QED  BY <1>2, <1>3, <1>4

\* A completed id is put at the end of the list.
LEMMA Listing ==
  ASSUME NEW s \in Seq(Ids), NEW i \in Ids
  PROVE  /\ Range(Append(s, i)) = Range(s) \cup {i}
         /\ Len(Append(s, i)) = Len(s) + 1 /\ Len(s) \in Nat
         /\ \A m \in DOMAIN Append(s, i) : (m \in DOMAIN s /\ Append(s, i)[m] = s[m]) \/ Append(s, i)[m] = i
         /\ Ascending(s) /\ (\A m \in DOMAIN s : s[m] < i) => Ascending(Append(s, i))
  <1> DEFINE t == Append(s, i)
  <1>1. /\ Len(t) = Len(s) + 1 /\ Len(s) \in Nat
        /\ DOMAIN t = 1 .. Len(s) + 1 /\ DOMAIN s = 1 .. Len(s)
        /\ \A m \in 1 .. Len(s) : t[m] = s[m]
        /\ t[Len(s) + 1] = i
      OBVIOUS
  <1> HIDE DEF t
  <1>2. \A m \in DOMAIN t : (m \in DOMAIN s /\ t[m] = s[m]) \/ (m = Len(s) + 1 /\ t[m] = i)
      BY <1>1
  <1>3. Range(t) = Range(s) \cup {i}
      <2>1. Range(t) \subseteq Range(s) \cup {i}
          BY <1>2 DEF Range
      <2>2. i \in Range(t) /\ Range(s) \subseteq Range(t)
          BY <1>1 DEF Range
      <2>. QED  BY <2>1, <2>2
  <1>4. ASSUME Ascending(s), \A m \in DOMAIN s : s[m] < i PROVE Ascending(t)
      <2>1. ASSUME NEW m \in DOMAIN t, NEW h \in 1 .. m - 1 PROVE t[h] < t[m]
          <3>1. m \in Nat /\ h \in DOMAIN s /\ t[h] = s[h]
              BY <1>1
          <3>2. CASE m \in DOMAIN s
              BY <1>1, <1>4, <3>1, <3>2 DEF Ascending
          <3>3. CASE m \notin DOMAIN s
              BY <1>2, <1>4, <3>1, <3>3
          <3>. QED  BY <3>2, <3>3
      <2>. QED  BY <2>1 DEF Ascending
  <1>. QED  BY <1>1, <1>2, <1>3, <1>4 DEF t

\* Each output and each error that process_tokens goes through keeps the agreement.
LEMMA ProcessAgree ==
  ASSUME HeldInv, CacheInv, AgreeInv, UNCHANGED shardVars,
         IgnoreOutput \/ Finish \/ DecodeFails \/ Continue \/ ProcessError
  PROVE  AgreeInv'
  <1> USE DEF HeldInv, CacheInv, ProtocolInv, shardVars
  <1>1. /\ pc = "process" /\ reply.kind = "taken" /\ call.method \in {"prefill", "next_token"}
        /\ UNCHANGED <<rpcVars, cached_batch, batches>>
      <2>1. pc = "process" /\ UNCHANGED <<rpcVars, cached_batch, batches>>
          BY DEF IgnoreOutput, Finish, DecodeFails, Continue, ProcessOutput, ProcessError, loopVars
      <2>. QED  BY <2>1, WireTypes DEF CallPhase
  <1>2. completed_ids \in Seq(Ids) /\ Len(completed_ids) \in Nat /\ processed \in Nat
        /\ DOMAIN entries \subseteq Ids /\ Ids \subseteq Nat
        /\ \A m \in DOMAIN completed_ids : completed_ids[m] \in Nat
      BY CoreTypes, IdAssumption
  <1>3. CASE ProcessError
      <2>1. PICK i \in input_errors \cup decode_errors :
                \/ /\ entries' = Restrict(entries, DOMAIN entries \ {i}) /\ i \in DOMAIN entries
                   /\ completed_ids' = Append(completed_ids, i) /\ pc' = pc
                \/ pc' = "panic"
          BY <1>3 DEF ProcessError, RemoveEntry
      <2>2. Books'
          <3>1. UNCHANGED outputs
              BY <1>3 DEF ProcessError
          <3>2. pc' = "process" => \A m \in DOMAIN completed_ids' : completed_ids'[m] \notin DOMAIN entries'
              BY <1>1, <1>2, <2>1, Listing DEF AgreeInv, Books, Restrict
          <3>. QED  BY <1>1, <2>1, <3>1, <3>2 DEF rpcVars, AgreeInv, Books
      <2>3. ~Agree
          BY <1>1, <2>1 DEF Agree
      <2>. QED  BY <2>2, <2>3 DEF AgreeInv
  <1>4. CASE ~ProcessError
      <2>1. PICK i \in DOMAIN outputs :
                /\ NextOutput(i) /\ ConsumeOutput(i)
                /\ \/ UNCHANGED <<entries, completed_ids>>
                   \/ /\ entries' = Restrict(entries, DOMAIN entries \ {i}) /\ i \in DOMAIN entries
                      /\ completed_ids' = Append(completed_ids, i)
                /\ UNCHANGED <<pc, input_errors, decode_errors, batch_max_remaining_tokens>>
          <3>1. CASE IgnoreOutput
              BY <3>1 DEF IgnoreOutput, loopVars
          <3>2. CASE Finish \/ DecodeFails \/ Continue
              BY <3>2, ProcessedFacts DEF Processed, loopVars
          <3>. QED  BY <1>4, <3>1, <3>2
      <2>2. /\ DOMAIN outputs' \subseteq DOMAIN outputs
            /\ \A j \in DOMAIN outputs : j # i => j \in DOMAIN outputs'
            /\ processed' = processed + 1
          BY <2>1, ConsumeFacts
      <2>3. i \in cache[reply.batch_id] /\ i \in Ids /\ i \in Nat
          BY <1>1, <2>1, CoreTypes, IdAssumption DEF AgreeInv, Books
      <2>4. \/ UNCHANGED <<entries, completed_ids, OnShard>>
            \/ /\ DOMAIN entries' = DOMAIN entries \ {i} /\ i \in DOMAIN entries
               /\ completed_ids' = Append(completed_ids, i)
               /\ OnShard' = OnShard \ {i}
          <3>0. Answered /\ Answered' /\ UNCHANGED <<call, reply, cache, cached_batch>>
              BY <1>1, <2>1 DEF Answered, rpcVars
          <3>1. Kept(cached_batch)' = Kept(cached_batch)
              BY <3>0, SameCache
          <3>2. CASE UNCHANGED <<entries, completed_ids>>
              BY <1>1, <3>0, <3>1, <3>2, PhasesHold DEF Phases
          <3>3. CASE /\ entries' = Restrict(entries, DOMAIN entries \ {i}) /\ i \in DOMAIN entries
                     /\ completed_ids' = Append(completed_ids, i)
              <4>1. DOMAIN entries' = DOMAIN entries \ {i}
                  BY <3>3 DEF Restrict
              <4>2. Range(completed_ids') = Range(completed_ids) \cup {i}
                  BY <1>2, <2>3, <3>3, Listing
              <4>3. call.method = "prefill" => i \notin Kept(cached_batch)
                  <5>1. call.method = "prefill" => cached_batch.batch_id # reply.batch_id
                      BY <1>1, NameTypes DEF NamesOrder, CallPhase
                  <5>2. reply.batch_id \in DOMAIN cache
                      BY <1>1 DEF CallPhase
                  <5>. QED  BY <2>3, <5>1, <5>2, CacheDisjoint DEF Kept, BatchOf
              <4>4. OnShard' = OnShard \ {i}
                  BY <1>1, <3>0, <3>1, <4>2, <4>3, PhasesHold DEF Phases
              <4>. QED  BY <3>3, <4>1, <4>4
          <3>. QED  BY <2>1, <3>2, <3>3
      <2>5. Known' = Known
          BY <1>1, <2>1, PhasesHold DEF Phases, Answered, rpcVars
      <2>6. Books'
          <3>1. \A m \in DOMAIN completed_ids' : completed_ids'[m] \notin DOMAIN entries'
              BY <1>1, <1>2, <2>3, <2>4, Listing, SMTT(30) DEF AgreeInv, Books
          <3>. QED  BY <1>1, <2>1, <2>2, <3>1 DEF rpcVars, AgreeInv, Books
      <2>7. ASSUME Agree PROVE Agree'
          <3>1. DOMAIN entries' \subseteq OnShard'
              BY <1>1, <2>4, <2>7 DEF Agree
          <3>2. Len(completed_ids) <= processed
              BY <1>1, <2>7 DEF Agree
          <3>3. CASE UNCHANGED <<entries, completed_ids, OnShard>>
              <4>1. Len(completed_ids') < processed'
                  BY <1>2, <2>2, <3>2, <3>3
              <4>2. Len(completed_ids') <= processed'
                  BY <1>2, <2>2, <3>2, <3>3
              <4>. QED  BY <1>1, <2>1, <2>7, <3>1, <3>3, <4>1, <4>2 DEF Agree, rpcVars
          <3>4. CASE /\ DOMAIN entries' = DOMAIN entries \ {i} /\ i \in DOMAIN entries
                     /\ completed_ids' = Append(completed_ids, i)
              <4>1. Len(completed_ids') = Len(completed_ids) + 1
                  BY <1>2, <2>3, <3>4, Listing
              <4>2. Len(completed_ids') <= processed'
                  BY <1>2, <2>2, <3>2, <4>1
              <4>3. ASSUME NEW j \in DOMAIN entries' \cap cache[reply.batch_id]
                    PROVE  j \in DOMAIN outputs' \/ Len(completed_ids') < processed'
                  <5>1. j \in DOMAIN outputs \/ Len(completed_ids) < processed
                      BY <1>1, <2>7, <3>4 DEF Agree
                  <5>. QED  BY <1>2, <2>2, <3>4, <4>1, <5>1
              <4>. QED  BY <1>1, <2>1, <2>7, <3>1, <4>2, <4>3 DEF Agree, rpcVars
          <3>. QED  BY <2>4, <3>3, <3>4
      <2>8. ASSUME Listed, ~Paged PROVE Listed'
          <3>1. \A j \in DOMAIN outputs : i <= j
              BY <2>1, <2>8 DEF NextOutput
          <3>2. /\ Ascending(completed_ids)
                /\ \A m \in DOMAIN completed_ids, j \in DOMAIN outputs : completed_ids[m] <= j
              BY <1>1, <2>8 DEF Listed
          <3>3. CASE UNCHANGED completed_ids
              BY <1>1, <2>2, <2>8, <3>2, <3>3 DEF Listed, Ascending
          <3>4. CASE i \in DOMAIN entries /\ completed_ids' = Append(completed_ids, i)
              <4>1. \A m \in DOMAIN completed_ids : completed_ids[m] < i
                  <5>1. \A m \in DOMAIN completed_ids : completed_ids[m] # i
                      BY <1>1, <3>4 DEF AgreeInv, Books
                  <5>. QED  BY <1>2, <2>1, <2>3, <3>2, <5>1
              <4>2. Ascending(completed_ids')
                  BY <1>2, <2>3, <3>2, <3>4, <4>1, Listing
              <4>3. \A m \in DOMAIN completed_ids', j \in DOMAIN outputs' : completed_ids'[m] <= j
                  BY <1>2, <2>2, <2>3, <3>1, <3>2, <3>4, Listing
              <4>. QED  BY <1>1, <2>8, <4>2, <4>3 DEF Listed, Ascending
          <3>. QED  BY <2>4, <3>3, <3>4
      <2>9. Exact => Exact'
          BY <1>1, <2>1, <2>4, <2>5 DEF Exact, Range, Awaited, rpcVars
      <2>. QED  BY <2>6, <2>7, <2>8, <2>9 DEF AgreeInv, Listed
  <1>. QED  BY <1>3, <1>4

\* An ascending list is merged as a whole.
LEMMA MergeSeesAll ==
  ASSUME NEW s, Ascending(s)
  PROVE  IdsSeenByMerge(s) = Range(s)
  BY DEF IdsSeenByMerge, Range, Ascending

\* The end of process_tokens keeps the agreement: the batch is done only if the shard
\* goes on with none of it.
LEMMA FinishAgree ==
  ASSUME HeldInv, CacheInv, AgreeInv, UNCHANGED shardVars, FinishStep
  PROVE  AgreeInv'
  <1> USE DEF HeldInv, CacheInv, ProtocolInv, shardVars
  <1> DEFINE pb == ProcessedBatch
             b  == reply.batch_id
  <1>1. /\ pc = "process" /\ DOMAIN outputs = {} /\ Resume(pb)
        /\ completed_ids' = <<>> /\ UNCHANGED entries
      BY DEF FinishStep
  <1>2. /\ reply.kind = "taken" /\ call.method \in {"prefill", "next_token"}
        /\ b \in DOMAIN cache /\ b \in Nat \ {0}
        /\ call.method = "prefill" => cached_batch.batch_id # b
      <2>1. reply.kind = "taken" /\ call.method \in {"prefill", "next_token"} /\ b \in DOMAIN cache
          BY <1>1, WireTypes DEF CallPhase
      <2>2. call.method = "prefill" => b = call.batch_id /\ cached_batch.batch_id < call.batch_id
          BY <2>1 DEF CallPhase, NamesOrder
      <2>. QED  BY <2>1, <2>2, NameTypes
  <1>3. /\ pb \in CachedBatch /\ pb.batch_id = b
        /\ pb.done => Len(completed_ids) = processed
        /\ ~pb.done => Len(completed_ids) # processed
        /\ pb.completed_ids = IF Len(completed_ids) = processed THEN <<>> ELSE completed_ids
      <2>1. pb \in CachedBatch
          BY CoreTypes, WireTypes DEF ProcessedBatch, CachedBatch
      <2>2. /\ pb.batch_id = b
            /\ pb.completed_ids = IF Len(completed_ids) = processed THEN <<>> ELSE completed_ids
          BY DEF ProcessedBatch
      <2>3. (pb.done => Len(completed_ids) = processed) /\ (~pb.done => Len(completed_ids) # processed)
          BY Zenon DEF ProcessedBatch
      <2>. QED  BY <2>1, <2>2, <2>3
  <1>4. pb # NoBatch
      BY <1>2, <1>3 DEF NoBatch
  <1> HIDE DEF pb
  <1>5. Resumed(pb)
      BY <1>1, <1>3, ResumeFacts
  <1>6. reply'.kind = "none" /\ call'.method = "none" /\ pc' \in {"loop", "decode"}
      BY <1>4, <1>5 DEF Resumed, NoReply, NoCall, Answer
  <1>7. Books'
      BY <1>1, <1>3, ResumeBooks
  <1>8. Listed => Listed'
      <2>1. Ascending(<<>>)
          BY DEF Ascending
      <2>2. Listed => (~Paged => Ascending(pb.completed_ids))
          BY <1>1, <1>3, <2>1 DEF Listed
      <2>. QED  BY <1>1, <1>3, <2>2, ResumeListed
  <1>9. ASSUME Listed, ~pb.done PROVE Prune(pb) = cache[b] \ Range(completed_ids)
      <2>1. pb.completed_ids = completed_ids
          BY <1>3, <1>9
      <2>2. PrunedIds(completed_ids) = Range(completed_ids)
          BY <1>1, <1>9, MergeSeesAll DEF PrunedIds, Listed
      <2>. QED  BY <1>2, <1>3, <1>9, <2>1, <2>2 DEF Prune, BatchOf
  <1>10. pb.done => Prune(pb) = {}
      BY DEF Prune
  <1> DEFINE before == IF call.method = "prefill" THEN Kept(cached_batch) ELSE {}
  <1>11. OnShard = before \cup (cache[b] \ Range(completed_ids))
      BY <1>1, <1>2, PhasesHold DEF Phases, Answered
  <1>12. OnShard' = before \cup Prune(pb)
      <2>1. CASE pc' = "loop"
          <3>1. cached_batch' = pb /\ (call.method = "prefill" => cached_batch = NoBatch)
              BY <1>5, <2>1 DEF Resumed, AgreeInv, Books
          <3>2. before = {}
              BY <3>1, NoBatchPruned
          <3>3. OnShard' = Prune(pb)
              BY <2>1, <3>1, PhasesHold, SameCache DEF Phases
          <3>. QED  BY <3>2, <3>3
      <2>2. CASE pc' = "decode"
          <3>1. call.method = "prefill" /\ batches' = AllBatches(pb)
              BY <1>5, <2>2 DEF Resumed
          <3>2. batches' = IF cached_batch.done THEN <<pb>> ELSE <<Unlisted, pb>>
              BY <1>3, <1>4, <3>1, AllBatchesAre
          <3>3. LiveOnShard' = IF cached_batch.done THEN Prune(pb) ELSE Prune(Unlisted) \cup Prune(pb)
              <4>1. LiveOnShard' = UNION {Prune(batches'[k]) : k \in DOMAIN batches'}
                  BY SameCache DEF LiveOnShard
              <4>. QED  BY <3>2, <4>1
          <3>4. before = Kept(cached_batch)
              BY <3>1
          <3>5. cached_batch.done => Kept(cached_batch) = {}
              BY DEF Kept
          <3>. QED  BY <2>2, <3>3, <3>4, <3>5, UnlistedPruned, PhasesHold DEF Phases
      <2>. QED  BY <1>6, <2>1, <2>2
  <1>13. ASSUME Agree, Listed PROVE Agree'
      <2>1. DOMAIN entries \subseteq OnShard
          BY <1>2, <1>13 DEF Agree
      <2>2. pb.done => DOMAIN entries \cap cache[b] = {}
          <3>1. Len(completed_ids) \in Nat /\ processed \in Nat
              BY CoreTypes
          <3>2. pb.done => ~(Len(completed_ids) < processed)
              BY <1>3, <3>1
          <3>. QED  BY <1>1, <1>13, <3>2 DEF Agree
      <2>3. DOMAIN entries \subseteq OnShard'
          BY <1>9, <1>10, <1>11, <1>12, <1>13, <2>1, <2>2
      <2>. QED  BY <1>1, <1>6, <2>3 DEF Agree
  <1>14. ASSUME Exact, Listed PROVE Exact'
      <2>1. OnShard' \subseteq DOMAIN entries
          BY <1>9, <1>10, <1>11, <1>12, <1>14 DEF Exact
      <2>2. Known' = Known
          <3>1. CASE pc' = "loop"
              <4>1. cached_batch' = pb /\ (call.method = "prefill" => cached_batch = NoBatch)
                  BY <1>5, <3>1 DEF Resumed, AgreeInv, Books
              <4>2. Known' = {b}
                  BY <1>3, <3>1, <4>1, PhasesHold DEF Phases
              <4>. QED  BY <1>1, <1>2, <4>1, <4>2, PhasesHold DEF Phases, Answered, NoBatch
          <3>2. CASE pc' = "decode"
              <4>1. call.method = "prefill" /\ batches' = AllBatches(pb) /\ call.start_id # NoStartId
                  BY <1>5, <3>2 DEF Resumed
              <4>2. batches' = IF cached_batch.done THEN <<pb>> ELSE <<Unlisted, pb>>
                  BY <1>3, <1>4, <4>1, AllBatchesAre
              <4>3. Named(batches)' = {b} \cup (IF cached_batch.done THEN {} ELSE {cached_batch.batch_id})
                  BY <1>3, <4>2, UnlistedPruned DEF Named
              <4>4. cached_batch.batch_id # 0
                  BY <4>1 DEF AgreeInv, Books
              <4>5. Known' = Named(batches)'
                  BY <3>2, PhasesHold DEF Phases
              <4>6. Known = {b} \cup (IF cached_batch.done THEN {} ELSE {cached_batch.batch_id} \ {0})
                  BY <1>1, <4>1, PhasesHold DEF Phases, Answered
              <4>. QED  BY <4>3, <4>4, <4>5, <4>6
          <3>. QED  BY <1>6, <3>1, <3>2
      <2>. QED  BY <1>1, <1>6, <1>14, <2>1, <2>2 DEF Exact, Range, Awaited
  <1>. QED  BY <1>7, <1>8, <1>13, <1>14 DEF AgreeInv

-----------------------------------------------------------------------------
(* The shard.                                                               *)

\* No error, if their number is zero.
LEMMA NoErrors ==
  ASSUME TypeInv, NEW S \in SUBSET Ids, NEW T \in SUBSET Ids,
         request_errors + Cardinality(S) + Cardinality(T) = 0
  PROVE  S = {} /\ T = {} /\ request_errors = 0
  <1>1. /\ IsFiniteSet(S) /\ Cardinality(S) \in Nat /\ IsFiniteSet(T) /\ Cardinality(T) \in Nat
        /\ request_errors \in Nat
      BY IdsCounted, WireTypes
  <1>2. Cardinality(S) = 0 /\ Cardinality(T) = 0 /\ request_errors = 0
      BY <1>1
  <1>. QED  BY <1>1, <1>2, FS_EmptySet

\* What the pruning of a Prefill leaves of the existing batch.
LEMMA PrunedKept ==
  ASSUME TypeInv, CacheOrder, UNCHANGED cached_batch,
         cached_batch.batch_id \in DOMAIN cache' <=> cached_batch.batch_id \in DOMAIN PrunedCache(ToPrune),
         cached_batch.batch_id \in DOMAIN cache' =>
            cache'[cached_batch.batch_id] = PrunedCache(ToPrune)[cached_batch.batch_id]
  PROVE  Kept(cached_batch)' = Prune(cached_batch)
  <1> DEFINE b == cached_batch.batch_id
  <1>1. CASE cached_batch.done
      BY <1>1 DEF Kept, Prune
  <1>2. CASE ~cached_batch.done
      <2>1. Kept(cached_batch)' = IF b \in DOMAIN cache' THEN cache'[b] ELSE {}
          BY <1>2 DEF Kept, BatchOf
      <2>2. b \in DOMAIN cache' => cache'[b] = Prune(cached_batch)
          BY PrunedCacheIs
      <2>3. b \notin DOMAIN cache' => b \notin DOMAIN cache \/ Prune(cached_batch) = {}
          BY PrunedCacheIs
      <2>4. b \notin DOMAIN cache => Prune(cached_batch) = {}
          BY DEF Prune, BatchOf
      <2>. QED  BY <2>1, <2>2, <2>3, <2>4
  <1>. QED  BY <1>1, <1>2

\* Where no output is processed, the shard's answer is all that happens to the books.
LEMMA AnswerBooks ==
  ASSUME Books, pc = "rpc", UNCHANGED <<call, routerVars>>,
         reply'.kind = "ok" =>
            /\ DOMAIN reply'.outputs \subseteq cache'[reply'.batch_id]
            /\ call.method = "prefill" => cache'[reply'.batch_id] \subseteq DOMAIN call.requests
  PROVE  Books' /\ (Listed => Listed')
  <1> USE DEF routerVars, processVars, loopVars
  <1>1. Books'
      BY DEF Books
  <1>2. Listed => Listed'
      BY DEF Listed, Ascending
  <1>. QED  BY <1>1, <1>2

\* A call that fails on the shard keeps the agreement, whatever it has pruned by then.
LEMMA ErrorAgree ==
  ASSUME HeldInv, CacheInv, AgreeInv, UNCHANGED routerVars,
         PrefillNotFound \/ PrefillNoBatch \/ NextTokenNotFound \/ ShardFails
  PROVE  AgreeInv'
  <1> USE DEF HeldInv, CacheInv, ProtocolInv
  <1>1. reply'.kind = "error" /\ UNCHANGED call
      BY DEF PrefillNotFound, PrefillNoBatch, NextTokenNotFound, ShardFails, CallLost, ReplyLost,
             PrefillRaises, NextTokenRaises, Answer, shardVars
  <1>2. pc = "rpc" /\ (reply.kind = "none" \/ (ReplyLost /\ reply.kind \in {"ok", "empty"}))
      <2>1. \/ call.method # "none" /\ reply.kind = "none"
            \/ ReplyLost /\ reply.kind \in {"ok", "empty"}
          BY DEF PrefillNotFound, PrefillNoBatch, NextTokenNotFound, ShardFails, CallLost, ReplyLost,
                 PrefillRaises, NextTokenRaises, InFlight
      <2>. QED  BY <2>1, HandlerPhase
  <1>3. UNCHANGED <<entries, cached_batch, batches, pc, completed_ids>>
      BY DEF routerVars, processVars, loopVars
  <1>4. Books' /\ (Listed => Listed')
      BY <1>1, <1>2, AnswerBooks DEF AgreeInv
  <1>5. /\ request_errors' = 0 => request_errors = 0 /\ ~PrefillNoBatch
        /\ ShardFails => rpc_failures' # 0
      <2>1. CASE PrefillNoBatch
          <3>1. call.method = "prefill" /\ request_errors' = request_errors + Cardinality(DOMAIN call.requests)
              BY <2>1 DEF PrefillNoBatch, InFlight
          <3>2. DOMAIN call.requests # {} /\ DOMAIN call.requests \in SUBSET Ids
              BY <3>1, WireTypes DEF CallPhase
          <3>3. {} \in SUBSET Ids /\ Cardinality({}) = 0 /\ Cardinality(DOMAIN call.requests) \in Nat
                /\ request_errors \in Nat
              BY <3>2, FS_EmptySet, IdsCounted, WireTypes
          <3>4. request_errors' # 0
              <4>1. request_errors' = request_errors + Cardinality(DOMAIN call.requests) + Cardinality({})
                  BY <3>1, <3>3
              <4>. QED  BY <3>2, <3>3, <4>1, NoErrors
          <3>5. UNCHANGED rpc_failures
              BY <2>1 DEF PrefillNoBatch
          <3>. QED  BY <2>1, <3>4, <3>5, WireTypes DEF ShardFails, CallLost, ReplyLost, PrefillRaises, NextTokenRaises, FailCall
      <2>2. CASE ~PrefillNoBatch
          BY <2>2, WireTypes
          DEF PrefillNotFound, NextTokenNotFound, ShardFails, CallLost, ReplyLost, PrefillRaises,
              NextTokenRaises, FailCall, shardVars
      <2>. QED  BY <2>1, <2>2
  <1>6. ASSUME Agree, request_errors' = 0 PROVE Agree'
      <2>1. ASSUME call.start_id # NoStartId, NEW i \in DOMAIN entries, i < call.start_id
            PROVE  i \in Kept(cached_batch)'
          <3>1. call.method = "prefill"
              BY <1>2, <2>1, WireTypes DEF CallPhase
          <3>2. i \notin DOMAIN call.requests
              BY <1>2, <2>1, <3>1, CoreTypes, WireTypes, IdAssumption DEF CallPhase
          <3>3. reply.kind = "none" => i \in Prune(cached_batch)
              BY <1>2, <1>6, <3>1, <3>2, PhasesHold DEF Agree, Phases, Awaited
          <3>4. CASE PrefillNotFound \/ CallLost
              <4>1. UNCHANGED cache /\ reply.kind = "none"
                  BY <3>4 DEF PrefillNotFound, CallLost, shardVars, InFlight
              <4>2. i \in Kept(cached_batch)
                  BY <3>3, <4>1 DEF Prune, Kept
              <4>. QED  BY <1>3, <4>1, <4>2, SameCache
          <3>5. CASE PrefillRaises
              <4>1. cache' = PrunedCache(ToPrune) /\ reply.kind = "none"
                  BY <3>5 DEF PrefillRaises, InFlight, CallPhase
              <4>. QED  BY <1>3, <3>3, <4>1, PrunedKept
          <3>6. CASE ReplyLost
              <4>1. UNCHANGED cache /\ reply.kind = "ok"
                  BY <3>1, <3>6 DEF ReplyLost, CallPhase
              <4>2. i \in Kept(cached_batch)
                  BY <1>2, <1>6, <3>1, <3>2, <4>1, PhasesHold DEF Agree, Phases, Answered, AgreeInv, Books
              <4>. QED  BY <1>3, <4>1, <4>2, SameCache
          <3>7. ~NextTokenNotFound /\ ~NextTokenRaises
              BY <3>1 DEF NextTokenNotFound, NextTokenRaises, InFlight
          <3>. QED  BY <1>5, <1>6, <3>4, <3>5, <3>6, <3>7 DEF ShardFails
      <2>2. call.method = "prefill" /\ call.start_id = NoStartId => DOMAIN entries = DOMAIN call.requests
          BY <1>2, <1>6 DEF Agree
      <2>. QED  BY <1>1, <1>2, <1>3, <2>1, <2>2 DEF Agree
  <1>7. ASSUME Exact, request_errors' = 0, rpc_failures' = 0 PROVE FALSE
      <2>1. CASE PrefillNotFound
          <3>1. /\ call.method = "prefill" /\ reply.kind = "none" /\ call.cached = ToPrune
                /\ \E k \in DOMAIN ToPrune : ToPrune[k].batch_id \notin DOMAIN cache
              BY <2>1 DEF PrefillNotFound, InFlight, CallPhase
          <3>2. ToPrune # <<>> /\ cached_batch.batch_id \notin DOMAIN cache
              BY <3>1 DEF ToPrune
          <3>. QED  BY <3>1, <3>2 DEF BatchKnown, ToPrune, NoBatch
      <2>2. CASE NextTokenNotFound
          <3>1. /\ call.method = "next_token" /\ reply.kind = "none" /\ call.cached = batches
                /\ \E k \in DOMAIN batches : batches[k].batch_id \notin DOMAIN cache
              BY <2>2 DEF NextTokenNotFound, InFlight, CallPhase
          <3>2. DOMAIN cache = Named(batches)
              BY <1>2, <1>7, <3>1, PhasesHold DEF Exact, Phases, Awaited
          <3>. QED  BY <3>1, <3>2 DEF Named
      <2>. QED  BY <1>5, <1>7, <2>1, <2>2
  <1>8. request_errors' = 0 /\ rpc_failures' = 0 => request_errors = 0 /\ rpc_failures = 0
      <2>1. rpc_failures' = 0 => rpc_failures' = rpc_failures
          BY <1>5 DEF PrefillNotFound, PrefillNoBatch, NextTokenNotFound, shardVars
      <2>. QED  BY <1>5, <2>1
  <1>. QED  BY <1>4, <1>5, <1>6, <1>7, <1>8 DEF AgreeInv

\* A prefill that succeeds on the shard keeps the agreement.
LEMMA PrefillAgree ==
  ASSUME HeldInv, CacheInv, CacheInv', AgreeInv, PrefillRequest, UNCHANGED routerVars
  PROVE  AgreeInv'
  <1> USE DEF HeldInv, CacheInv, ProtocolInv
  <1>1. PICK errs1, errs2, outs : Prefilled(errs1, errs2, outs)
      BY PrefilledFacts
  <1> DEFINE batch == DOMAIN call.requests \ errs1
             pruned == PrunedCache(ToPrune)
             b == cached_batch.batch_id
  <1>2. pc = "rpc" /\ call.method = "prefill" /\ reply.kind = "none" /\ UNCHANGED call
      BY <1>1, HandlerPhase DEF Prefilled
  <1>3. /\ reply'.kind = "ok" /\ reply'.batch_id = call.batch_id /\ DOMAIN reply'.outputs = outs
        /\ reply'.input_errors = errs1 /\ reply'.decode_errors = errs2
      BY <1>1 DEF Prefilled, OkReply
  <1>4. UNCHANGED <<entries, cached_batch, batches, pc, completed_ids>> /\ completed_ids = <<>>
      BY <1>2 DEF routerVars, processVars, loopVars, AgreeInv, Books
  <1>5. /\ DOMAIN cache' = DOMAIN pruned \cup {call.batch_id} /\ cache'[call.batch_id] = batch
        /\ \A c \in DOMAIN pruned : c # call.batch_id => cache'[c] = pruned[c]
        /\ outs \subseteq batch /\ kv' = (kv \ FreedBy(ToPrune)) \cup (IF Paged THEN batch ELSE {})
        /\ UNCHANGED rpc_failures
      BY <1>1 DEF Prefilled
  <1>6. b # call.batch_id
      BY <1>2, NameTypes DEF NamesOrder
  <1>7. Books' /\ (Listed => Listed')
      BY <1>2, <1>3, <1>5, AnswerBooks DEF AgreeInv
  <1> HIDE DEF pruned
  <1>8. Kept(cached_batch)' = Prune(cached_batch)
      BY <1>4, <1>5, <1>6, PrunedKept DEF pruned
  <1>9. request_errors' = 0 =>
            request_errors = 0 /\ errs1 = {} /\ errs2 = {} /\ outs = DOMAIN call.requests
      <2>1. errs1 \in SUBSET Ids /\ errs2 \in SUBSET Ids
          BY <1>1, WireTypes DEF Prefilled
      <2>2. request_errors' = request_errors + Cardinality(errs1) + Cardinality(errs2)
          BY <1>1 DEF Prefilled
      <2>3. request_errors' = 0 => request_errors = 0 /\ errs1 = {} /\ errs2 = {}
          BY <2>1, <2>2, NoErrors
      <2>. QED  BY <1>1, <2>3 DEF Prefilled
  <1>10. errs1 = {} => OnShard' = OnShard
      <2>1. OnShard' = Prune(cached_batch) \cup (cache'[call.batch_id] \ Range(completed_ids'))
          BY <1>2, <1>3, <1>4, <1>8, PhasesHold DEF Phases, Answered
      <2>2. OnShard = Prune(cached_batch) \cup DOMAIN call.requests
          BY <1>2, PhasesHold DEF Phases, Awaited
      <2>3. Range(completed_ids') = {}
          BY <1>4 DEF Range
      <2>. QED  BY <1>5, <2>1, <2>2, <2>3
  <1>11. ASSUME Agree, request_errors' = 0 PROVE Agree'
      <2>1. reply.kind # "error" /\ DOMAIN entries \subseteq OnShard
          BY <1>2, <1>11 DEF Agree
      <2>2. call.start_id = NoStartId => DOMAIN entries = DOMAIN call.requests
          BY <1>2, <1>11 DEF Agree
      <2>3. DOMAIN entries \cap cache'[reply'.batch_id] \subseteq DOMAIN reply'.outputs
          BY <1>3, <1>5, <1>9, <1>11
      <2>. QED  BY <1>2, <1>3, <1>4, <1>9, <1>10, <1>11, <2>1, <2>2, <2>3 DEF Agree
  <1>12. ASSUME Exact, request_errors' = 0 PROVE Exact'
      <2>1. OnShard' \subseteq DOMAIN entries'
          BY <1>4, <1>9, <1>10, <1>12 DEF Exact
      <2>2. DOMAIN cache = {b} \ {0}
          BY <1>2, <1>12, PhasesHold DEF Exact, Phases, Awaited
      <2>3. DOMAIN pruned = IF cached_batch.done THEN {} ELSE {b} \ {0}
          <3>1. DOMAIN pruned = {c \in DOMAIN cache : c = b => Prune(cached_batch) # {}}
              BY PrunedCacheIs DEF pruned
          <3>2. cached_batch.done => Prune(cached_batch) = {}
              BY DEF Prune
          <3>3. b # 0 /\ ~cached_batch.done => Prune(cached_batch) # {}
              BY <1>2, <1>12 DEF Exact, Awaited, BatchKnown, NoBatch
          <3>. QED  BY <2>2, <3>1, <3>2, <3>3
      <2>4. Known' = {call.batch_id} \cup (IF cached_batch.done THEN {} ELSE {b} \ {0})
          BY <1>2, <1>3, <1>4, PhasesHold DEF Phases, Answered
      <2>5. DOMAIN cache' = Known'
          BY <1>5, <2>3, <2>4
      <2>6. ASSUME Paged, NEW i \in kv' PROVE i \in UNION Range(cache')
          <3>1. CASE i \in batch
              BY <1>5, <3>1 DEF Range
          <3>2. CASE i \notin batch
              <4>1. i \in kv /\ i \notin FreedBy(ToPrune)
                  BY <1>5, <2>6, <3>2
              <4>2. i \in cache[b] /\ b \in DOMAIN cache
                  BY <1>12, <2>2, <2>6, <4>1 DEF Exact, Range
              <4>3. i \in Prune(cached_batch)
                  BY <2>6, <4>1, <4>2, PrunedCacheIs DEF BatchOf
              <4>4. b \in DOMAIN pruned /\ pruned[b] = Prune(cached_batch)
                  BY <4>2, <4>3, PrunedCacheIs DEF pruned
              <4>. QED  BY <1>5, <1>6, <4>3, <4>4 DEF Range
          <3>. QED  BY <3>1, <3>2
      <2>7. Paged => kv' = UNION Range(cache')
          BY <2>6 DEF KvHeld
      <2>. QED  BY <1>3, <2>1, <2>5, <2>7 DEF Exact, Awaited
  <1>. QED  BY <1>5, <1>7, <1>9, <1>11, <1>12 DEF AgreeInv

\* A next_token that succeeds on the shard keeps the agreement: every request in progress
\* gets an output.
LEMMA StepAgree ==
  ASSUME HeldInv, CacheInv, CacheInv', AgreeInv, NextTokenRequest, UNCHANGED routerVars
  PROVE  AgreeInv'
  <1> USE DEF HeldInv, CacheInv, ProtocolInv
  <1>1. PICK D, errs, outs, tokens, first : Stepped(D, errs, outs, tokens, first)
      BY SteppedFacts
  <1> DEFINE b0 == batches[first].batch_id
  <1>2. pc = "rpc" /\ call.method = "next_token" /\ reply.kind = "none" /\ UNCHANGED <<call, rpc_failures>>
      BY <1>1, HandlerPhase DEF Stepped
  <1>3. /\ reply'.kind = "ok" /\ reply'.batch_id = b0 /\ DOMAIN reply'.outputs = outs
        /\ reply'.input_errors = {} /\ reply'.decode_errors = errs
      BY <1>1 DEF Stepped, OkReply, Restrict
  <1>4. UNCHANGED <<entries, cached_batch, batches, pc, completed_ids>> /\ completed_ids = <<>>
      BY <1>2 DEF routerVars, processVars, loopVars, AgreeInv, Books
  <1>5. /\ DOMAIN cache' = {b0} /\ cache'[b0] = LiveOnShard
        /\ outs \subseteq D /\ D \ errs \subseteq outs /\ errs \subseteq D
        /\ kv' = kv \ FreedBy(batches)
        /\ request_errors' = request_errors + Cardinality(errs)
      BY <1>1 DEF Stepped
  <1>6. D \subseteq LiveOnShard /\ \A i \in LiveOnShard \ D : ~(room[i] > 0)
      BY <1>1 DEF Stepped
  <1> HIDE DEF b0
  <1>7. Books' /\ (Listed => Listed')
      BY <1>2, <1>3, <1>5, <1>6, AnswerBooks DEF AgreeInv
  <1>8. OnShard' = OnShard /\ OnShard = LiveOnShard
      <2>1. Range(completed_ids') = {}
          BY <1>4 DEF Range
      <2>. QED  BY <1>2, <1>3, <1>4, <1>5, <2>1, PhasesHold DEF Phases, Answered, Awaited
  <1>9. request_errors' = 0 => request_errors = 0 /\ errs = {}
      <2>1. errs \in SUBSET Ids /\ {} \in SUBSET Ids
          BY <1>5, <1>6, LiveFacts, WireTypes
      <2>2. Cardinality({}) = 0 /\ Cardinality(errs) \in Nat /\ request_errors \in Nat
          BY <2>1, FS_EmptySet, IdsCounted, WireTypes
      <2>3. request_errors' = request_errors + Cardinality(errs) + Cardinality({})
          BY <1>5, <2>2
      <2>. QED  BY <2>1, <2>3, NoErrors
  <1>10. ASSUME Agree, request_errors' = 0 PROVE Agree'
      <2>1. reply.kind # "error" /\ DOMAIN entries \subseteq OnShard
          BY <1>2, <1>10 DEF Agree
      <2>2. \A i \in DOMAIN entries : room[i] > 0
          <3>1. ASSUME NEW i \in DOMAIN entries PROVE room[i] > 0
              <4>1. room[i] = Remaining(i)
                  BY <1>2 DEF RoomInv, CallPhase, NoIds
              <4>2. entries[i] \in Requests
                  BY CoreTypes
              <4>3. Params[entries[i]].max_new \in Nat /\ generated[entries[i]] \in Nat
                  BY <4>2, CoreTypes, RequestAssumption DEF ParamsType
              <4>. QED  BY <4>1, <4>3 DEF Progress, Remaining
          <3>. QED  BY <3>1
      <2>3. DOMAIN entries \cap cache'[reply'.batch_id] \subseteq DOMAIN reply'.outputs
          BY <1>3, <1>5, <1>6, <1>9, <1>10, <2>2
      <2>. QED  BY <1>2, <1>3, <1>4, <1>8, <1>9, <1>10, <2>1, <2>3 DEF Agree
  <1>11. ASSUME Exact PROVE Exact'
      <2>1. OnShard' \subseteq DOMAIN entries'
          BY <1>4, <1>8, <1>11 DEF Exact
      <2>2. Known' = {b0}
          BY <1>2, <1>3, <1>4, PhasesHold DEF Phases, Answered
      <2>3. DOMAIN cache = Named(batches)
          BY <1>2, <1>11, PhasesHold DEF Exact, Phases, Awaited
      <2>4. ASSUME Paged, NEW i \in kv' PROVE i \in UNION Range(cache')
          <3>1. i \in kv /\ i \notin FreedBy(batches)
              BY <1>5, <2>4
          <3>2. PICK k \in DOMAIN batches : batches[k].batch_id \in DOMAIN cache /\ i \in cache[batches[k].batch_id]
              BY <1>11, <2>3, <2>4, <3>1 DEF Exact, Range, Named
          <3>3. i \in Prune(batches[k])
              BY <2>4, <3>1, <3>2 DEF FreedBy, FreedIds, Prune, PrunedIds, BatchOf
          <3>. QED  BY <1>5, <3>3 DEF LiveOnShard, Range
      <2>5. Paged => kv' = UNION Range(cache')
          BY <2>4 DEF KvHeld
      <2>. QED  BY <1>3, <1>5, <2>1, <2>2, <2>5 DEF Exact, Awaited
  <1>. QED  BY <1>2, <1>7, <1>9, <1>10, <1>11 DEF AgreeInv

\* A next_token that leaves nothing in the cache keeps the agreement.
LEMMA EmptyAgree ==
  ASSUME HeldInv, CacheInv, AgreeInv, NextTokenEmpty, UNCHANGED routerVars
  PROVE  AgreeInv'
  <1> USE DEF HeldInv, CacheInv, ProtocolInv
  <1>1. /\ call.method = "next_token" /\ reply.kind = "none" /\ DOMAIN cache' = {}
        /\ reply'.kind = "empty" /\ UNCHANGED <<call, request_errors, rpc_failures>>
      BY DEF NextTokenEmpty, InFlight, Answer
  <1>2. pc = "rpc" /\ call.cached = batches
      BY <1>1, HandlerPhase DEF CallPhase
  <1>3. UNCHANGED <<entries, pc>>
      BY DEF routerVars
  <1>4. \A k \in DOMAIN batches : Prune(batches[k]) = {}
      BY <1>2 DEF NextTokenEmpty, LiveBatches
  <1>5. Books' /\ (Listed => Listed')
      BY <1>1, <1>2, AnswerBooks DEF AgreeInv
  <1>6. OnShard = {} /\ OnShard' = {} /\ Known' = {}
      <2>1. LiveOnShard = {}
          BY <1>4 DEF LiveOnShard
      <2>. QED  BY <1>1, <1>2, <1>3, <2>1, PhasesHold DEF Phases, Awaited
  <1>7. Agree => Agree'
      BY <1>1, <1>2, <1>3, <1>6 DEF Agree
  <1>8. ASSUME Exact PROVE Exact'
      <2>1. DOMAIN cache = Named(batches)
          BY <1>1, <1>2, <1>8, PhasesHold DEF Exact, Phases, Awaited
      <2>2. kv' = kv \ FreedBy(batches)
          BY <1>2 DEF NextTokenEmpty
      <2>3. ASSUME Paged, NEW i \in kv' PROVE FALSE
          <3>1. PICK k \in DOMAIN batches : batches[k].batch_id \in DOMAIN cache /\ i \in cache[batches[k].batch_id]
              BY <1>8, <2>1, <2>2, <2>3 DEF Exact, Range, Named
          <3>2. i \in Prune(batches[k])
              BY <2>2, <2>3, <3>1 DEF FreedBy, FreedIds, Prune, PrunedIds, BatchOf
          <3>. QED  BY <1>4, <3>2
      <2>. QED  BY <1>1, <1>6, <2>3 DEF Exact, Range, Awaited
  <1>. QED  BY <1>1, <1>5, <1>7, <1>8 DEF AgreeInv

\* Every step keeps the agreement.
LEMMA AgreeNext ==
  ASSUME HeldInv, CacheInv, AgreeInv, [Next]_vars
  PROVE  AgreeInv'
  <1>1. CASE ClientActs \/ QueueActs \/ (FillBuffer /\ UNCHANGED shardVars) \/ Quiescent \/ UNCHANGED vars
      BY <1>1, IdleSteps, AgreeIdle
  <1>2. CASE TaskActs
      BY <1>1, <1>2, TakeAgree, MoveAgree, ReceiveAgree, ProcessAgree, FinishAgree DEF TaskActs, TaskStep
  <1>3. CASE ShardActs
      BY <1>3, CacheNext, ErrorAgree, PrefillAgree, StepAgree, EmptyAgree DEF ShardActs, ShardHandles
  <1>. QED  BY <1>1, <1>2, <1>3 DEF Next

\* The invariants of this development hold in every reachable state.
LEMMA AgreeAlways == Spec => [](HeldInv /\ CacheInv /\ AgreeInv)
  <1>1. Spec => []AgreeInv
      BY CacheAlways, AgreeStarts, AgreeNext, PTL DEF Spec
  <1>. QED  BY <1>1, CacheAlways, PTL

-----------------------------------------------------------------------------
(* What the router may rely on.                                             *)

\* No entry waits for tokens that never come: when the next tokens are asked for, the
\* shard has every request in progress and is not told to prune it, after any prefills,
\* steps, cancellations and failed calls, unless the shard itself has reported a request
\* as failed (the requests of NextToken in server.py, the entries of batcher.rs).
THEOREM EntriesStay == Spec => [](request_errors = 0 => EntriesOnShard)
  <1>1. HeldInv /\ CacheInv /\ AgreeInv => (request_errors = 0 => EntriesOnShard)
      <2>1. pc = "decode" /\ CallPhase => reply.kind = "none"
          BY DEF CallPhase, NoReply, Answer
      <2>. QED  BY <2>1, PhasesHold DEF CacheInv, ProtocolInv, AgreeInv, Agree, EntriesOnShard, Phases
  <1>. QED  BY <1>1, AgreeAlways, PTL

\* The shard generates for no request that the router has dropped, until a call fails or
\* the shard reports a failed request: every completed id reaches it in the prune of an
\* add-on Prefill or in the next NextToken.
THEOREM NoStrays == Spec => [](request_errors = 0 => NoStraysWhileCallsSucceed)
  <1>1. HeldInv /\ CacheInv /\ AgreeInv => (request_errors = 0 => NoStraysWhileCallsSucceed)
      BY PhasesHold DEF AgreeInv, Exact, NoStraysWhileCallsSucceed, NoStrayRequests, Phases
  <1>. QED  BY <1>1, AgreeAlways, PTL

\* "Return None if all requests in this batch have completed" (batcher.rs): the missing
\* status means just that unless the shard has reported a failed request.
THEOREM NoneIsAllCompleted == Spec => [](request_errors = 0 => NoneMeansAllCompleted)
  <1>1. HeldInv /\ CacheInv /\ AgreeInv => (request_errors = 0 => NoneMeansAllCompleted)
      <2>1. pc = "loop" /\ CallPhase => reply.kind = "none"
          BY DEF CallPhase, NoReply, Answer
      <2>2. pc = "loop" /\ cached_batch.done => OnShard = {}
          BY PhasesHold DEF Phases, Prune
      <2>. QED  BY <2>1, <2>2 DEF CacheInv, ProtocolInv, AgreeInv, Agree, NoneMeansAllCompleted
  <1>. QED  BY <1>1, AgreeAlways, PTL

\* What get_indices_to_keep (model.py) takes for granted: the batches to be concatenated
\* and the lists of completed requests have ascending ids.  The models that merge get
\* such lists unless a request is reported as failed.
THEOREM IdsAscend == Spec => [](~Paged /\ request_errors = 0 => AscendingIds)
  <1>1. HeldInv /\ CacheInv /\ AgreeInv => (~Paged /\ request_errors = 0 => AscendingIds)
      <2> SUFFICES ASSUME HeldInv, CacheInv, AgreeInv, ~Paged, request_errors = 0, pc = "decode",
                          NEW k \in DOMAIN batches
                   PROVE  /\ \A h \in 1 .. k - 1 : \A i \in BatchOf(batches[h].batch_id),
                                                     j \in BatchOf(batches[k].batch_id) : i < j
                          /\ Ascending(batches[k].completed_ids)
          BY DEF AscendingIds, Ascending
      <2> USE DEF HeldInv, CacheInv, ProtocolInv
      <2>1. ASSUME NEW h \in 1 .. k - 1, NEW i \in BatchOf(batches[h].batch_id),
                   NEW j \in BatchOf(batches[k].batch_id)
            PROVE  i < j
          <3>1. k \in Nat /\ h \in DOMAIN batches /\ h < k
              BY NameTypes
          <3>2. batches[h].batch_id < batches[k].batch_id
              BY <3>1 DEF NamesOrder, Ordered
          <3>. QED  BY <3>2 DEF CacheOrder, BatchOf
      <2>2. Ascending(batches[k].completed_ids)
          BY DEF AgreeInv, Listed
      <2>. QED  BY <2>1, <2>2
  <1>. QED  BY <1>1, AgreeAlways, PTL

\* The paged KV cache keeps the sequences of every cached request whatever fails, and
\* those of no other request until a call fails or a request is reported as failed
\* (free_sequences in paged_causal_lm.py, the clean-up of NextToken).
THEOREM KvMatches == Spec => []KvMatchesCache
  <1>1. HeldInv /\ CacheInv /\ AgreeInv => KvMatchesCache
      BY DEF CacheInv, KvHeld, AgreeInv, Exact, KvMatchesCache
  <1>. QED  BY <1>1, AgreeAlways, PTL

\* "ID not found. This is a bug." and the assertions of process_input_tokens: the
\* batching task panics in no behaviour in which no request is reported as failed.
THEOREM PanicNeedsErrors == Spec => [](request_errors = 0 => NoPanic)
  <1>1. HeldInv /\ CacheInv /\ AgreeInv => (request_errors = 0 => NoPanic)
      BY DEF AgreeInv, Agree, NoPanic
  <1>. QED  BY <1>1, AgreeAlways, PTL

\* A failed Prefill takes down the requests of its own batch and no other one
\* (send_errors with start_id), with a shard that reports no single request as failed.
THEOREM FailureIsolated ==
  ASSUME MaxRequestErrors = 0
  PROVE  Spec => PrefillFailureIsolated
  <1>1. ASSUME HeldInv, CacheInv, AgreeInv, [Next]_vars,
               pc = "rpc", call.method = "prefill", reply.kind = "error", pc' # "rpc"
        PROVE  DOMAIN entries' = DOMAIN entries \ DOMAIN call.requests
      <2> USE DEF HeldInv, CacheInv, ProtocolInv
      <2>1. TaskActs
          <3>1. ~ClientActs
              BY <1>1 DEF ClientActs, ClientStep, Enqueue, Reject, Cancel, Expire
          <3>2. ~QueueActs
              BY <1>1 DEF QueueActs, QueueStep, PruneBuffer, ServiceQueue
          <3>3. ~ShardActs /\ ~Quiescent /\ pc' # pc
              BY <1>1 DEF ShardActs, routerVars, Quiescent
          <3>. QED  BY <1>1, <3>1, <3>2, <3>3 DEF Next, vars, routerVars
      <2>2. ReceiveError
          BY <1>1, <2>1
          DEF TaskActs, TaskStep, FillBuffer, NextBatch, ExtendBatch, KeepBatch, SendNextToken,
              ReceiveEmpty, ReceiveTokens, IgnoreOutput, Finish, DecodeFails, Continue,
              ProcessOutput, ProcessError, FinishStep
      <2>3. DOMAIN entries' = DOMAIN entries \ FailedIds(call.start_id)
          BY <2>2 DEF ReceiveError, Restrict
      <2>4. request_errors = 0
          BY <1>1 DEF TypeInv, TypeOK, ShardTypeOK
      <2>5. CASE call.start_id = NoStartId
          <3>1. DOMAIN entries = DOMAIN call.requests
              BY <1>1, <2>4, <2>5 DEF AgreeInv, Agree
          <3>. QED  BY <2>3, <2>5, <3>1 DEF FailedIds
      <2>6. CASE call.start_id # NoStartId
          BY <1>1, <2>3, <2>6 DEF CallPhase, FailedIds
      <2>. QED  BY <2>5, <2>6
  <1>. QED  BY <1>1, AgreeAlways, PTL DEF Spec, PrefillFailureIsolated

-----------------------------------------------------------------------------
(* The count of remaining tokens.                                           *)

\* max_remaining_tokens of batcher.rs is at least what any one entry may still get.
\* The sum is a recursive function on the sets of entries: that there is such a
\* function, and that it bounds its terms, go by induction on the size of the set,
\* that is, there is no smallest size for which either fails.
LEMMA SumBounds ==
  ASSUME TypeInv, Progress
  PROVE  MaxRemainingTokens \in Nat /\ \A i \in DOMAIN entries : Remaining(i) <= MaxRemainingTokens
  <1> DEFINE S == DOMAIN entries
             term(i) == Params[entries[i]].max_new - generated[entries[i]]
             pick(s) == CHOOSE x \in s : TRUE
             Upto(n) == {s \in SUBSET S : Cardinality(s) <= n}
             Sums(g, T) == \A s \in T : g[s] = IF s = {} THEN 0 ELSE term(pick(s)) + g[s \ {pick(s)}]
             iter == CHOOSE g : g = [s \in SUBSET S |->
                        IF s = {} THEN 0 ELSE term(CHOOSE x \in s : TRUE) + g[s \ {CHOOSE x \in s : TRUE}]]
  <1>1. MaxRemainingTokens = iter[S]
      BY DEF MaxRemainingTokens, MapThenSumSet, MapThenFoldSet
  <1>2. \A i \in S : term(i) \in Nat /\ term(i) = Remaining(i)
      <2>1. ASSUME NEW i \in S PROVE term(i) \in Nat /\ term(i) = Remaining(i)
          <3>1. entries[i] \in Requests
              BY CoreTypes
          <3>2. Params[entries[i]].max_new \in Nat /\ generated[entries[i]] \in Nat
              BY <3>1, CoreTypes, RequestAssumption DEF ParamsType
          <3>. QED  BY <3>2 DEF Progress, Remaining
      <2>. QED  BY <2>1
  <1>3. IsFiniteSet(S) /\ Cardinality(S) \in Nat
      BY CoreTypes, IdsCounted
  <1>4. \A s \in SUBSET S : /\ Cardinality(s) \in Nat /\ Cardinality(s) <= Cardinality(S)
                            /\ Cardinality(s) = 0 <=> s = {}
                            /\ s # {} => /\ pick(s) \in s /\ s \ {pick(s)} \in SUBSET S
                                         /\ Cardinality(s \ {pick(s)}) = Cardinality(s) - 1
      <2>1. ASSUME NEW s \in SUBSET S
            PROVE  /\ Cardinality(s) \in Nat /\ Cardinality(s) <= Cardinality(S)
                   /\ Cardinality(s) = 0 <=> s = {}
                   /\ s # {} => /\ pick(s) \in s /\ s \ {pick(s)} \in SUBSET S
                                /\ Cardinality(s \ {pick(s)}) = Cardinality(s) - 1
          <3>1. IsFiniteSet(s) /\ Cardinality(s) <= Cardinality(S)
              BY <1>3, FS_Subset
          <3>2. Cardinality(s) \in Nat /\ (Cardinality(s) = 0 <=> s = {})
              BY <3>1, FS_CardinalityType, FS_EmptySet
          <3>3. s # {} => pick(s) \in s
              OBVIOUS
          <3> HIDE DEF pick
          <3>4. s # {} => Cardinality(s \ {pick(s)}) = Cardinality(s) - 1
              BY <3>1, <3>3, FS_RemoveElement
          <3>. QED  BY <3>1, <3>2, <3>3, <3>4
      <2>. QED  BY <2>1
  <1> HIDE DEF S, term, pick
  <1>5. \A n \in Nat : \E g \in [Upto(n) -> Nat] : Sums(g, Upto(n))
      <2> DEFINE Bad == {n \in Nat : ~ \E g \in [Upto(n) -> Nat] : Sums(g, Upto(n))}
      <2>1. SUFFICES ASSUME Bad # {} PROVE FALSE
          OBVIOUS
      <2>2. PICK n \in Bad : \A m \in Bad : n <= m
          <3>1. Bad \in SUBSET Nat
              OBVIOUS
          <3> HIDE DEF Bad
          <3>. QED  BY <2>1, <3>1, LeastExists
      <2>3. CASE n = 0
          <3> DEFINE zero == [s \in Upto(n) |-> 0]
          <3>1. zero \in [Upto(n) -> Nat] /\ Sums(zero, Upto(n))
              BY <1>4, <2>3
          <3>. QED  BY <2>2, <3>1
      <2>4. CASE n # 0
          <3>0. n \in Nat /\ n - 1 \in Nat /\ ~(n <= n - 1)
              BY <2>4
          <3>1. n \in Nat /\ n - 1 \in Nat /\ n - 1 \notin Bad
              <4> HIDE DEF Bad
              <4>. QED  BY <2>2, <3>0
          <3>2. PICK g \in [Upto(n - 1) -> Nat] : Sums(g, Upto(n - 1))
              BY <3>1
          <3> DEFINE h == [s \in Upto(n) |-> IF s = {} THEN 0 ELSE term(pick(s)) + g[s \ {pick(s)}]]
          <3>3. \A s \in Upto(n) : s # {} =>
                    /\ s \ {pick(s)} \in Upto(n - 1) /\ s \ {pick(s)} \in Upto(n)
                    /\ term(pick(s)) \in Nat
              BY <1>2, <1>4, <3>1
          <3>4. h \in [Upto(n) -> Nat]
              BY <3>2, <3>3
          <3>5. ASSUME NEW t \in Upto(n - 1) PROVE t \in Upto(n) /\ h[t] = g[t]
              <4>0. t \in SUBSET S /\ Cardinality(t) <= n - 1 /\ Cardinality(t) \in Nat
                  BY <1>4
              <4>1. t \in Upto(n)
                  BY <3>1, <4>0
              <4>2. g[t] = IF t = {} THEN 0 ELSE term(pick(t)) + g[t \ {pick(t)}]
                  BY <3>2
              <4>. QED  BY <4>1, <4>2
          <3>6. Sums(h, Upto(n))
              BY <3>3, <3>5
          <3>. QED  BY <2>2, <3>4, <3>6
      <2>. QED  BY <2>3, <2>4
  <1>6. iter = [s \in SUBSET S |-> IF s = {} THEN 0 ELSE term(pick(s)) + iter[s \ {pick(s)}]]
      <2>1. Upto(Cardinality(S)) = SUBSET S
          BY <1>4
      <2>2. PICK g \in [SUBSET S -> Nat] : Sums(g, SUBSET S)
          BY <1>3, <1>5, <2>1
      <2>3. g = [s \in SUBSET S |-> IF s = {} THEN 0 ELSE term(pick(s)) + g[s \ {pick(s)}]]
          BY <2>2
      <2>. QED  BY <2>3 DEF pick
  <1> HIDE DEF iter
  <1>7. \A n \in Nat : \A s \in Upto(n) : iter[s] \in Nat /\ \A i \in s : term(i) <= iter[s]
      <2> DEFINE Bad == {n \in Nat : ~ \A s \in Upto(n) : iter[s] \in Nat /\ \A i \in s : term(i) <= iter[s]}
      <2>1. SUFFICES ASSUME Bad # {} PROVE FALSE
          OBVIOUS
      <2>2. PICK n \in Bad : \A m \in Bad : n <= m
          <3>1. Bad \in SUBSET Nat
              OBVIOUS
          <3> HIDE DEF Bad
          <3>. QED  BY <2>1, <3>1, LeastExists
      <2>3. PICK s \in Upto(n) : ~(iter[s] \in Nat /\ \A i \in s : term(i) <= iter[s])
          BY <2>2
      <2>4. CASE s = {}
          BY <1>6, <2>3, <2>4
      <2>5. CASE s # {}
          <3> DEFINE x == pick(s)
                     t == s \ {x}
          <3>0. s \in SUBSET S /\ Cardinality(s) <= n
              BY <2>3
          <3>1. x \in S /\ term(x) \in Nat /\ t \in SUBSET S /\ Cardinality(t) = Cardinality(s) - 1
                /\ Cardinality(s) \in Nat \ {0} /\ s = t \cup {x}
              <4>1. x \in s /\ t \in SUBSET S /\ Cardinality(t) = Cardinality(s) - 1
                    /\ Cardinality(s) \in Nat \ {0}
                  BY <1>4, <2>5, <3>0
              <4>. QED  BY <1>2, <3>0, <4>1
          <3>2. n \in Nat /\ n - 1 \in Nat /\ t \in Upto(n - 1)
              BY <2>2, <3>1
          <3>3. n - 1 \notin Bad
              BY <2>2, <3>2
          <3>4. iter[t] \in Nat /\ \A i \in t : term(i) <= iter[t]
              BY <3>2, <3>3
          <3>5. iter[s] = term(x) + iter[t]
              BY <1>6, <2>5
          <3>6. \A i \in s : i = x \/ (i \in t /\ term(i) \in Nat)
              BY <1>2
          <3> HIDE DEF x, t
          <3>. QED  BY <2>3, <3>1, <3>4, <3>5, <3>6
      <2>. QED  BY <2>4, <2>5
  <1>8. S \in Upto(Cardinality(S))
      BY <1>4
  <1>. QED  BY <1>1, <1>2, <1>3, <1>7, <1>8 DEF S

\* The count stays above what any entry may still get, so that it is never zero when it
\* is decremented; it is taken anew whenever the entries have changed.
Counted ==
    batch_max_remaining_tokens # NotCounted =>
        /\ pc = "loop" =>
              DOMAIN entries # {} /\ \A i \in DOMAIN entries : room[i] < batch_max_remaining_tokens
        /\ pc = "decode" \/ (Awaited /\ call.method = "next_token") =>
              \A i \in DOMAIN entries : room[i] <= batch_max_remaining_tokens
        /\ Answered /\ call.method = "next_token" =>
              \A i \in DOMAIN entries : room[i] < batch_max_remaining_tokens

CountInv ==
    /\ batch_max_remaining_tokens \in Nat \cup {NotCounted}
    /\ request_errors = 0 /\ rpc_failures = 0 => Counted

\* Every step of the batching task keeps the count above what any entry may still get.
LEMMA CountTask ==
  ASSUME HeldInv, CacheInv, AgreeInv, AgreeInv', CountInv, TaskActs
  PROVE  CountInv'
  <1> USE DEF HeldInv, CacheInv, ProtocolInv
  <1>0. UNCHANGED shardVars
      BY DEF TaskActs
  <1> USE <1>0 DEF shardVars
  <1>1. RemainingTokens \in Nat
      BY SumBounds, ConfigAssumption DEF RemainingTokens, CountInv, NotCounted
  <1>2. CASE FillBuffer
      BY <1>2 DEF FillBuffer, CountInv, Counted, Awaited, Answered, loopVars, rpcVars
  <1>3. CASE NextBatch \/ ExtendBatch
      <2>1. pc' = "rpc" /\ reply'.kind = "none" /\ call'.method = "prefill"
          <3>1. pc \in {"next_batch", "loop"} /\ UNCHANGED reply
              BY <1>3 DEF NextBatch, ExtendBatch
          <3>2. pc' = "rpc" /\ call'.method = "prefill"
              BY <1>3, TakeFacts DEF Taken
          <3>. QED  BY <3>1, <3>2 DEF CallPhase, NoReply, Answer
      <2>2. batch_max_remaining_tokens' \in Nat \cup {NotCounted}
          BY <1>1, <1>3 DEF NextBatch, ExtendBatch, CountInv, loopVars
      <2>. QED  BY <2>1, <2>2 DEF CountInv, Counted, Awaited, Answered
  <1>4. CASE KeepBatch
      <2>1. pc = "loop" /\ pc' = "decode" /\ batch_max_remaining_tokens' = RemainingTokens /\ UNCHANGED entries
          BY <1>4 DEF KeepBatch
      <2>2. ASSUME Counted, NEW i \in DOMAIN entries PROVE room[i] <= RemainingTokens
          <3>1. room[i] = Remaining(i) /\ room[i] \in Nat
              BY <2>1, CoreTypes, WireTypes DEF RoomInv
          <3>2. CASE batch_max_remaining_tokens = NotCounted
              BY <3>1, <3>2, SumBounds DEF RemainingTokens
          <3>3. CASE batch_max_remaining_tokens # NotCounted
              <4>1. room[i] < batch_max_remaining_tokens /\ batch_max_remaining_tokens \in Nat
                  BY <2>1, <2>2, <3>3 DEF Counted, CountInv
              <4>. QED  BY <3>1, <3>3, <4>1 DEF RemainingTokens
          <3>. QED  BY <3>2, <3>3
      <2>. QED  BY <1>1, <2>1, <2>2 DEF CountInv, Counted, Answered
  <1>5. CASE SendNextToken
      BY <1>5 DEF SendNextToken, CountInv, Counted, Answered, loopVars, CallPhase, NoReply, Answer
  <1>6. CASE ReceiveEmpty \/ ReceiveError
      <2>1. Resumed(NoBatch)
          BY <1>6, NoBatchType, ResumeFacts DEF ReceiveEmpty, ReceiveError
      <2>. QED  BY <2>1 DEF Resumed, CountInv, Counted, Awaited, Answered
  <1>7. CASE ReceiveTokens
      <2>1. pc = "rpc" /\ reply.kind = "ok" /\ pc' \in {"process", "panic"}
            /\ UNCHANGED <<call, entries, batch_max_remaining_tokens>>
          BY <1>7 DEF ReceiveTokens, loopVars
      <2>. QED  BY <2>1 DEF CountInv, Counted, Awaited, Answered
  <1>8. CASE IgnoreOutput \/ Finish \/ DecodeFails \/ Continue \/ ProcessError
      <2>1. /\ pc = "process" /\ pc' \in {"process", "panic"} /\ DOMAIN entries' \subseteq DOMAIN entries
            /\ UNCHANGED <<call, batch_max_remaining_tokens>>
          BY <1>8 DEF IgnoreOutput, Finish, DecodeFails, Continue, ProcessOutput, ProcessError,
                      RemoveEntry, Restrict, loopVars, rpcVars
      <2>. QED  BY <2>1 DEF CountInv, Counted, Awaited, Answered
  <1>9. CASE FinishStep
      <2>1. ProcessedBatch \in CachedBatch
          BY CoreTypes, WireTypes DEF ProcessedBatch, CachedBatch
      <2>2. Resumed(ProcessedBatch) /\ pc = "process" /\ UNCHANGED entries
          BY <1>9, <2>1, ResumeFacts DEF FinishStep
      <2>3. /\ batch_max_remaining_tokens' \in {NotCounted, batch_max_remaining_tokens}
            /\ pc' \in {"next_batch", "loop", "decode"}
            /\ pc' # "loop" \/ call.method = "prefill" => batch_max_remaining_tokens' = NotCounted
          BY <2>2 DEF Resumed
      <2>4. ASSUME Counted, batch_max_remaining_tokens' # NotCounted,
                   request_errors = 0, rpc_failures = 0
            PROVE  DOMAIN entries # {} /\ \A i \in DOMAIN entries : room[i] < batch_max_remaining_tokens
          <3>1. pc' = "loop" /\ call.method = "next_token"
              BY <2>2, <2>3, <2>4, WireTypes DEF CallPhase
          <3>2. \A i \in DOMAIN entries : room[i] < batch_max_remaining_tokens
              BY <2>2, <2>3, <2>4, <3>1 DEF Counted, Answered
          <3>3. cached_batch' = ProcessedBatch /\ ~cached_batch'.done /\ cached_batch'.completed_ids = <<>>
              BY <2>2, <2>4, <3>1 DEF Resumed, AgreeInv, Books
          <3>4. reply.batch_id \in DOMAIN cache /\ cache[reply.batch_id] # {}
              BY <2>2 DEF CallPhase, CacheOrder
          <3>5. cached_batch'.batch_id = reply.batch_id
              BY <3>3 DEF ProcessedBatch
          <3>6. OnShard' \subseteq DOMAIN entries
              BY <2>2, <2>4 DEF AgreeInv, Exact
          <3>7. OnShard' = Prune(cached_batch)'
              BY <3>1, PhasesHold DEF Phases
          <3>8. Prune(cached_batch)' = cache[reply.batch_id]
              BY <3>3, <3>4, <3>5 DEF Prune, BatchOf, PrunedIds, IdsSeenByMerge, Range
          <3>. QED  BY <3>2, <3>4, <3>6, <3>7, <3>8
      <2>. QED  BY <2>2, <2>3, <2>4 DEF CountInv, Counted, Awaited, Answered
  <1>. QED
      BY <1>2, <1>3, <1>4, <1>5, <1>6, <1>7, <1>8, <1>9 DEF TaskActs, TaskStep

\* Every call on the shard keeps the count: a next_token takes one token from the room
\* of each request in progress.
LEMMA CountShard ==
  ASSUME HeldInv, CacheInv, AgreeInv, AgreeInv', CountInv, ShardActs
  PROVE  CountInv'
  <1> USE DEF HeldInv, CacheInv, ProtocolInv
  <1>1. UNCHANGED <<entries, pc, batch_max_remaining_tokens>>
      BY DEF ShardActs, routerVars, loopVars
  <1>2. SUFFICES ASSUME request_errors' = 0, rpc_failures' = 0 PROVE Counted'
      BY <1>1 DEF CountInv
  <1>3. Exact'
      BY <1>2 DEF AgreeInv
  <1>4. CASE PrefillNotFound \/ PrefillNoBatch \/ NextTokenNotFound \/ ShardFails
      <2>1. reply'.kind = "error"
          BY <1>4 DEF PrefillNotFound, PrefillNoBatch, NextTokenNotFound, ShardFails, CallLost,
                      ReplyLost, PrefillRaises, NextTokenRaises, Answer
      <2>. QED  BY <1>3, <2>1 DEF Exact
  <1>5. CASE PrefillRequest
      <2>1. pc = "rpc" /\ call'.method = "prefill"
          BY <1>5, PrefilledFacts, HandlerPhase DEF Prefilled
      <2>. QED  BY <1>1, <2>1 DEF Counted
  <1>6. CASE NextTokenEmpty
      <2>1. pc = "rpc" /\ reply'.kind = "empty"
          BY <1>6, HandlerPhase DEF NextTokenEmpty, InFlight, Answer
      <2>. QED  BY <1>1, <2>1 DEF Counted, Awaited, Answered
  <1>7. CASE NextTokenRequest
      <2>1. PICK D, errs, outs, tokens, first : Stepped(D, errs, outs, tokens, first)
          BY <1>7, SteppedFacts
      <2>2. /\ pc = "rpc" /\ call.method = "next_token" /\ reply.kind = "none"
            /\ UNCHANGED <<call, rpc_failures>> /\ reply'.kind = "ok"
          BY <2>1, HandlerPhase DEF Stepped, OkReply
      <2>3. request_errors = 0
          <3>1. errs \in SUBSET Ids
              BY <2>1, LiveFacts, WireTypes DEF Stepped
          <3>2. request_errors' = request_errors + Cardinality(errs) /\ Cardinality(errs) \in Nat
                /\ request_errors \in Nat
              BY <2>1, <3>1, IdsCounted, WireTypes DEF Stepped
          <3>. QED  BY <1>2, <3>2
      <2>4. Agree /\ Counted
          BY <1>2, <2>2, <2>3 DEF AgreeInv, CountInv
      <2>5. ASSUME NEW i \in DOMAIN entries PROVE room'[i] < room[i] /\ room[i] \in Nat /\ room'[i] \in Int
          <3>1. i \in LiveOnShard /\ i \in Ids
              BY <2>2, <2>4, PhasesHold, CoreTypes DEF Agree, Phases, Awaited
          <3>2. room[i] \in Nat /\ room[i] > 0
              <4>1. room[i] = Remaining(i)
                  BY <2>2 DEF RoomInv, CallPhase, NoIds
              <4>2. entries[i] \in Requests
                  BY CoreTypes
              <4>3. Params[entries[i]].max_new \in Nat /\ generated[entries[i]] \in Nat
                  BY <4>2, CoreTypes, RequestAssumption DEF ParamsType
              <4>. QED  BY <3>1, <4>1, <4>3, WireTypes DEF Progress, Remaining
          <3>3. i \in D /\ tokens[i] \in Nat \ {0}
              BY <2>1, <3>1, <3>2 DEF Stepped
          <3>4. room'[i] = IF room[i] > tokens[i] THEN room[i] - tokens[i] ELSE 0
              BY <2>1, <3>1, <3>3 DEF Stepped
          <3>. QED  BY <3>2, <3>3, <3>4
      <2>6. batch_max_remaining_tokens # NotCounted =>
                \A i \in DOMAIN entries : room[i] <= batch_max_remaining_tokens
          BY <2>2, <2>4 DEF Counted, Awaited
      <2>7. batch_max_remaining_tokens \in Int
          BY DEF CountInv, NotCounted
      <2>8. batch_max_remaining_tokens # NotCounted =>
                \A i \in DOMAIN entries : room'[i] < batch_max_remaining_tokens
          BY <2>5, <2>6, <2>7
      <2>. QED  BY <1>1, <2>2, <2>8 DEF Counted, Awaited
  <1>. QED  BY <1>4, <1>5, <1>6, <1>7 DEF ShardActs, ShardHandles

\* "batch_max_remaining_tokens -= 1" (batcher.rs) on a u32: it is above zero whenever the
\* loop gets there, unless a call has failed or the shard has reported a failed request.
THEOREM TokenCountAboveZero == Spec => [](request_errors = 0 => NoTokenUnderflow)
  <1>1. Init => CountInv
      BY DEF Init, RouterInit, CountInv, Counted
  <1>2. HeldInv /\ CacheInv /\ AgreeInv /\ AgreeInv' /\ CountInv /\ [Next]_vars => CountInv'
      <2> SUFFICES ASSUME HeldInv, CacheInv, AgreeInv, AgreeInv', CountInv, [Next]_vars
                   PROVE  CountInv'
          OBVIOUS
      <2>1. CASE ClientActs \/ QueueActs \/ Quiescent \/ UNCHANGED vars
          <3>1. UNCHANGED idleVars
              BY <2>1, IdleSteps
          <3>. QED  BY <3>1 DEF idleVars, CountInv, Counted, Awaited, Answered, rpcVars, shardVars
      <2>. QED  BY <2>1, CountTask, CountShard DEF Next
  <1>3. HeldInv /\ CountInv => (request_errors = 0 => NoTokenUnderflow)
      <2> SUFFICES ASSUME HeldInv, CountInv, request_errors = 0, rpc_failures = 0, pc = "loop",
                          batch_max_remaining_tokens = 0
                   PROVE  FALSE
          BY DEF NoTokenUnderflow
      <2>1. PICK i \in DOMAIN entries : room[i] < batch_max_remaining_tokens
          BY DEF CountInv, Counted, NotCounted
      <2>. QED  BY <2>1, CoreTypes, WireTypes DEF HeldInv
  <1>. QED  BY <1>1, <1>2, <1>3, AgreeAlways, PTL DEF Spec
=============================================================================
