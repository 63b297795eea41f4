------------------------------ MODULE Executor ------------------------------
(***************************************************************************)
(* The executor actor                                                      *)
(* (src/tempo/crates/consensus/src/executor/actor.rs): the one writer of   *)
(* the execution layer.  It merges three streams: finalized blocks from    *)
(* the marshal, the pending head consensus builds on, and the build and    *)
(* verify requests of the current round, into a sequence of execution      *)
(* tasks of which one is in flight at a time.                              *)
(*                                                                         *)
(* One action is one iteration of the select loop: the branch that fires,  *)
(* then the top of the loop (heal the tree, start the next task, retarget  *)
(* the fetch, rearm the heartbeat).  A message is handled when it arrives: *)
(* the mailbox is FIFO, and its senders' order is in the guards.           *)
(***************************************************************************)
EXTENDS NotarizedTree, ExecutionLayer, Sequences, FiniteSets

CONSTANTS
    MaxPendingAcks,  \* finalized blocks the marshal has out at a time
    MaxRestarts,     \* bound: crashes of the node
    MaxFaults,       \* bound: calls and lookups that fail
    MaxContexts,     \* bound: contexts consensus asks this node about
    MaxRequests,     \* bound: build and verify requests of one run of the node
    SnapshotRestore, \* whether a restart may find older consensus storage
    StaleContexts    \* whether consensus may then run a round it was past before

ASSUME BoundAssumption ==
    /\ MaxPendingAcks \in Nat \ {0}
    /\ MaxRestarts \in Nat
    /\ MaxFaults \in Nat
    /\ MaxContexts \in Nat
    /\ MaxRequests \in Nat
    /\ SnapshotRestore \in BOOLEAN
    /\ StaleContexts \in BOOLEAN

VARIABLES
    phase,     \* "wait" for the layer, "backfill", "loop", "stopped" by a call
               \* or a lookup that failed, or "dead": a state was refused
    tree,      \* the notarized tree
    actor,     \* queue, request, task, fetch, jobs and timer of the actor
    layer,     \* the execution layer
    floor,     \* finalized_floor: the height the marshal starts from
    next,      \* the height of the finalized block the marshal sends next
    acked,     \* the height of the last block acknowledged to the marshal
    certs,     \* blocks with a finalization certificate
    proposals, \* proposals whose context this node was asked about
    asked,     \* proposals this node was asked to build or verify
    restarts, faults

vars == <<phase, tree, actor, layer, floor, next, acked, certs, proposals,
          asked, restarts, faults>>

environment == <<floor, next, certs, proposals, asked, restarts, faults>>

------------------------------------------------------------------------------
(* Tasks and requests.                                                     *)

NoLocal == [head |-> Genesis, fin |-> Genesis]
Running == [kind |-> "running", ls |-> NoLocal, job |-> FALSE]
NoRequest == [kind |-> "none", block |-> Genesis]
NoTask == [type |-> "none", block |-> Genesis, on |-> NoLocal, outcome |-> Running]

TaskType == {"none", "verify", "build", "block", "repoint", "finalize", "heartbeat"}

(* An outcome: Completed with or without a new forkchoice state and a      *)
(* payload job, NotarizedBlockRejected, or Fatal.                          *)
Outcome == [kind : {"running", "none", "state", "rejected", "fatal"},
            ls : LocalState, job : BOOLEAN]

(* A request names the proposal of its round: the block to verify, or the  *)
(* block that is to be built on the proposal's parent.                     *)
Request == [kind : {"none", "verify", "build"}, block : Block]

Task == [type : TaskType, block : Block, on : LocalState, outcome : Outcome]

ActorState == [queue : Seq(Block), request : Request, task : Task,
               fetch : Tip, jobs : SUBSET Block, timer : BOOLEAN]

NewActor == [queue |-> <<>>, request |-> NoRequest, task |-> NoTask,
             fetch |-> NoFetch, jobs |-> {}, timer |-> FALSE]

Idle(a) == a.task.type = "none"

NewTask(type, t, b) ==
    [type |-> type, block |-> b, on |-> LocalOf(t), outcome |-> Running]

IsConvergenceTarget(t, a, b) ==
    \/ \E i \in DOMAIN a.queue : a.queue[i] = b
    \/ ConvergesImminently(t, b)

(* A request at or below the queued round is dropped.                      *)
QueueConsensusRequest(a, r) ==
    IF a.request.kind # "none" /\ Round[r.block] <= Round[a.request.block]
    THEN a
    ELSE [a EXCEPT !.request = r]

RequestStarts(t, a) ==
    LET parent == Parent[a.request.block]
    IN  \/ /\ a.request.kind = "verify"
           /\ IsLocalTip(t, parent) \/ ~ IsConvergenceTarget(t, a, parent)
        \/ a.request.kind = "build" /\ parent = t.head

RequestKept(t, a) ==
    \/ a.request.kind = "verify"
    \/ /\ a.request.kind = "build"
       /\ IsConvergenceTarget(t, a, Parent[a.request.block])

\* Variant: the block delivered last goes first.
StartNewestFinalization(t, a) ==
    [a EXCEPT !.task = NewTask("finalize", t, a.queue[Len(a.queue)]),
              !.queue = SubSeq(@, 1, Len(@) - 1)]

(* Finalized blocks are forwarded in the order they were delivered.        *)
StartFinalization(t, a) ==
    [a EXCEPT !.task = NewTask("finalize", t, Head(a.queue)), !.queue = Tail(@)]

\* Variant: a request that waits for its parent holds the pipelines back.
StartUnlessRequestWaits(t, a) ==
    LET step == NextToForward(t)
    IN  IF ~ Idle(a)
        THEN a
        ELSE IF RequestStarts(t, a)
        THEN [a EXCEPT !.task = NewTask(a.request.kind, t, a.request.block),
                       !.request = NoRequest]
        ELSE IF RequestKept(t, a)
        THEN a
        ELSE IF step # NoStep
        THEN [a EXCEPT !.task = NewTask(step.kind, t, step.block), !.request = NoRequest]
        ELSE IF a.queue # <<>>
        THEN [StartFinalization(t, a) EXCEPT !.request = NoRequest]
        ELSE [a EXCEPT !.request = NoRequest]

StartNextExecutionTask(t, a) ==
    LET step == NextToForward(t)
        kept == IF RequestKept(t, a) THEN a.request ELSE NoRequest
    IN  IF ~ Idle(a)
        THEN a
        ELSE IF RequestStarts(t, a)
        THEN [a EXCEPT !.task = NewTask(a.request.kind, t, a.request.block),
                       !.request = NoRequest]
        ELSE IF step # NoStep
        THEN [a EXCEPT !.task = NewTask(step.kind, t, step.block),
                       !.request = kept]
        ELSE IF a.queue # <<>>
        THEN [StartFinalization(t, a) EXCEPT !.request = kept]
        ELSE [a EXCEPT !.request = kept]

\* Variant: a fetch that is no longer needed is not dropped.
KeepFetchInFlight(t, a) ==
    IF a.fetch # NoFetch THEN a ELSE [a EXCEPT !.fetch = FirstMissingAncestor(t)]

UpdateNotarizedBlockFetch(t, a) ==
    LET missing == FirstMissingAncestor(t)
    IN  IF a.fetch # NoFetch /\ a.fetch.digest = missing.digest
        THEN a
        ELSE [a EXCEPT !.fetch = missing]

UpdateFcuHeartbeatTimer(a) ==
    [a EXCEPT !.timer = Idle(a) /\ a.queue = <<>> /\ a.request = NoRequest]

(* The top of the select loop, run on what the fired branch left.          *)
LoopTop(t, a) ==
    LET healed == Heal(t)
    IN  /\ tree' = healed
        /\ actor' = UpdateFcuHeartbeatTimer(
                        UpdateNotarizedBlockFetch(healed,
                            StartNextExecutionTask(healed, a)))

------------------------------------------------------------------------------
(* What the tasks do to the execution layer.                               *)

(* submit_forkchoice_update: a tracked finalized block the layer already   *)
(* considers final must be canonical, and a state below the layer's own    *)
(* finality is not submitted.                                              *)
FcuConflicts(e, ls) == Height[e.fin] >= Height[ls.fin] /\ ~ IsCanonical(e, ls.fin)

\* Variant: a state below the layer's finality is submitted.
FcuNeverSkipped(e, ls) == FALSE

FcuSkipped(e, ls) == Height[e.fin] > Height[ls.fin]

FcuAccepted(e, ls) ==
    /\ ~ FcuConflicts(e, ls)
    /\ FcuSkipped(e, ls) \/ ForkchoiceValid(e, ls.head, ls.fin)

SubmitForkchoiceUpdate(e, ls) ==
    IF FcuConflicts(e, ls) \/ FcuSkipped(e, ls)
    THEN e
    ELSE ForkChoiceUpdated(e, ls.head, ls.fin)

(* finalization_target: a block below the tracked state, or another block  *)
(* at its height, is an error.  The head follows the finalized block       *)
(* unless the block is canonical already.                                  *)
\* Variant: the block at the tracked height is refused when re-delivered.
DeliveryAbove(ls, b) == Height[b] > Height[ls.fin]

DeliveryInOrder(ls, b) == Height[b] > Height[ls.fin] \/ b = ls.fin

\* Variant: the head is never moved onto the finalized branch.
FinalizationTargetKeepsHead(e, ls, b) ==
    IF b = ls.fin THEN ls ELSE UpdateFinalized(ls, b)

FinalizationTarget(e, ls, b) ==
    IF b = ls.fin
    THEN ls
    ELSE IF IsCanonical(e, b)
    THEN UpdateFinalized(ls, b)
    ELSE UpdateHead(UpdateFinalized(ls, b), b)

(* forward_finalized, for the target computed on the layer before it.      *)
FinalizationAccepted(e, ls, b) ==
    /\ DeliveryInOrder(ls, b)
    /\ PayloadValid(e, b)
    /\ FcuAccepted(NewPayload(e, b), FinalizationTarget(e, ls, b))

\* Variant: the forkchoice update is left out.
ForwardFinalizedPayload(e, ls, b) == NewPayload(e, b)

ForwardFinalized(e, ls, b) ==
    IF DeliveryInOrder(ls, b) /\ PayloadValid(e, b)
    THEN SubmitForkchoiceUpdate(NewPayload(e, b), FinalizationTarget(e, ls, b))
    ELSE e

(* forward_notarized, for a block or, without a payload, for a repoint.    *)
NotarizationAccepted(e, ls, b) ==
    UpdateHead(ls, b) = ls \/ FcuAccepted(e, UpdateHead(ls, b))

\* Variant: a target that finalizes nothing new counts as unchanged.
ForwardNotarizedUnlessFinal(e, ls, b) ==
    IF UpdateHead(ls, b).fin = ls.fin THEN e ELSE SubmitForkchoiceUpdate(e, UpdateHead(ls, b))

ForwardNotarized(e, ls, b) ==
    IF UpdateHead(ls, b) = ls THEN e ELSE SubmitForkchoiceUpdate(e, UpdateHead(ls, b))

------------------------------------------------------------------------------
(* Execution tasks: the future in the task slot runs to its outcome.       *)

Completed == [kind |-> "none", ls |-> NoLocal, job |-> FALSE]
CompletedWith(ls, job) == [kind |-> "state", ls |-> ls, job |-> job]
Rejected == [kind |-> "rejected", ls |-> NoLocal, job |-> FALSE]
Fatal == [kind |-> "fatal", ls |-> NoLocal, job |-> FALSE]

InFlight(type) ==
    phase = "loop" /\ actor.task.type = type /\ actor.task.outcome = Running

Finish(outcome) == actor' = [actor EXCEPT !.task.outcome = outcome]

ExecuteHeartbeat ==
    /\ InFlight("heartbeat")
    /\ layer' = SubmitForkchoiceUpdate(layer, actor.task.on)
    /\ Finish(Completed)
    /\ UNCHANGED <<phase, tree, acked, environment>>

(* A build whose subscriber is gone is submitted without attributes, and a *)
(* skipped update returns no payload id.                                   *)
ExecuteBuild ==
    /\ InFlight("build")
    /\ layer' = SubmitForkchoiceUpdate(layer, actor.task.on)
    /\ \E canceled \in BOOLEAN :
          Finish(IF FcuAccepted(layer, actor.task.on)
                 THEN CompletedWith(actor.task.on,
                                    ~ canceled /\ ~ FcuSkipped(layer, actor.task.on))
                 ELSE Completed)
    /\ UNCHANGED <<phase, tree, acked, environment>>

(* The layer may or may not have executed the block: the subscriber can go *)
(* away before the request is sent, and the block may be invalid.          *)
ExecuteValidation ==
    /\ InFlight("verify")
    /\ layer' \in {layer, NewPayload(layer, actor.task.block)}
    /\ Finish(Completed)
    /\ UNCHANGED <<phase, tree, acked, environment>>

(* The block is acknowledged inside the task, before the actor has seen    *)
(* the outcome.                                                            *)
ExecuteFinalization ==
    LET on == actor.task.on
        b == actor.task.block
        ok == FinalizationAccepted(layer, on, b)
    IN  /\ InFlight("finalize")
        /\ layer' = ForwardFinalized(layer, on, b)
        /\ acked' = IF ok THEN Height[b] ELSE acked
        /\ Finish(IF ok
                  THEN CompletedWith(FinalizationTarget(layer, on, b), FALSE)
                  ELSE Fatal)
        /\ UNCHANGED <<phase, tree, environment>>

ExecuteNotarization ==
    LET on == actor.task.on
        b == actor.task.block
        ok == PayloadValid(layer, b) /\ NotarizationAccepted(NewPayload(layer, b), on, b)
    IN  /\ InFlight("block")
        /\ layer' = IF PayloadValid(layer, b)
                    THEN ForwardNotarized(NewPayload(layer, b), on, b)
                    ELSE layer
        /\ Finish(IF ok THEN CompletedWith(UpdateHead(on, b), FALSE) ELSE Rejected)
        /\ UNCHANGED <<phase, tree, acked, environment>>

\* Variant: the head the layer moved to is not recorded.
ExecuteRepointSilently ==
    /\ InFlight("repoint")
    /\ layer' = ForwardNotarized(layer, actor.task.on, actor.task.block)
    /\ Finish(IF NotarizationAccepted(layer, actor.task.on, actor.task.block)
              THEN Completed ELSE Fatal)
    /\ UNCHANGED <<phase, tree, acked, environment>>

ExecuteRepoint ==
    LET on == actor.task.on
        b == actor.task.block
    IN  /\ InFlight("repoint")
        /\ layer' = ForwardNotarized(layer, on, b)
        /\ Finish(IF NotarizationAccepted(layer, on, b)
                  THEN CompletedWith(UpdateHead(on, b), FALSE)
                  ELSE Fatal)
        /\ UNCHANGED <<phase, tree, acked, environment>>

(* A call that fails.  The layer runs in the same process, answers every   *)
(* call it has applied, and moves its head only right before it answers    *)
(* VALID: a block whose task failed may be executed but is not the head.   *)
(* An update with the tracked state changes nothing if it is repeated.     *)
CallFails ==
    /\ faults < MaxFaults
    /\ faults' = faults + 1
    /\ UNCHANGED <<tree, acked, floor, next, certs, proposals, asked, restarts>>

HeartbeatFails ==
    /\ InFlight("heartbeat")
    /\ layer' \in {layer, SubmitForkchoiceUpdate(layer, actor.task.on)}
    /\ Finish(Completed)
    /\ UNCHANGED phase
    /\ CallFails

BuildFails ==
    /\ InFlight("build")
    /\ layer' \in {layer, SubmitForkchoiceUpdate(layer, actor.task.on)}
    /\ Finish(Completed)
    /\ UNCHANGED phase
    /\ CallFails

NotarizationFails ==
    /\ InFlight("block")
    /\ layer' \in {layer, NewPayload(layer, actor.task.block)}
    /\ Finish(Rejected)
    /\ UNCHANGED phase
    /\ CallFails

(* A finalization that meets a failure ends the node, so that the block is *)
(* delivered again to its next run; so does a repoint.                     *)
FinalizationFails ==
    /\ InFlight("finalize")
    /\ layer' \in {layer, NewPayload(layer, actor.task.block)}
    /\ phase' = "stopped"
    /\ UNCHANGED actor
    /\ CallFails

RepointFails ==
    /\ InFlight("repoint")
    /\ phase' = "stopped"
    /\ UNCHANGED <<actor, layer>>
    /\ CallFails

------------------------------------------------------------------------------
(* The branches of the select loop.                                        *)

(* The finished task is taken from its slot and its outcome applied.       *)
HandleExecutionTaskFinished ==
    LET task == actor.task
        out == task.outcome
        freed == [actor EXCEPT !.task = NoTask,
                               !.jobs = IF out.job THEN @ \cup {task.block} ELSE @]
    IN  /\ phase = "loop"
        /\ ~ Idle(actor)
        /\ out.kind # "running"
        /\ \/ out.kind = "state" /\ LoopTop(SetLocalState(tree, out.ls), freed)
           \/ out.kind = "none" /\ LoopTop(tree, freed)
           \/ out.kind = "rejected" /\ LoopTop(MarkRejected(tree, task.block), freed)
           \/ out.kind = "fatal" /\ UNCHANGED <<tree, actor>>
        /\ phase' = IF out.kind = "fatal" THEN "dead" ELSE phase
        /\ UNCHANGED <<layer, acked, environment>>

(* A payload job ends; its block is kept only if it was delivered.         *)
PayloadJobDone ==
    \E b \in actor.jobs, delivered \in BOOLEAN :
        /\ phase = "loop"
        /\ LoopTop(IF delivered THEN RecordBlock(tree, b) ELSE tree,
                   [actor EXCEPT !.jobs = @ \ {b}])
        /\ UNCHANGED <<phase, layer, acked, environment>>

(* The fetch resolves to the body, or the marshal dropped the channel.     *)
HandleFetchedNotarizedBlock(found) ==
    /\ phase = "loop"
    /\ actor.fetch # NoFetch
    /\ LoopTop(IF found THEN RecordBlock(tree, actor.fetch.digest) ELSE tree,
               [actor EXCEPT !.fetch = NoFetch])
    /\ UNCHANGED <<phase, layer, acked, environment>>

SendForkchoiceUpdateHeartbeat ==
    LET started == StartNextExecutionTask(tree, actor)
    IN  /\ phase = "loop"
        /\ actor.timer
        /\ LoopTop(tree, IF Idle(started)
                         THEN [started EXCEPT !.task = NewTask("heartbeat", tree, Genesis)]
                         ELSE started)
        /\ UNCHANGED <<phase, layer, acked, environment>>

(* The retry delay of a rejected block passes.  No timer is set for it:    *)
(* the actor only notices at its next iteration.                           *)
RetryDelayElapsed ==
    \E b \in tree.withheld :
        /\ phase = "loop"
        /\ tree' = [tree EXCEPT !.withheld = @ \ {b}]
        /\ UNCHANGED <<phase, actor, layer, acked, environment>>

------------------------------------------------------------------------------
(* Messages.  Consensus and the marshal are external: the guards state     *)
(* what they promise.                                                      *)

(* Blocks known to be notarized: parents of a context, and certified       *)
(* blocks, with all their ancestors.                                       *)
Notarized == UNION {Chain[Parent[p]] : p \in proposals} \cup UNION {Chain[c] : c \in certs}

(* At most one block is notarized in a round.                              *)
OnePerRound(S) == \A a \in S, b \in Notarized : Round[a] = Round[b] => a = b

(* Consensus safety: a context of a later round than a certified block     *)
(* builds on that block.                                                   *)
ContextExtends(p, c) == Round[p] > Round[c] => c \in Chain[Parent[p]]

(* Update::Tip.  The marshal reports a certificate that is on top of the   *)
(* last one, or, at startup, the last one again.                           *)
ReportTip(b) ==
    /\ phase = "loop"
    /\ tree.netTip.digest \in Chain[b]
    /\ b # Genesis
    /\ \A c \in certs : c \in Chain[b] \/ b \in Chain[c]
    /\ \A p \in proposals : ContextExtends(p, b)
    /\ OnePerRound(Chain[b])
    /\ certs' = certs \cup {b}
    /\ LoopTop(SetNetworkFinalizedTip(tree, b), actor)
    /\ UNCHANGED <<phase, layer, acked, floor, next, proposals, asked, restarts, faults>>

(* Update::Block.  The marshal sends the blocks the reported tip covers in *)
(* height order, with a bounded number unacknowledged.                     *)
DeliverBlock ==
    /\ phase = "loop"
    /\ next <= Height[tree.netTip.digest]
    /\ next - acked <= MaxPendingAcks
    /\ next' = next + 1
    /\ LoopTop(tree, [actor EXCEPT !.queue =
                        Append(@, AncestorAt(tree.netTip.digest, next))])
    /\ UNCHANGED <<phase, layer, acked, floor, certs, proposals, asked, restarts, faults>>

(* A node restored from a snapshot joins a network that is past every      *)
(* certificate the snapshot misses.  Nothing in the executor enforces it:  *)
(* without it (StaleContexts) the restored node may lead a round that the  *)
(* network has finalized beyond.                                           *)
Current(p) ==
    StaleContexts \/ \A c \in certs : Round[c] > tree.netTip.round => Round[p] > Round[c]

(* PendingHeadReport, for the context of proposal p.  Reports are sent by  *)
(* tasks that run concurrently, so they come in any order of rounds, and a *)
(* context may come again.  The engine of an epoch runs only once the      *)
(* block before the epoch was delivered.                                   *)
RecordPendingHead(p) ==
    /\ phase = "loop"
    /\ p # Genesis
    /\ p \in proposals \/ Cardinality(proposals) < MaxContexts
    /\ \A c \in certs : ContextExtends(p, c)
    /\ Current(p)
    /\ OnePerRound(Chain[Parent[p]])
    /\ ParentRound[p] # Round[Parent[p]] =>
          Parent[p] \in Chain[tree.netTip.digest] /\ Height[Parent[p]] < next
    /\ proposals' = proposals \cup {p}
    /\ LoopTop(SetPendingHead(tree, ParentRound[p], Parent[p]), actor)
    /\ UNCHANGED <<phase, layer, acked, floor, next, certs, asked, restarts, faults>>

(* Build and VerifyBlock, sent after the context's report.                 *)
HandleConsensusRequest(p, kind) ==
    /\ phase = "loop"
    /\ p \in proposals \ asked
    /\ Cardinality(asked) < MaxRequests
    /\ asked' = asked \cup {p}
    /\ LoopTop(IF kind = "verify" THEN RecordBlock(tree, p) ELSE tree,
               QueueConsensusRequest(actor, [kind |-> kind, block |-> p]))
    /\ UNCHANGED <<phase, layer, acked, floor, next, certs, proposals, restarts, faults>>

------------------------------------------------------------------------------
(* Startup and crashes.                                                    *)

(* The readiness probe is answered VALID.  While it is answered SYNCING    *)
(* the executor sleeps and probes again, and nothing changes.              *)
WaitForExecutionLayer ==
    /\ phase = "wait"
    /\ phase' = "backfill"
    /\ UNCHANGED <<tree, actor, layer, acked, environment>>

(* One height of the backfill, or, at the floor, the entry to the loop.    *)
BackfillToFinalizedFloor ==
    LET on == LocalOf(tree)
        b == AncestorAt(tree.netTip.digest, Height[tree.fin] + 1)
    IN  /\ phase = "backfill"
        /\ \/ /\ Height[tree.fin] < floor
              /\ layer' = ForwardFinalized(layer, on, b)
              /\ IF FinalizationAccepted(layer, on, b)
                 THEN /\ tree' = SetLocalState(tree, FinalizationTarget(layer, on, b))
                      /\ UNCHANGED phase
                 ELSE /\ phase' = "dead"
                      /\ UNCHANGED tree
              /\ UNCHANGED actor
           \/ /\ Height[tree.fin] >= floor
              /\ phase' = "loop"
              /\ LoopTop(tree, actor)
              /\ UNCHANGED layer
        /\ UNCHANGED <<acked, environment>>

(* The startup meets an error: the probe fails or is answered INVALID, or  *)
(* a height of the backfill is found neither in the marshal nor in the     *)
(* layer, or its payload or forkchoice call fails.  The executor returns.  *)
StartupFails ==
    /\ \/ phase = "wait" /\ UNCHANGED layer
       \/ /\ phase = "backfill"
          /\ Height[tree.fin] < floor
          /\ layer' \in {layer,
                NewPayload(layer, AncestorAt(tree.netTip.digest, Height[tree.fin] + 1))}
    /\ phase' = "stopped"
    /\ UNCHANGED actor
    /\ CallFails

\* Variant: the tracked state starts at the layer's finality in any case.
StartAtLayerFinality(e, height) == e.fin

(* init: the network's tip must cover the floor; the tracked state starts  *)
(* at the layer's finalized block, or at the floor when the layer's        *)
(* finality is ahead of it.                                                *)
StartAdmitted(tip, height) == Height[tip] >= height

StartAt(e, height) == IF height < Height[e.fin] THEN AncestorAt(e.head, height) ELSE e.fin

(* What the marshal finds in its storage: its certificates, and a          *)
(* processed height that may miss the last acknowledgements.  Of a         *)
(* restored snapshot both may be older, each on its own.                   *)
StoredTips == certs \cup {Genesis}
StoredHeights == (0 .. floor) \cup (0 .. acked)

Recovered(tip, low) ==
    ~ SnapshotRestore => tip = tree.netTip.digest /\ low >= floor

(* The node crashes, or is started again after it stopped.  The layer      *)
(* comes back with a prefix of its canonical chain and of its finality.    *)
Restart ==
    /\ restarts < MaxRestarts
    /\ restarts' = restarts + 1
    /\ \E h \in Chain[layer.head] : \E f \in Chain[layer.fin] \cap Chain[h] :
          layer' = [known |-> Chain[h], head |-> h, fin |-> f]
    /\ \E tip \in StoredTips, low \in StoredHeights :
          /\ Recovered(tip, low)
          /\ StartAdmitted(tip, low)
          /\ floor' = low
          /\ next' \in {low, low + 1}
          /\ tree' = NewTree([round |-> Round[tip], digest |-> tip], StartAt(layer', low))
    /\ acked' = next' - 1
    /\ actor' = NewActor
    /\ phase' = "wait"
    /\ asked' = {}
    /\ UNCHANGED <<certs, proposals, faults>>

(* init refuses storage whose processed height is above its last           *)
(* certificate, and the node does not start.                               *)
RestartRefused ==
    /\ restarts < MaxRestarts
    /\ restarts' = restarts + 1
    /\ \E tip \in StoredTips, low \in StoredHeights :
          Recovered(tip, low) /\ ~ StartAdmitted(tip, low)
    /\ phase' = "stopped"
    /\ UNCHANGED <<tree, actor, layer, floor, next, acked, certs, proposals, asked, faults>>

------------------------------------------------------------------------------
Init ==
    /\ phase = "wait"
    /\ tree = NewTree([round |-> 0, digest |-> Genesis], Genesis)
    /\ actor = NewActor
    /\ layer = [known |-> {Genesis}, head |-> Genesis, fin |-> Genesis]
    /\ floor = 0
    /\ next \in {0, 1}
    /\ acked = next - 1
    /\ certs = {}
    /\ proposals = {}
    /\ asked = {}
    /\ restarts = 0
    /\ faults = 0

RunTask ==
    \/ ExecuteHeartbeat
    \/ ExecuteBuild
    \/ ExecuteValidation
    \/ ExecuteFinalization
    \/ ExecuteNotarization
    \/ ExecuteRepoint

Next ==
    \/ WaitForExecutionLayer
    \/ BackfillToFinalizedFloor
    \/ RunTask
    \/ HeartbeatFails
    \/ BuildFails
    \/ NotarizationFails
    \/ FinalizationFails
    \/ RepointFails
    \/ StartupFails
    \/ HandleExecutionTaskFinished
    \/ PayloadJobDone
    \/ \E found \in BOOLEAN : HandleFetchedNotarizedBlock(found)
    \/ SendForkchoiceUpdateHeartbeat
    \/ RetryDelayElapsed
    \/ \E b \in Block : ReportTip(b)
    \/ DeliverBlock
    \/ \E p \in Block : RecordPendingHead(p)
    \/ \E p \in proposals, kind \in {"verify", "build"} : HandleConsensusRequest(p, kind)
    \/ Restart
    \/ RestartRefused

Spec == Init /\ [][Next]_vars

(* The fairness of a node that keeps running: the runtime polls the        *)
(* futures, the layer answers, timers fire, the marshal delivers what it   *)
(* announced, and a body that is still wanted is served eventually; nobody *)
(* is required to serve another one.  The disjuncts of Progress are        *)
(* enabled one at a time.                                                  *)
Progress ==
    \/ WaitForExecutionLayer
    \/ BackfillToFinalizedFloor
    \/ RunTask
    \/ HandleExecutionTaskFinished

WantedBodyServed ==
    /\ actor.fetch.digest = FirstMissingAncestor(tree).digest
    /\ HandleFetchedNotarizedBlock(TRUE)

Fairness ==
    /\ WF_vars(Progress)
    /\ WF_vars(PayloadJobDone)
    /\ WF_vars(WantedBodyServed)
    /\ WF_vars(SendForkchoiceUpdateHeartbeat)
    /\ WF_vars(RetryDelayElapsed)
    /\ WF_vars(DeliverBlock)

FairSpec == Spec /\ Fairness

------------------------------------------------------------------------------
(* Properties.                                                             *)

(* The state has its type; every withheld block is one whose body is held, *)
(* since mark_rejected, remove and heal keep the two together.             *)
TypeOK ==
    /\ phase \in {"wait", "backfill", "loop", "stopped", "dead"}
    /\ tree \in TreeState
    /\ tree.withheld \subseteq tree.blocks
    /\ actor \in ActorState
    /\ layer \in LayerState
    /\ floor \in Nat
    /\ next \in Nat
    /\ acked \in Nat \cup {-1}
    /\ certs \subseteq Block
    /\ proposals \subseteq Block
    /\ asked \subseteq proposals
    /\ restarts \in 0 .. MaxRestarts
    /\ faults \in 0 .. MaxFaults

(* The debug_assert of NotarizedTree::heal: the locally canonicalized      *)
(* finalized tip never runs ahead of the network's finalized tip, on which *)
(* the walks of next_to_forward and first_missing_ancestor rely.           *)
LocalNotAheadOfNetwork == Height[tree.fin] <= Height[tree.netTip.digest]

(* Whatever the order of tips, blocks, contexts and requests, no           *)
(* finalization, repoint or backfill is refused by the execution layer or  *)
(* by the executor's own checks, each of which shuts the node down.        *)
NeverShutsDown == phase # "dead"

(* The tracked head is the finalized block or descends from it, although   *)
(* finalization_target infers it from the layer's canonical chain.         *)
HeadDescendsFromFinalized == tree.fin \in Chain[tree.head]

(* While no task is in flight the tracked head is canonical on the         *)
(* execution layer, so a block built or verified on it finds its parent.   *)
(* The layer's own head may be a descendant.                               *)
TrackedHeadIsCanonical ==
    phase = "loop" /\ Height[layer.fin] <= Height[tree.fin]
        /\ actor.task.outcome = Running => IsCanonical(layer, tree.head)

(* A finalized block acknowledged to the marshal is on the execution       *)
(* layer's canonical chain, and stays on it: no later notarized head,      *)
(* repoint or build reorganizes it away.                                   *)
AcknowledgedStaysCanonical ==
    phase = "loop" =>
        \A b \in Chain[tree.netTip.digest] : Height[b] <= acked => IsCanonical(layer, b)

(* No task makes the execution layer's finalized block regress or move to  *)
(* another branch; only a crash can lose finality not yet persisted.       *)
LayerFinalityAdvances ==
    [][restarts' = restarts => layer.fin \in Chain[layer'.fin]]_vars

(* While a finalized block above the local finalized tip is queued, only a *)
(* build or verify request starts before it: no notarized block, repoint   *)
(* or heartbeat, however far the reports run ahead.                        *)
OnlyRequestsOvertakeFinalization ==
    [][ /\ actor'.task # actor.task
        /\ actor'.task.outcome = Running
        /\ actor'.task.type \in {"block", "repoint", "heartbeat"}
        => \A i \in DOMAIN actor'.queue : Height[actor'.queue[i]] <= Height[tree'.fin] ]_vars

(* The finalization pipeline works off its backlog again and again,        *)
(* whatever waits for a parent, was rejected or is being fetched, as long  *)
(* as the node runs and is not asked to build or verify without a pause:   *)
(* an endless stream of requests would go first.                           *)
FinalizationCatchesUp == []<>(phase = "stopped" \/ tree.fin = tree.netTip.digest)

(* The stall of RejectedIsRetried: the next block was rejected, its retry  *)
(* delay has passed, and a request that waits keeps the heartbeat, which   *)
(* would notice, disarmed.                                                 *)
Stalled ==
    /\ phase = "loop"
    /\ Idle(actor)
    /\ actor.request # NoRequest
    /\ NextToForward(tree).kind = "block"

(* A request on the pending head leaves its slot: the parent it waits for  *)
(* arrives, or the pending head moves on.  Only a stall on a rejected      *)
(* block keeps it there.                                                   *)
RequestOnPendingHeadResolves ==
    LET waiting ==
            /\ phase = "loop"
            /\ actor.request # NoRequest
            /\ Parent[actor.request.block] = tree.pend.digest
    IN  waiting ~> ~ waiting \/ Stalled

(* Once consensus stops moving the pending head, the tracked head reaches  *)
(* it and it is canonical on the execution layer, unless the node stops or *)
(* the actor stalls.                                                       *)
ConvergesOnPendingHead ==
    <>[][tree'.pend = tree.pend]_tree =>
        <>[](\/ phase = "stopped"
             \/ Stalled
             \/ tree.head = tree.pend.digest /\ IsCanonical(layer, tree.pend.digest))

(* The executor finalizes the network's chain in order, without a gap and  *)
(* never ahead of it, through crashes, snapshot restores and the           *)
(* re-delivery of blocks it has.                                           *)
Log == INSTANCE FinalizedLog
       WITH network <- tree.netTip.digest, final <- tree.fin, run <- restarts

FinalizesInOrder == Log!Spec

------------------------------------------------------------------------------
(* The inductive invariant of the proofs.                                  *)

(* The blocks the certificates cover.                                      *)
Certified == {b \in Block : b = Genesis \/ \E c \in certs : b \in Chain[c]}

(* The finalization pipeline of an actor a over a tree t, when the marshal *)
(* sends height n next.                                                    *)
Pipeline(t, a, n) ==
    LET covered == Chain[t.netTip.digest]
        task == a.task
        out == task.outcome
    IN  /\ \A i \in 1 .. Len(a.queue) :
              /\ a.queue[i] \in covered
              /\ Height[a.queue[i]] = n - Len(a.queue) + i - 1
        /\ task.type # "none" => task.on.fin = t.fin
        /\ out.kind = "state" =>
              /\ out.ls.fin \in covered
              /\ out.ls.fin = t.fin \/ Height[out.ls.fin] = Height[t.fin] + 1
        /\ task.type = "finalize" =>
              /\ task.block \in covered
              /\ Height[task.block] = n - Len(a.queue) - 1
              /\ Height[task.block] <= Height[t.fin] + 1
              /\ out.kind \in {"running", "state", "fatal"}
              /\ out.kind = "state" => Height[task.block] <= Height[out.ls.fin]
        /\ task.type # "finalize" => n - Len(a.queue) <= Height[t.fin] + 1

(* Whatever is queued, in flight or recorded as finalized lies on the      *)
(* network's finalized chain, at the height its place in the pipeline      *)
(* says, and what the layer holds for final is covered by a certificate.   *)
PipelineInv ==
    /\ TypeOK
    /\ tree.fin \in Chain[tree.netTip.digest]
    /\ tree.netTip.digest \in certs \cup {Genesis}
    /\ \A b, c \in certs : b \in Chain[c] \/ c \in Chain[b]
    /\ layer.fin \in Certified
    /\ phase \in {"wait", "backfill"} =>
          /\ actor = NewActor
          /\ floor <= Height[tree.netTip.digest]
          /\ next <= floor + 1
    /\ phase = "loop" => Pipeline(tree, actor, next)

(* The layer executes a block only on top of an executed parent, and its   *)
(* finalized block is on its canonical chain.                              *)
LayerSound(e) ==
    /\ e.head \in e.known
    /\ \A b \in e.known : Chain[b] \subseteq e.known
    /\ e.fin \in Chain[e.head]

Comparable(a, b) == a \in Chain[b] \/ b \in Chain[a]

(* The layer e follows the forkchoice state ls: its head is executed and   *)
(* canonical or, while the layer's finality is ahead of ls after a         *)
(* restore and no update is submitted, on no fork off that finality.       *)
Follows(e, ls) ==
    /\ ls.fin \in Chain[ls.head]
    /\ ls.head \in e.known
    /\ IF Height[e.fin] <= Height[ls.fin]
       THEN IsCanonical(e, ls.head)
       ELSE Comparable(ls.head, e.fin)

(* The state the actor is to track next: the outcome's, if it brings one.  *)
Latest(t, a) == IF a.task.outcome.kind = "state" THEN a.task.outcome.ls ELSE LocalOf(t)

(* What the task in flight relies on, when the marshal sends height n next *)
(* and acknowledged height k last.                                         *)
TaskSound(t, a, e, n, k) ==
    LET task == a.task
    IN  /\ task.outcome.kind # "fatal"
        /\ k <= Height[Latest(t, a).fin]
        /\ task.type # "none" => task.on = LocalOf(t)
        /\ task.type = "none" => task.outcome.kind = "running"
        /\ task.type # "finalize" => Height[t.fin] <= n - Len(a.queue)
        /\ task.type = "finalize" => Height[t.fin] <= Height[task.block]
        /\ task.outcome.kind = "state" =>
              task.outcome.ls.fin = IF task.type = "finalize" THEN task.block ELSE t.fin
        /\ task.type = "repoint" => task.block = t.fin
        /\ task.type = "block" =>
              /\ t.fin \in Chain[task.block] \ {task.block}
              /\ Parent[task.block] \in e.known
              /\ Height[e.fin] > Height[t.fin] => Comparable(task.block, e.fin)

(* The tracked forkchoice state, the one the task in flight is about to    *)
(* report, and the layer agree: the tracked head descends from the tracked *)
(* finalized block and the layer follows it, whatever was rejected,        *)
(* reorganized, re-delivered or restored before; no task ends fatally; and *)
(* a pending head reported while the layer's finality is ahead of the      *)
(* network's tip builds on that finality.                                  *)
ForkchoiceInv ==
    /\ LayerSound(layer)
    /\ tree.netTip.round = Round[tree.netTip.digest]
    /\ Height[layer.fin] > Height[tree.netTip.digest] =>
          Comparable(tree.pend.digest, layer.fin)
    /\ phase # "dead"
    /\ HeadDescendsFromFinalized
    /\ Follows(layer, Latest(tree, actor))
    /\ phase = "loop" => TaskSound(tree, actor, layer, next, acked)
    /\ phase \in {"wait", "backfill"} =>
          /\ Height[tree.fin] <= floor
          /\ floor <= next
          /\ acked <= floor

------------------------------------------------------------------------------
(* Statements of the comments that the code does not keep.                 *)

(* notarized_tree/mod.rs: "Reports arrive in consensus order, so the last  *)
(* report wins"; the pending head is the parent of a context of the newest *)
(* round, or the finalized tip.                                            *)
PendingHeadIsOfNewestContext ==
    proposals # {} =>
        \E p \in proposals :
            /\ \A q \in proposals : Round[q] <= Round[p]
            /\ tree.pend.digest \in {Parent[p], tree.netTip.digest}

(* notarized_tree/mod.rs on local_head: "The execution layer's current     *)
(* head: the head side of the last accepted forkchoice state."             *)
LocalHeadIsExecutionHead ==
    phase = "loop" /\ Idle(actor) => tree.head = layer.head


(* actor.rs: "A notarized block rejected by the execution layer is retried *)
(* while it remains above the network finalized tip": the actor does not   *)
(* stay idle once the retry delay has passed and the block is next.        *)
RejectedIsRetried ==
    []<>(phase = "loop" /\ Idle(actor) => NextToForward(tree) = NoStep)
==============================================================================
