---------------------------- MODULE PipelineSteps ----------------------------
(***************************************************************************)
(* The steps of the executor keep the pipeline of finalized blocks.        *)
(*                                                                         *)
(* Whatever is queued, in flight or recorded as finalized lies on the      *)
(* network's finalized chain, at the height its place in the pipeline says;*)
(* and whatever the execution layer holds for final is a block some        *)
(* certificate covers, so that a restart finds it on the certified chain.  *)
(*                                                                         *)
(* A step of the actor is a task that ends, or a branch of the select loop *)
(* followed by the top of the loop.  The tasks, the branches, the messages,*)
(* startup and crashes keep the invariant, one lemma each.                 *)
(***************************************************************************)
EXTENDS ExecutorLemmas

(* The task in the slot of a is the one that was there, or none, or its    *)
(* start passed over no finalized block: it serves a request or a queued   *)
(* block, the queue is empty, or finalization has caught up.               *)
OvertakesNothing(old, t, a) ==
    \/ a.task \in {old, NoTask}
    \/ a.task.type \in {"verify", "build", "finalize"}
    \/ a.queue = <<>>
    \/ ~ (Height[t.fin] < Height[t.netTip.digest])

(* A convergence step starts only once finalization has caught up, and     *)
(* the slot stays idle only when nothing is queued.                        *)
LEMMA StartOvertakesNothing ==
    ASSUME NEW t \in TreeState, NEW a \in ActorState, NEW old,
           OvertakesNothing(old, t, a),
           NEW s, s = StartNextExecutionTask(t, a)
    PROVE  /\ OvertakesNothing(old, t, s)
           /\ Idle(s) => s.queue = <<>>
<1> DEFINE step == NextToForward(t)
           kept == IF RequestKept(t, a) THEN a.request ELSE NoRequest
<1>1. step # NoStep => step.kind # "none" /\ ~ (Height[t.fin] < Height[t.netTip.digest])
  BY Zenon DEF NextToForward, NoStep
<1> HIDE DEF step, kept
<1>2. CASE ~ Idle(a)
  BY Zenon, <1>2 DEF StartNextExecutionTask
<1>3. CASE Idle(a) /\ RequestStarts(t, a)
  <2>1. a.request.kind \in {"verify", "build"}
    BY Zenon, <1>3 DEF RequestStarts
  <2>2. s = [a EXCEPT !.task = NewTask(a.request.kind, t, a.request.block),
                      !.request = NoRequest]
    BY Zenon, <1>3 DEF StartNextExecutionTask
  <2>3. s.task.type = a.request.kind
    BY <2>2 DEF ActorState, NewTask
  <2> QED
    BY Zenon, <2>1, <2>3 DEF OvertakesNothing, Idle
<1>4. CASE Idle(a) /\ ~ RequestStarts(t, a) /\ step # NoStep
  <2>1. s = [a EXCEPT !.task = NewTask(step.kind, t, step.block), !.request = kept]
    BY Zenon, <1>4 DEF StartNextExecutionTask, step, kept
  <2>2. s.task.type = step.kind
    BY <2>1 DEF ActorState, NewTask
  <2> QED
    BY Zenon, <1>1, <1>4, <2>2 DEF OvertakesNothing, Idle
<1>5. CASE Idle(a) /\ ~ RequestStarts(t, a) /\ step = NoStep /\ a.queue # <<>>
  <2>1. s = [[a EXCEPT !.task = NewTask("finalize", t, Head(a.queue)), !.queue = Tail(@)]
               EXCEPT !.request = kept]
    BY Zenon, <1>5 DEF StartNextExecutionTask, StartFinalization, step, kept
  <2>2. s.task.type = "finalize"
    BY <2>1 DEF ActorState, NewTask
  <2> QED
    BY Zenon, <2>2 DEF OvertakesNothing, Idle
<1>6. CASE Idle(a) /\ ~ RequestStarts(t, a) /\ step = NoStep /\ a.queue = <<>>
  <2>1. s = [a EXCEPT !.request = kept]
    BY Zenon, <1>6 DEF StartNextExecutionTask, step, kept
  <2>2. s.queue = <<>>
    BY Zenon, <1>6, <2>1 DEF ActorState
  <2> QED
    BY Zenon, <2>2 DEF OvertakesNothing
<1> QED
  BY Zenon, <1>2, <1>3, <1>4, <1>5, <1>6

(* The top of the loop keeps the finalized tips and the pipeline, the      *)
(* queued request stays or goes, and no finalized block is passed over.    *)
LEMMA LoopTopEffect ==
    ASSUME NEW t \in TreeState, t.withheld \subseteq t.blocks,
           NEW a \in ActorState, NEW n \in Nat, NEW old,
           Pipeline(t, a, n), OvertakesNothing(old, t, a),
           LoopTop(t, a)
    PROVE  /\ SameTips(t, tree')
           /\ actor' \in ActorState
           /\ actor'.request \in {a.request, NoRequest}
           /\ Pipeline(tree', actor', n)
           /\ OvertakesNothing(old, tree', actor')
<1> DEFINE h == Heal(t)
           s == StartNextExecutionTask(h, a)
           f == UpdateNotarizedBlockFetch(h, s)
<1>1. tree' = h /\ actor' = UpdateFcuHeartbeatTimer(f)
  BY Zenon DEF LoopTop
<1>2. SameTips(t, h)
  BY Zenon, TreeUpdates, TreeAssumption
<1>3. h \in TreeState /\ Pipeline(h, a, n) /\ OvertakesNothing(old, h, a)
  BY Zenon, <1>2, PipelineDepends DEF SameTips, OvertakesNothing
<1> HIDE DEF h
<1>s. OvertakesNothing(old, h, s)
  BY Zenon, <1>3, StartOvertakesNothing
<1>4. s \in ActorState /\ s.request \in {a.request, NoRequest} /\ Pipeline(h, s, n)
  <2>1. /\ s \in ActorState
        /\ s.request \in {a.request, NoRequest}
        /\ \/ s.queue = a.queue /\ s.task = a.task
           \/ /\ Idle(a)
              /\ s.queue = a.queue
              /\ s.task.type \notin {"none", "finalize"}
              /\ s.task.on = LocalOf(h)
              /\ s.task.outcome = Running
           \/ /\ Idle(a)
              /\ a.queue # <<>>
              /\ s.queue = Tail(a.queue)
              /\ s.task = NewTask("finalize", h, Head(a.queue))
    BY Zenon, <1>3, StartNextExecutionTaskEffect
  <2> HIDE DEF s
  <2> QED
    BY Zenon, <1>3, <2>1, PipelineDepends, PipelineNewTask, PipelineFinalization
<1> HIDE DEF s
<1>5. /\ f \in ActorState
      /\ f.request = s.request /\ f.queue = s.queue /\ f.task = s.task
  BY Zenon, <1>3, <1>4, FirstMissingAncestorType DEF UpdateNotarizedBlockFetch, ActorState
<1> HIDE DEF f
<1>6. LET g == UpdateFcuHeartbeatTimer(f)
      IN  /\ g \in ActorState
          /\ g.request = f.request /\ g.queue = f.queue /\ g.task = f.task
  BY Zenon, <1>5 DEF UpdateFcuHeartbeatTimer, ActorState, Idle
<1>7. actor'.queue = s.queue /\ actor'.task = s.task
  BY Zenon, <1>1, <1>5, <1>6
<1>8. OvertakesNothing(old, tree', actor')
  BY Zenon, <1>1, <1>s, <1>7 DEF OvertakesNothing
<1> QED
  BY Zenon, <1>1, <1>2, <1>4, <1>5, <1>6, <1>8, PipelineDepends

------------------------------------------------------------------------------

(* What a task may do to the layer's finalized block: nothing, or move it  *)
(* to f, which is not below it.                                            *)
FinalityMovesTo(e, e2, f) ==
    /\ e2 \in LayerState
    /\ \/ e2.fin = e.fin
       \/ e2.fin = f /\ Height[e.fin] <= Height[f]

(* A forkchoice update below the layer's finality is not submitted, so the *)
(* layer's finalized block never goes down.                                *)
LEMMA SubmitFinality ==
    ASSUME NEW e \in LayerState, NEW ls \in LocalState
    PROVE  FinalityMovesTo(e, SubmitForkchoiceUpdate(e, ls), ls.fin)
<1>1. CASE FcuConflicts(e, ls) \/ FcuSkipped(e, ls)
  <2>1. SubmitForkchoiceUpdate(e, ls) = e
    BY Zenon, <1>1 DEF SubmitForkchoiceUpdate
  <2> QED
    BY Zenon, <2>1 DEF FinalityMovesTo
<1>2. CASE ~ FcuConflicts(e, ls) /\ ~ FcuSkipped(e, ls)
  <2>1. SubmitForkchoiceUpdate(e, ls) = ForkChoiceUpdated(e, ls.head, ls.fin)
    BY Zenon, <1>2 DEF SubmitForkchoiceUpdate
  <2>2. Height[e.fin] <= Height[ls.fin]
    BY <1>2, TreeAssumption DEF FcuSkipped, LayerState, LocalState
  <2>3. ForkChoiceUpdated(e, ls.head, ls.fin) \in LayerState
    BY Zenon DEF ForkChoiceUpdated, LayerState, LocalState
  <2>4. ForkChoiceUpdated(e, ls.head, ls.fin).fin \in {e.fin, ls.fin}
    BY Zenon DEF ForkChoiceUpdated, LayerState, LocalState
  <2> QED
    BY Zenon, <2>1, <2>2, <2>3, <2>4 DEF FinalityMovesTo
<1> QED
  BY Zenon, <1>1, <1>2

(* A new payload leaves the finalized block alone.                         *)
LEMMA NewPayloadFinality ==
    ASSUME NEW e \in LayerState, NEW b \in Block
    PROVE  NewPayload(e, b) \in LayerState /\ NewPayload(e, b).fin = e.fin
BY Zenon DEF NewPayload, LayerState

(* Forwarding a finalized block moves finality to it or not at all.        *)
LEMMA ForwardFinalizedFinality ==
    ASSUME NEW e \in LayerState, NEW ls \in LocalState, NEW b \in Block
    PROVE  FinalityMovesTo(e, ForwardFinalized(e, ls, b), b)
<1> DEFINE target == FinalizationTarget(e, ls, b)
           p == NewPayload(e, b)
<1>1. p \in LayerState /\ p.fin = e.fin
  BY Zenon, NewPayloadFinality
<1>2. target \in LocalState /\ (DeliveryInOrder(ls, b) => target.fin = b)
  BY Zenon, LocalStateUpdates
<1>3. FinalityMovesTo(p, SubmitForkchoiceUpdate(p, target), target.fin)
  BY Zenon, <1>1, <1>2, SubmitFinality
<1> HIDE DEF target, p
<1>4. ForwardFinalized(e, ls, b) =
        IF DeliveryInOrder(ls, b) /\ PayloadValid(e, b)
        THEN SubmitForkchoiceUpdate(p, target) ELSE e
  BY Zenon DEF ForwardFinalized, target, p
<1> QED
  BY Zenon, <1>1, <1>2, <1>3, <1>4 DEF FinalityMovesTo

(* Forwarding a notarized block finalizes nothing but what is tracked.     *)
LEMMA ForwardNotarizedFinality ==
    ASSUME NEW e \in LayerState, NEW ls \in LocalState, NEW b \in Block
    PROVE  FinalityMovesTo(e, ForwardNotarized(e, ls, b), ls.fin)
<1>1. UpdateHead(ls, b) \in LocalState /\ UpdateHead(ls, b).fin = ls.fin
  BY Zenon, LocalStateUpdates
<1>2. FinalityMovesTo(e, SubmitForkchoiceUpdate(e, UpdateHead(ls, b)), ls.fin)
  BY Zenon, <1>1, SubmitFinality
<1>3. FinalityMovesTo(e, e, ls.fin)
  BY Zenon DEF FinalityMovesTo
<1> QED
  BY Zenon, <1>2, <1>3 DEF ForwardNotarized

(* A node that starts from genesis satisfies the invariant.                *)
LEMMA InitialState == Init => PipelineInv
<1> SUFFICES ASSUME Init PROVE PipelineInv
  BY Zenon
<1> USE TreeAssumption DEF Init
<1>1. /\ tree \in TreeState /\ tree.withheld \subseteq tree.blocks
      /\ tree.netTip.digest = Genesis /\ tree.fin = Genesis
  BY Zenon DEF NewTree, TreeState, Tip
<1>2. actor \in ActorState
  BY Zenon, NewActorType
<1>3. layer \in LayerState /\ layer.fin = Genesis
  BY Zenon DEF LayerState
<1>4. TypeOK
  BY <1>1, <1>2, <1>3, BoundAssumption DEF TypeOK
<1>5. Genesis \in Chain[Genesis] /\ Genesis \in Certified
  BY Zenon, ChainAssumption DEF Certified
<1>6. /\ actor = NewActor /\ phase = "wait" /\ certs = {}
      /\ floor <= Height[Genesis] /\ next <= floor + 1
  OBVIOUS
<1> QED
  BY <1>1, <1>3, <1>4, <1>5, <1>6, SMTT(30) DEF PipelineInv

------------------------------------------------------------------------------

(* What is shown of every step: it keeps the invariant, it is a step of    *)
(* the abstract log or leaves the log alone, it does not take the layer's  *)
(* finality back unless the node crashes, and what it starts passes over   *)
(* no finalized block.                                                     *)
StartsInOrder ==
    /\ actor'.task # actor.task
    /\ actor'.task.outcome = Running
    /\ actor'.task.type \in {"block", "repoint", "heartbeat"}
    => \A i \in DOMAIN actor'.queue : Height[actor'.queue[i]] <= Height[tree'.fin]

StepKeepsPromises ==
    /\ PipelineInv'
    /\ Log!Next \/ UNCHANGED <<tree.netTip.digest, tree.fin, restarts>>
    /\ restarts' = restarts => layer.fin \in Chain[layer'.fin]
    /\ StartsInOrder

(* Finality that moves to a certified block which is not lower moves to a  *)
(* descendant.                                                             *)
LEMMA FinalityAdvances ==
    ASSUME PipelineInv, NEW f \in Certified, FinalityMovesTo(layer, layer', f)
    PROVE  /\ layer' \in LayerState
           /\ layer'.fin \in Certified
           /\ layer.fin \in Chain[layer'.fin]
<1>1. /\ layer.fin \in Certified /\ layer.fin \in Block
      /\ certs \subseteq Block
      /\ \A b, c \in certs : b \in Chain[c] \/ c \in Chain[b]
  BY Zenon DEF PipelineInv, TypeOK, Certified
<1>2. CASE layer'.fin = layer.fin
  BY Zenon, <1>1, <1>2, ChainAssumption DEF FinalityMovesTo
<1>3. CASE layer'.fin = f /\ Height[layer.fin] <= Height[f]
  BY Zenon, <1>1, <1>3, CertifiedIsAChain DEF FinalityMovesTo
<1> QED
  BY Zenon, <1>2, <1>3 DEF FinalityMovesTo

(* A step that leaves the layer and both finalized blocks alone.           *)
LEMMA QuietStep ==
    ASSUME PipelineInv, PipelineInv', UNCHANGED <<actor, layer, restarts>>,
           tree'.netTip = tree.netTip, tree'.fin = tree.fin
    PROVE  StepKeepsPromises
<1>1. layer.fin \in Block
  BY Zenon DEF PipelineInv, TypeOK, LayerState
<1> QED
  BY Zenon, <1>1, ChainAssumption DEF StepKeepsPromises, StartsInOrder

(* A task that ends starts nothing.                                        *)
LEMMA FinishStartsNothing ==
    ASSUME PipelineInv, NEW type, InFlight(type), NEW out, Finish(out)
    PROVE  StartsInOrder
<1>1. actor \in ActorState /\ actor.task \in Task /\ actor.task.outcome = Running
  BY Zenon DEF PipelineInv, TypeOK, ActorState, InFlight
<1>2. actor'.task = [actor.task EXCEPT !.outcome = out]
  BY Zenon, <1>1 DEF Finish, ActorState
<1>3. ASSUME actor'.task.outcome = Running
      PROVE  actor'.task = actor.task
  <2>1. out = Running
    BY Zenon, <1>1, <1>2, <1>3 DEF Task
  <2> QED
    BY SMTT(30), <1>1, <1>2, <2>1 DEF Task
<1> QED
  BY Zenon, <1>3 DEF StartsInOrder

(* A step of the task in flight.                                           *)
LEMMA TaskStep ==
    ASSUME PipelineInv, phase = "loop", StartsInOrder,
           UNCHANGED <<phase, tree, floor, next, certs, proposals, asked, restarts>>,
           faults' \in 0 .. MaxFaults,
           acked' \in Nat \cup {-1},
           NEW f \in Certified, FinalityMovesTo(layer, layer', f),
           actor' \in ActorState, Pipeline(tree, actor', next)
    PROVE  StepKeepsPromises
<1>0. layer' \in LayerState /\ layer'.fin \in Certified /\ layer.fin \in Chain[layer'.fin]
  BY Zenon, FinalityAdvances
<1>1. TypeOK'
  BY Zenon, <1>0 DEF PipelineInv, TypeOK
<1>2. Certified' = Certified
  BY Zenon DEF Certified
<1>3. Pipeline(tree, actor, next)' 
  BY Zenon, PipelineDepends
<1>4. PipelineInv'
  BY Zenon, <1>0, <1>1, <1>2, <1>3 DEF PipelineInv
<1> QED
  BY Zenon, <1>0, <1>4 DEF StepKeepsPromises

(* An iteration of the select loop that fires a branch and leaves t and a  *)
(* for the top of the loop.                                                *)
LEMMA LoopStep ==
    ASSUME PipelineInv, phase' = "loop",
           NEW t \in TreeState, t.withheld \subseteq t.blocks,
           NEW a \in ActorState,
           LoopTop(t, a), OvertakesNothing(actor.task, t, a),
           next' \in Nat, Pipeline(t, a, next'),
           t.fin \in Chain[t.netTip.digest],
           t.netTip.digest \in certs' \cup {Genesis},
           certs \subseteq certs', certs' \subseteq Block,
           \A b, c \in certs' : b \in Chain[c] \/ c \in Chain[b],
           proposals' \subseteq Block, asked' \subseteq proposals',
           UNCHANGED <<layer, acked, floor, restarts, faults>>,
           \/ t.netTip.digest = tree.netTip.digest /\ t.fin = tree.fin
           \/ /\ t.netTip.digest = tree.netTip.digest
              /\ Height[t.fin] = Height[tree.fin] + 1
           \/ tree.netTip.digest \in Chain[t.netTip.digest] /\ t.fin = tree.fin
    PROVE  StepKeepsPromises
<1>1. /\ SameTips(t, tree')
      /\ actor' \in ActorState
      /\ Pipeline(tree', actor', next')
      /\ OvertakesNothing(actor.task, tree', actor')
  BY Zenon, LoopTopEffect
<1>2. TypeOK'
  BY Zenon, <1>1 DEF PipelineInv, TypeOK, SameTips
<1>3. Certified \subseteq Certified'
  BY Zenon DEF Certified
<1>4. (layer.fin \in Certified)'
  BY Zenon, <1>3 DEF PipelineInv
<1>5. PipelineInv'
  BY Zenon, <1>1, <1>2, <1>4 DEF PipelineInv, SameTips
<1>6. /\ tree'.netTip = t.netTip /\ tree'.fin = t.fin
      /\ t.netTip.digest \in Block
  BY Zenon, <1>1 DEF SameTips, TreeState, Tip
<1>7. Log!Next \/ UNCHANGED <<tree.netTip.digest, tree.fin, restarts>>
  BY Zenon, <1>6 DEF Log!Next, Log!Finalize, Log!Observe
<1>8. layer.fin \in Chain[layer'.fin]
  BY Zenon, ChainAssumption DEF PipelineInv, TypeOK, LayerState
<1>9. StartsInOrder
  <2>1. SUFFICES ASSUME actor'.task # actor.task,
                        actor'.task.type \in {"block", "repoint", "heartbeat"},
                        NEW i \in DOMAIN actor'.queue
                 PROVE  Height[actor'.queue[i]] <= Height[tree'.fin]
    BY Zenon DEF StartsInOrder
  <2>2. actor'.queue \in Seq(Block)
    BY Zenon, <1>1 DEF ActorState
  <2>3. i \in 1 .. Len(actor'.queue) /\ actor'.queue[i] \in Block /\ actor'.queue # <<>>
    BY <2>1, <2>2
  <2>4. ~ (Height[tree'.fin] < Height[tree'.netTip.digest])
    BY Zenon, <1>1, <2>1, <2>3, NoTaskType DEF OvertakesNothing
  <2>5. actor'.queue[i] \in Chain[tree'.netTip.digest]
    BY Zenon, <1>1, <2>3 DEF Pipeline
  <2>6. tree'.netTip.digest \in Block /\ tree'.fin \in Block
    BY Zenon, <1>1 DEF SameTips, TreeState, Tip
  <2>7. Height[actor'.queue[i]] <= Height[tree'.netTip.digest]
    BY Zenon, <2>3, <2>5, <2>6, ChainHeight
  <2>8. /\ Height[actor'.queue[i]] \in Nat /\ Height[tree'.netTip.digest] \in Nat
        /\ Height[tree'.fin] \in Nat
    BY Zenon, <2>3, <2>6, ChainOfBlocks
  <2> QED
    BY SMTT(30), <2>4, <2>7, <2>8
<1> QED
  BY Zenon, <1>5, <1>7, <1>8, <1>9 DEF StepKeepsPromises

(* The outcome of a task is recorded in its slot.                          *)
LEMMA FinishEffect ==
    ASSUME PipelineInv, phase = "loop",
           NEW out \in Outcome, Finish(out),
           actor.task.type \in TaskType,
           out.kind = "state" =>
              /\ out.ls.fin \in Chain[tree.netTip.digest]
              /\ out.ls.fin = tree.fin \/ Height[out.ls.fin] = Height[tree.fin] + 1,
           actor.task.type = "finalize" =>
              /\ out.kind \in {"state", "fatal"}
              /\ out.kind = "state" => Height[actor.task.block] <= Height[out.ls.fin]
    PROVE  actor' \in ActorState /\ Pipeline(tree, actor', next)
<1>1. actor \in ActorState /\ Pipeline(tree, actor, next)
  BY Zenon DEF PipelineInv, TypeOK
<1>2. /\ actor' \in ActorState
      /\ actor'.queue = actor.queue
      /\ actor'.task.type = actor.task.type
      /\ actor'.task.block = actor.task.block
      /\ actor'.task.on = actor.task.on
      /\ actor'.task.outcome = out
  BY Zenon, <1>1 DEF Finish, ActorState, Task
<1> QED
  BY Zenon, <1>1, <1>2 DEF Pipeline

(* What every task knows while it is in flight: the state it was given is  *)
(* the tracked one, which a certificate covers.                            *)
LEMMA InFlightFacts ==
    ASSUME PipelineInv, NEW type \in TaskType \ {"none"}, InFlight(type)
    PROVE  /\ phase = "loop"
           /\ layer \in LayerState
           /\ actor.task \in Task
           /\ actor.task.type = type
           /\ actor.task.on \in LocalState
           /\ actor.task.block \in Block
           /\ actor.task.on.fin = tree.fin
           /\ actor.task.on.fin \in Chain[tree.netTip.digest]
           /\ actor.task.on.fin \in Certified
<1>1. phase = "loop" /\ actor.task.type = type /\ Pipeline(tree, actor, next)
  BY Zenon DEF InFlight, PipelineInv
<1>2. layer \in LayerState /\ actor.task \in Task
  BY Zenon DEF PipelineInv, TypeOK, ActorState
<1>3. actor.task.on.fin = tree.fin
  BY Zenon, <1>1 DEF Pipeline
<1>4. tree.fin \in Chain[tree.netTip.digest]
  BY Zenon DEF PipelineInv
<1> QED
  BY Zenon, <1>1, <1>2, <1>3, <1>4, CoveredIsCertified DEF Task

------------------------------------------------------------------------------

(* A task that ends without a finalization: its outcome keeps the          *)
(* finalized side.                                                         *)
LEMMA OtherTaskStep ==
    ASSUME PipelineInv,
           NEW type \in TaskType \ {"none", "finalize"}, InFlight(type),
           NEW out \in Outcome, Finish(out),
           out.kind = "state" => out.ls.fin = actor.task.on.fin,
           FinalityMovesTo(layer, layer', actor.task.on.fin),
           faults' \in 0 .. MaxFaults,
           UNCHANGED <<phase, tree, acked, floor, next, certs, proposals, asked, restarts>>
    PROVE  StepKeepsPromises
<1>1. /\ phase = "loop"
      /\ actor.task.type = type
      /\ actor.task.on.fin = tree.fin
      /\ actor.task.on.fin \in Chain[tree.netTip.digest]
      /\ actor.task.on.fin \in Certified
  BY Zenon, InFlightFacts
<1>2. actor' \in ActorState /\ Pipeline(tree, actor', next)
  BY Zenon, <1>1, FinishEffect
<1>3. acked' \in Nat \cup {-1}
  BY Zenon DEF PipelineInv, TypeOK
<1>4. StartsInOrder
  BY Zenon, FinishStartsNothing
<1> QED
  BY Zenon, <1>1, <1>2, <1>3, <1>4, TaskStep

(* The heartbeat submits the tracked state again.                          *)
LEMMA HeartbeatStep ==
    ASSUME PipelineInv, ExecuteHeartbeat
    PROVE  StepKeepsPromises
<1>1. InFlight("heartbeat") /\ "heartbeat" \in TaskType \ {"none", "finalize"}
  BY Zenon DEF ExecuteHeartbeat, TaskType
<1>2. FinalityMovesTo(layer, layer', actor.task.on.fin)
  BY Zenon, <1>1, InFlightFacts, SubmitFinality DEF ExecuteHeartbeat
<1>3. Finish(Completed) /\ faults' \in 0 .. MaxFaults
  BY Zenon DEF ExecuteHeartbeat, environment, PipelineInv, TypeOK
<1> QED
  BY Zenon, <1>1, <1>2, <1>3, OutcomeTypes, OtherTaskStep
  DEF ExecuteHeartbeat, environment

(* A build moves the head to its parent before it starts the job.          *)
LEMMA BuildStep ==
    ASSUME PipelineInv, ExecuteBuild
    PROVE  StepKeepsPromises
<1>1. InFlight("build") /\ "build" \in TaskType \ {"none", "finalize"}
  BY Zenon DEF ExecuteBuild, TaskType
<1>2. layer \in LayerState /\ actor.task.on \in LocalState
  BY Zenon, <1>1, InFlightFacts
<1>3. FinalityMovesTo(layer, layer', actor.task.on.fin)
  BY Zenon, <1>2, SubmitFinality DEF ExecuteBuild
<1>4. PICK canceled \in BOOLEAN :
          Finish(IF FcuAccepted(layer, actor.task.on)
                 THEN CompletedWith(actor.task.on,
                                    ~ canceled /\ ~ FcuSkipped(layer, actor.task.on))
                 ELSE Completed)
  BY Zenon DEF ExecuteBuild
<1>5. \E out \in Outcome : /\ Finish(out)
                           /\ out.kind = "state" => out.ls.fin = actor.task.on.fin
  <2> DEFINE job == ~ canceled /\ ~ FcuSkipped(layer, actor.task.on)
  <2>1. job \in BOOLEAN
    BY Zenon
  <2>2. CASE FcuAccepted(layer, actor.task.on)
    <3>1. Finish(CompletedWith(actor.task.on, job))
      BY Zenon, <1>4, <2>2
    <3> HIDE DEF job
    <3> QED
      BY Zenon, <1>2, <2>1, <3>1, OutcomeTypes
  <2>3. CASE ~ FcuAccepted(layer, actor.task.on)
    BY Zenon, <1>4, <2>3, OutcomeTypes
  <2> QED
    BY Zenon, <2>2, <2>3
<1>6. faults' \in 0 .. MaxFaults
  BY Zenon DEF ExecuteBuild, environment, PipelineInv, TypeOK
<1> QED
  BY Zenon, <1>1, <1>3, <1>5, <1>6, OtherTaskStep DEF ExecuteBuild, environment

(* A validation submits the block and moves nothing.                       *)
LEMMA ValidationStep ==
    ASSUME PipelineInv, ExecuteValidation
    PROVE  StepKeepsPromises
<1>1. InFlight("verify") /\ "verify" \in TaskType \ {"none", "finalize"}
  BY Zenon DEF ExecuteValidation, TaskType
<1>2. FinalityMovesTo(layer, layer', actor.task.on.fin)
  <2>1. layer \in LayerState /\ actor.task.block \in Block
    BY Zenon, <1>1, InFlightFacts
  <2>2. /\ NewPayload(layer, actor.task.block) \in LayerState
        /\ NewPayload(layer, actor.task.block).fin = layer.fin
    BY Zenon, <2>1, NewPayloadFinality
  <2>3. layer' \in {layer, NewPayload(layer, actor.task.block)}
    BY Zenon DEF ExecuteValidation
  <2> QED
    BY Zenon, <2>1, <2>2, <2>3 DEF FinalityMovesTo
<1>3. Finish(Completed) /\ faults' \in 0 .. MaxFaults
  BY Zenon DEF ExecuteValidation, environment, PipelineInv, TypeOK
<1> QED
  BY Zenon, <1>1, <1>2, <1>3, OutcomeTypes, OtherTaskStep DEF ExecuteValidation, environment

(* A notarized block becomes the head; finality stays the tracked one.     *)
LEMMA NotarizationStep ==
    ASSUME PipelineInv, ExecuteNotarization
    PROVE  StepKeepsPromises
<1> DEFINE on == actor.task.on
           b == actor.task.block
           p == NewPayload(layer, b)
           ok == PayloadValid(layer, b) /\ NotarizationAccepted(p, on, b)
<1>1. InFlight("block") /\ "block" \in TaskType \ {"none", "finalize"}
  BY Zenon DEF ExecuteNotarization, TaskType
<1>2. layer \in LayerState /\ on \in LocalState /\ b \in Block
  BY Zenon, <1>1, InFlightFacts
<1>3. p \in LayerState /\ p.fin = layer.fin
  BY Zenon, <1>2, NewPayloadFinality
<1>4. FinalityMovesTo(p, ForwardNotarized(p, on, b), on.fin)
  BY Zenon, <1>2, <1>3, ForwardNotarizedFinality
<1>5. layer' \in {layer, ForwardNotarized(p, on, b)}
  BY Zenon DEF ExecuteNotarization
<1>6. FinalityMovesTo(layer, layer', on.fin)
  BY Zenon, <1>2, <1>3, <1>4, <1>5 DEF FinalityMovesTo
<1>7. UpdateHead(on, b) \in LocalState /\ UpdateHead(on, b).fin = on.fin
  BY Zenon, <1>2, LocalStateUpdates
<1>8. Finish(IF ok THEN CompletedWith(UpdateHead(on, b), FALSE) ELSE Rejected)
  BY Zenon DEF ExecuteNotarization
<1>9. \E out \in Outcome : Finish(out) /\ (out.kind = "state" => out.ls.fin = on.fin)
  <2>1. CASE ok
    <3> DEFINE out == CompletedWith(UpdateHead(on, b), FALSE)
    <3>1. out \in Outcome /\ out.ls.fin = on.fin
      BY Zenon, <1>7, OutcomeTypes
    <3>2. Finish(out)
      BY Zenon, <1>8, <2>1
    <3> HIDE DEF out
    <3> QED
      BY Zenon, <3>1, <3>2
  <2>2. CASE ~ ok
    BY Zenon, <1>8, <2>2, OutcomeTypes
  <2> QED
    BY Zenon, <2>1, <2>2
<1>10. faults' \in 0 .. MaxFaults
  BY Zenon DEF ExecuteNotarization, environment, PipelineInv, TypeOK
<1> QED
  BY Zenon, <1>1, <1>6, <1>9, <1>10, OtherTaskStep DEF ExecuteNotarization, environment

(* A repoint moves the head to a block that is forwarded already.          *)
LEMMA RepointStep ==
    ASSUME PipelineInv, ExecuteRepoint
    PROVE  StepKeepsPromises
<1> DEFINE on == actor.task.on
           b == actor.task.block
<1>1. InFlight("repoint") /\ "repoint" \in TaskType \ {"none", "finalize"}
  BY Zenon DEF ExecuteRepoint, TaskType
<1>2. layer \in LayerState /\ on \in LocalState /\ b \in Block
  BY Zenon, <1>1, InFlightFacts
<1>3. FinalityMovesTo(layer, layer', on.fin)
  BY Zenon, <1>2, ForwardNotarizedFinality DEF ExecuteRepoint
<1>4. UpdateHead(on, b) \in LocalState /\ UpdateHead(on, b).fin = on.fin
  BY Zenon, <1>2, LocalStateUpdates
<1>5. Finish(IF NotarizationAccepted(layer, on, b)
             THEN CompletedWith(UpdateHead(on, b), FALSE) ELSE Fatal)
  BY Zenon DEF ExecuteRepoint
<1>6. \E out \in Outcome : Finish(out) /\ (out.kind = "state" => out.ls.fin = on.fin)
  <2>1. CASE NotarizationAccepted(layer, on, b)
    <3> DEFINE out == CompletedWith(UpdateHead(on, b), FALSE)
    <3>1. out \in Outcome /\ out.ls.fin = on.fin
      BY Zenon, <1>4, OutcomeTypes
    <3>2. Finish(out)
      BY Zenon, <1>5, <2>1
    <3> HIDE DEF out
    <3> QED
      BY Zenon, <3>1, <3>2
  <2>2. CASE ~ NotarizationAccepted(layer, on, b)
    BY Zenon, <1>5, <2>2, OutcomeTypes
  <2> QED
    BY Zenon, <2>1, <2>2
<1>7. faults' \in 0 .. MaxFaults
  BY Zenon DEF ExecuteRepoint, environment, PipelineInv, TypeOK
<1> QED
  BY Zenon, <1>1, <1>3, <1>6, <1>7, OtherTaskStep DEF ExecuteRepoint, environment

(* A failure is counted.                                                   *)
LEMMA FaultCounted ==
    ASSUME PipelineInv, CallFails
    PROVE  faults' \in 0 .. MaxFaults
<1>1. faults \in 0 .. MaxFaults
  BY Zenon DEF PipelineInv, TypeOK
<1>2. faults < MaxFaults /\ faults' = faults + 1
  BY Zenon DEF CallFails
<1> QED
  BY <1>1, <1>2, BoundAssumption

(* A heartbeat or a build whose call fails submitted at most the tracked   *)
(* state.                                                                  *)
LEMMA TrackedFailsStep ==
    ASSUME PipelineInv, HeartbeatFails \/ BuildFails
    PROVE  StepKeepsPromises
<1>1. PICK type \in {"build", "heartbeat"} :
        /\ InFlight(type) /\ Finish(Completed) /\ CallFails /\ UNCHANGED phase
        /\ layer' \in {layer, SubmitForkchoiceUpdate(layer, actor.task.on)}
  BY Zenon DEF HeartbeatFails, BuildFails
<1>2. type \in TaskType \ {"none", "finalize"}
  BY Zenon DEF TaskType
<1>3. FinalityMovesTo(layer, layer', actor.task.on.fin)
  <2>1. layer \in LayerState /\ actor.task.on \in LocalState
    BY Zenon, <1>1, <1>2, InFlightFacts
  <2>2. FinalityMovesTo(layer, SubmitForkchoiceUpdate(layer, actor.task.on), actor.task.on.fin)
    BY Zenon, <2>1, SubmitFinality
  <2> QED
    BY Zenon, <1>1, <2>1, <2>2 DEF FinalityMovesTo
<1>4. faults' \in 0 .. MaxFaults
  BY Zenon, <1>1, FaultCounted
<1> QED
  BY Zenon, <1>1, <1>2, <1>3, <1>4, OutcomeTypes, OtherTaskStep DEF CallFails

(* A notarized block whose call fails is at most executed.                 *)
LEMMA NotarizationFailsStep ==
    ASSUME PipelineInv, NotarizationFails
    PROVE  StepKeepsPromises
<1>1. InFlight("block") /\ "block" \in TaskType \ {"none", "finalize"}
  BY Zenon DEF NotarizationFails, TaskType
<1>2. FinalityMovesTo(layer, layer', actor.task.on.fin)
  <2>1. layer \in LayerState /\ actor.task.block \in Block
    BY Zenon, <1>1, InFlightFacts
  <2>2. /\ NewPayload(layer, actor.task.block) \in LayerState
        /\ NewPayload(layer, actor.task.block).fin = layer.fin
    BY Zenon, <2>1, NewPayloadFinality
  <2>3. layer' \in {layer, NewPayload(layer, actor.task.block)}
    BY Zenon DEF NotarizationFails
  <2> QED
    BY Zenon, <2>1, <2>2, <2>3 DEF FinalityMovesTo
<1>3. Finish(Rejected) /\ faults' \in 0 .. MaxFaults
  BY Zenon, FaultCounted DEF NotarizationFails
<1> QED
  BY Zenon, <1>1, <1>2, <1>3, OutcomeTypes, OtherTaskStep DEF NotarizationFails, CallFails

(* A node that stops keeps its finality and starts nothing.                *)
LEMMA StopKeeps ==
    ASSUME PipelineInv, phase' = "stopped", NEW b \in Block,
           layer' \in {layer, NewPayload(layer, b)},
           UNCHANGED <<tree, actor, floor, next, acked, certs, proposals, asked>>,
           restarts' \in 0 .. MaxRestarts, faults' \in 0 .. MaxFaults
    PROVE  PipelineInv' /\ layer.fin \in Chain[layer'.fin] /\ StartsInOrder
<1>1. layer \in LayerState /\ layer.fin \in Block
  BY Zenon DEF PipelineInv, TypeOK, LayerState
<1>2. layer' \in LayerState /\ layer'.fin = layer.fin
  BY Zenon, <1>1, NewPayloadFinality
<1>3. TypeOK'
  BY Zenon, <1>2 DEF PipelineInv, TypeOK
<1>4. Certified' = Certified
  BY Zenon DEF Certified
<1>5. PipelineInv'
  BY Zenon, <1>2, <1>3, <1>4 DEF PipelineInv
<1> QED
  BY Zenon, <1>1, <1>2, <1>5, ChainReflexive DEF StartsInOrder

(* A finalization or a repoint that meets a failure stops the node.        *)
LEMMA TaskStopsStep ==
    ASSUME PipelineInv, FinalizationFails \/ RepointFails
    PROVE  StepKeepsPromises
<1>1. actor.task.block \in Block /\ restarts \in 0 .. MaxRestarts
  BY Zenon DEF PipelineInv, TypeOK, ActorState, Task
<1>2. CallFails /\ UNCHANGED <<tree, restarts>>
  BY Zenon DEF FinalizationFails, RepointFails, CallFails
<1>3. PipelineInv' /\ layer.fin \in Chain[layer'.fin] /\ StartsInOrder
  BY Zenon, <1>1, <1>2, FaultCounted, StopKeeps DEF FinalizationFails, RepointFails, CallFails
<1> QED
  BY Zenon, <1>2, <1>3 DEF StepKeepsPromises

(* A finalization ends: the block it delivered is the next one of the      *)
(* chain or the finalized block again, and the layer's finality moves to   *)
(* it or stays.                                                            *)
LEMMA FinalizationStep ==
    ASSUME PipelineInv, ExecuteFinalization
    PROVE  StepKeepsPromises
<1> DEFINE on == actor.task.on
           b == actor.task.block
           ok == FinalizationAccepted(layer, on, b)
           target == FinalizationTarget(layer, on, b)
<1>1. InFlight("finalize") /\ "finalize" \in TaskType \ {"none"}
  BY Zenon DEF ExecuteFinalization, TaskType
<1>2. /\ phase = "loop" /\ layer \in LayerState /\ on \in LocalState /\ b \in Block
      /\ actor.task.type = "finalize" /\ on.fin = tree.fin
  BY Zenon, <1>1, InFlightFacts
<1>3. /\ b \in Chain[tree.netTip.digest]
      /\ Height[b] <= Height[tree.fin] + 1
  BY Zenon, <1>2 DEF PipelineInv, Pipeline
<1>4. b \in Certified
  BY Zenon, <1>3, CoveredIsCertified
<1>5. FinalityMovesTo(layer, layer', b)
  BY Zenon, <1>2, ForwardFinalizedFinality DEF ExecuteFinalization
<1>6. acked' \in Nat \cup {-1}
  BY Zenon, <1>2, TreeAssumption DEF ExecuteFinalization, PipelineInv, TypeOK
<1>7. target \in LocalState /\ (ok => target.fin = b)
  BY Zenon, <1>2, LocalStateUpdates DEF FinalizationAccepted
<1>8. ok => b = tree.fin \/ Height[b] = Height[tree.fin] + 1
  <2>1. Height[b] \in Nat /\ Height[tree.fin] \in Nat
    BY Zenon, <1>2, TreeAssumption DEF LocalState
  <2> QED
    BY <1>2, <1>3, <2>1, SMTT(30) DEF FinalizationAccepted, DeliveryInOrder
<1>9. Finish(IF ok THEN CompletedWith(target, FALSE) ELSE Fatal)
  BY Zenon DEF ExecuteFinalization
<1>10. actor' \in ActorState /\ Pipeline(tree, actor', next)
  <2>1. Height[b] <= Height[b] /\ actor.task.type \in TaskType
    BY <1>1, <1>2, TreeAssumption
  <2>2. CASE ok
    <3> DEFINE out == CompletedWith(target, FALSE)
    <3>1. /\ out \in Outcome
          /\ out.ls.fin = b
          /\ out.kind = "state"
      BY Zenon, <1>7, <2>2, OutcomeTypes
    <3>2. Finish(out)
      BY Zenon, <1>9, <2>2
    <3> HIDE DEF out
    <3> QED
      BY Zenon, <1>2, <1>3, <1>8, <2>1, <2>2, <3>1, <3>2, FinishEffect
  <2>3. CASE ~ ok
    <3>1. Finish(Fatal)
      BY Zenon, <1>9, <2>3
    <3> QED
      BY Zenon, <1>2, <2>1, <3>1, OutcomeTypes, FinishEffect
  <2> QED
    BY Zenon, <2>2, <2>3
<1>11. faults' \in 0 .. MaxFaults
  BY Zenon DEF ExecuteFinalization, environment, PipelineInv, TypeOK
<1>12. StartsInOrder
  BY Zenon, <1>1, <1>9, FinishStartsNothing
<1> QED
  BY Zenon, <1>2, <1>4, <1>5, <1>6, <1>10, <1>11, <1>12, TaskStep DEF ExecuteFinalization, environment

------------------------------------------------------------------------------

(* A branch that changes neither the finalized tips nor the pipeline.      *)
LEMMA BranchStep ==
    ASSUME PipelineInv, phase = "loop",
           NEW t, SameTips(tree, t),
           NEW a \in ActorState, a.queue = actor.queue, a.task = actor.task,
           LoopTop(t, a),
           proposals' \subseteq Block, asked' \subseteq proposals',
           UNCHANGED <<phase, layer, acked, floor, next, certs, restarts, faults>>
    PROVE  StepKeepsPromises
<1>1. /\ tree.fin \in Chain[tree.netTip.digest]
      /\ tree.netTip.digest \in certs \cup {Genesis}
      /\ certs \subseteq Block
      /\ \A b, c \in certs : b \in Chain[c] \/ c \in Chain[b]
      /\ next \in Nat
      /\ Pipeline(tree, actor, next)
  BY Zenon, LoopFacts
<1>2. /\ t \in TreeState /\ t.withheld \subseteq t.blocks
      /\ t.netTip = tree.netTip /\ t.fin = tree.fin
  BY Zenon DEF SameTips
<1>3. Pipeline(t, a, next')
  BY Zenon, <1>1, <1>2, PipelineDepends
<1>4. OvertakesNothing(actor.task, t, a)
  BY Zenon DEF OvertakesNothing
<1> QED
  BY Zenon, <1>1, <1>2, <1>3, <1>4, LoopStep

(* The finished task leaves its slot; a finalization has moved the tracked *)
(* state to its block, which is what the next queued block follows.        *)
LEMMA TaskFinishedStep ==
    ASSUME PipelineInv, HandleExecutionTaskFinished
    PROVE  StepKeepsPromises
<1> DEFINE task == actor.task
           out == task.outcome
           freed == [actor EXCEPT !.task = NoTask,
                                  !.jobs = IF out.job THEN @ \cup {task.block} ELSE @]
<1>1. phase = "loop" /\ task.type # "none"
  BY Zenon DEF HandleExecutionTaskFinished, Idle
<1>2. /\ tree \in TreeState /\ tree.withheld \subseteq tree.blocks
      /\ actor \in ActorState
      /\ Pipeline(tree, actor, next)
      /\ next \in Nat
      /\ Height[tree.fin] \in Nat
      /\ tree.fin \in Chain[tree.netTip.digest]
      /\ tree.netTip.digest \in certs \cup {Genesis} /\ tree.netTip.digest \in Block
      /\ certs \subseteq Block /\ proposals \subseteq Block /\ asked \subseteq proposals
      /\ \A b, c \in certs : b \in Chain[c] \/ c \in Chain[b]
  BY Zenon, <1>1, LoopFacts
<1>3. task \in Task /\ task.block \in Block /\ out \in Outcome
  BY Zenon, <1>2 DEF ActorState, Task
<1>4. /\ freed \in ActorState
      /\ freed.queue = actor.queue /\ freed.task = NoTask
  BY Zenon, <1>2, <1>3, NoTaskType DEF ActorState
<1>5. CASE out.kind = "fatal"
  <2>1. UNCHANGED <<tree, actor, layer, acked, floor, next, certs, proposals, asked, restarts, faults>>
        /\ phase' = "dead"
    BY Zenon, <1>5 DEF HandleExecutionTaskFinished, environment
  <2>2. TypeOK'
    BY Zenon, <2>1 DEF PipelineInv, TypeOK
  <2>3. Certified' = Certified
    BY Zenon, <2>1 DEF Certified
  <2>4. PipelineInv'
    BY Zenon, <2>1, <2>2, <2>3 DEF PipelineInv
  <2> QED
    BY Zenon, <2>1, <2>4, QuietStep
<1>6. ASSUME out.kind # "fatal",
             NEW t \in TreeState, t.withheld \subseteq t.blocks,
             t.netTip = tree.netTip, t.fin \in Chain[tree.netTip.digest],
             t.fin = tree.fin \/ Height[t.fin] = Height[tree.fin] + 1,
             next - Len(actor.queue) <= Height[t.fin] + 1,
             LoopTop(t, freed)
      PROVE  StepKeepsPromises
  <2>1. UNCHANGED <<phase, layer, acked, floor, next, certs, proposals, asked, restarts, faults>>
    BY Zenon, <1>6 DEF HandleExecutionTaskFinished, environment
  <2>2. Pipeline(t, freed, next)
    <3>1. \A i \in 1 .. Len(actor.queue) :
              /\ actor.queue[i] \in Chain[tree.netTip.digest]
              /\ Height[actor.queue[i]] = next - Len(actor.queue) + i - 1
      BY Zenon, <1>2 DEF Pipeline
    <3> HIDE DEF freed
    <3> QED
      BY Zenon, <1>4, <1>6, <3>1, NoTaskType DEF Pipeline
  <2> HIDE DEF freed
  <2>3. OvertakesNothing(actor.task, t, freed)
    BY Zenon, <1>4 DEF OvertakesNothing
  <2> QED
    BY Zenon, <1>1, <1>2, <1>4, <1>6, <2>1, <2>2, <2>3, LoopStep
<1>7. task.type # "finalize" => next - Len(actor.queue) <= Height[tree.fin] + 1
  BY Zenon, <1>2 DEF Pipeline
<1>8. CASE out.kind = "state"
  <2> DEFINE t == SetLocalState(tree, out.ls)
  <2>1. out.ls \in LocalState /\ out.ls.fin \in Block /\ Height[out.ls.fin] \in Nat
    BY Zenon, <1>3, TreeAssumption DEF Outcome, LocalState
  <2>2. /\ t \in TreeState /\ t.withheld \subseteq t.blocks
        /\ t.netTip = tree.netTip /\ t.fin = out.ls.fin
    BY Zenon, <1>2, <2>1 DEF SetLocalState, TreeState, LocalState
  <2>3. /\ out.ls.fin \in Chain[tree.netTip.digest]
        /\ out.ls.fin = tree.fin \/ Height[out.ls.fin] = Height[tree.fin] + 1
    BY Zenon, <1>2, <1>8 DEF Pipeline
  <2>4. next - Len(actor.queue) <= Height[out.ls.fin] + 1
    <3>0. Len(actor.queue) \in Nat
      BY <1>2 DEF ActorState
    <3>1. CASE task.type = "finalize"
      <4>1. /\ Height[task.block] = next - Len(actor.queue) - 1
            /\ Height[task.block] <= Height[out.ls.fin]
        BY Zenon, <1>2, <1>8, <3>1 DEF Pipeline
      <4> QED
        BY <1>2, <2>1, <3>0, <4>1, SMTT(30)
    <3>2. CASE task.type # "finalize"
      <4>1. out.ls.fin = tree.fin \/ Height[out.ls.fin] = Height[tree.fin] + 1
        BY Zenon, <1>2, <1>8 DEF Pipeline
      <4>2. /\ next - Len(actor.queue) <= Height[tree.fin] + 1
            /\ next \in Nat /\ Height[tree.fin] \in Nat
        BY Zenon, <1>2, <1>7, <3>2
      <4> QED
        BY <2>1, <3>0, <4>1, <4>2, SMTT(30)
    <3> QED
      BY Zenon, <3>1, <3>2
  <2>5. LoopTop(t, freed)
    BY Zenon, <1>8 DEF HandleExecutionTaskFinished
  <2> HIDE DEF t, freed
  <2> QED
    BY Zenon, <1>6, <1>8, <2>2, <2>3, <2>4, <2>5
<1>9. CASE out.kind \in {"none", "rejected"}
  <2>1. task.type # "finalize"
    BY Zenon, <1>2, <1>9 DEF Pipeline
  <2>2. next - Len(actor.queue) <= Height[tree.fin] + 1
    BY Zenon, <1>7, <2>1
  <2>3. SameTips(tree, tree) /\ SameTips(tree, MarkRejected(tree, task.block))
    BY Zenon, <1>2, <1>3, TreeUpdates DEF SameTips
  <2>4. LoopTop(tree, freed) \/ LoopTop(MarkRejected(tree, task.block), freed)
    BY Zenon, <1>9 DEF HandleExecutionTaskFinished
  <2> HIDE DEF freed
  <2> QED
    BY Zenon, <1>2, <1>6, <1>9, <2>2, <2>3, <2>4 DEF SameTips
<1> QED
  BY Zenon, <1>3, <1>5, <1>8, <1>9 DEF HandleExecutionTaskFinished, Outcome

(* A payload job that ends adds at most a body to the tree.                *)
LEMMA PayloadJobStep ==
    ASSUME PipelineInv, PayloadJobDone
    PROVE  StepKeepsPromises
<1>1. PICK b \in actor.jobs, delivered \in BOOLEAN :
        /\ phase = "loop"
        /\ LoopTop(IF delivered THEN RecordBlock(tree, b) ELSE tree,
                   [actor EXCEPT !.jobs = @ \ {b}])
        /\ UNCHANGED <<phase, layer, acked, environment>>
  BY Zenon DEF PayloadJobDone
<1> DEFINE t == IF delivered THEN RecordBlock(tree, b) ELSE tree
           a == [actor EXCEPT !.jobs = @ \ {b}]
<1>2. /\ tree \in TreeState /\ tree.withheld \subseteq tree.blocks
      /\ actor \in ActorState
      /\ proposals \subseteq Block /\ asked \subseteq proposals
  BY Zenon, <1>1, LoopFacts
<1>3. a \in ActorState /\ a.queue = actor.queue /\ a.task = actor.task
  BY Zenon, <1>2 DEF ActorState
<1>4. SameTips(tree, t)
  <2>1. b \in Block
    BY Zenon, <1>1, <1>2 DEF ActorState
  <2> QED
    BY Zenon, <1>2, <2>1, TreeUpdates DEF SameTips
<1> HIDE DEF t, a
<1>5. LoopTop(t, a)
  BY Zenon, <1>1 DEF t, a
<1> QED
  BY Zenon, <1>1, <1>2, <1>3, <1>4, <1>5, BranchStep DEF environment

(* A fetched body is added to the tree; a failed fetch is dropped.         *)
LEMMA FetchedStep ==
    ASSUME PipelineInv, NEW found \in BOOLEAN, HandleFetchedNotarizedBlock(found)
    PROVE  StepKeepsPromises
<1> DEFINE t == IF found THEN RecordBlock(tree, actor.fetch.digest) ELSE tree
           a == [actor EXCEPT !.fetch = NoFetch]
<1>1. /\ phase = "loop"
      /\ LoopTop(t, a)
      /\ UNCHANGED <<phase, layer, acked, environment>>
  BY Zenon DEF HandleFetchedNotarizedBlock
<1>2. /\ tree \in TreeState /\ tree.withheld \subseteq tree.blocks
      /\ actor \in ActorState
      /\ proposals \subseteq Block /\ asked \subseteq proposals
  BY Zenon, <1>1, LoopFacts
<1>3. a \in ActorState /\ a.queue = actor.queue /\ a.task = actor.task
  BY Zenon, <1>2, TreeAssumption DEF ActorState, NoFetch, Tip
<1>4. SameTips(tree, t)
  <2>1. actor.fetch.digest \in Block
    BY Zenon, <1>2 DEF ActorState, Tip
  <2> QED
    BY Zenon, <1>2, <2>1, TreeUpdates DEF SameTips
<1> HIDE DEF t, a
<1> QED
  BY Zenon, <1>1, <1>2, <1>3, <1>4, BranchStep DEF environment

(* A heartbeat starts the work that is due, or else a heartbeat task.      *)
LEMMA SendHeartbeatStep ==
    ASSUME PipelineInv, SendForkchoiceUpdateHeartbeat
    PROVE  StepKeepsPromises
<1> DEFINE s == StartNextExecutionTask(tree, actor)
           a == IF Idle(s)
                THEN [s EXCEPT !.task = NewTask("heartbeat", tree, Genesis)]
                ELSE s
<1>1. /\ phase = "loop"
      /\ LoopTop(tree, a)
      /\ UNCHANGED <<phase, layer, acked, environment>>
  BY Zenon DEF SendForkchoiceUpdateHeartbeat
<1>2. /\ tree \in TreeState /\ tree.withheld \subseteq tree.blocks
      /\ next \in Nat
      /\ tree.fin \in Chain[tree.netTip.digest]
      /\ tree.netTip.digest \in certs \cup {Genesis}
      /\ certs \subseteq Block /\ proposals \subseteq Block /\ asked \subseteq proposals
      /\ \A b, c \in certs : b \in Chain[c] \/ c \in Chain[b]
  BY Zenon, <1>1, LoopFacts
<1>3. /\ a \in ActorState /\ Pipeline(tree, a, next) /\ a.queue = s.queue
      /\ ~ Idle(s) => a = s
  BY Zenon, <1>1, HeartbeatPipeline
<1>4. OvertakesNothing(actor.task, tree, a)
  <2>1. actor \in ActorState
    BY Zenon, <1>1, LoopFacts
  <2>2. OvertakesNothing(actor.task, tree, actor)
    BY Zenon DEF OvertakesNothing
  <2>3. OvertakesNothing(actor.task, tree, s) /\ (Idle(s) => s.queue = <<>>)
    BY Zenon, <1>2, <2>1, <2>2, StartOvertakesNothing
  <2> HIDE DEF a, s
  <2> QED
    BY Zenon, <1>3, <2>3 DEF OvertakesNothing
<1> HIDE DEF a
<1> QED
  BY Zenon, <1>1, <1>2, <1>3, <1>4, LoopStep DEF environment

(* A block whose retry delay is over is no longer withheld.                *)
LEMMA RetryDelayStep ==
    ASSUME PipelineInv, RetryDelayElapsed
    PROVE  StepKeepsPromises
<1>1. PICK b \in tree.withheld :
        /\ phase = "loop"
        /\ tree' = [tree EXCEPT !.withheld = @ \ {b}]
        /\ UNCHANGED <<phase, actor, layer, acked, environment>>
  BY Zenon DEF RetryDelayElapsed
<1>2. /\ tree \in TreeState /\ tree.withheld \subseteq tree.blocks
      /\ Pipeline(tree, actor, next)
  BY Zenon, <1>1, LoopFacts
<1>3. SameTips(tree, tree')
  BY Zenon, <1>1, <1>2 DEF SameTips, TreeState
<1>4. TypeOK'
  BY Zenon, <1>1, <1>3 DEF PipelineInv, TypeOK, SameTips, environment
<1>5. Pipeline(tree', actor', next')
  BY Zenon, <1>1, <1>2, <1>3, PipelineDepends DEF SameTips, environment
<1>6. Certified' = Certified
  BY Zenon, <1>1 DEF Certified, environment
<1>7. PipelineInv'
  BY Zenon, <1>1, <1>3, <1>4, <1>5, <1>6 DEF PipelineInv, SameTips, environment
<1> QED
  BY Zenon, <1>1, <1>3, <1>7, QuietStep DEF SameTips, environment

------------------------------------------------------------------------------

(* A reported tip extends the network's finalized chain or is ignored.     *)
LEMMA ReportTipStep ==
    ASSUME PipelineInv, NEW b \in Block, ReportTip(b)
    PROVE  StepKeepsPromises
<1> DEFINE t == SetNetworkFinalizedTip(tree, b)
<1>1. /\ phase = "loop"
      /\ tree.netTip.digest \in Chain[b]
      /\ \A c \in certs : c \in Chain[b] \/ b \in Chain[c]
      /\ certs' = certs \cup {b}
      /\ LoopTop(t, actor)
      /\ UNCHANGED <<phase, layer, acked, floor, next, proposals, asked, restarts, faults>>
  BY Zenon DEF ReportTip
<1>2. /\ tree \in TreeState /\ tree.withheld \subseteq tree.blocks
      /\ actor \in ActorState
      /\ Pipeline(tree, actor, next)
      /\ next \in Nat
      /\ tree.fin \in Block /\ tree.netTip.digest \in Block
      /\ tree.fin \in Chain[tree.netTip.digest]
      /\ tree.netTip.digest \in certs \cup {Genesis}
      /\ certs \subseteq Block /\ proposals \subseteq Block /\ asked \subseteq proposals
      /\ \A c, d \in certs : c \in Chain[d] \/ d \in Chain[c]
  BY Zenon, <1>1, LoopFacts
<1>3. /\ t \in TreeState /\ t.withheld \subseteq t.blocks /\ t.fin = tree.fin
      /\ t.netTip.digest \in {tree.netTip.digest, b}
  BY Zenon, <1>2, TreeAssumption DEF SetNetworkFinalizedTip, TreeState, Tip
<1>4. tree.netTip.digest \in Chain[t.netTip.digest]
  BY Zenon, <1>1, <1>2, <1>3, ChainReflexive
<1>5. Pipeline(t, actor, next)
  BY Zenon, <1>2, <1>3, <1>4, PipelineAdvances
<1>6. t.fin \in Chain[t.netTip.digest]
  <2>1. t.fin \in Block /\ t.netTip.digest \in Block
    BY Zenon, <1>2, <1>3
  <2>2. t.fin \in Chain[tree.netTip.digest] /\ tree.netTip.digest \in Block
    BY Zenon, <1>2, <1>3
  <2> QED
    BY Zenon, <1>4, <2>1, <2>2, ChainTransitive
<1>7. \A c, d \in certs' : c \in Chain[d] \/ d \in Chain[c]
  <2>1. TAKE c, d \in certs'
  <2>2. /\ c \in certs \/ c = b
        /\ d \in certs \/ d = b
    BY Zenon, <1>1
  <2>3. CASE c \in certs /\ d \in certs
    BY Zenon, <1>2, <2>3
  <2>4. CASE c = b /\ d = b
    BY Zenon, <2>4, ChainReflexive
  <2>5. CASE c \in certs /\ d = b
    BY Zenon, <1>1, <2>5
  <2>6. CASE c = b /\ d \in certs
    BY Zenon, <1>1, <2>6
  <2> QED
    BY Zenon, <2>2, <2>3, <2>4, <2>5, <2>6
<1>8. OvertakesNothing(actor.task, t, actor)
  BY Zenon DEF OvertakesNothing
<1> HIDE DEF t
<1> QED
  BY Zenon, <1>1, <1>2, <1>3, <1>5, <1>6, <1>7, <1>8, LoopStep

(* The delivered block is the tip's ancestor at the height due, one above  *)
(* the last one delivered.                                                 *)
LEMMA DeliverBlockStep ==
    ASSUME PipelineInv, DeliverBlock
    PROVE  StepKeepsPromises
<1> DEFINE a == [actor EXCEPT !.queue = Append(@, AncestorAt(tree.netTip.digest, next))]
<1>1. /\ phase = "loop"
      /\ next <= Height[tree.netTip.digest]
      /\ next' = next + 1
      /\ LoopTop(tree, a)
      /\ UNCHANGED <<phase, layer, acked, floor, certs, proposals, asked, restarts, faults>>
  BY Zenon DEF DeliverBlock
<1>2. /\ tree \in TreeState /\ tree.withheld \subseteq tree.blocks
      /\ next \in Nat
      /\ tree.fin \in Chain[tree.netTip.digest]
      /\ tree.netTip.digest \in certs \cup {Genesis}
      /\ certs \subseteq Block /\ proposals \subseteq Block /\ asked \subseteq proposals
      /\ \A c, d \in certs : c \in Chain[d] \/ d \in Chain[c]
  BY Zenon, <1>1, LoopFacts
<1>3. PICK n \in Nat : n = next + 1
  BY <1>2
<1>4. a \in ActorState /\ Pipeline(tree, a, n) /\ a.task = actor.task
  BY Zenon, <1>1, <1>3, DeliveredPipeline
<1> HIDE DEF a
<1>5. next' \in Nat /\ Pipeline(tree, a, next')
  BY Zenon, <1>1, <1>3, <1>4
<1>6. OvertakesNothing(actor.task, tree, a)
  BY Zenon, <1>4 DEF OvertakesNothing
<1> QED
  BY Zenon, <1>1, <1>2, <1>4, <1>5, <1>6, LoopStep

(* A context of consensus moves the pending head only.                     *)
LEMMA PendingHeadStep ==
    ASSUME PipelineInv, NEW p \in Block, RecordPendingHead(p)
    PROVE  StepKeepsPromises
<1> DEFINE t == SetPendingHead(tree, ParentRound[p], Parent[p])
<1>1. /\ phase = "loop"
      /\ proposals' = proposals \cup {p}
      /\ LoopTop(t, actor)
      /\ UNCHANGED <<phase, layer, acked, floor, next, certs, asked, restarts, faults>>
  BY Zenon DEF RecordPendingHead
<1>2. /\ tree \in TreeState /\ tree.withheld \subseteq tree.blocks
      /\ actor \in ActorState
      /\ proposals \subseteq Block /\ asked \subseteq proposals
  BY Zenon, <1>1, LoopFacts
<1>3. SameTips(tree, t)
  BY Zenon, <1>2, TreeUpdates, TreeAssumption
<1> HIDE DEF t
<1> QED
  BY Zenon, <1>1, <1>2, <1>3, BranchStep

(* A request is queued, or dropped, without touching the pipeline.         *)
LEMMA ConsensusRequestStep ==
    ASSUME PipelineInv, NEW p \in proposals, NEW kind \in {"verify", "build"},
           HandleConsensusRequest(p, kind)
    PROVE  StepKeepsPromises
<1> DEFINE t == IF kind = "verify" THEN RecordBlock(tree, p) ELSE tree
           r == [kind |-> kind, block |-> p]
           a == QueueConsensusRequest(actor, r)
<1>1. /\ phase = "loop"
      /\ asked' = asked \cup {p}
      /\ LoopTop(t, a)
      /\ UNCHANGED <<phase, layer, acked, floor, next, certs, proposals, restarts, faults>>
  BY Zenon DEF HandleConsensusRequest
<1>2. /\ tree \in TreeState /\ tree.withheld \subseteq tree.blocks
      /\ actor \in ActorState
      /\ proposals \subseteq Block /\ asked \subseteq proposals
  BY Zenon, <1>1, LoopFacts
<1>3. SameTips(tree, t)
  BY Zenon, <1>2, TreeUpdates DEF SameTips
<1>4. r \in Request
  BY Zenon, <1>2 DEF Request
<1>5. a \in ActorState /\ a.queue = actor.queue /\ a.task = actor.task
  BY Zenon, <1>2, <1>4, QueueEffect
<1> HIDE DEF t, a
<1> QED
  BY Zenon, <1>1, <1>2, <1>3, <1>5, BranchStep

------------------------------------------------------------------------------

(* The node waits for the execution layer to come up.                      *)
LEMMA WaitStep ==
    ASSUME PipelineInv, WaitForExecutionLayer
    PROVE  StepKeepsPromises
<1>1. TypeOK'
  BY Zenon DEF WaitForExecutionLayer, environment, PipelineInv, TypeOK
<1>2. Certified' = Certified
  BY Zenon DEF WaitForExecutionLayer, environment, Certified
<1>3. PipelineInv'
  BY Zenon, <1>1, <1>2 DEF WaitForExecutionLayer, environment, PipelineInv
<1> QED
  BY Zenon, <1>3, QuietStep DEF WaitForExecutionLayer, environment

(* The backfill finalizes the next block of the network's chain, or enters *)
(* the loop with an empty pipeline once the floor is reached.              *)
LEMMA BackfillStep ==
    ASSUME PipelineInv, BackfillToFinalizedFloor
    PROVE  StepKeepsPromises
<1> DEFINE on == LocalOf(tree)
           b == AncestorAt(tree.netTip.digest, Height[tree.fin] + 1)
           target == FinalizationTarget(layer, on, b)
<1>1. /\ phase = "backfill"
      /\ UNCHANGED <<acked, floor, next, certs, proposals, asked, restarts, faults>>
  BY Zenon DEF BackfillToFinalizedFloor, environment
<1>2. /\ actor = NewActor
      /\ floor \in Nat /\ floor <= Height[tree.netTip.digest]
      /\ next \in Nat /\ next <= floor + 1
      /\ tree \in TreeState /\ tree.withheld \subseteq tree.blocks
      /\ layer \in LayerState
      /\ tree.fin \in Chain[tree.netTip.digest]
      /\ tree.netTip.digest \in certs \cup {Genesis}
      /\ certs \subseteq Block /\ proposals \subseteq Block /\ asked \subseteq proposals
      /\ \A c, d \in certs : c \in Chain[d] \/ d \in Chain[c]
  BY Zenon, <1>1 DEF PipelineInv, TypeOK
<1>3. /\ tree.fin \in Block /\ Height[tree.fin] \in Nat
      /\ tree.netTip.digest \in Block /\ Height[tree.netTip.digest] \in Nat
  BY Zenon, <1>2, TreeAssumption DEF TreeState, Tip
<1>h. floor \in Nat /\ next \in Nat /\ next <= floor + 1 /\ Height[tree.fin] \in Nat
  BY Zenon, <1>2, <1>3
<1>4. CASE Height[tree.fin] < floor
  <2>1. b \in Block /\ b \in Chain[tree.netTip.digest] /\ Height[b] = Height[tree.fin] + 1
    <3>1. Height[tree.fin] + 1 \in Nat /\ Height[tree.fin] + 1 <= Height[tree.netTip.digest]
      BY <1>2, <1>3, <1>4, SMTT(30)
    <3> QED
      BY Zenon, <1>3, <3>1, AncestorAtHeight
  <2> HIDE DEF b
  <2>2. on \in LocalState
    BY Zenon, <1>2 DEF LocalOf, LocalState, TreeState
  <2>3. /\ layer' = ForwardFinalized(layer, on, b)
        /\ IF FinalizationAccepted(layer, on, b)
           THEN tree' = SetLocalState(tree, target) /\ UNCHANGED phase
           ELSE phase' = "dead" /\ UNCHANGED tree
        /\ UNCHANGED actor
    <3>1. ~ (Height[tree.fin] >= floor)
      BY <1>h, <1>4
    <3> QED
      BY Zenon, <3>1 DEF BackfillToFinalizedFloor, b
  <2>4. layer' \in LayerState /\ layer'.fin \in Certified /\ layer.fin \in Chain[layer'.fin]
    <3>1. FinalityMovesTo(layer, layer', b)
      BY Zenon, <1>2, <2>1, <2>2, <2>3, ForwardFinalizedFinality
    <3>2. b \in Certified
      BY Zenon, <2>1, CoveredIsCertified
    <3> QED
      BY Zenon, <3>1, <3>2, FinalityAdvances
  <2>5. Certified' = Certified
    BY Zenon, <1>1 DEF Certified
  <2>6. CASE FinalizationAccepted(layer, on, b)
    <3>1. target \in LocalState /\ target.fin = b
      BY Zenon, <1>2, <2>1, <2>2, <2>6, LocalStateUpdates DEF FinalizationAccepted
    <3> HIDE DEF target
    <3>2. /\ tree' \in TreeState /\ tree'.withheld \subseteq tree'.blocks
          /\ tree'.netTip = tree.netTip /\ tree'.fin = b
      BY ZenonT(30), <1>2, <2>3, <2>6, <3>1 DEF SetLocalState, TreeState, LocalState
    <3>3. TypeOK'
      BY ZenonT(30), <1>1, <2>3, <2>4, <2>6, <3>2 DEF PipelineInv, TypeOK
    <3>4. PipelineInv'
      BY ZenonT(30), <1>1, <1>2, <2>1, <2>3, <2>4, <2>5, <2>6, <3>2, <3>3 DEF PipelineInv
    <3>5. Log!Finalize
      BY Zenon, <1>1, <2>1, <3>2 DEF Log!Finalize
    <3> QED
      BY Zenon, <2>3, <2>4, <3>4, <3>5 DEF StepKeepsPromises, StartsInOrder, Log!Next
  <2>7. CASE ~ FinalizationAccepted(layer, on, b)
    <3>1. TypeOK'
      BY Zenon, <1>1, <2>3, <2>4, <2>7 DEF PipelineInv, TypeOK
    <3>2. PipelineInv'
      BY Zenon, <1>1, <1>2, <2>3, <2>4, <2>5, <2>7, <3>1 DEF PipelineInv
    <3> QED
      BY Zenon, <1>1, <2>3, <2>4, <2>7, <3>2 DEF StepKeepsPromises, StartsInOrder
  <2> QED
    BY Zenon, <2>6, <2>7
<1>5. CASE Height[tree.fin] >= floor
  <2>1. phase' = "loop" /\ LoopTop(tree, actor) /\ UNCHANGED layer
    <3>1. ~ (Height[tree.fin] < floor)
      BY <1>h, <1>5, SMTT(30)
    <3> QED
      BY Zenon, <3>1 DEF BackfillToFinalizedFloor
  <2>2. next - 0 <= Height[tree.fin] + 1
    BY <1>h, <1>5
  <2>3. Pipeline(tree, NewActor, next)
    <3>2. /\ Len(NewActor.queue) = 0
          /\ NewActor.task.type = "none" /\ NewActor.task.outcome.kind = "running"
      BY Zenon, NewActorType, NoTaskType
    <3>3. next - Len(NewActor.queue) <= Height[tree.fin] + 1
      BY Zenon, <2>2, <3>2
    <3>4. 1 .. Len(NewActor.queue) = {}
      BY <3>2
    <3> QED
      BY Zenon, <3>2, <3>3, <3>4 DEF Pipeline
  <2>4. OvertakesNothing(actor.task, tree, actor)
    BY Zenon DEF OvertakesNothing
  <2> QED
    BY Zenon, <1>1, <1>2, <2>1, <2>3, <2>4, NewActorType, LoopStep
<1> QED
  BY <1>h, <1>4, <1>5

(* So does an error of the startup.                                        *)
LEMMA StartupFailsStep ==
    ASSUME PipelineInv, StartupFails
    PROVE  StepKeepsPromises
<1> DEFINE b == AncestorAt(tree.netTip.digest, Height[tree.fin] + 1)
<1>1. /\ CallFails /\ phase' = "stopped" /\ UNCHANGED <<tree, actor, restarts>>
      /\ restarts \in 0 .. MaxRestarts /\ Genesis \in Block
  BY Zenon, TreeAssumption DEF StartupFails, CallFails, PipelineInv, TypeOK
<1>2. \E c \in Block : layer' \in {layer, NewPayload(layer, c)}
  <2>1. CASE UNCHANGED layer
    BY Zenon, <1>1, <2>1
  <2>2. CASE phase = "backfill" /\ Height[tree.fin] < floor /\ layer' \in {layer, NewPayload(layer, b)}
    <3>1. /\ floor \in Nat /\ floor <= Height[tree.netTip.digest]
          /\ tree.fin \in Block /\ tree.netTip.digest \in Block
      BY Zenon, <2>2 DEF PipelineInv, TypeOK, TreeState, Tip
    <3>2. Height[tree.fin] \in Nat /\ Height[tree.netTip.digest] \in Nat
      BY Zenon, <3>1, ChainOfBlocks
    <3>3. Height[tree.fin] + 1 \in Nat /\ Height[tree.fin] + 1 <= Height[tree.netTip.digest]
      BY <2>2, <3>1, <3>2
    <3>4. b \in Block
      BY Zenon, <3>1, <3>3, AncestorAtHeight
    <3> HIDE DEF b
    <3> QED
      BY Zenon, <2>2, <3>4
  <2> QED
    BY Zenon, <2>1, <2>2 DEF StartupFails
<1>3. PipelineInv' /\ layer.fin \in Chain[layer'.fin] /\ StartsInOrder
  BY Zenon, <1>1, <1>2, FaultCounted, StopKeeps DEF CallFails
<1> QED
  BY Zenon, <1>1, <1>3 DEF StepKeepsPromises

(* A start that is refused is a new run of the node that moves nothing.    *)
LEMMA RestartRefusedStep ==
    ASSUME PipelineInv, RestartRefused
    PROVE  StepKeepsPromises
<1>1. /\ phase' = "stopped" /\ restarts < MaxRestarts /\ restarts' = restarts + 1
      /\ UNCHANGED <<tree, actor, layer, floor, next, acked, certs, proposals, asked, faults>>
  BY Zenon DEF RestartRefused
<1>2. /\ restarts \in 0 .. MaxRestarts /\ faults \in 0 .. MaxFaults /\ Genesis \in Block
      /\ tree.netTip.digest \in Block /\ tree.fin \in Chain[tree.netTip.digest]
  BY Zenon, TreeAssumption DEF PipelineInv, TypeOK, TreeState, Tip
<1>3. restarts' \in 0 .. MaxRestarts /\ restarts' # restarts
  BY <1>1, <1>2, BoundAssumption
<1>4. PipelineInv' /\ StartsInOrder
  BY Zenon, <1>1, <1>2, <1>3, StopKeeps
<1>5. Log!Crash
  BY Zenon, <1>1, <1>2, ChainReflexive DEF Log!Crash
<1> QED
  BY Zenon, <1>3, <1>4, <1>5 DEF StepKeepsPromises, Log!Next

(* A restart finds the layer's finality covered by a certificate, so the   *)
(* block it starts from is on the chain of whichever tip the node comes    *)
(* back with.                                                              *)
LEMMA RestartStep ==
    ASSUME PipelineInv, Restart
    PROVE  StepKeepsPromises
<1>1. /\ phase' = "wait" /\ actor' = NewActor
      /\ restarts < MaxRestarts /\ restarts' = restarts + 1
      /\ acked' = next' - 1 /\ asked' = {}
      /\ UNCHANGED <<certs, proposals, faults>>
  BY Zenon DEF Restart
<1>2. /\ layer \in LayerState /\ layer.fin \in Certified
      /\ layer.head \in Block /\ layer.fin \in Block
      /\ certs \subseteq Block
      /\ \A c, d \in certs : c \in Chain[d] \/ d \in Chain[c]
      /\ restarts \in 0 .. MaxRestarts
  BY Zenon DEF PipelineInv, TypeOK, LayerState
<1>3. PICK h \in Chain[layer.head] : \E f \in Chain[layer.fin] \cap Chain[h] :
          layer' = [known |-> Chain[h], head |-> h, fin |-> f]
  BY Zenon DEF Restart
<1>4. PICK f \in Chain[layer.fin] \cap Chain[h] :
          layer' = [known |-> Chain[h], head |-> h, fin |-> f]
  BY Zenon, <1>3
<1>5. h \in Block /\ f \in Block /\ Chain[h] \subseteq Block /\ Height[f] \in Nat
  BY Zenon, <1>2, <1>3, <1>4, TreeAssumption
<1>6. layer' \in LayerState /\ layer'.fin = f /\ layer'.head = h
  BY Zenon, <1>4, <1>5 DEF LayerState
<1>7. \A a \in Chain[f] : a \in Block /\ a \in Certified
  <2>1. TAKE a \in Chain[f]
  <2>2. a \in Block
    BY Zenon, <1>5, TreeAssumption
  <2>3. a \in Chain[layer.fin]
    <3>1. layer.fin \in Block /\ f \in Chain[layer.fin] /\ a \in Chain[f]
      BY Zenon, <1>2, <1>4, <2>1
    <3> QED
      BY Zenon, <1>5, <2>2, <3>1, ChainTransitive
  <2>4. CASE layer.fin = Genesis
    BY Zenon, <2>2, <2>3, <2>4, ChainAssumption DEF Certified
  <2>5. CASE layer.fin # Genesis
    <3>1. PICK c \in certs : layer.fin \in Chain[c]
      BY Zenon, <1>2, <2>5 DEF Certified
    <3>2. a \in Chain[c]
      <4>1. layer.fin \in Block /\ c \in Block
        BY Zenon, <1>2, <3>1
      <4> QED
        BY Zenon, <2>2, <2>3, <3>1, <4>1, ChainTransitive
    <3> QED
      BY Zenon, <2>2, <3>2 DEF Certified
  <2> QED
    BY Zenon, <2>2, <2>4, <2>5
<1>8. f \in Chain[f]
  BY Zenon, <1>5, ChainAssumption
<1>9. PICK tip \in certs \cup {Genesis}, low \in StoredHeights :
        /\ StartAdmitted(tip, low)
        /\ floor' = low
        /\ next' \in {low, low + 1}
        /\ tree' = NewTree([round |-> Round[tip], digest |-> tip], StartAt(layer', low))
  BY Zenon DEF Restart, StoredTips
<1>10. /\ tip \in Block /\ tip \in Certified /\ Height[tip] \in Nat /\ Round[tip] \in Nat
       /\ low \in Nat /\ low <= Height[tip]
  <2>1. tip \in Block
    BY Zenon, <1>2, TreeAssumption
  <2>2. tip \in Certified
    BY Zenon, <2>1, ChainReflexive DEF Certified
  <2>3. Height[tip] \in Nat /\ Round[tip] \in Nat
    BY Zenon, <2>1, TreeAssumption
  <2>4. low \in Nat /\ low <= Height[tip]
    <3>1. low \in Nat /\ Height[tip] >= low
      BY Zenon, <1>9, StoredHeightsType DEF StartAdmitted
    <3> QED
      BY <2>3, <3>1
  <2> QED
    BY Zenon, <2>1, <2>2, <2>3, <2>4
<1> DEFINE start == StartAt(layer', low)
<1>11. start \in Certified /\ start \in Block /\ Height[start] <= Height[tip]
  <2>1. CASE low < Height[f]
    <3>1. low <= Height[h]
      <4>1. Height[f] <= Height[h] /\ Height[h] \in Nat
        BY Zenon, <1>4, <1>5, ChainOfBlocks, ChainHeight
      <4> QED
        BY <1>5, <1>10, <2>1, <4>1
    <3>2. start = AncestorAt(h, low)
      BY Zenon, <1>6, <2>1 DEF StartAt
    <3>3. start \in Block /\ start \in Chain[h] /\ Height[start] = low
      BY ZenonT(30), <1>5, <1>10, <3>1, <3>2, AncestorAtHeight
    <3> HIDE DEF start
    <3>4. start \in Chain[f]
      <4>1. f \in Chain[h]
        BY Zenon, <1>4
      <4>2. Height[start] <= Height[f]
        BY SMTT(30), <1>5, <1>10, <2>1, <3>3
      <4> QED
        BY Zenon, <1>5, <3>3, <4>1, <4>2, ChainOrdered
    <3> QED
      BY Zenon, <1>7, <1>10, <3>3, <3>4
  <2>2. CASE ~ (low < Height[f])
    <3>1. start = f
      BY Zenon, <1>6, <2>2 DEF StartAt
    <3> QED
      BY <1>5, <1>7, <1>8, <1>10, <2>2, <3>1, SMTT(30)
  <2> QED
    BY Zenon, <2>1, <2>2
<1> HIDE DEF start
<1>12. start \in Chain[tip]
  BY Zenon, <1>2, <1>10, <1>11, CertifiedIsAChain
<1>13. /\ tree' \in TreeState /\ tree'.withheld \subseteq tree'.blocks
       /\ tree'.netTip.digest = tip /\ tree'.fin = start
  BY Zenon, <1>9, <1>10, <1>11 DEF NewTree, TreeState, Tip, start
<1>14. TypeOK'
  <2>1. restarts' \in 0 .. MaxRestarts
    BY <1>1, <1>2, BoundAssumption, SMTT(30)
  <2>2. floor' \in Nat /\ next' \in Nat /\ acked' \in Nat \cup {-1}
    <3>1. low \in Nat /\ floor' = low /\ next' \in {low, low + 1} /\ acked' = next' - 1
      BY Zenon, <1>1, <1>9, <1>10
    <3>2. next' \in Nat
      BY <3>1
    <3>3. \A k \in Nat : k - 1 \in Nat \cup {-1}
      OBVIOUS
    <3> QED
      BY Zenon, <3>1, <3>2, <3>3
  <2> QED
    BY Zenon, <1>1, <1>6, <1>13, <2>1, <2>2, NewActorType DEF PipelineInv, TypeOK
<1>15. (layer.fin \in Certified)'
  BY Zenon, <1>1, <1>6, <1>7, <1>8 DEF Certified
<1>16. floor' <= Height[tip] /\ next' <= floor' + 1
  <2>1. floor' = low /\ (next' = low \/ next' = low + 1)
    BY Zenon, <1>9
  <2> QED
    BY <1>10, <2>1, SMTT(30)
<1>17. PipelineInv'
  BY Zenon, <1>1, <1>2, <1>9, <1>12, <1>13, <1>14, <1>15, <1>16 DEF PipelineInv
<1>18. tip \in Chain[tree.netTip.digest] \/ tree.netTip.digest \in Chain[tip]
  <2>1. tree.netTip.digest \in certs \cup {Genesis} /\ tree.netTip.digest \in Block
    BY Zenon DEF PipelineInv, TypeOK, TreeState, Tip
  <2> QED
    BY Zenon, <1>2, <1>10, <2>1, GenesisIsCommon
<1>19. Log!Crash
  BY Zenon, <1>1, <1>10, <1>12, <1>13, <1>18 DEF Log!Crash
<1>20. restarts' # restarts
  BY <1>1, <1>2, BoundAssumption
<1>21. StartsInOrder
  BY Zenon, <1>1, NewActorType, NoTaskType DEF StartsInOrder
<1> QED
  BY Zenon, <1>17, <1>19, <1>20, <1>21 DEF StepKeepsPromises, Log!Next
==============================================================================
