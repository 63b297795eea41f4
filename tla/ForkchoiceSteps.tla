--------------------------- MODULE ForkchoiceSteps ---------------------------
(***************************************************************************)
(* The steps of the executor keep the invariant of the forkchoice state it *)
(* tracks and of the execution layer it drives.                            *)
(*                                                                         *)
(* On top of the pipeline's invariant: the layer follows the state the     *)
(* actor tracks or is about to track.  An update the executor submits is   *)
(* then never refused, since what the layer holds for final and what the   *)
(* executor finalizes are covered by certificates, which form one chain;   *)
(* so no task ends fatally and no acknowledged block is reorganized away.  *)
(***************************************************************************)
EXTENDS ForkchoiceLemmas

(* Blocks covered by certificates are comparable.                          *)
LEMMA CertifiedComparable ==
    ASSUME PipelineInv, NEW a \in Certified, NEW b \in Certified
    PROVE  Comparable(a, b)
<1>1. a \in Block /\ b \in Block
  BY Zenon DEF Certified
<1>2. Height[a] \in Nat /\ Height[b] \in Nat
  BY Zenon, <1>1, ChainOfBlocks
<1>3. Height[a] <= Height[b] \/ Height[b] <= Height[a]
  BY <1>2
<1>4. certs \subseteq Block /\ \A c, d \in certs : c \in Chain[d] \/ d \in Chain[c]
  BY Zenon DEF PipelineInv, TypeOK
<1> QED
  BY Zenon, <1>3, <1>4, CertifiedIsAChain DEF Comparable

(* What both invariants say of the blocks in play.                         *)
LEMMA ForkchoiceFacts ==
    ASSUME PipelineInv
    PROVE  /\ tree \in TreeState /\ tree.withheld \subseteq tree.blocks
           /\ actor \in ActorState /\ layer \in LayerState
           /\ next \in Nat /\ floor \in Nat /\ acked \in Int
           /\ tree.netTip.digest \in Block /\ tree.fin \in Block /\ tree.head \in Block
           /\ tree.pend.digest \in Block
           /\ layer.fin \in Block /\ layer.head \in Block
           /\ layer.fin \in Certified /\ tree.fin \in Certified
           /\ tree.netTip.digest \in Certified
           /\ tree.fin \in Chain[tree.netTip.digest]
           /\ Comparable(tree.netTip.digest, layer.fin)
           /\ Comparable(tree.fin, layer.fin)
           /\ LocalOf(tree) \in LocalState
           /\ LocalOf(tree).fin = tree.fin /\ LocalOf(tree).head = tree.head
<1>1. /\ tree \in TreeState /\ tree.withheld \subseteq tree.blocks
      /\ actor \in ActorState /\ layer \in LayerState
      /\ next \in Nat /\ floor \in Nat /\ acked \in Int
      /\ tree.fin \in Chain[tree.netTip.digest]
      /\ layer.fin \in Certified
  BY DEF PipelineInv, TypeOK
<1>2. /\ tree.netTip.digest \in Block /\ tree.fin \in Block /\ tree.head \in Block
      /\ tree.pend.digest \in Block
      /\ layer.fin \in Block /\ layer.head \in Block
  BY Zenon, <1>1 DEF TreeState, Tip, LayerState
<1>3. tree.netTip.digest \in Chain[tree.netTip.digest]
  BY Zenon, <1>2, ChainReflexive
<1>4. tree.fin \in Certified /\ tree.netTip.digest \in Certified
  BY Zenon, <1>1, <1>3, CoveredIsCertified
<1>5. /\ LocalOf(tree) \in LocalState
      /\ LocalOf(tree).fin = tree.fin /\ LocalOf(tree).head = tree.head
  BY Zenon, <1>2 DEF LocalOf, LocalState
<1> QED
  BY Zenon, <1>1, <1>2, <1>4, <1>5, CertifiedComparable

(* In the loop the invariant is Sound.                                     *)
LEMMA LoopIsSound ==
    /\ ForkchoiceInv /\ phase = "loop" => Sound(tree, actor, layer, next, acked)
    /\ phase = "loop" /\ Sound(tree, actor, layer, next, acked) => ForkchoiceInv
BY Zenon DEF ForkchoiceInv, Sound, HeadDescendsFromFinalized

(* A task ends: the layer follows the state it reports, or the tracked one *)
(* if it reports none.                                                     *)
LEMMA TaskEnds ==
    ASSUME PipelineInv, ForkchoiceInv, phase = "loop",
           NEW out \in Outcome, Finish(out), out.kind \in {"none", "rejected", "state"},
           actor.task.outcome = Running, actor.task.type # "none",
           UNCHANGED <<phase, tree, next>>,
           layer' \in LayerState, LayerSound(layer'), layer.known \subseteq layer'.known,
           layer'.fin \in {layer.fin, tree.fin, actor.task.block},
           actor.task.type = "finalize" => actor.task.block \in Chain[tree.netTip.digest],
           actor.task.type # "finalize" => layer'.fin \in {layer.fin, tree.fin},
           NEW ls \in LocalState, ls = IF out.kind = "state" THEN out.ls ELSE LocalOf(tree),
           Follows(layer', ls), acked' <= Height[ls.fin],
           out.kind = "state" =>
              ls.fin = IF actor.task.type = "finalize" THEN actor.task.block ELSE tree.fin
    PROVE  ForkchoiceInv'
<1>1. /\ tree \in TreeState /\ actor \in ActorState
      /\ tree.netTip.digest \in Block /\ tree.fin \in Block
      /\ layer.fin \in Block /\ tree.fin \in Chain[tree.netTip.digest]
  BY Zenon, ForkchoiceFacts
<1>2. /\ actor'.queue = actor.queue
      /\ actor'.task.type = actor.task.type
      /\ actor'.task.block = actor.task.block
      /\ actor'.task.on = actor.task.on
      /\ actor'.task.outcome = out
  BY Zenon, <1>1 DEF Finish, ActorState, Task
<1>3. Latest(tree, actor') = ls
  BY Zenon, <1>2 DEF Latest
<1>4. Sound(tree, actor, layer, next, acked)
  BY Zenon, LoopIsSound
<1>5. Height[layer'.fin] > Height[tree.netTip.digest] =>
         Comparable(tree.pend.digest, layer'.fin)
  <2>1. CASE layer'.fin = layer.fin
    BY Zenon, <1>4, <2>1 DEF Sound
  <2>2. CASE layer'.fin \in Chain[tree.netTip.digest]
    <3>1. layer'.fin \in Block
      BY Zenon DEF LayerState
    <3>2. Height[layer'.fin] <= Height[tree.netTip.digest]
      BY Zenon, <1>1, <2>2, <3>1, ChainHeight
    <3>3. Height[layer'.fin] \in Nat /\ Height[tree.netTip.digest] \in Nat
      BY Zenon, <1>1, <3>1, ChainOfBlocks
    <3> QED
      BY <3>2, <3>3
  <2> QED
    BY Zenon, <1>1, <2>1, <2>2
<1>6. ASSUME actor.task.type = "block"
      PROVE  /\ tree.fin \in Chain[actor.task.block] \ {actor.task.block}
             /\ Parent[actor.task.block] \in layer'.known
             /\ Height[layer'.fin] > Height[tree.fin] =>
                   Comparable(actor.task.block, layer'.fin)
  <2>1. /\ tree.fin \in Chain[actor.task.block] \ {actor.task.block}
        /\ Parent[actor.task.block] \in layer.known
        /\ Height[layer.fin] > Height[tree.fin] => Comparable(actor.task.block, layer.fin)
    BY Zenon, <1>4, <1>6 DEF Sound, TaskSound
  <2>2. layer'.fin \in {layer.fin, tree.fin} /\ Height[tree.fin] \in Nat
    BY Zenon, <1>1, <1>6, ChainOfBlocks
  <2> QED
    BY <2>1, <2>2
<1>7. /\ actor.task.type # "none" => actor.task.on = LocalOf(tree)
      /\ actor.task.type # "finalize" => Height[tree.fin] <= next - Len(actor.queue)
      /\ actor.task.type = "finalize" => Height[tree.fin] <= Height[actor.task.block]
      /\ actor.task.type = "repoint" => actor.task.block = tree.fin
  BY Zenon, <1>4 DEF Sound, TaskSound
<1>8. TaskSound(tree, actor', layer', next, acked')
  BY Zenon, <1>2, <1>3, <1>6, <1>7 DEF TaskSound
<1>9. Sound(tree, actor', layer', next, acked')
  BY Zenon, <1>3, <1>4, <1>5, <1>8 DEF Sound
<1>10. (phase = "loop" /\ Sound(tree, actor, layer, next, acked))'
  BY Zenon, <1>9
<1> QED
  BY <1>10, LoopIsSound, PTL

(* What a task in flight knows of the tracked state.                       *)
LEMMA InFlightSound ==
    ASSUME PipelineInv, ForkchoiceInv, NEW type \in TaskType \ {"none"}, InFlight(type)
    PROVE  /\ phase = "loop" /\ actor.task.outcome = Running
           /\ actor.task.type = type /\ type # "none"
           /\ actor.task.on = LocalOf(tree) /\ actor.task.on \in LocalState
           /\ actor.task.block \in Block
           /\ layer \in LayerState /\ LayerSound(layer)
           /\ Follows(layer, actor.task.on) /\ Acceptable(layer, actor.task.on)
           /\ acked <= Height[tree.fin]
           /\ TaskSound(tree, actor, layer, next, acked)
<1>1. phase = "loop" /\ actor.task.type = type /\ actor.task.outcome = Running
  BY Zenon DEF InFlight
<1>2. /\ Sound(tree, actor, layer, next, acked)
      /\ Latest(tree, actor) = LocalOf(tree)
  BY <1>1, LoopIsSound DEF Latest, Running
<1>3. actor.task.on = LocalOf(tree) /\ acked <= Height[tree.fin]
  BY <1>1, <1>2 DEF Sound, TaskSound, LocalOf
<1>4. /\ layer \in LayerState /\ layer.fin \in Block /\ tree.fin \in Block
      /\ LocalOf(tree) \in LocalState /\ LocalOf(tree).fin = tree.fin
      /\ Comparable(tree.fin, layer.fin) /\ actor \in ActorState
  BY Zenon, ForkchoiceFacts
<1>5. Follows(layer, LocalOf(tree)) /\ LayerSound(layer)
      /\ TaskSound(tree, actor, layer, next, acked)
  BY Zenon, <1>2 DEF Sound
<1>6. Acceptable(layer, LocalOf(tree))
  BY Zenon, <1>4, <1>5, FollowedIsAcceptable, ChainOfBlocks
<1>7. actor.task.block \in Block
  BY Zenon, <1>4 DEF ActorState, Task
<1> QED
  BY Zenon, <1>1, <1>3, <1>4, <1>5, <1>6, <1>7

(* A build or a heartbeat submits the tracked state again, or its call     *)
(* fails on the way there or back.                                         *)
LEMMA TrackedSubmitted ==
    ASSUME PipelineInv, ForkchoiceInv,
           NEW type \in {"build", "heartbeat"}, InFlight(type),
           layer' \in {layer, SubmitForkchoiceUpdate(layer, actor.task.on)},
           NEW out \in Outcome, Finish(out),
           out.kind = "none" \/ (out.kind = "state" /\ out.ls = actor.task.on),
           UNCHANGED <<phase, tree, next, acked>>
    PROVE  ForkchoiceInv'
<1> DEFINE on == actor.task.on
<1>1. /\ phase = "loop" /\ actor.task.outcome = Running
      /\ actor.task.type = type /\ type # "none" /\ type # "finalize"
      /\ on = LocalOf(tree) /\ on \in LocalState
      /\ layer \in LayerState /\ LayerSound(layer)
      /\ Follows(layer, on) /\ Acceptable(layer, on)
      /\ acked <= Height[tree.fin]
  BY Zenon, InFlightSound DEF TaskType
<1>2. on.fin = tree.fin
  BY <1>1 DEF LocalOf
<1> HIDE DEF on
<1>3. /\ layer' \in LayerState /\ LayerSound(layer') /\ Follows(layer', on)
      /\ layer'.known = layer.known /\ layer'.fin \in {layer.fin, tree.fin}
  <2>1. CASE layer' = layer
    BY Zenon, <1>1, <2>1
  <2>2. CASE layer' = SubmitForkchoiceUpdate(layer, on)
    BY Zenon, <1>1, <1>2, <2>2, SubmitSound
  <2> QED
    BY Zenon, <2>1, <2>2 DEF on
<1>4. on = IF out.kind = "state" THEN out.ls ELSE LocalOf(tree)
  BY Zenon, <1>1 DEF on
<1>5. out.kind \in {"none", "rejected", "state"}
  BY Zenon
<1>6. acked' <= Height[on.fin]
  BY Zenon, <1>1, <1>2
<1> QED
  BY Zenon, <1>1, <1>2, <1>3, <1>4, <1>5, <1>6, TaskEnds

LEMMA HeartbeatSound ==
    ASSUME PipelineInv, ForkchoiceInv, ExecuteHeartbeat
    PROVE  ForkchoiceInv'
BY Zenon, TrackedSubmitted, OutcomeTypes DEF ExecuteHeartbeat, environment

LEMMA BuildSound ==
    ASSUME PipelineInv, ForkchoiceInv, ExecuteBuild
    PROVE  ForkchoiceInv'
<1>1. InFlight("build") /\ layer' = SubmitForkchoiceUpdate(layer, actor.task.on)
      /\ UNCHANGED <<phase, tree, next, acked>>
  BY Zenon DEF ExecuteBuild, environment
<1>2. PICK canceled \in BOOLEAN :
         Finish(IF FcuAccepted(layer, actor.task.on)
                THEN CompletedWith(actor.task.on,
                                   ~ canceled /\ ~ FcuSkipped(layer, actor.task.on))
                ELSE Completed)
  BY Zenon DEF ExecuteBuild
<1>3. actor.task.on \in LocalState
  BY Zenon, <1>1, InFlightSound DEF TaskType
<1>4. CASE FcuAccepted(layer, actor.task.on)
  <2>1. PICK job \in BOOLEAN : job = (~ canceled /\ ~ FcuSkipped(layer, actor.task.on))
    BY Zenon
  <2>2. Finish(CompletedWith(actor.task.on, job))
    BY Zenon, <1>2, <1>4, <2>1
  <2> QED
    BY ZenonT(30), <1>1, <1>3, <2>2, TrackedSubmitted, OutcomeTypes
<1>5. CASE ~ FcuAccepted(layer, actor.task.on)
  <2>1. Finish(Completed)
    BY Zenon, <1>2, <1>5
  <2> QED
    BY Zenon, <1>1, <2>1, TrackedSubmitted, OutcomeTypes
<1> QED
  BY Zenon, <1>4, <1>5

(* A validation, or a notarized block whose forkchoice update was not      *)
(* made, at most executes a block.                                         *)
LEMMA BlockExecuted ==
    ASSUME PipelineInv, ForkchoiceInv,
           NEW type \in {"verify", "block"}, InFlight(type),
           layer' \in {layer, NewPayload(layer, actor.task.block)},
           NEW out \in {Completed, Rejected}, Finish(out),
           UNCHANGED <<phase, tree, next, acked>>
    PROVE  ForkchoiceInv'
<1> DEFINE on == actor.task.on
<1>1. /\ phase = "loop" /\ actor.task.outcome = Running
      /\ actor.task.type = type /\ type # "none" /\ type # "finalize"
      /\ on = LocalOf(tree) /\ on \in LocalState /\ actor.task.block \in Block
      /\ layer \in LayerState /\ LayerSound(layer) /\ Follows(layer, on)
      /\ acked <= Height[tree.fin]
  BY Zenon, InFlightSound DEF TaskType
<1>2. on.fin = tree.fin
  BY <1>1 DEF LocalOf
<1> HIDE DEF on
<1>3. /\ layer' \in LayerState /\ LayerSound(layer') /\ Follows(layer', on)
      /\ layer.known \subseteq layer'.known /\ layer'.fin = layer.fin
  <2>1. CASE layer' = layer
    BY Zenon, <1>1, <2>1
  <2>2. CASE layer' = NewPayload(layer, actor.task.block)
    BY Zenon, <1>1, <2>2, NewPayloadSound, FollowsMore
  <2> QED
    BY Zenon, <2>1, <2>2
<1>4. /\ out \in Outcome /\ out.kind \in {"none", "rejected"}
  BY Zenon, OutcomeTypes
<1>5. on = IF out.kind = "state" THEN out.ls ELSE LocalOf(tree)
  BY Zenon, <1>1, <1>4
<1>6. acked' <= Height[on.fin]
  BY Zenon, <1>1, <1>2
<1> QED
  BY Zenon, <1>1, <1>2, <1>3, <1>4, <1>5, <1>6, TaskEnds

LEMMA ValidationSound ==
    ASSUME PipelineInv, ForkchoiceInv, ExecuteValidation
    PROVE  ForkchoiceInv'
BY Zenon, BlockExecuted DEF ExecuteValidation, environment

(* A call that fails and leaves the node running does no more than a call  *)
(* that is answered.                                                       *)
LEMMA HeartbeatFailsSound ==
    ASSUME PipelineInv, ForkchoiceInv, HeartbeatFails
    PROVE  ForkchoiceInv'
BY Zenon, TrackedSubmitted, OutcomeTypes DEF HeartbeatFails, CallFails

LEMMA BuildFailsSound ==
    ASSUME PipelineInv, ForkchoiceInv, BuildFails
    PROVE  ForkchoiceInv'
BY Zenon, TrackedSubmitted, OutcomeTypes DEF BuildFails, CallFails

LEMMA NotarizationFailsSound ==
    ASSUME PipelineInv, ForkchoiceInv, NotarizationFails
    PROVE  ForkchoiceInv'
BY Zenon, BlockExecuted DEF NotarizationFails, CallFails

(* A node that stops leaves at most one more block executed.               *)
LEMMA StopSound ==
    ASSUME PipelineInv, ForkchoiceInv, NEW b \in Block,
           layer' \in {layer, NewPayload(layer, b)},
           phase' = "stopped", UNCHANGED <<tree, actor>>
    PROVE  ForkchoiceInv'
<1>1. /\ layer \in LayerState /\ LayerSound(layer)
      /\ Follows(layer, Latest(tree, actor))
  BY Zenon, ForkchoiceFacts DEF ForkchoiceInv
<1>2. /\ LayerSound(layer') /\ layer'.fin = layer.fin
      /\ Follows(layer', Latest(tree, actor))
  <2>1. CASE layer' = layer
    BY Zenon, <1>1, <2>1
  <2>2. CASE layer' = NewPayload(layer, b)
    BY Zenon, <1>1, <2>2, NewPayloadSound, FollowsMore
  <2> QED
    BY Zenon, <2>1, <2>2
<1>3. Latest(tree', actor') = Latest(tree, actor)
  BY Zenon
<1> QED
  BY ZenonT(30), <1>2, <1>3 DEF ForkchoiceInv, HeadDescendsFromFinalized

LEMMA TaskStopsSound ==
    ASSUME PipelineInv, ForkchoiceInv, FinalizationFails \/ RepointFails
    PROVE  ForkchoiceInv'
<1>1. actor.task.block \in Block
  BY Zenon, ForkchoiceFacts DEF ActorState, Task
<1> QED
  BY Zenon, <1>1, StopSound DEF FinalizationFails, RepointFails, CallFails

(* Forwarding a finalized block forgets no executed block.                 *)
LEMMA ForwardFinalizedKnows ==
    ASSUME NEW e \in LayerState, NEW ls \in LocalState, NEW b \in Block
    PROVE  e.known \subseteq ForwardFinalized(e, ls, b).known
<1>1. /\ NewPayload(e, b) \in LayerState
      /\ e.known \subseteq NewPayload(e, b).known
  BY Zenon DEF NewPayload, LayerState
<1>2. ASSUME NEW p \in LayerState, NEW u
      PROVE  SubmitForkchoiceUpdate(p, u).known = p.known
  BY Zenon DEF SubmitForkchoiceUpdate, ForkChoiceUpdated, LayerState
<1>3. CASE DeliveryInOrder(ls, b) /\ PayloadValid(e, b)
  <2>1. ForwardFinalized(e, ls, b) =
           SubmitForkchoiceUpdate(NewPayload(e, b), FinalizationTarget(e, ls, b))
    BY Zenon, <1>3 DEF ForwardFinalized
  <2> QED
    BY Zenon, <1>1, <1>2, <2>1
<1>4. CASE ~ (DeliveryInOrder(ls, b) /\ PayloadValid(e, b))
  BY Zenon, <1>4 DEF ForwardFinalized
<1> QED
  BY Zenon, <1>3, <1>4

(* The head moves, after a block was executed or for a repoint: an         *)
(* acceptable target is accepted and becomes the state to track.           *)
LEMMA HeadMoved ==
    ASSUME PipelineInv, ForkchoiceInv,
           NEW type \in {"block", "repoint"}, InFlight(type),
           NEW p \in LayerState, LayerSound(p),
           p.head = layer.head, p.fin = layer.fin, layer.known \subseteq p.known,
           NEW ls, ls = UpdateHead(actor.task.on, actor.task.block), Acceptable(p, ls)
    PROVE  /\ NotarizationAccepted(p, actor.task.on, actor.task.block)
           /\ /\ layer' = ForwardNotarized(p, actor.task.on, actor.task.block)
              /\ Finish(CompletedWith(ls, FALSE))
              /\ UNCHANGED <<phase, tree, next, acked>>
              => ForkchoiceInv'
<1> DEFINE on == actor.task.on
           b == actor.task.block
           out == CompletedWith(ls, FALSE)
<1>1. /\ phase = "loop" /\ actor.task.outcome = Running
      /\ actor.task.type = type /\ type # "none" /\ type # "finalize"
      /\ on = LocalOf(tree) /\ on \in LocalState /\ b \in Block
      /\ layer \in LayerState /\ LayerSound(layer) /\ Follows(layer, on)
      /\ acked <= Height[tree.fin]
  BY Zenon, InFlightSound DEF TaskType
<1>2. on.fin = tree.fin
  BY <1>1 DEF LocalOf
<1>3. ls \in LocalState /\ ls.fin = tree.fin
  BY Zenon, <1>1, <1>2, LocalStateUpdates
<1>4. /\ FcuAccepted(p, ls)
      /\ SubmitForkchoiceUpdate(p, ls) \in LayerState
      /\ LayerSound(SubmitForkchoiceUpdate(p, ls))
      /\ Follows(SubmitForkchoiceUpdate(p, ls), ls)
      /\ SubmitForkchoiceUpdate(p, ls).known = p.known
      /\ SubmitForkchoiceUpdate(p, ls).fin \in {p.fin, ls.fin}
  BY Zenon, <1>3, SubmitSound
<1>5. NotarizationAccepted(p, on, b)
  BY Zenon, <1>4 DEF NotarizationAccepted
<1>6. out \in Outcome /\ out.kind = "state" /\ out.ls = ls
  BY Zenon, <1>3, OutcomeTypes
<1> HIDE DEF out
<1>7. ASSUME layer' = ForwardNotarized(p, on, b), Finish(out),
             UNCHANGED <<phase, tree, next, acked>>
      PROVE  ForkchoiceInv'
  <2>1. /\ layer' \in LayerState /\ LayerSound(layer') /\ Follows(layer', ls)
        /\ layer.known \subseteq layer'.known /\ layer'.fin \in {layer.fin, tree.fin}
    <3>1. CASE ls = on
      <4>1. layer' = p
        BY Zenon, <1>7, <3>1 DEF ForwardNotarized
      <4> QED
        BY Zenon, <1>1, <3>1, <4>1, FollowsMore
    <3>2. CASE ls # on
      <4>1. layer' = SubmitForkchoiceUpdate(p, ls)
        BY Zenon, <1>7, <3>2 DEF ForwardNotarized
      <4> QED
        BY Zenon, <1>3, <1>4, <4>1
    <3> QED
      BY Zenon, <3>1, <3>2
  <2>2. ls = IF out.kind = "state" THEN out.ls ELSE LocalOf(tree)
    BY Zenon, <1>6
  <2>3. acked' <= Height[ls.fin]
    BY Zenon, <1>1, <1>3, <1>7
  <2>4. out.kind \in {"none", "rejected", "state"}
    BY Zenon, <1>6
  <2> QED
    BY ZenonT(30), <1>1, <1>3, <1>6, <1>7, <2>1, <2>2, <2>3, <2>4, TaskEnds
<1>8. /\ layer' = ForwardNotarized(p, on, b) /\ Finish(out)
      /\ UNCHANGED <<phase, tree, next, acked>>
      => ForkchoiceInv'
  BY Zenon, <1>7
<1> QED
  BY ZenonT(30), <1>5, <1>8 DEF out

(* A notarized block is a child of the tracked head or of the finalized    *)
(* block, both executed, so it is never rejected by a layer that answers.  *)
LEMMA NotarizationSound ==
    ASSUME PipelineInv, ForkchoiceInv, ExecuteNotarization
    PROVE  ForkchoiceInv'
<1> DEFINE on == actor.task.on
           b == actor.task.block
           p == NewPayload(layer, b)
           ls == UpdateHead(on, b)
<1>1. InFlight("block") /\ UNCHANGED <<phase, tree, next, acked>>
  BY Zenon DEF ExecuteNotarization, environment
<1>2. /\ on = LocalOf(tree) /\ on \in LocalState /\ b \in Block
      /\ actor.task.type = "block"
      /\ layer \in LayerState /\ LayerSound(layer) /\ Follows(layer, on)
      /\ TaskSound(tree, actor, layer, next, acked)
  BY Zenon, <1>1, InFlightSound DEF TaskType
<1>3. /\ tree.fin \in Chain[b] /\ tree.fin # b /\ Parent[b] \in layer.known
      /\ Height[layer.fin] > Height[tree.fin] => Comparable(b, layer.fin)
  BY Zenon, <1>2 DEF TaskSound
<1>4. /\ tree.fin \in Block /\ layer.fin \in Block /\ Comparable(tree.fin, layer.fin)
      /\ on.fin = tree.fin
  BY Zenon, <1>2, ForkchoiceFacts
<1>5. PayloadValid(layer, b)
  BY Zenon, <1>3 DEF PayloadValid
<1>6. /\ p \in LayerState /\ LayerSound(p) /\ b \in p.known
      /\ p.head = layer.head /\ p.fin = layer.fin /\ layer.known \subseteq p.known
  BY Zenon, <1>2, <1>5, NewPayloadSound
<1>7. Height[b] > Height[tree.fin]
  <2>1. Height[tree.fin] <= Height[b] /\ Height[tree.fin] # Height[b]
    BY <1>2, <1>3, <1>4, ChainAssumption
  <2>2. Height[tree.fin] \in Nat /\ Height[b] \in Nat
    BY Zenon, <1>2, <1>4, ChainOfBlocks
  <2> QED
    BY SMTT(30), <2>1, <2>2
<1>8. ls.head = b /\ ls.fin = tree.fin
  BY Zenon, <1>2, <1>4, <1>7 DEF UpdateHead, LocalState
<1>9. layer' = ForwardNotarized(p, on, b)
  BY Zenon, <1>5 DEF ExecuteNotarization
<1>10. NotarizationAccepted(p, on, b) => Finish(CompletedWith(ls, FALSE))
  BY Zenon, <1>5 DEF ExecuteNotarization
<1> HIDE DEF ls, p
<1>11. Acceptable(p, ls)
  BY Zenon, <1>3, <1>4, <1>6, <1>8 DEF Acceptable
<1> QED
  BY Zenon, <1>1, <1>6, <1>9, <1>10, <1>11, HeadMoved DEF ls

(* A repoint goes to the tracked finalized block, which is executed and    *)
(* which the layer's finality does not contradict.                         *)
LEMMA RepointSound ==
    ASSUME PipelineInv, ForkchoiceInv, ExecuteRepoint
    PROVE  ForkchoiceInv'
<1> DEFINE on == actor.task.on
           b == actor.task.block
           ls == UpdateHead(on, b)
<1>1. InFlight("repoint") /\ UNCHANGED <<phase, tree, next, acked>>
  BY Zenon DEF ExecuteRepoint, environment
<1>2. /\ on = LocalOf(tree) /\ on \in LocalState /\ b \in Block
      /\ actor.task.type = "repoint"
      /\ layer \in LayerState /\ LayerSound(layer) /\ Follows(layer, on)
      /\ TaskSound(tree, actor, layer, next, acked)
  BY Zenon, <1>1, InFlightSound DEF TaskType
<1>3. b = tree.fin
  BY Zenon, <1>2 DEF TaskSound
<1>4. /\ tree.fin \in Block /\ layer.fin \in Block /\ Comparable(tree.fin, layer.fin)
      /\ on.fin = tree.fin
  BY Zenon, <1>2, ForkchoiceFacts
<1>5. tree.fin \in layer.known
  BY Zenon, <1>2, <1>4 DEF Follows, LayerSound
<1>6. ls.head = tree.fin /\ ls.fin = tree.fin
  BY Zenon, <1>2, <1>3, <1>4 DEF UpdateHead, LocalState
<1>7. layer' = ForwardNotarized(layer, on, b)
  BY Zenon DEF ExecuteRepoint
<1>8. NotarizationAccepted(layer, on, b) => Finish(CompletedWith(ls, FALSE))
  BY Zenon DEF ExecuteRepoint
<1> HIDE DEF ls
<1>9. Acceptable(layer, ls)
  BY Zenon, <1>4, <1>5, <1>6, ChainReflexive DEF Acceptable
<1> QED
  BY Zenon, <1>1, <1>2, <1>7, <1>8, <1>9, HeadMoved DEF ls

(* A finalized block, delivered in order, is always accepted.              *)
LEMMA FinalizationSound ==
    ASSUME PipelineInv, ForkchoiceInv, ExecuteFinalization
    PROVE  ForkchoiceInv'
<1> DEFINE on == actor.task.on
           b == actor.task.block
           ls == FinalizationTarget(layer, on, b)
           out == CompletedWith(ls, FALSE)
<1>1. InFlight("finalize") /\ UNCHANGED <<phase, tree, next>>
  BY Zenon DEF ExecuteFinalization, environment
<1>2. /\ phase = "loop" /\ actor.task.outcome = Running
      /\ on = LocalOf(tree) /\ on \in LocalState /\ b \in Block
      /\ actor.task.type = "finalize"
      /\ layer \in LayerState /\ LayerSound(layer) /\ Follows(layer, on)
      /\ TaskSound(tree, actor, layer, next, acked)
  BY Zenon, <1>1, InFlightSound DEF TaskType
<1>3. Height[tree.fin] <= Height[b]
  BY Zenon, <1>2 DEF TaskSound
<1>4. /\ b \in Chain[tree.netTip.digest] /\ Height[b] <= Height[tree.fin] + 1
  BY Zenon, <1>2, LoopFacts DEF Pipeline
<1>5. /\ tree.netTip.digest \in Block /\ tree.fin \in Block /\ layer.fin \in Block
      /\ Comparable(tree.fin, layer.fin) /\ layer.fin \in Certified
      /\ on.fin = tree.fin /\ tree.fin \in Chain[tree.netTip.digest]
  BY Zenon, <1>2, ForkchoiceFacts
<1>6. Comparable(b, layer.fin)
  BY ZenonT(30), <1>4, <1>5, CoveredIsCertified, CertifiedComparable
<1>7. /\ FinalizationAccepted(layer, on, b)
      /\ ls \in LocalState /\ ls.fin = b
      /\ ForwardFinalized(layer, on, b) \in LayerState
      /\ LayerSound(ForwardFinalized(layer, on, b))
      /\ Follows(ForwardFinalized(layer, on, b), ls)
      /\ ForwardFinalized(layer, on, b).fin \in {layer.fin, b}
  BY ZenonT(60), <1>2, <1>3, <1>4, <1>5, <1>6, FinalizeSound
<1>8. layer' = ForwardFinalized(layer, on, b)
  BY Zenon DEF ExecuteFinalization
<1>9. acked' = Height[b] /\ Finish(out)
  BY Zenon, <1>7 DEF ExecuteFinalization
<1>10. layer.known \subseteq layer'.known
  BY Zenon, <1>2, <1>7, <1>8, ForwardFinalizedKnows
<1>11. out \in Outcome /\ out.kind = "state" /\ out.ls = ls
  BY Zenon, <1>7, OutcomeTypes
<1> HIDE DEF out, ls
<1>12. ls = IF out.kind = "state" THEN out.ls ELSE LocalOf(tree)
  BY Zenon, <1>11
<1>13. Height[b] \in Nat
  BY Zenon, <1>2, ChainOfBlocks
<1>14. acked' <= Height[ls.fin] /\ out.kind \in {"none", "rejected", "state"}
  <2>1. acked' = Height[ls.fin] /\ Height[ls.fin] \in Nat
    BY Zenon, <1>7, <1>9, <1>13
  <2> QED
    BY SMT, <1>11, <2>1
<1>15. /\ layer' \in LayerState /\ LayerSound(layer') /\ Follows(layer', ls)
       /\ layer'.fin \in {layer.fin, tree.fin, b}
  BY Zenon, <1>7, <1>8
<1> QED
  BY ZenonT(30), <1>1, <1>2, <1>4, <1>7, <1>9, <1>10, <1>11, <1>12, <1>14, <1>15, TaskEnds

(* The branches of the loop.                                               *)

------------------------------------------------------------------------------

(* A branch that ends at the top of the loop with a sound state.           *)
LEMMA LoopSound ==
    ASSUME PipelineInv, phase' = "loop",
           NEW t \in TreeState, t.withheld \subseteq t.blocks,
           NEW a \in ActorState,
           t.fin \in Chain[t.netTip.digest], Comparable(t.netTip.digest, layer.fin),
           NEW n \in Nat, next' = n, Pipeline(t, a, n), Sound(t, a, layer, n, acked),
           LoopTop(t, a), UNCHANGED <<layer, acked>>
    PROVE  ForkchoiceInv'
<1>1. layer \in LayerState /\ acked \in Int
  BY Zenon, ForkchoiceFacts
<1>2. Sound(tree', actor', layer, n, acked)
  BY Zenon, <1>1, LoopTopSound
<1>3. (phase = "loop" /\ Sound(tree, actor, layer, next, acked))'
  BY Zenon, <1>2
<1> QED
  BY <1>3, LoopIsSound, PTL

(* A branch that changes neither the tips, the head nor the pipeline.      *)
LEMMA BranchSound ==
    ASSUME PipelineInv, ForkchoiceInv, phase = "loop",
           NEW t, SameTips(tree, t), t.head = tree.head,
           t.pend.digest \in {tree.pend.digest, tree.netTip.digest},
           NEW a \in ActorState, a.queue = actor.queue, a.task = actor.task,
           LoopTop(t, a), UNCHANGED <<phase, layer, acked, next>>
    PROVE  ForkchoiceInv'
<1>1. /\ tree \in TreeState /\ next \in Nat /\ Pipeline(tree, actor, next)
      /\ Comparable(tree.netTip.digest, layer.fin)
      /\ tree.fin \in Chain[tree.netTip.digest]
  BY Zenon, ForkchoiceFacts, LoopFacts
<1>2. /\ t \in TreeState /\ t.withheld \subseteq t.blocks
      /\ t.netTip = tree.netTip /\ t.fin = tree.fin
  BY Zenon DEF SameTips
<1>3. Pipeline(t, a, next)
  BY Zenon, <1>1, <1>2, PipelineDepends
<1>4. Sound(tree, actor, layer, next, acked)
  BY Zenon, LoopIsSound
<1>5. Sound(t, a, layer, next, acked)
  BY Zenon, <1>1, <1>2, <1>4, SoundDepends
<1>6. PICK n \in Nat : n = next
  BY Zenon, <1>1
<1> QED
  BY Zenon, <1>1, <1>2, <1>3, <1>5, <1>6, LoopSound

(* The outcome of a task becomes the tracked state.                        *)
LEMMA TaskFinishedSound ==
    ASSUME PipelineInv, ForkchoiceInv, HandleExecutionTaskFinished
    PROVE  ForkchoiceInv'
<1> DEFINE task == actor.task
           out == task.outcome
           freed == [actor EXCEPT !.task = NoTask,
                                  !.jobs = IF out.job THEN @ \cup {task.block} ELSE @]
<1>1. phase = "loop" /\ task.type # "none" /\ out.kind # "running"
  BY Zenon DEF HandleExecutionTaskFinished, Idle
<1>2. /\ tree \in TreeState /\ tree.withheld \subseteq tree.blocks
      /\ actor \in ActorState /\ Pipeline(tree, actor, next) /\ next \in Nat
      /\ Height[tree.fin] \in Nat
      /\ tree.fin \in Chain[tree.netTip.digest]
      /\ Comparable(tree.netTip.digest, layer.fin)
  BY Zenon, <1>1, LoopFacts, ForkchoiceFacts
<1>3. task \in Task /\ task.block \in Block /\ out \in Outcome /\ Len(actor.queue) \in Nat
  BY <1>2 DEF ActorState, Task
<1>4. freed \in ActorState /\ freed.queue = actor.queue /\ freed.task = NoTask
  BY Zenon, <1>2, <1>3, NoTaskType DEF ActorState
<1> HIDE DEF freed
<1>5. Sound(tree, actor, layer, next, acked)
  BY Zenon, <1>1, LoopIsSound
<1>6. out.kind # "fatal"
  BY Zenon, <1>5 DEF Sound, TaskSound
<1>7. UNCHANGED <<phase, layer, acked, next>>
  BY Zenon, <1>6 DEF HandleExecutionTaskFinished, environment
<1>8. ASSUME NEW t \in TreeState, t.withheld \subseteq t.blocks,
             t.netTip = tree.netTip, t.pend.digest = tree.pend.digest,
             t.fin \in Chain[tree.netTip.digest],
             LocalOf(t) = Latest(tree, actor),
             next - Len(actor.queue) <= Height[t.fin] + 1,
             Height[t.fin] <= next - Len(actor.queue),
             LoopTop(t, freed)
      PROVE  ForkchoiceInv'
  <2>1. Pipeline(t, freed, next)
    <3>1. \A i \in 1 .. Len(actor.queue) :
              /\ actor.queue[i] \in Chain[tree.netTip.digest]
              /\ Height[actor.queue[i]] = next - Len(actor.queue) + i - 1
      BY Zenon, <1>2 DEF Pipeline
    <3> QED
      BY Zenon, <1>4, <1>8, <3>1, NoTaskType DEF Pipeline
  <2>2. Latest(t, freed) = LocalOf(t) /\ LocalOf(t).fin = t.fin /\ LocalOf(t).head = t.head
    BY Zenon, <1>4, NoTaskType DEF Latest, LocalOf
  <2>3. acked <= Height[t.fin]
    BY Zenon, <1>5, <1>8, <2>2 DEF Sound, TaskSound
  <2>4. TaskSound(t, freed, layer, next, acked)
    BY Zenon, <1>4, <1>8, <2>2, <2>3, NoTaskType DEF TaskSound
  <2>5. Sound(t, freed, layer, next, acked)
    BY Zenon, <1>5, <1>8, <2>2, <2>4 DEF Sound, Follows
  <2>6. PICK n \in Nat : n = next
    BY Zenon, <1>2
  <2> QED
    BY ZenonT(30), <1>1, <1>2, <1>4, <1>7, <1>8, <2>1, <2>5, <2>6, LoopSound
<1>9. task.type # "finalize" =>
         /\ next - Len(actor.queue) <= Height[tree.fin] + 1
         /\ Height[tree.fin] <= next - Len(actor.queue)
  BY Zenon, <1>2, <1>5 DEF Pipeline, Sound, TaskSound
<1>10. CASE out.kind = "state"
  <2> DEFINE t == SetLocalState(tree, out.ls)
  <2>1. out.ls \in LocalState
    BY Zenon, <1>3 DEF Outcome
  <2>2. /\ t \in TreeState /\ t.withheld \subseteq t.blocks
        /\ t.netTip = tree.netTip /\ t.pend = tree.pend
        /\ t.fin = out.ls.fin /\ t.head = out.ls.head
    BY Zenon, <1>2, <2>1 DEF SetLocalState, TreeState, LocalState
  <2>3. LoopTop(t, freed)
    BY Zenon, <1>10 DEF HandleExecutionTaskFinished, freed
  <2> HIDE DEF t
  <2>4. LocalOf(t) = Latest(tree, actor)
    BY Zenon, <1>10, <2>1, <2>2 DEF LocalOf, Latest, LocalState
  <2>5. t.fin \in Chain[tree.netTip.digest]
    BY Zenon, <1>2, <1>10, <2>2 DEF Pipeline
  <2>6. /\ next - Len(actor.queue) <= Height[t.fin] + 1
        /\ Height[t.fin] <= next - Len(actor.queue)
    <3>1. CASE task.type = "finalize"
      <4>1. t.fin = task.block
        BY Zenon, <1>5, <1>10, <2>2, <3>1 DEF Sound, TaskSound
      <4>2. Height[task.block] = next - Len(actor.queue) - 1
        BY Zenon, <1>2, <3>1 DEF Pipeline
      <4>3. PICK l \in Nat : l = Len(actor.queue)
        BY Zenon, <1>3
      <4>4. PICK h \in Nat : h = Height[t.fin]
        BY Zenon, <1>3, <4>1, ChainOfBlocks
      <4>5. h = next - l - 1 /\ next \in Nat
        BY Zenon, <1>2, <4>1, <4>2, <4>3, <4>4
      <4>6. next - l <= h + 1 /\ h <= next - l
        BY <4>5
      <4> QED
        BY Zenon, <4>3, <4>4, <4>6
    <3>2. CASE task.type # "finalize"
      <4>1. t.fin = tree.fin
        BY Zenon, <1>5, <1>10, <2>2, <3>2 DEF Sound, TaskSound
      <4> QED
        BY Zenon, <1>9, <3>2, <4>1
    <3> QED
      BY Zenon, <3>1, <3>2
  <2> QED
    BY Zenon, <1>8, <2>2, <2>3, <2>4, <2>5, <2>6
<1>11. CASE out.kind \in {"none", "rejected"}
  <2>1. task.type # "finalize"
    BY Zenon, <1>2, <1>11 DEF Pipeline
  <2>2. ASSUME NEW t, SameTips(tree, t), t.head = tree.head,
               t.pend.digest = tree.pend.digest, LoopTop(t, freed)
        PROVE  ForkchoiceInv'
    <3>1. /\ t \in TreeState /\ t.withheld \subseteq t.blocks
          /\ t.netTip = tree.netTip /\ t.fin = tree.fin
      BY Zenon, <2>2 DEF SameTips
    <3>2. LocalOf(t) = Latest(tree, actor)
      BY Zenon, <1>11, <2>2, <3>1 DEF Latest, LocalOf
    <3> QED
      BY ZenonT(30), <1>2, <1>8, <1>9, <2>1, <2>2, <3>1, <3>2
  <2>3. LoopTop(tree, freed) \/ LoopTop(MarkRejected(tree, task.block), freed)
    BY Zenon, <1>11 DEF HandleExecutionTaskFinished, freed
  <2>4. SameTips(tree, tree) /\ SameTips(tree, MarkRejected(tree, task.block))
    BY Zenon, <1>2, <1>3, TreeUpdates DEF SameTips
  <2>5. /\ MarkRejected(tree, task.block).head = tree.head
        /\ MarkRejected(tree, task.block).pend.digest = tree.pend.digest
    BY Zenon, <1>2 DEF MarkRejected, TreeState
  <2> QED
    BY Zenon, <2>2, <2>3, <2>4, <2>5
<1> QED
  BY Zenon, <1>1, <1>3, <1>6, <1>10, <1>11 DEF Outcome

(* Bodies, requests and the retry delay change nothing the invariant is    *)
(* about; only a pending head that was pruned falls back onto the tip.     *)
LEMMA QuietBranches ==
    ASSUME PipelineInv, ForkchoiceInv,
           \/ PayloadJobDone
           \/ \E found \in BOOLEAN : HandleFetchedNotarizedBlock(found)
           \/ \E p \in proposals, kind \in {"verify", "build"} :
                 HandleConsensusRequest(p, kind)
    PROVE  ForkchoiceInv'
<1>1. ASSUME phase = "loop", NEW b \in Block, NEW t \in {tree, RecordBlock(tree, b)},
             NEW a \in ActorState, a.queue = actor.queue, a.task = actor.task,
             LoopTop(t, a), UNCHANGED <<phase, layer, acked, next>>
      PROVE  ForkchoiceInv'
  <2>1. tree \in TreeState /\ tree.withheld \subseteq tree.blocks
    BY ZenonT(30), ForkchoiceFacts
  <2>2. /\ SameTips(tree, t) /\ t.head = tree.head
        /\ t.pend.digest \in {tree.pend.digest, tree.netTip.digest}
    <3>1. CASE t = tree
      BY Zenon, <2>1, <3>1 DEF SameTips
    <3>2. CASE t = RecordBlock(tree, b)
      <4>1. SameTips(tree, RecordBlock(tree, b))
        BY ZenonT(30), <2>1, TreeUpdates
      <4>2. /\ RecordBlock(tree, b).head = tree.head
            /\ RecordBlock(tree, b).pend.digest \in {tree.pend.digest, tree.netTip.digest}
        BY ZenonT(30), <2>1, TreeHeads
      <4> QED
        BY Zenon, <3>2, <4>1, <4>2
    <3> QED
      BY Zenon, <1>1, <3>1, <3>2
  <2> QED
    BY Zenon, <1>1, <2>2, BranchSound
<1>2. actor \in ActorState /\ proposals \subseteq Block
  BY Zenon, ForkchoiceFacts DEF PipelineInv, TypeOK
<1>3. CASE PayloadJobDone
  <2>1. PICK b \in actor.jobs, delivered \in BOOLEAN :
          /\ phase = "loop"
          /\ LoopTop(IF delivered THEN RecordBlock(tree, b) ELSE tree,
                     [actor EXCEPT !.jobs = @ \ {b}])
          /\ UNCHANGED <<phase, layer, acked, next>>
    BY Zenon, <1>3 DEF PayloadJobDone, environment
  <2>2. PICK a : a = [actor EXCEPT !.jobs = @ \ {b}]
    BY Zenon
  <2>3. a \in ActorState /\ a.queue = actor.queue /\ a.task = actor.task /\ b \in Block
    BY Zenon, <1>2, <2>2 DEF ActorState
  <2>4. PICK t \in {tree, RecordBlock(tree, b)} :
            t = IF delivered THEN RecordBlock(tree, b) ELSE tree
    BY Zenon
  <2> QED
    BY Zenon, <1>1, <2>1, <2>2, <2>3, <2>4
<1>4. CASE \E found \in BOOLEAN : HandleFetchedNotarizedBlock(found)
  <2>1. PICK found \in BOOLEAN : HandleFetchedNotarizedBlock(found)
    BY Zenon, <1>4
  <2>2. PICK a : a = [actor EXCEPT !.fetch = NoFetch]
    BY Zenon
  <2>3. /\ a \in ActorState /\ a.queue = actor.queue /\ a.task = actor.task
        /\ actor.fetch.digest \in Block
    BY Zenon, <1>2, <2>2, TreeAssumption DEF ActorState, NoFetch, Tip
  <2>4. PICK t \in {tree, RecordBlock(tree, actor.fetch.digest)} :
            t = IF found THEN RecordBlock(tree, actor.fetch.digest) ELSE tree
    BY Zenon
  <2>5. phase = "loop" /\ LoopTop(t, a) /\ UNCHANGED <<phase, layer, acked, next>>
    BY Zenon, <2>1, <2>2, <2>4 DEF HandleFetchedNotarizedBlock, environment
  <2> QED
    BY Zenon, <1>1, <2>3, <2>4, <2>5
<1>5. CASE \E p \in proposals, kind \in {"verify", "build"} : HandleConsensusRequest(p, kind)
  <2>1. PICK p \in proposals, kind \in {"verify", "build"} : HandleConsensusRequest(p, kind)
    BY Zenon, <1>5
  <2>2. PICK r : r = [kind |-> kind, block |-> p]
    BY Zenon
  <2>3. r \in Request /\ p \in Block
    BY Zenon, <1>2, <2>2 DEF Request
  <2>4. PICK a : a = QueueConsensusRequest(actor, r)
    BY Zenon
  <2>5. a \in ActorState /\ a.queue = actor.queue /\ a.task = actor.task
    BY Zenon, <1>2, <2>3, <2>4, QueueEffect
  <2>6. PICK t \in {tree, RecordBlock(tree, p)} :
            t = IF kind = "verify" THEN RecordBlock(tree, p) ELSE tree
    BY Zenon
  <2>7. phase = "loop" /\ LoopTop(t, a) /\ UNCHANGED <<phase, layer, acked, next>>
    BY Zenon, <2>1, <2>2, <2>4, <2>6 DEF HandleConsensusRequest
  <2> QED
    BY Zenon, <1>1, <2>3, <2>5, <2>6, <2>7
<1> QED
  BY Zenon, <1>3, <1>4, <1>5

LEMMA RetryDelaySound ==
    ASSUME PipelineInv, ForkchoiceInv, RetryDelayElapsed
    PROVE  ForkchoiceInv'
<1>1. PICK b \in tree.withheld :
        /\ phase = "loop"
        /\ tree' = [tree EXCEPT !.withheld = @ \ {b}]
        /\ UNCHANGED <<phase, actor, layer, acked, next>>
  BY Zenon DEF RetryDelayElapsed, environment
<1>2. tree \in TreeState /\ Comparable(tree.netTip.digest, layer.fin)
  BY Zenon, ForkchoiceFacts
<1>3. PICK u : u = tree'
  BY Zenon
<1>4. /\ u.netTip = tree.netTip /\ u.fin = tree.fin
      /\ u.head = tree.head /\ u.pend = tree.pend
  BY Zenon, <1>1, <1>2, <1>3 DEF TreeState
<1>5. Sound(tree, actor, layer, next, acked)
  BY Zenon, <1>1, LoopIsSound
<1>6. Sound(u, actor, layer, next, acked)
  BY Zenon, <1>2, <1>4, <1>5, SoundDepends
<1>7. (phase = "loop" /\ Sound(tree, actor, layer, next, acked))'
  BY Zenon, <1>1, <1>3, <1>6
<1> QED
  BY <1>7, LoopIsSound, PTL

(* The heartbeat submits the tracked state.                                *)
LEMMA SendHeartbeatSound ==
    ASSUME PipelineInv, ForkchoiceInv, SendForkchoiceUpdateHeartbeat
    PROVE  ForkchoiceInv'
<1>1. PICK s : s = StartNextExecutionTask(tree, actor)
  BY Zenon
<1>2. PICK a : a = IF Idle(s)
                   THEN [s EXCEPT !.task = NewTask("heartbeat", tree, Genesis)]
                   ELSE s
  BY Zenon
<1>3. phase = "loop" /\ LoopTop(tree, a) /\ UNCHANGED <<phase, layer, acked, next>>
  BY Zenon, <1>1, <1>2 DEF SendForkchoiceUpdateHeartbeat, environment
<1>4. /\ tree \in TreeState /\ tree.withheld \subseteq tree.blocks
      /\ actor \in ActorState /\ layer \in LayerState /\ next \in Nat /\ acked \in Int
      /\ Pipeline(tree, actor, next)
      /\ Comparable(tree.netTip.digest, layer.fin)
      /\ tree.fin \in Chain[tree.netTip.digest]
  BY Zenon, <1>3, ForkchoiceFacts, LoopFacts
<1>5. /\ s \in ActorState /\ a \in ActorState /\ a.queue = s.queue
      /\ Pipeline(tree, a, next)
      /\ IF Idle(s) THEN a.task = NewTask("heartbeat", tree, Genesis) ELSE a = s
  BY Zenon, <1>1, <1>2, <1>3, HeartbeatPipeline
<1>6. Sound(tree, actor, layer, next, acked)
  BY Zenon, <1>3, LoopIsSound
<1>7. Sound(tree, s, layer, next, acked)
  BY Zenon, <1>1, <1>4, <1>6, StartSound
<1>8. Sound(tree, a, layer, next, acked)
  <2>1. CASE ~ Idle(s)
    BY Zenon, <1>5, <1>7, <2>1
  <2>2. CASE Idle(s)
    <3>1. /\ a.task.type = "heartbeat" /\ a.task.on = LocalOf(tree)
          /\ a.task.outcome.kind = "running"
      <4>1. a.task = NewTask("heartbeat", tree, Genesis)
        BY Zenon, <1>5, <2>2
      <4> QED
        BY SMT, <4>1 DEF NewTask, Running
    <3>2. s.task.type = "none" /\ s.task.outcome.kind = "running"
      BY Zenon, <1>7, <2>2 DEF Sound, TaskSound, Idle
    <3>3. Latest(tree, a) = LocalOf(tree) /\ Latest(tree, s) = LocalOf(tree)
      BY Zenon, <3>1, <3>2 DEF Latest
    <3>4. TaskSound(tree, a, layer, next, acked)
      BY Zenon, <1>5, <1>7, <3>1, <3>2, <3>3 DEF Sound, TaskSound
    <3> QED
      BY ZenonT(30), <1>7, <3>3, <3>4 DEF Sound
  <2> QED
    BY Zenon, <2>1, <2>2
<1>9. PICK n \in Nat : n = next
  BY Zenon, <1>4
<1> QED
  BY Zenon, <1>3, <1>4, <1>5, <1>8, <1>9, LoopSound

(* A reported tip is comparable with the layer's finality, like every      *)
(* certified block, and a layer whose finality is above it is above the    *)
(* old one.                                                                *)
LEMMA ReportTipSound ==
    ASSUME PipelineInv, ForkchoiceInv, NEW b \in Block, ReportTip(b)
    PROVE  ForkchoiceInv'
<1>1. PICK t : t = SetNetworkFinalizedTip(tree, b)
  BY Zenon
<1>2. /\ phase = "loop" /\ LoopTop(t, actor)
      /\ tree.netTip.digest \in Chain[b]
      /\ \A c \in certs : c \in Chain[b] \/ b \in Chain[c]
      /\ UNCHANGED <<phase, layer, acked, next>>
  BY Zenon, <1>1 DEF ReportTip
<1>3. /\ tree \in TreeState /\ tree.withheld \subseteq tree.blocks
      /\ actor \in ActorState /\ next \in Nat
      /\ Pipeline(tree, actor, next)
      /\ tree.netTip.digest \in Block /\ tree.fin \in Block /\ layer.fin \in Block
      /\ layer.fin \in Certified /\ certs \subseteq Block
      /\ Comparable(tree.netTip.digest, layer.fin)
      /\ tree.fin \in Chain[tree.netTip.digest]
  BY Zenon, <1>2, ForkchoiceFacts, LoopFacts
<1>4. Sound(tree, actor, layer, next, acked)
  BY Zenon, <1>2, LoopIsSound
<1>5. /\ t \in TreeState /\ t.withheld \subseteq t.blocks
      /\ t.fin = tree.fin /\ t.head = tree.head /\ t.pend = tree.pend
      /\ \/ t.netTip = tree.netTip
         \/ t.netTip = [round |-> Round[b], digest |-> b]
  BY Zenon, <1>1, <1>3, TreeAssumption DEF SetNetworkFinalizedTip, TreeState, Tip
<1>6. Comparable(b, layer.fin)
  <2>1. CASE layer.fin = Genesis
    BY Zenon, <2>1, GenesisIsCommon DEF Comparable
  <2>2. CASE layer.fin # Genesis
    <3>1. PICK c \in certs : layer.fin \in Chain[c]
      BY Zenon, <1>3, <2>2 DEF Certified
    <3>2. c \in Block
      BY Zenon, <1>3
    <3>3. CASE c \in Chain[b]
      BY Zenon, <1>3, <3>1, <3>2, <3>3, ChainTransitive DEF Comparable
    <3>4. CASE b \in Chain[c]
      BY Zenon, <1>3, <3>1, <3>2, <3>4, OnOneChain
    <3> QED
      BY Zenon, <1>2, <3>3, <3>4
  <2> QED
    BY Zenon, <2>1, <2>2
<1>7. /\ tree.netTip.digest \in Chain[t.netTip.digest]
      /\ t.netTip.round = Round[t.netTip.digest]
      /\ Comparable(t.netTip.digest, layer.fin)
      /\ Height[tree.netTip.digest] <= Height[t.netTip.digest]
      /\ t.netTip.digest \in Block
  <2>1. CASE t.netTip = tree.netTip
    BY ZenonT(30), <1>3, <1>4, <2>1, ChainReflexive, ChainHeight DEF Sound
  <2>2. CASE t.netTip = [round |-> Round[b], digest |-> b]
    <3>1. t.netTip.digest = b /\ t.netTip.round = Round[b]
      BY SMT, <2>2
    <3> QED
      BY ZenonT(30), <1>2, <1>3, <1>6, <3>1, ChainHeight
  <2> QED
    BY Zenon, <1>5, <2>1, <2>2
<1>8. Pipeline(t, actor, next)
  BY Zenon, <1>3, <1>5, <1>7, PipelineAdvances
<1>9. t.fin \in Chain[t.netTip.digest]
  BY <1>3, <1>5, <1>7, ChainTransitive
<1>10. Height[layer.fin] > Height[t.netTip.digest] => Comparable(t.pend.digest, layer.fin)
  <2>1. /\ Height[layer.fin] \in Nat /\ Height[t.netTip.digest] \in Nat
        /\ Height[tree.netTip.digest] \in Nat
    BY Zenon, <1>3, <1>7, ChainOfBlocks
  <2>2. Height[layer.fin] > Height[t.netTip.digest] =>
           Height[layer.fin] > Height[tree.netTip.digest]
    BY <1>7, <2>1
  <2> QED
    BY Zenon, <1>4, <1>5, <2>2 DEF Sound
<1>11. LocalOf(t) = LocalOf(tree) /\ Latest(t, actor) = Latest(tree, actor)
  BY Zenon, <1>5 DEF LocalOf, Latest
<1>12. TaskSound(t, actor, layer, next, acked)
  BY Zenon, <1>4, <1>5, <1>11 DEF Sound, TaskSound
<1>13. Sound(t, actor, layer, next, acked)
  BY Zenon, <1>4, <1>5, <1>7, <1>10, <1>11, <1>12 DEF Sound
<1>14. PICK n \in Nat : n = next
  BY Zenon, <1>3
<1> QED
  BY ZenonT(30), <1>2, <1>3, <1>5, <1>7, <1>8, <1>9, <1>13, <1>14, LoopSound

(* A delivered block only takes its place in the queue.                    *)
LEMMA DeliverBlockSound ==
    ASSUME PipelineInv, ForkchoiceInv, DeliverBlock
    PROVE  ForkchoiceInv'
<1>1. PICK a : a = [actor EXCEPT !.queue = Append(@, AncestorAt(tree.netTip.digest, next))]
  BY Zenon
<1>2. /\ phase = "loop" /\ next <= Height[tree.netTip.digest] /\ next' = next + 1
      /\ LoopTop(tree, a) /\ UNCHANGED <<phase, layer, acked>>
  BY Zenon, <1>1 DEF DeliverBlock
<1>3. /\ tree \in TreeState /\ tree.withheld \subseteq tree.blocks /\ next \in Nat
      /\ Comparable(tree.netTip.digest, layer.fin)
      /\ tree.fin \in Chain[tree.netTip.digest]
  BY Zenon, ForkchoiceFacts
<1>4. PICK n \in Nat : n = next + 1
  BY <1>3
<1>5. /\ a \in ActorState /\ a.task = actor.task
      /\ n - Len(a.queue) = next - Len(actor.queue)
      /\ Pipeline(tree, a, n)
  BY Zenon, <1>1, <1>2, <1>4, DeliveredPipeline
<1>6. Sound(tree, actor, layer, next, acked)
  BY Zenon, <1>2, LoopIsSound
<1>7. Latest(tree, a) = Latest(tree, actor)
  BY ZenonT(30), <1>5 DEF Latest
<1>8. TaskSound(tree, a, layer, n, acked)
  <2>1. TaskSound(tree, actor, layer, next, acked)
    BY Zenon, <1>6 DEF Sound
  <2>2. a.task = actor.task /\ n - Len(a.queue) = next - Len(actor.queue)
    BY Zenon, <1>5
  <2> QED
    BY SMTT(30), <1>7, <2>1, <2>2 DEF TaskSound
<1>9. Sound(tree, a, layer, n, acked)
  BY Zenon, <1>6, <1>7, <1>8 DEF Sound
<1> QED
  BY Zenon, <1>2, <1>3, <1>4, <1>5, <1>9, LoopSound

(* A context reported while the layer's finality is ahead of the network's *)
(* tip, after a restore, is of a later round than the certificate covering *)
(* that finality, so its parent descends from it.                          *)
LEMMA PendingHeadSound ==
    ASSUME ~ StaleContexts,
           PipelineInv, ForkchoiceInv, NEW p \in Block, RecordPendingHead(p)
    PROVE  ForkchoiceInv'
<1>1. PICK t : t = SetPendingHead(tree, ParentRound[p], Parent[p])
  BY Zenon
<1>2. /\ phase = "loop" /\ LoopTop(t, actor)
      /\ \A c \in certs : /\ ContextExtends(p, c)
                          /\ Round[c] > tree.netTip.round => Round[p] > Round[c]
      /\ UNCHANGED <<phase, layer, acked, next>>
  BY Zenon, <1>1 DEF RecordPendingHead, Current
<1>3. /\ tree \in TreeState /\ tree.withheld \subseteq tree.blocks
      /\ actor \in ActorState /\ next \in Nat
      /\ Pipeline(tree, actor, next)
      /\ tree.netTip.digest \in Block /\ tree.fin \in Block /\ layer.fin \in Block
      /\ layer.fin \in Certified /\ certs \subseteq Block
      /\ tree.netTip.digest \in Certified
      /\ Comparable(tree.netTip.digest, layer.fin)
      /\ tree.fin \in Chain[tree.netTip.digest]
  BY Zenon, <1>2, ForkchoiceFacts, LoopFacts
<1>4. Sound(tree, actor, layer, next, acked)
  BY Zenon, <1>2, LoopIsSound
<1>5. /\ t \in TreeState /\ t.withheld \subseteq t.blocks /\ t.netTip = tree.netTip
      /\ t.fin = tree.fin /\ t.head = tree.head /\ t.pend.digest = Parent[p]
      /\ Parent[p] \in Block
  BY Zenon, <1>1, <1>3, TreeAssumption DEF SetPendingHead, TreeState, Tip
<1>6. ASSUME Height[layer.fin] > Height[tree.netTip.digest]
      PROVE  Comparable(Parent[p], layer.fin)
  <2>1. Height[layer.fin] \in Nat /\ Height[tree.netTip.digest] \in Nat /\ Height[Genesis] = 0
    BY Zenon, <1>3, ChainOfBlocks, TreeAssumption
  <2>2. layer.fin # Genesis
    BY <1>6, <2>1
  <2>3. PICK c \in certs : layer.fin \in Chain[c]
    BY Zenon, <1>3, <2>2 DEF Certified
  <2>4. c \in Block /\ Height[c] \in Nat /\ Height[layer.fin] <= Height[c]
    BY Zenon, <1>3, <2>3, ChainOfBlocks, ChainHeight
  <2>5. c \in Certified
    BY Zenon, <2>4, ChainReflexive DEF Certified
  <2>6. Height[tree.netTip.digest] < Height[c]
    BY SMTT(30), <1>6, <2>1, <2>4
  <2>7. tree.netTip.digest \in Chain[c] /\ tree.netTip.digest # c
    <3>1. Comparable(tree.netTip.digest, c)
      BY Zenon, <1>3, <2>5, CertifiedComparable
    <3>2. Height[tree.netTip.digest] <= Height[c]
      BY <2>1, <2>4, <2>6
    <3>3. tree.netTip.digest # c
      BY <2>1, <2>6
    <3> QED
      BY ZenonT(30), <1>3, <2>4, <3>1, <3>2, <3>3, ComparableByHeight
  <2>8. Round[tree.netTip.digest] < Round[c]
    BY Zenon, <1>3, <2>4, <2>7, RoundsGrow
  <2>9. Round[c] > tree.netTip.round
    <3>1. tree.netTip.round = Round[tree.netTip.digest]
      BY Zenon, <1>4 DEF Sound
    <3>2. Round[c] \in Nat /\ Round[tree.netTip.digest] \in Nat
      BY Zenon, <1>3, <2>4, TreeAssumption
    <3> QED
      BY Zenon, <2>8, <3>1, <3>2
  <2>10. c \in Chain[Parent[p]]
    BY Zenon, <1>2, <2>9 DEF ContextExtends
  <2>11. layer.fin \in Chain[Parent[p]]
    BY ZenonT(30), <1>3, <1>5, <2>3, <2>4, <2>10, ChainTransitive
  <2> QED
    BY Zenon, <2>11 DEF Comparable
<1>7. Pipeline(t, actor, next)
  BY Zenon, <1>3, <1>5, PipelineDepends
<1>8. LocalOf(t) = LocalOf(tree) /\ Latest(t, actor) = Latest(tree, actor)
  BY Zenon, <1>5 DEF LocalOf, Latest
<1>9. TaskSound(t, actor, layer, next, acked)
  BY Zenon, <1>4, <1>5, <1>8 DEF Sound, TaskSound
<1>10. Sound(t, actor, layer, next, acked)
  BY Zenon, <1>4, <1>5, <1>6, <1>8, <1>9 DEF Sound
<1>11. PICK n \in Nat : n = next
  BY Zenon, <1>3
<1> QED
  BY Zenon, <1>2, <1>3, <1>5, <1>7, <1>10, <1>11, LoopSound

(* Startup and crashes.                                                    *)

------------------------------------------------------------------------------

(* A tree and an actor before the loop.                                    *)
LEMMA NewActorFollows ==
    ASSUME NEW t
    PROVE  Latest(t, NewActor) = LocalOf(t)
BY Zenon, NewActorType, NoTaskType DEF Latest

LEMMA WaitSound ==
    ASSUME PipelineInv, ForkchoiceInv, WaitForExecutionLayer
    PROVE  ForkchoiceInv'
BY Zenon DEF WaitForExecutionLayer, environment, ForkchoiceInv, HeadDescendsFromFinalized

(* The backfill hands the layer the next finalized block, which it         *)
(* accepts; the loop starts at the floor.                                  *)
LEMMA BackfillSound ==
    ASSUME PipelineInv, ForkchoiceInv, BackfillToFinalizedFloor
    PROVE  ForkchoiceInv'
<1> DEFINE on == LocalOf(tree)
           b == AncestorAt(tree.netTip.digest, Height[tree.fin] + 1)
           target == FinalizationTarget(layer, on, b)
<1>1. phase = "backfill" /\ UNCHANGED <<acked, floor, next>>
  BY Zenon DEF BackfillToFinalizedFloor, environment
<1>2. /\ tree \in TreeState /\ tree.withheld \subseteq tree.blocks
      /\ layer \in LayerState /\ floor \in Nat /\ next \in Nat /\ acked \in Int
      /\ tree.netTip.digest \in Block /\ tree.fin \in Block
      /\ layer.fin \in Block /\ layer.fin \in Certified
      /\ Comparable(tree.netTip.digest, layer.fin)
      /\ Comparable(tree.fin, layer.fin)
      /\ tree.fin \in Chain[tree.netTip.digest]
      /\ on \in LocalState /\ on.fin = tree.fin
  BY Zenon, ForkchoiceFacts
<1>3. /\ actor = NewActor /\ floor <= Height[tree.netTip.digest] /\ next <= floor + 1
  BY Zenon, <1>1 DEF PipelineInv
<1>4. /\ LayerSound(layer) /\ Follows(layer, on)
      /\ Height[tree.fin] <= floor /\ floor <= next /\ acked <= floor
  BY Zenon, <1>1, <1>3, NewActorFollows DEF ForkchoiceInv
<1>5. Height[tree.fin] \in Nat /\ Height[tree.netTip.digest] \in Nat
  BY Zenon, <1>2, ChainOfBlocks
<1>6. CASE Height[tree.fin] < floor
  <2>1. b \in Block /\ b \in Chain[tree.netTip.digest] /\ Height[b] = Height[tree.fin] + 1
    <3>1. Height[tree.fin] + 1 \in Nat /\ Height[tree.fin] + 1 <= Height[tree.netTip.digest]
      BY <1>2, <1>3, <1>5, <1>6
    <3> QED
      BY ZenonT(30), <1>2, <3>1, AncestorAtHeight
  <2>2. /\ layer' = ForwardFinalized(layer, on, b)
        /\ IF FinalizationAccepted(layer, on, b)
           THEN tree' = SetLocalState(tree, target) /\ UNCHANGED phase
           ELSE phase' = "dead" /\ UNCHANGED tree
        /\ UNCHANGED actor
    <3>1. ~ (Height[tree.fin] >= floor)
      BY <1>2, <1>5, <1>6
    <3> QED
      BY Zenon, <3>1 DEF BackfillToFinalizedFloor
  <2> HIDE DEF b, on
  <2>3. Comparable(b, layer.fin)
    BY ZenonT(30), <1>2, <2>1, CoveredIsCertified, CertifiedComparable
  <2>4. Height[on.fin] <= Height[b] /\ Height[b] <= Height[on.fin] + 1
    BY SMTT(30), <1>2, <1>5, <2>1
  <2>5. /\ FinalizationAccepted(layer, on, b)
        /\ target \in LocalState /\ target.fin = b /\ b \in Chain[target.head]
        /\ layer' \in LayerState /\ LayerSound(layer') /\ Follows(layer', target)
        /\ layer'.fin \in {layer.fin, b}
    BY ZenonT(60), <1>2, <1>4, <2>1, <2>2, <2>3, <2>4, FinalizeSound
  <2> HIDE DEF target
  <2>6. /\ tree'.netTip = tree.netTip /\ tree'.pend = tree.pend
        /\ tree'.fin = b /\ tree'.head = target.head
        /\ phase' = "backfill" /\ actor' = NewActor
    BY Zenon, <1>1, <1>2, <1>3, <2>2, <2>5 DEF SetLocalState, TreeState, LocalState
  <2>7. Latest(tree', actor') = target
    <3>1. Latest(tree', actor') = LocalOf(tree')
      BY Zenon, <2>6, NewActorFollows
    <3>2. LocalOf(tree') = [head |-> target.head, fin |-> target.fin]
      BY Zenon, <2>5, <2>6 DEF LocalOf
    <3>3. target = [head |-> target.head, fin |-> target.fin]
      BY Zenon, <2>5 DEF LocalState
    <3> QED
      BY Zenon, <3>1, <3>2, <3>3
  <2>8. Height[layer'.fin] > Height[tree.netTip.digest] =>
           Comparable(tree.pend.digest, layer'.fin)
    <3>1. CASE layer'.fin = layer.fin
      BY Zenon, <3>1 DEF ForkchoiceInv
    <3>2. CASE layer'.fin = b
      <4>1. Height[b] <= Height[tree.netTip.digest] /\ Height[b] \in Nat
        BY ZenonT(30), <1>2, <2>1, ChainHeight, ChainOfBlocks
      <4> QED
        BY <1>5, <3>2, <4>1
    <3> QED
      BY Zenon, <2>5, <3>1, <3>2
  <2>9. Height[b] <= floor
    BY SMTT(30), <1>2, <1>5, <1>6, <2>1
  <2>10. tree.netTip.round = Round[tree.netTip.digest]
    BY Zenon DEF ForkchoiceInv
  <2> QED
    BY ZenonT(30), <1>1, <1>4, <2>5, <2>6, <2>7, <2>8, <2>9, <2>10
       DEF ForkchoiceInv, HeadDescendsFromFinalized
<1>7. CASE Height[tree.fin] >= floor
  <2>1. phase' = "loop" /\ LoopTop(tree, NewActor) /\ UNCHANGED layer
    <3>1. ~ (Height[tree.fin] < floor)
      BY SMTT(30), <1>2, <1>5, <1>7
    <3> QED
      BY Zenon, <1>3, <3>1 DEF BackfillToFinalizedFloor
  <2>2. Height[tree.fin] = floor
    BY SMTT(30), <1>2, <1>4, <1>5, <1>7
  <2>3. /\ NewActor \in ActorState /\ Len(NewActor.queue) = 0
        /\ NewActor.task.type = "none" /\ NewActor.task.outcome.kind = "running"
    BY Zenon, NewActorType, NoTaskType
  <2>4. next - Len(NewActor.queue) = next
    BY <1>2, <2>3
  <2>5. Pipeline(tree, NewActor, next)
    <3>1. 1 .. Len(NewActor.queue) = {}
      BY <2>3
    <3>2. next - Len(NewActor.queue) <= Height[tree.fin] + 1
      BY Zenon, <1>3, <2>2, <2>4
    <3> QED
      BY Zenon, <2>3, <3>1, <3>2 DEF Pipeline
  <2>6. TaskSound(tree, NewActor, layer, next, acked)
    <3>1. /\ Latest(tree, NewActor).fin = tree.fin
          /\ Height[tree.fin] <= next - Len(NewActor.queue) /\ acked <= Height[tree.fin]
      BY Zenon, <1>2, <1>4, <2>2, <2>4, NewActorFollows
    <3> QED
      BY Zenon, <2>3, <3>1 DEF TaskSound
  <2>7. Sound(tree, NewActor, layer, next, acked)
    BY ZenonT(30), <1>4, <2>6, NewActorFollows DEF Sound, ForkchoiceInv, HeadDescendsFromFinalized
  <2>8. PICK n \in Nat : n = next
    BY Zenon, <1>2
  <2> QED
    BY ZenonT(30), <1>1, <1>2, <2>1, <2>3, <2>5, <2>7, <2>8, LoopSound
<1> QED
  BY <1>2, <1>5, <1>6, <1>7

(* The block the backfill is at.                                           *)
LEMMA StartupFailsSound ==
    ASSUME PipelineInv, ForkchoiceInv, StartupFails
    PROVE  ForkchoiceInv'
<1> DEFINE b == AncestorAt(tree.netTip.digest, Height[tree.fin] + 1)
<1>1. phase' = "stopped" /\ UNCHANGED <<tree, actor>>
  BY Zenon DEF StartupFails, CallFails
<1>2. Genesis \in Block
  BY Zenon, TreeAssumption
<1>3. CASE UNCHANGED layer
  BY Zenon, <1>1, <1>2, <1>3, StopSound
<1>4. CASE phase = "backfill" /\ Height[tree.fin] < floor /\ layer' \in {layer, NewPayload(layer, b)}
  <2>1. /\ floor \in Nat /\ floor <= Height[tree.netTip.digest]
        /\ tree.fin \in Block /\ tree.netTip.digest \in Block
    BY Zenon, <1>4, ForkchoiceFacts DEF PipelineInv
  <2>2. Height[tree.fin] \in Nat /\ Height[tree.netTip.digest] \in Nat
    BY Zenon, <2>1, ChainOfBlocks
  <2>3. Height[tree.fin] + 1 \in Nat /\ Height[tree.fin] + 1 <= Height[tree.netTip.digest]
    BY <1>4, <2>1, <2>2
  <2>4. b \in Block
    BY Zenon, <2>1, <2>3, AncestorAtHeight
  <2> HIDE DEF b
  <2> QED
    BY Zenon, <1>1, <1>4, <2>4, StopSound
<1> QED
  BY Zenon, <1>3, <1>4 DEF StartupFails

LEMMA RestartRefusedSound ==
    ASSUME PipelineInv, ForkchoiceInv, RestartRefused
    PROVE  ForkchoiceInv'
BY Zenon, StopSound, TreeAssumption DEF RestartRefused

(* A layer that comes back with a prefix of its chain, and a tree that     *)
(* starts at a block of that prefix which is not above the floor.          *)
LEMMA StartIsSound ==
    ASSUME NEW h \in Block, NEW f \in Chain[h], NEW start \in Chain[h],
           NEW low \in Nat, Height[start] <= low,
           NEW tip \in Block, Comparable(tip, f),
           NEW n, n \in {low, low + 1},
           phase' = "wait", actor' = NewActor, floor' = low, next' = n, acked' = n - 1,
           layer' = [known |-> Chain[h], head |-> h, fin |-> f],
           tree' = NewTree([round |-> Round[tip], digest |-> tip], start)
    PROVE  ForkchoiceInv'
<1>1. f \in Block /\ start \in Block /\ Chain[h] \subseteq Block
  BY Zenon, ChainOfBlocks
<1>2. /\ layer'.known = Chain[h] /\ layer'.head = h /\ layer'.fin = f
      /\ tree'.netTip.digest = tip /\ tree'.netTip.round = Round[tip]
      /\ tree'.pend.digest = tip /\ tree'.fin = start /\ tree'.head = start
  BY Zenon DEF NewTree
<1>3. LayerSound(layer')
  <2>1. \A b \in Chain[h] : Chain[b] \subseteq Chain[h]
    <3>1. TAKE b \in Chain[h]
    <3>2. b \in Block /\ Chain[b] \subseteq Block
      BY Zenon, <1>1, ChainOfBlocks
    <3> QED
      BY Zenon, <3>2, ChainTransitive
  <2> QED
    BY Zenon, <1>2, <2>1, ChainReflexive DEF LayerSound
<1>4. Latest(tree', actor') = [head |-> start, fin |-> start]
  BY Zenon, <1>2, NewActorFollows DEF LocalOf
<1>5. Follows(layer', [head |-> start, fin |-> start])
  <2>1. Comparable(start, f)
    BY Zenon, <1>1, OnOneChain
  <2> QED
    BY ZenonT(30), <1>1, <1>2, <2>1, ChainReflexive DEF Follows, IsCanonical
<1>6. floor' <= next' /\ acked' <= floor'
  <2>1. low <= n /\ n - 1 <= low
    OBVIOUS
  <2> QED
    BY Zenon, <2>1
<1> QED
  BY ZenonT(30), <1>1, <1>2, <1>3, <1>4, <1>5, <1>6, ChainReflexive
     DEF ForkchoiceInv, HeadDescendsFromFinalized

LEMMA RestartSound ==
    ASSUME PipelineInv, ForkchoiceInv, Restart
    PROVE  ForkchoiceInv'
<1>1. phase' = "wait" /\ actor' = NewActor /\ acked' = next' - 1
  BY Zenon DEF Restart
<1>2. /\ layer.head \in Block /\ layer.fin \in Block /\ layer.fin \in Certified
      /\ certs \subseteq Block
  BY Zenon, ForkchoiceFacts DEF PipelineInv, TypeOK
<1>3. PICK h \in Chain[layer.head] : \E f \in Chain[layer.fin] \cap Chain[h] :
          layer' = [known |-> Chain[h], head |-> h, fin |-> f]
  BY Zenon DEF Restart
<1>4. PICK f \in Chain[layer.fin] \cap Chain[h] :
          layer' = [known |-> Chain[h], head |-> h, fin |-> f]
  BY Zenon, <1>3
<1>5. h \in Block /\ f \in Block /\ Height[f] \in Nat /\ Height[h] \in Nat
      /\ Height[f] <= Height[h]
  BY Zenon, <1>2, <1>3, <1>4, ChainOfBlocks, ChainHeight
<1>6. layer'.fin = f /\ layer'.head = h
  BY Zenon, <1>4
<1>7. PICK tip \in certs \cup {Genesis}, low \in StoredHeights :
        /\ floor' = low
        /\ next' \in {low, low + 1}
        /\ tree' = NewTree([round |-> Round[tip], digest |-> tip], StartAt(layer', low))
  BY Zenon DEF Restart, StoredTips
<1>8. low \in Nat
  BY Zenon, <1>7, StoredHeightsType
<1>9. tip \in Block
  BY Zenon, <1>2, TreeAssumption
<1>10. Comparable(tip, f)
  <2>1. tip \in Certified
    BY Zenon, <1>9, ChainReflexive DEF Certified
  <2>2. Comparable(layer.fin, tip)
    BY Zenon, <1>2, <2>1, CertifiedComparable
  <2>3. Comparable(f, tip)
    BY ZenonT(30), <1>2, <1>4, <1>5, <1>9, <2>2, AncestorComparable
  <2> QED
    BY Zenon, <2>3 DEF Comparable
<1>11. PICK start : start = StartAt(layer', low)
  BY Zenon
<1>12. start \in Chain[h] /\ Height[start] <= low
  <2>1. CASE low < Height[f]
    <3>1. start = AncestorAt(h, low)
      BY Zenon, <1>6, <1>11, <2>1 DEF StartAt
    <3>2. low <= Height[h]
      BY <1>5, <1>8, <2>1
    <3> QED
      BY SMTT(30), <1>5, <1>8, <3>1, <3>2, AncestorAtHeight
  <2>2. CASE ~ (low < Height[f])
    <3>1. start = f
      BY Zenon, <1>6, <1>11, <2>2 DEF StartAt
    <3> QED
      BY SMTT(30), <1>4, <1>5, <1>8, <2>2, <3>1
  <2> QED
    BY ZenonT(30), <2>1, <2>2
<1>13. PICK n \in {low, low + 1} : next' = n
  BY ZenonT(30), <1>7
<1> QED
  BY ZenonT(30), <1>1, <1>4, <1>5, <1>7, <1>8, <1>9, <1>10, <1>11, <1>12, <1>13, StartIsSound

------------------------------------------------------------------------------

LEMMA InitialForkchoice == Init => ForkchoiceInv
<1>1. SUFFICES ASSUME Init PROVE ForkchoiceInv
  BY Zenon
<1>2. /\ phase = "wait" /\ actor = NewActor /\ floor = 0 /\ next \in {0, 1}
      /\ acked = next - 1
      /\ layer = [known |-> {Genesis}, head |-> Genesis, fin |-> Genesis]
      /\ tree = NewTree([round |-> 0, digest |-> Genesis], Genesis)
  BY Zenon, <1>1 DEF Init
<1>3. /\ layer.known = {Genesis} /\ layer.head = Genesis /\ layer.fin = Genesis
      /\ tree.netTip.digest = Genesis /\ tree.netTip.round = 0
      /\ tree.pend.digest = Genesis /\ tree.fin = Genesis /\ tree.head = Genesis
  BY Zenon, <1>2 DEF NewTree
<1>4. Chain[Genesis] = {Genesis} /\ Height[Genesis] = 0 /\ Round[Genesis] = 0
  BY Zenon, TreeAssumption, ChainAssumption
<1>5. Latest(tree, actor) = [head |-> Genesis, fin |-> Genesis]
  BY Zenon, <1>2, <1>3, NewActorFollows DEF LocalOf
<1>6. acked <= floor /\ floor <= next
  BY <1>2
<1> QED
  BY SMTT(30), <1>2, <1>3, <1>4, <1>5, <1>6
     DEF ForkchoiceInv, HeadDescendsFromFinalized, LayerSound, Follows, IsCanonical, Comparable

(* The theorems.                                                           *)

LEMMA ForkchoiceStep ==
    ASSUME ~ StaleContexts, PipelineInv, ForkchoiceInv, [Next]_vars
    PROVE  ForkchoiceInv'
<1>1. CASE UNCHANGED vars
  BY Zenon, <1>1 DEF vars, ForkchoiceInv, HeadDescendsFromFinalized
<1>2. CASE RunTask
  BY ZenonT(30), <1>2, HeartbeatSound, BuildSound, ValidationSound, FinalizationSound,
     NotarizationSound, RepointSound DEF RunTask
<1>3. CASE \/ PayloadJobDone
           \/ \E found \in BOOLEAN : HandleFetchedNotarizedBlock(found)
           \/ \E p \in proposals, kind \in {"verify", "build"} :
                 HandleConsensusRequest(p, kind)
  BY Zenon, <1>3, QuietBranches
<1>4. CASE \E b \in Block : ReportTip(b)
  BY Zenon, <1>4, ReportTipSound
<1>5. CASE \E p \in Block : RecordPendingHead(p)
  BY Zenon, <1>5, PendingHeadSound
<1>6. CASE \/ WaitForExecutionLayer \/ BackfillToFinalizedFloor \/ StartupFails
           \/ Restart \/ RestartRefused
  BY ZenonT(30), <1>6, WaitSound, BackfillSound, StartupFailsSound, RestartSound,
     RestartRefusedSound
<1>7. CASE HandleExecutionTaskFinished \/ DeliverBlock
  BY ZenonT(30), <1>7, TaskFinishedSound, DeliverBlockSound
<1>8. CASE SendForkchoiceUpdateHeartbeat \/ RetryDelayElapsed
  BY Zenon, <1>8, SendHeartbeatSound, RetryDelaySound
<1>9. CASE \/ HeartbeatFails \/ BuildFails \/ NotarizationFails
           \/ FinalizationFails \/ RepointFails
  BY ZenonT(30), <1>9, HeartbeatFailsSound, BuildFailsSound, NotarizationFailsSound,
     TaskStopsSound
<1> QED
  BY ZenonT(30), <1>1, <1>2, <1>3, <1>4, <1>5, <1>6, <1>7, <1>8, <1>9 DEF Next
==============================================================================
