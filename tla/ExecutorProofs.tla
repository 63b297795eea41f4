--------------------------- MODULE ExecutorProofs ----------------------------
(***************************************************************************)
(* The theorems about the executor, for every block tree and every bound,  *)
(* from the lemmas about its steps.                                        *)
(***************************************************************************)
EXTENDS PipelineSteps, ForkchoiceSteps

------------------------------------------------------------------------------

(* Every step of the executor, whichever branch fires, keeps the           *)
(* invariant, follows the abstract log and keeps the layer's finality.     *)
LEMMA EveryStep ==
    ASSUME PipelineInv, [Next]_vars
    PROVE  StepKeepsPromises
<1>1. CASE UNCHANGED vars
  <2>1. UNCHANGED <<phase, tree, actor, layer, acked, floor, next,
                    certs, proposals, asked, restarts, faults>>
    BY Zenon, <1>1 DEF vars, environment
  <2>2. TypeOK'
    BY Zenon, <2>1 DEF PipelineInv, TypeOK
  <2>3. Certified' = Certified
    BY Zenon, <2>1 DEF Certified
  <2>4. PipelineInv'
    BY Zenon, <2>1, <2>2, <2>3 DEF PipelineInv
  <2> QED
    BY Zenon, <2>1, <2>4, QuietStep
<1>2. CASE RunTask
  BY Zenon, <1>2, HeartbeatStep, BuildStep, ValidationStep, FinalizationStep,
     NotarizationStep, RepointStep DEF RunTask
<1>3. CASE \E found \in BOOLEAN : HandleFetchedNotarizedBlock(found)
  BY Zenon, <1>3, FetchedStep
<1>4. CASE \E b \in Block : ReportTip(b)
  BY Zenon, <1>4, ReportTipStep
<1>5. CASE \E p \in Block : RecordPendingHead(p)
  BY Zenon, <1>5, PendingHeadStep
<1>6. CASE \E p \in proposals, kind \in {"verify", "build"} :
               HandleConsensusRequest(p, kind)
  BY Zenon, <1>6, ConsensusRequestStep
<1>7. CASE \/ WaitForExecutionLayer \/ BackfillToFinalizedFloor \/ StartupFails
           \/ Restart \/ RestartRefused
  BY Zenon, <1>7, WaitStep, BackfillStep, StartupFailsStep, RestartStep, RestartRefusedStep
<1>8. CASE HandleExecutionTaskFinished \/ PayloadJobDone
  BY Zenon, <1>8, TaskFinishedStep, PayloadJobStep
<1>9. CASE SendForkchoiceUpdateHeartbeat \/ RetryDelayElapsed \/ DeliverBlock
  BY Zenon, <1>9, SendHeartbeatStep, RetryDelayStep, DeliverBlockStep
<1>10. CASE \/ HeartbeatFails \/ BuildFails \/ NotarizationFails
            \/ FinalizationFails \/ RepointFails
  BY Zenon, <1>10, TrackedFailsStep, NotarizationFailsStep, TaskStopsStep
<1> QED
  BY ZenonT(30), <1>1, <1>2, <1>3, <1>4, <1>5, <1>6, <1>7, <1>8, <1>9, <1>10 DEF Next

(* Whatever is queued, in flight or recorded by the executor as finalized  *)
(* lies on the network's finalized chain, at the height its place in the   *)
(* pipeline says, in every run of every length.                            *)
THEOREM PipelineInvariant == Spec => []PipelineInv
<1>1. PipelineInv /\ [Next]_vars => PipelineInv'
  BY Zenon, EveryStep DEF StepKeepsPromises
<1> QED
  BY <1>1, InitialState, PTL DEF Spec

(* The state of the actor, its block tree and the layer keep their types,  *)
(* and a block withheld after a rejection is one whose body is held.       *)
THEOREM TypeCorrect == Spec => []TypeOK
<1>1. PipelineInv => TypeOK
  BY Zenon DEF PipelineInv
<1> QED
  BY <1>1, PipelineInvariant, PTL

(* The executor never records a block as finalized that is higher than     *)
(* the finalized tip the network reported.                                 *)
THEOREM NotAheadOfNetwork == Spec => []LocalNotAheadOfNetwork
<1>1. PipelineInv => LocalNotAheadOfNetwork
  <2>1. SUFFICES ASSUME PipelineInv PROVE LocalNotAheadOfNetwork
    BY Zenon
  <2>2. /\ tree.fin \in Block /\ tree.netTip.digest \in Block
        /\ tree.fin \in Chain[tree.netTip.digest]
    BY Zenon, <2>1 DEF PipelineInv, TypeOK, TreeState, Tip
  <2> QED
    BY Zenon, <2>2, ChainHeight DEF LocalNotAheadOfNetwork
<1> QED
  BY <1>1, PipelineInvariant, PTL

(* The executor implements the abstract log: between restarts it finalizes *)
(* the blocks of the network's chain one at a time and in order, and       *)
(* no restart takes it to another branch.                                  *)
THEOREM ImplementsFinalizedLog == Spec => FinalizesInOrder
<1>1. Init => Log!Init
  <2>1. SUFFICES ASSUME Init PROVE Log!Init
    BY Zenon
  <2>2. tree = NewTree([round |-> 0, digest |-> Genesis], Genesis) /\ restarts = 0
    BY Zenon, <2>1 DEF Init
  <2>3. tree.netTip.digest = Genesis /\ tree.fin = Genesis
    BY Zenon, <2>2 DEF NewTree
  <2> QED
    BY Zenon, <2>2, <2>3 DEF Log!Init
<1>2. PipelineInv /\ [Next]_vars =>
          [Log!Next]_<<tree.netTip.digest, tree.fin, restarts>>
  BY Zenon, EveryStep DEF StepKeepsPromises
<1> QED
  BY <1>1, <1>2, PipelineInvariant, PTL DEF Spec, FinalizesInOrder, Log!Spec

(* Between restarts the layer's finalized block only moves to its own      *)
(* descendants, whatever forkchoice calls the tasks of the actor make.     *)
THEOREM FinalityNeverReverts == Spec => LayerFinalityAdvances
<1>1. PipelineInv /\ [Next]_vars =>
          [restarts' = restarts => layer.fin \in Chain[layer'.fin]]_vars
  BY Zenon, EveryStep DEF StepKeepsPromises
<1> QED
  BY <1>1, PipelineInvariant, PTL DEF Spec, LayerFinalityAdvances

(* While a finalized block above the local finalized tip is queued, only a *)
(* build or verify request starts before it: start_next_execution_task     *)
(* hands out no convergence step while finalization is behind, and the     *)
(* heartbeat goes only into a slot that found nothing queued.              *)
THEOREM FinalizationIsOvertakenByRequestsOnly == Spec => OnlyRequestsOvertakeFinalization
<1>1. PipelineInv /\ [Next]_vars =>
          [ /\ actor'.task # actor.task
            /\ actor'.task.outcome = Running
            /\ actor'.task.type \in {"block", "repoint", "heartbeat"}
            => \A i \in DOMAIN actor'.queue :
                  Height[actor'.queue[i]] <= Height[tree'.fin] ]_vars
  BY Zenon, EveryStep DEF StepKeepsPromises, StartsInOrder
<1> QED
  BY <1>1, PipelineInvariant, PTL DEF Spec, OnlyRequestsOvertakeFinalization

------------------------------------------------------------------------------
(* The forkchoice state: ForkchoiceSteps has the steps.                    *)

(* The layer follows the forkchoice state the actor tracks, or the one the *)
(* task in flight is about to report, through rejections, reorganizations, *)
(* re-deliveries, failed calls, crashes and snapshot restores.             *)
THEOREM ForkchoiceInvariant ==
    ASSUME ~ StaleContexts
    PROVE  Spec => []ForkchoiceInv
<1>1. PipelineInv /\ ForkchoiceInv /\ [Next]_vars => ForkchoiceInv'
  BY ForkchoiceStep
<1> QED
  BY <1>1, InitialForkchoice, PipelineInvariant, PTL DEF Spec

(* No finalization, repoint or backfill is ever refused, by the layer or   *)
(* by the executor's own checks: the node does not shut down.              *)
THEOREM ExecutorNeverShutsDown ==
    ASSUME ~ StaleContexts
    PROVE  Spec => []NeverShutsDown
<1>1. ForkchoiceInv => NeverShutsDown
  BY DEF ForkchoiceInv, NeverShutsDown
<1> QED
  BY <1>1, ForkchoiceInvariant, PTL

(* A finalized block that was acknowledged to the marshal is on the        *)
(* layer's canonical chain, whatever heads were followed since.            *)
THEOREM AcknowledgedIsCanonical ==
    ASSUME ~ StaleContexts
    PROVE  Spec => []AcknowledgedStaysCanonical
<1>1. PipelineInv /\ ForkchoiceInv => AcknowledgedStaysCanonical
  <2>1. SUFFICES ASSUME PipelineInv, ForkchoiceInv, phase = "loop",
                        NEW b \in Chain[tree.netTip.digest], Height[b] <= acked
                 PROVE  b \in Chain[layer.head]
    BY DEF AcknowledgedStaysCanonical, IsCanonical
  <2>2. PICK ls : ls = Latest(tree, actor)
    OBVIOUS
  <2>3. /\ tree.netTip.digest \in Block /\ layer.fin \in Block /\ layer.head \in Block
        /\ layer.fin \in Certified /\ tree \in TreeState /\ actor \in ActorState
        /\ tree.fin \in Chain[tree.netTip.digest] /\ acked \in Int
    BY <2>1, ForkchoiceFacts
  <2>4. ls \in LocalState /\ ls.fin \in Chain[tree.netTip.digest]
    <3>1. CASE actor.task.outcome.kind = "state"
      <4>1. ls = actor.task.outcome.ls
        BY <2>2, <3>1 DEF Latest
      <4> QED
        BY SMTT(30), <2>1, <2>3, <3>1, <4>1, LoopFacts DEF Pipeline, ActorState, Task, Outcome
    <3>2. CASE actor.task.outcome.kind # "state"
      BY SMTT(30), <2>1, <2>2, <2>3, <3>2, ForkchoiceFacts DEF Latest
    <3> QED
      BY SMTT(30), <3>1, <3>2
  <2>5. ls.fin \in Block /\ ls.head \in Block /\ b \in Block
        /\ Height[ls.fin] \in Nat /\ Height[b] \in Nat /\ Height[layer.fin] \in Nat
    BY SMTT(30), <2>3, <2>4, ChainOfBlocks DEF LocalState
  <2>6. acked <= Height[ls.fin] /\ Follows(layer, ls) /\ layer.fin \in Chain[layer.head]
    BY SMTT(30), <2>1, <2>2 DEF ForkchoiceInv, TaskSound, LayerSound
  <2>7. Height[b] <= Height[ls.fin]
    BY SMTT(30), <2>1, <2>3, <2>5, <2>6
  <2>8. CASE Height[layer.fin] <= Height[ls.fin]
    <3>1. b \in Chain[ls.fin]
      BY SMTT(30), <2>3, <2>4, <2>5, <2>7, ChainOrdered
    <3>2. ls.fin \in Chain[ls.head] /\ ls.head \in Chain[layer.head]
      BY SMTT(30), <2>6, <2>8 DEF Follows, IsCanonical
    <3>3. ls.fin \in Chain[layer.head]
      BY SMTT(30), <2>3, <2>5, <3>2, ChainTransitive
    <3> QED
      BY SMTT(30), <2>3, <2>5, <3>1, <3>3, ChainTransitive
  <2>9. CASE ~ (Height[layer.fin] <= Height[ls.fin])
    <3>1. Height[b] <= Height[layer.fin]
      BY SMTT(30), <2>5, <2>7, <2>9
    <3>2. Comparable(b, layer.fin)
      BY SMTT(30), <2>1, <2>3, CoveredIsCertified, CertifiedComparable
    <3>3. b \in Chain[layer.fin]
      BY SMTT(30), <2>3, <2>5, <3>1, <3>2, ComparableByHeight
    <3> QED
      BY SMTT(30), <2>3, <2>5, <2>6, <3>3, ChainTransitive
  <2> QED
    BY <2>8, <2>9
<1> QED
  BY <1>1, PipelineInvariant, ForkchoiceInvariant, PTL

(* The tracked head is the tracked finalized block or descends from it.    *)
THEOREM TrackedHeadDescends ==
    ASSUME ~ StaleContexts
    PROVE  Spec => []HeadDescendsFromFinalized
<1>1. ForkchoiceInv => HeadDescendsFromFinalized
  BY SMTT(30) DEF ForkchoiceInv
<1> QED
  BY <1>1, ForkchoiceInvariant, PTL

(* While no outcome is waiting to be applied, the tracked head is on the   *)
(* layer's canonical chain, unless the layer's finality is ahead of the    *)
(* tracked state after a restore.                                          *)
THEOREM TrackedHeadFollowed ==
    ASSUME ~ StaleContexts
    PROVE  Spec => []TrackedHeadIsCanonical
<1>1. ForkchoiceInv => TrackedHeadIsCanonical
  <2>1. SUFFICES ASSUME ForkchoiceInv, Height[layer.fin] <= Height[tree.fin],
                        actor.task.outcome = Running
                 PROVE  IsCanonical(layer, tree.head)
    BY DEF TrackedHeadIsCanonical
  <2>2. Latest(tree, actor) = LocalOf(tree)
    BY <2>1 DEF Latest, Running
  <2> QED
    BY SMTT(30), <2>1, <2>2 DEF ForkchoiceInv, Follows, LocalOf
<1> QED
  BY <1>1, ForkchoiceInvariant, PTL
==============================================================================
