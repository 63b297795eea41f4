--------------------------- MODULE ExecutorLemmas ----------------------------
(***************************************************************************)
(* What the proofs about the executor use of the block tree, what the      *)
(* operators the executor is built from return and preserve, and what the  *)
(* pipeline of finalized blocks keeps as its parts change.                 *)
(***************************************************************************)
EXTENDS Executor, WellFoundedInduction, TLAPS

(* The ancestry as an order: the facts of the assumptions, one by one.     *)
LEMMA ChainReflexive ==
    \A b \in Block : b \in Chain[b]
BY Zenon, ChainAssumption

(* An ancestor of an ancestor is an ancestor.                              *)
LEMMA ChainTransitive ==
    \A a, b, c \in Block : a \in Chain[b] /\ b \in Chain[c] => a \in Chain[c]
BY ChainAssumption

(* An ancestor is not higher.                                              *)
LEMMA ChainHeight ==
    \A a, b \in Block : a \in Chain[b] => Height[a] <= Height[b]
BY ChainAssumption

(* Two ancestors of a block are ordered by their heights.                  *)
LEMMA ChainOrdered ==
    \A a, b, c \in Block :
        a \in Chain[c] /\ b \in Chain[c] /\ Height[a] <= Height[b] => a \in Chain[b]
BY ChainAssumption

(* Ancestors are blocks and heights are natural numbers.                   *)
LEMMA ChainOfBlocks ==
    /\ \A b \in Block : Chain[b] \subseteq Block
    /\ \A b \in Block : Height[b] \in Nat
BY TreeAssumption

(* The ancestor a walk asks for exists and has the height asked for.       *)
LEMMA AncestorAtHeight ==
    ASSUME NEW b \in Block, NEW h \in Nat, h <= Height[b]
    PROVE  /\ AncestorAt(b, h) \in Block
           /\ AncestorAt(b, h) \in Chain[b]
           /\ Height[AncestorAt(b, h)] = h
<1>1. Height[b] \in Nat /\ Chain[b] \subseteq Block
  BY TreeAssumption
<1>2. \E a \in Chain[b] : Height[a] = h
  BY <1>1, ChainAssumption
<1> QED
  BY <1>1, <1>2 DEF AncestorAt

(* Every chain starts at the genesis block.                                *)
LEMMA GenesisIsCommon ==
    ASSUME NEW b \in Block
    PROVE  Genesis \in Chain[b]
<1>1. Height[b] \in Nat /\ Chain[b] \subseteq Block
  BY TreeAssumption
<1>2. PICK a \in Chain[b] : Height[a] = 0
  BY <1>1, ChainAssumption
<1>3. a = Genesis
  <2>1. SUFFICES ASSUME a # Genesis PROVE FALSE
    OBVIOUS
  <2>2. Height[a] = Height[Parent[a]] + 1 /\ Height[Parent[a]] \in Nat
    BY <1>1, <2>1, TreeAssumption
  <2> QED
    BY <1>2, <2>2
<1> QED
  BY <1>2, <1>3

(* Below a block, a chain continues with a child of any ancestor: the step *)
(* up from an anchor exists.                                               *)
LEMMA ChildOnChain ==
    ASSUME NEW top \in Block, NEW a \in Chain[top], Height[a] < Height[top]
    PROVE  \E c \in Chain[top] : /\ Parent[c] = a
                                 /\ Height[c] = Height[a] + 1
                                 /\ c # a
<1>1. Chain[top] \subseteq Block /\ a \in Block /\ Height[a] \in Nat /\ Height[top] \in Nat
  BY TreeAssumption
<1>2. PICK c \in Chain[top] : Height[c] = Height[a] + 1
  BY <1>1, ChainAssumption
<1>3. c \in Block /\ c # Genesis
  BY <1>1, <1>2, TreeAssumption
<1>4. Parent[c] \in Block /\ Height[Parent[c]] = Height[a]
  BY <1>1, <1>2, <1>3, TreeAssumption
<1>5. Parent[c] \in Chain[top]
  BY <1>3, <1>4, ChainAssumption
<1>6. Parent[c] = a
  BY <1>1, <1>4, <1>5, ChainAssumption
<1> QED
  BY <1>1, <1>2, <1>6

(* A non-empty part of a chain has a highest block.                        *)
LEMMA HighestExists ==
    ASSUME NEW top \in Block, NEW S \in SUBSET Chain[top], S # {}
    PROVE  \E a \in S : \A b \in S : Height[b] <= Height[a]
<1>1. Chain[top] \subseteq Block /\ Height[top] \in Nat
  BY TreeAssumption
<1>2. \A b \in S : b \in Block /\ Height[b] \in Nat /\ Height[b] <= Height[top]
  BY Zenon, <1>1, TreeAssumption, ChainAssumption
<1> DEFINE Depth == {n \in Nat : \E b \in S : n = Height[top] - Height[b]}
<1>3. \A b \in S : Height[top] - Height[b] \in Depth
  BY <1>1, <1>2
<1>4. Depth # {} /\ Depth \in SUBSET Nat
  BY <1>3
<1> HIDE DEF Depth
<1>5. PICK n \in Depth : \A k \in Depth : n <= k
  <2>1. PICK n \in Depth : \A k \in Depth : ~ (<<k, n>> \in OpToRel(<, Nat))
    BY Zenon, <1>4, WFMin, NatLessThanWellFounded
  <2>2. \A k \in Depth : ~ (k < n)
    BY Zenon, <1>4, <2>1 DEF OpToRel
  <2> QED
    BY <1>4, <2>2
<1>6. PICK a \in S : n = Height[top] - Height[a]
  BY <1>5 DEF Depth
<1>7. \A b \in S : Height[b] <= Height[a]
  BY SMTT(30), <1>1, <1>2, <1>3, <1>5, <1>6
<1> QED
  BY <1>7

------------------------------------------------------------------------------

(* u differs from t neither in the network's nor in the local finalized    *)
(* tip.                                                                    *)
SameTips(t, u) ==
    /\ u \in TreeState
    /\ u.withheld \subseteq u.blocks
    /\ u.netTip = t.netTip
    /\ u.fin = t.fin

(* Recording and pruning never touch the finalized tips.                   *)
LEMMA TreeUpdates ==
    ASSUME NEW t \in TreeState, t.withheld \subseteq t.blocks,
           NEW b \in Block, NEW r \in Nat
    PROVE  /\ SameTips(t, Remove(t, b))
           /\ SameTips(t, RecordBlock(t, b))
           /\ SameTips(t, MarkRejected(t, b))
           /\ SameTips(t, SetPendingHead(t, r, b))
           /\ SameTips(t, Heal(t))
<1> USE DEF SameTips, TreeState, Tip
<1>1. SameTips(t, Remove(t, b))
  BY Zenon DEF Remove
<1>2. SameTips(t, RecordBlock(t, b))
  BY Zenon, <1>1 DEF RecordBlock
<1>3. SameTips(t, MarkRejected(t, b))
  BY DEF MarkRejected
<1>4. SameTips(t, SetPendingHead(t, r, b))
  BY DEF SetPendingHead
<1>5. SameTips(t, Heal(t))
  BY Zenon DEF Heal
<1> QED
  BY <1>1, <1>2, <1>3, <1>4, <1>5

(* The convergence step names a block.                                     *)
LEMMA NextToForwardType ==
    ASSUME NEW t \in TreeState
    PROVE  /\ NextToForward(t).kind \in {"none", "block", "repoint"}
           /\ NextToForward(t).block \in Block
<1> DEFINE tip == t.netTip.digest
           top == t.pend.digest
           path == Chain[top]
           anchors == path \cap {t.head, tip}
           anchor == Highest(anchors)
           walked == {b \in path : Height[b] > Height[anchor]}
           child == CHOOSE b \in walked : Parent[b] = anchor
<1>1. /\ tip \in Block /\ top \in Block /\ Genesis \in Block
      /\ path \subseteq Block
      /\ \A b \in Block : Height[b] \in Nat
  BY TreeAssumption DEF TreeState, Tip
<1>2. ASSUME anchors # {}, walked # {}
      PROVE  child \in Block
  <2>1. anchor \in anchors
    BY SMTT(30), <1>1, <1>2, HighestExists DEF Highest
  <2>2. anchor \in path
    BY <2>1
  <2> HIDE DEF anchor
  <2>3. PICK b \in path : Height[b] > Height[anchor]
    BY <1>2
  <2>4. Height[anchor] < Height[top]
    <3>1. Height[b] <= Height[top]
      BY <1>1, <2>3, ChainAssumption
    <3> QED
      BY <1>1, <2>2, <2>3, <3>1
  <2>5. PICK c \in path : Parent[c] = anchor /\ Height[c] = Height[anchor] + 1
    BY <1>1, <2>2, <2>4, ChildOnChain
  <2>6. c \in walked
    BY <1>1, <2>2, <2>5
  <2> QED
    BY <1>1, <2>5, <2>6
<1> QED
  BY SMTT(30), <1>1, <1>2 DEF NextToForward, NoStep

(* The body to fetch is a block, and its round a round.                    *)
LEMMA FirstMissingAncestorType ==
    ASSUME NEW t \in TreeState
    PROVE  FirstMissingAncestor(t) \in Tip
<1> DEFINE top == t.pend.digest
           path == Chain[top]
           gap == Highest(path \ t.blocks)
<1>1. /\ top \in Block /\ t.pend.round \in Nat /\ Genesis \in Block
      /\ path \subseteq Block
      /\ \A b \in Block : Height[b] \in Nat /\ ParentRound[b] \in Nat
  BY TreeAssumption DEF TreeState, Tip
<1>2. NoFetch \in Tip
  BY <1>1 DEF NoFetch, Tip
<1>3. ASSUME path \ t.blocks # {}
      PROVE  gap \in path /\ WalkRound(t, gap) \in Nat
  <2>1. gap \in path \ t.blocks
    BY Zenon, <1>1, <1>3, HighestExists DEF Highest
  <2> HIDE DEF gap
  <2>2. ASSUME gap # top
        PROVE  \E c \in path : c # gap /\ Parent[c] = gap
    <3>1. Height[gap] < Height[top]
      BY <1>1, <2>1, <2>2, ChainAssumption
    <3> QED
      BY <1>1, <2>1, <3>1, ChildOnChain
  <2> QED
    BY <1>1, <2>1, <2>2 DEF WalkRound
<1> QED
  BY <1>1, <1>2, <1>3 DEF FirstMissingAncestor, Tip

------------------------------------------------------------------------------

(* A new task takes over the tracked state.                                *)
LEMMA NewTaskType ==
    ASSUME NEW t \in TreeState, NEW b \in Block, NEW type \in TaskType
    PROVE  NewTask(type, t, b) \in Task
BY SMTT(30), TreeAssumption DEF NewTask, Task, LocalOf, LocalState, TreeState, Running, Outcome, NoLocal

(* The actor's idle slot takes a request, a convergence step or the oldest *)
(* finalized block; nothing else happens to the pipeline, and the queued   *)
(* request stays or goes.                                                  *)
LEMMA StartNextExecutionTaskEffect ==
    ASSUME NEW t \in TreeState, NEW a \in ActorState
    PROVE  LET s == StartNextExecutionTask(t, a)
           IN  /\ s \in ActorState
               /\ s.request \in {a.request, NoRequest}
               /\ \/ s.queue = a.queue /\ s.task = a.task
                  \/ /\ Idle(a)
                     /\ s.queue = a.queue
                     /\ s.task.type \notin {"none", "finalize"}
                     /\ s.task.on = LocalOf(t)
                     /\ s.task.outcome = Running
                  \/ /\ Idle(a)
                     /\ a.queue # <<>>
                     /\ s.queue = Tail(a.queue)
                     /\ s.task = NewTask("finalize", t, Head(a.queue))
<1> DEFINE step == NextToForward(t)
           kept == IF RequestKept(t, a) THEN a.request ELSE NoRequest
<1>1. step.kind \in {"none", "block", "repoint"} /\ step.block \in Block
  BY NextToForwardType
<1>2. NoRequest \in Request /\ kept \in Request /\ kept \in {a.request, NoRequest}
  BY TreeAssumption DEF NoRequest, Request, ActorState
<1> HIDE DEF step, kept
<1>3. CASE ~ Idle(a)
  BY <1>3 DEF StartNextExecutionTask
<1>4. CASE Idle(a) /\ RequestStarts(t, a)
  <2>1. a.request.kind \in {"verify", "build"} /\ a.request.block \in Block
    BY SMTT(30), <1>4 DEF RequestStarts, ActorState, Request
  <2> DEFINE task == NewTask(a.request.kind, t, a.request.block)
  <2>2. /\ task \in Task
        /\ task.type \notin {"none", "finalize"}
        /\ task.on = LocalOf(t)
        /\ task.outcome = Running
    <3>1. a.request.kind \in TaskType
      BY <2>1 DEF TaskType
    <3> QED
      BY <2>1, <3>1, NewTaskType DEF NewTask
  <2>3. StartNextExecutionTask(t, a) = [a EXCEPT !.task = task, !.request = NoRequest]
    BY <1>4 DEF StartNextExecutionTask
  <2> HIDE DEF task
  <2> QED
    BY Zenon, <1>2, <1>4, <2>2, <2>3 DEF ActorState
<1>5. CASE Idle(a) /\ ~ RequestStarts(t, a) /\ step # NoStep
  <2> DEFINE task == NewTask(step.kind, t, step.block)
  <2>1. StartNextExecutionTask(t, a) = [a EXCEPT !.task = task, !.request = kept]
    BY <1>5 DEF StartNextExecutionTask, step, kept
  <2>2. CASE step.kind # "none"
    <3>1. /\ task \in Task
          /\ task.type \notin {"none", "finalize"}
          /\ task.on = LocalOf(t)
          /\ task.outcome = Running
      <4>1. step.kind \in TaskType
        BY <1>1 DEF TaskType
      <4> QED
        BY <1>1, <2>2, <4>1, NewTaskType DEF NewTask
    <3> HIDE DEF task
    <3> QED
      BY Zenon, <1>2, <1>5, <2>1, <3>1 DEF ActorState
  <2>3. CASE step.kind = "none"
    BY Zenon, <1>5, <2>3 DEF step, NextToForward, NoStep
  <2> QED
    BY <2>2, <2>3
<1>6. CASE Idle(a) /\ ~ RequestStarts(t, a) /\ step = NoStep /\ a.queue # <<>>
  <2> DEFINE task == NewTask("finalize", t, Head(a.queue))
  <2>1. a.queue \in Seq(Block)
    BY DEF ActorState
  <2>2. Head(a.queue) \in Block /\ Tail(a.queue) \in Seq(Block)
    BY <1>6, <2>1
  <2>3. task \in Task
    BY <2>2, NewTaskType DEF TaskType
  <2>4. StartNextExecutionTask(t, a)
          = [[a EXCEPT !.task = task, !.queue = Tail(@)] EXCEPT !.request = kept]
    BY <1>6 DEF StartNextExecutionTask, StartFinalization, step, kept
  <2> HIDE DEF task
  <2>5. LET s == StartNextExecutionTask(t, a)
        IN  /\ s \in ActorState
            /\ s.request = kept
            /\ s.queue = Tail(a.queue)
            /\ s.task = task
    BY Zenon, <1>2, <2>2, <2>3, <2>4 DEF ActorState
  <2> QED
    BY <1>2, <1>6, <2>5 DEF task
<1>7. CASE Idle(a) /\ ~ RequestStarts(t, a) /\ step = NoStep /\ a.queue = <<>>
  <2>1. StartNextExecutionTask(t, a) = [a EXCEPT !.request = kept]
    BY SMTT(30), <1>7 DEF StartNextExecutionTask, step, kept
  <2> QED
    BY <1>2, <2>1 DEF ActorState
<1> QED
  BY <1>3, <1>4, <1>5, <1>6, <1>7

------------------------------------------------------------------------------

(* The pipeline is a matter of the finalized tips, the queue and the task. *)
LEMMA PipelineDepends ==
    ASSUME NEW t, NEW u, NEW a, NEW s, NEW n,
           Pipeline(t, a, n),
           u.netTip = t.netTip, u.fin = t.fin, s.queue = a.queue, s.task = a.task
    PROVE  Pipeline(u, s, n)
BY DEF Pipeline

(* A task that is not a finalization leaves the pipeline as it was.        *)
LEMMA PipelineNewTask ==
    ASSUME NEW t \in TreeState, NEW a \in ActorState, NEW s \in ActorState, NEW n \in Nat,
           Pipeline(t, a, n), Idle(a),
           s.queue = a.queue,
           s.task.type \notin {"none", "finalize"},
           s.task.on = LocalOf(t),
           s.task.outcome = Running
    PROVE  Pipeline(t, s, n)
<1>1. s.task.outcome.kind = "running" /\ s.task.on.fin = t.fin
  BY DEF Running, LocalOf
<1> QED
  BY Zenon, <1>1 DEF Pipeline, Idle

(* Starting a finalization moves the oldest queued block into the slot.    *)
LEMMA PipelineFinalization ==
    ASSUME NEW t \in TreeState, NEW a \in ActorState, NEW s \in ActorState, NEW n \in Nat,
           Pipeline(t, a, n), Idle(a), a.queue # <<>>,
           s.queue = Tail(a.queue),
           s.task = NewTask("finalize", t, Head(a.queue))
    PROVE  Pipeline(t, s, n)
<1>1. /\ s.task.type = "finalize"
      /\ s.task.block = Head(a.queue)
      /\ s.task.on.fin = t.fin
      /\ s.task.outcome.kind = "running"
  BY DEF NewTask, LocalOf, Running
<1>2. /\ a.queue \in Seq(Block)
      /\ Len(a.queue) \in Nat /\ Len(a.queue) # 0
      /\ Len(s.queue) \in Nat
      /\ Head(a.queue) = a.queue[1]
      /\ Len(s.queue) = Len(a.queue) - 1
      /\ \A i \in 1 .. Len(s.queue) : s.queue[i] = a.queue[i + 1]
  BY DEF ActorState
<1>3. n - Len(a.queue) <= Height[t.fin] + 1
  BY DEF Pipeline, Idle
<1>4. \A i \in 1 .. Len(a.queue) :
          /\ a.queue[i] \in Chain[t.netTip.digest]
          /\ Height[a.queue[i]] = n - Len(a.queue) + i - 1
  BY Zenon DEF Pipeline
<1>5. \A i \in 1 .. Len(s.queue) :
          /\ s.queue[i] \in Chain[t.netTip.digest]
          /\ Height[s.queue[i]] = n - Len(s.queue) + i - 1
  <2>1. SUFFICES ASSUME NEW i \in 1 .. Len(s.queue)
                 PROVE  /\ s.queue[i] \in Chain[t.netTip.digest]
                        /\ Height[s.queue[i]] = n - Len(s.queue) + i - 1
    BY Zenon
  <2>2. i + 1 \in 1 .. Len(a.queue)
    BY <1>2
  <2>3. \A k, j \in Int : n - k + (j + 1) - 1 = n - (k - 1) + j - 1
    OBVIOUS
  <2>4. n - Len(a.queue) + (i + 1) - 1 = n - (Len(a.queue) - 1) + i - 1
    BY <1>2, <2>3
  <2> QED
    BY Zenon, <1>2, <1>4, <2>2, <2>4
<1>6. 1 \in 1 .. Len(a.queue) /\ n - Len(a.queue) + 1 - 1 = n - Len(a.queue)
  BY <1>2
<1>7. /\ a.queue[1] \in Chain[t.netTip.digest]
      /\ Height[a.queue[1]] = n - Len(a.queue)
  BY Zenon, <1>2, <1>4, <1>6
<1>8. Height[a.queue[1]] = n - Len(s.queue) - 1
  <2>1. \A k \in Int : n - k = n - (k - 1) - 1
    OBVIOUS
  <2>2. n - Len(a.queue) = n - (Len(a.queue) - 1) - 1
    BY <1>2, <2>1
  <2> QED
    BY Zenon, <1>2, <1>7, <2>2
<1> QED
  BY Zenon, <1>1, <1>2, <1>3, <1>5, <1>7, <1>8 DEF Pipeline

(* The forkchoice state a task derives from the one it was given: only a   *)
(* finalization moves the finalized side, onto the block it delivers.      *)
LEMMA LocalStateUpdates ==
    ASSUME NEW ls \in LocalState, NEW b \in Block, NEW e \in LayerState
    PROVE  /\ UpdateHead(ls, b) \in LocalState
           /\ UpdateHead(ls, b).fin = ls.fin
           /\ FinalizationTarget(e, ls, b) \in LocalState
           /\ DeliveryInOrder(ls, b) => FinalizationTarget(e, ls, b).fin = b
<1> USE DEF LocalState
<1>1. \A l \in LocalState : UpdateHead(l, b) \in LocalState /\ UpdateHead(l, b).fin = l.fin
  BY DEF UpdateHead
<1>2. /\ UpdateFinalized(ls, b) \in LocalState
      /\ Height[b] > Height[ls.fin] => UpdateFinalized(ls, b).fin = b
  BY DEF UpdateFinalized
<1>3. FinalizationTarget(e, ls, b) \in LocalState
  BY <1>1, <1>2 DEF FinalizationTarget
<1>4. ASSUME DeliveryInOrder(ls, b)
      PROVE  FinalizationTarget(e, ls, b).fin = b
  <2>1. CASE b = ls.fin
    BY <2>1 DEF FinalizationTarget
  <2>2. CASE b # ls.fin
    BY <1>1, <1>2, <1>4, <2>2 DEF FinalizationTarget, DeliveryInOrder
  <2> QED
    BY <2>1, <2>2
<1> QED
  BY <1>1, <1>3, <1>4

------------------------------------------------------------------------------

(* Of two blocks that certificates cover, the lower one is an ancestor of  *)
(* the other.                                                              *)
LEMMA CertifiedIsAChain ==
    ASSUME certs \subseteq Block,
           \A b, c \in certs : b \in Chain[c] \/ c \in Chain[b],
           NEW a \in Certified, NEW b \in Certified, Height[a] <= Height[b]
    PROVE  a \in Chain[b]
<1>1. a \in Block /\ b \in Block /\ Genesis \in Block
  BY TreeAssumption DEF Certified
<1>2. CASE a = Genesis
  BY <1>1, <1>2, GenesisIsCommon
<1>3. CASE a # Genesis
  <2>1. PICK c \in certs : a \in Chain[c]
    BY <1>3 DEF Certified
  <2>2. c \in Block
    BY <2>1
  <2>3. CASE b = Genesis
    <3>1. b \in Chain[c]
      BY <2>2, <2>3, GenesisIsCommon
    <3> QED
      BY <1>1, <2>1, <2>2, <3>1, ChainAssumption
  <2>4. CASE b # Genesis
    <3>1. PICK d \in certs : b \in Chain[d]
      BY <2>4 DEF Certified
    <3>2. d \in Block
      BY <3>1
    <3>3. \E x \in {c, d} : a \in Chain[x] /\ b \in Chain[x]
      BY <1>1, <2>1, <2>2, <3>1, <3>2, ChainAssumption
    <3> QED
      BY <1>1, <2>2, <3>2, <3>3, ChainAssumption
  <2> QED
    BY <2>3, <2>4
<1> QED
  BY <1>2, <1>3

(* The empty task slot.                                                    *)
LEMMA NoTaskType == NoTask \in Task /\ NoTask.type = "none" /\ NoTask.outcome.kind = "running"
<1>1. NoLocal \in LocalState
  BY TreeAssumption DEF NoLocal, LocalState
<1>2. Running \in Outcome /\ Running.kind = "running"
  BY <1>1 DEF Running, Outcome
<1> QED
  BY <1>1, <1>2, TreeAssumption DEF NoTask, Task, TaskType

(* The actor of a new run has an empty pipeline.                           *)
LEMMA NewActorType ==
    /\ NewActor \in ActorState
    /\ NewActor.queue = <<>> /\ Len(NewActor.queue) = 0
    /\ NewActor.task = NoTask
<1>1. NoRequest \in Request
  BY TreeAssumption DEF NoRequest, Request
<1>2. NoFetch \in Tip
  BY TreeAssumption DEF NoFetch, Tip
<1>3. <<>> \in Seq(Block) /\ Len(<<>>) = 0
  OBVIOUS
<1>4. NewActor \in ActorState
  BY <1>1, <1>2, <1>3, NoTaskType DEF NewActor, ActorState
<1> QED
  BY <1>3, <1>4 DEF NewActor

(* What the network's chain covers is certified.                           *)
LEMMA CoveredIsCertified ==
    ASSUME PipelineInv, NEW b \in Chain[tree.netTip.digest]
    PROVE  b \in Block /\ b \in Certified
<1>1. tree.netTip.digest \in Block
  BY DEF PipelineInv, TypeOK, TreeState, Tip
<1>2. b \in Block
  BY <1>1, TreeAssumption
<1>3. tree.netTip.digest = Genesis => b = Genesis
  BY ChainAssumption
<1> QED
  BY <1>2, <1>3 DEF PipelineInv, Certified

------------------------------------------------------------------------------

(* The outcomes the tasks report have their type.                          *)
LEMMA OutcomeTypes ==
    /\ Completed \in Outcome /\ Completed.kind = "none"
    /\ Rejected \in Outcome /\ Rejected.kind = "rejected"
    /\ Fatal \in Outcome /\ Fatal.kind = "fatal"
    /\ \A ls \in LocalState, job \in BOOLEAN :
          /\ CompletedWith(ls, job) \in Outcome
          /\ CompletedWith(ls, job).kind = "state"
          /\ CompletedWith(ls, job).ls = ls
BY TreeAssumption DEF Completed, Rejected, Fatal, CompletedWith, Outcome, NoLocal, LocalState

(* The loop's own state, as the branches find it.                          *)
LEMMA LoopFacts ==
    ASSUME PipelineInv, phase = "loop"
    PROVE  /\ tree \in TreeState /\ tree.withheld \subseteq tree.blocks
           /\ actor \in ActorState
           /\ Pipeline(tree, actor, next)
           /\ next \in Nat
           /\ tree.fin \in Block /\ tree.netTip.digest \in Block
           /\ Height[tree.fin] \in Nat
           /\ tree.fin \in Chain[tree.netTip.digest]
           /\ tree.netTip.digest \in certs \cup {Genesis}
           /\ certs \subseteq Block /\ proposals \subseteq Block /\ asked \subseteq proposals
           /\ \A b, c \in certs : b \in Chain[c] \/ c \in Chain[b]
BY TreeAssumption DEF PipelineInv, TypeOK, TreeState, Tip

(* What a heartbeat leaves in the slot keeps the pipeline.                 *)
LEMMA HeartbeatPipeline ==
    ASSUME PipelineInv, phase = "loop",
           NEW s, s = StartNextExecutionTask(tree, actor),
           NEW a, a = IF Idle(s)
                      THEN [s EXCEPT !.task = NewTask("heartbeat", tree, Genesis)]
                      ELSE s
    PROVE  /\ s \in ActorState /\ a \in ActorState /\ a.queue = s.queue
           /\ Pipeline(tree, a, next)
           /\ IF Idle(s) THEN a.task = NewTask("heartbeat", tree, Genesis) ELSE a = s
<1>2. /\ tree \in TreeState /\ actor \in ActorState
      /\ Pipeline(tree, actor, next) /\ next \in Nat
  BY LoopFacts
<1>3. s \in ActorState /\ Pipeline(tree, s, next)
  <2>1. /\ s \in ActorState
        /\ \/ s.queue = actor.queue /\ s.task = actor.task
           \/ /\ Idle(actor)
              /\ s.queue = actor.queue
              /\ s.task.type \notin {"none", "finalize"}
              /\ s.task.on = LocalOf(tree)
              /\ s.task.outcome = Running
           \/ /\ Idle(actor)
              /\ actor.queue # <<>>
              /\ s.queue = Tail(actor.queue)
              /\ s.task = NewTask("finalize", tree, Head(actor.queue))
    BY <1>2, StartNextExecutionTaskEffect
  <2> QED
    BY <1>2, <2>1, PipelineDepends, PipelineNewTask, PipelineFinalization
<1>4. /\ a \in ActorState /\ a.queue = s.queue /\ Pipeline(tree, a, next)
      /\ IF Idle(s) THEN a.task = NewTask("heartbeat", tree, Genesis) ELSE a = s
  <2>1. CASE Idle(s)
    <3> DEFINE h == [s EXCEPT !.task = NewTask("heartbeat", tree, Genesis)]
    <3>1. NewTask("heartbeat", tree, Genesis) \in Task
      BY <1>2, NewTaskType, TreeAssumption DEF TaskType
    <3>2. /\ h \in ActorState /\ h.queue = s.queue
          /\ h.task = NewTask("heartbeat", tree, Genesis)
      BY <1>3, <3>1 DEF ActorState
    <3>3. /\ h.task.type \notin {"none", "finalize"}
          /\ h.task.on = LocalOf(tree)
          /\ h.task.outcome = Running
      BY <3>2 DEF NewTask
    <3> HIDE DEF h
    <3>4. Pipeline(tree, h, next)
      BY <1>2, <1>3, <2>1, <3>2, <3>3, PipelineNewTask
    <3> QED
      BY <2>1, <3>2, <3>4 DEF h
  <2>2. CASE ~ Idle(s)
    BY SMTT(30), <1>3, <2>2
  <2> QED
    BY <2>1, <2>2
<1> QED
  BY <1>3, <1>4

(* A tip that advances covers what the old one covered.                    *)
LEMMA PipelineAdvances ==
    ASSUME NEW t \in TreeState, NEW u \in TreeState, NEW a, NEW n,
           Pipeline(t, a, n), u.fin = t.fin,
           t.netTip.digest \in Chain[u.netTip.digest]
    PROVE  Pipeline(u, a, n)
<1>1. t.netTip.digest \in Block /\ u.netTip.digest \in Block
  BY DEF TreeState, Tip
<1>2. ASSUME NEW b \in Chain[t.netTip.digest]
      PROVE  b \in Chain[u.netTip.digest]
  <2>1. b \in Block
    BY <1>1, TreeAssumption
  <2> QED
    BY <1>1, <2>1, ChainTransitive
<1> QED
  BY <1>2 DEF Pipeline

(* A block delivered in order takes the last place of the queue.           *)
LEMMA DeliveredPipeline ==
    ASSUME PipelineInv, phase = "loop", next <= Height[tree.netTip.digest],
           NEW a, a = [actor EXCEPT !.queue =
                         Append(@, AncestorAt(tree.netTip.digest, next))],
           NEW n \in Nat, n = next + 1
    PROVE  /\ a \in ActorState /\ a.task = actor.task
           /\ n - Len(a.queue) = next - Len(actor.queue)
           /\ Pipeline(tree, a, n)
<1> DEFINE b == AncestorAt(tree.netTip.digest, next)
<1>2. /\ tree \in TreeState /\ actor \in ActorState
      /\ Pipeline(tree, actor, next)
      /\ next \in Nat
      /\ tree.netTip.digest \in Block /\ Height[tree.fin] \in Nat
  BY LoopFacts
<1>3. b \in Block /\ b \in Chain[tree.netTip.digest] /\ Height[b] = next
  BY <1>2, AncestorAtHeight
<1>q. a = [actor EXCEPT !.queue = Append(@, b)]
  OBVIOUS
<1> HIDE DEF b
<1>4. actor.queue \in Seq(Block) /\ Len(actor.queue) \in Nat
  <2>1. actor.queue \in Seq(Block)
    BY <1>2 DEF ActorState
  <2> QED
    BY <2>1
<1>n. next \in Nat
  BY <1>2
<1>5. a \in ActorState /\ a.queue = Append(actor.queue, b) /\ a.task = actor.task
  <2>1. Append(actor.queue, b) \in Seq(Block)
    BY SMTT(30), <1>3, <1>4
  <2> QED
    BY Zenon, <1>2, <1>q, <2>1 DEF ActorState
<1>6. Pipeline(tree, a, n) /\ n - Len(a.queue) = next - Len(actor.queue)
  <2> DEFINE q == actor.queue
  <2>1. /\ Len(a.queue) = Len(q) + 1
        /\ \A i \in 1 .. Len(q) : a.queue[i] = q[i]
        /\ a.queue[Len(q) + 1] = b
    BY <1>3, <1>4, <1>5
  <2>3. n - Len(a.queue) = next - Len(q)
    <3>1. PICK k \in Nat : k = Len(q)
      BY <1>4
    <3>2. n - (k + 1) = next - k
      <4>1. n = next + 1
        OBVIOUS
      <4> QED
        BY <1>n, <4>1
    <3>3. Len(a.queue) = k + 1
      BY <2>1, <3>1
    <3> QED
      BY <3>1, <3>2, <3>3
  <2>4. ASSUME NEW i \in 1 .. Len(a.queue)
        PROVE  /\ a.queue[i] \in Chain[tree.netTip.digest]
               /\ Height[a.queue[i]] = n - Len(a.queue) + i - 1
    <3>1. CASE i \in 1 .. Len(q)
      <4>1. /\ q[i] \in Chain[tree.netTip.digest]
            /\ Height[q[i]] = next - Len(q) + i - 1
        BY SMTT(30), <1>2, <3>1 DEF Pipeline
      <4> QED
        BY SMTT(30), <2>1, <2>3, <3>1, <4>1
    <3>2. CASE i = Len(q) + 1
      <4>1. \A k \in Int : next - k + (k + 1) - 1 = next
        BY <1>n
      <4>2. next - Len(q) + (Len(q) + 1) - 1 = next
        BY SMTT(30), <1>4, <4>1
      <4>3. n - Len(a.queue) + i - 1 = next
        BY <2>3, <3>2, <4>2
      <4> QED
        BY SMTT(30), <1>3, <2>1, <3>2, <4>3
    <3>3. i \in 1 .. Len(q) \/ i = Len(q) + 1
      BY <1>4, <2>1
    <3> QED
      BY SMTT(30), <3>1, <3>2, <3>3
  <2>5. actor.task.type = "finalize" => Height[actor.task.block] = n - Len(a.queue) - 1
    BY <1>2, <2>3 DEF Pipeline
  <2>6. actor.task.type # "finalize" => n - Len(a.queue) <= Height[tree.fin] + 1
    BY SMTT(30), <1>2, <2>3 DEF Pipeline
  <2>7. LET task == actor.task
            out == task.outcome
        IN  /\ task.type # "none" => task.on.fin = tree.fin
            /\ out.kind = "state" =>
                  /\ out.ls.fin \in Chain[tree.netTip.digest]
                  /\ out.ls.fin = tree.fin \/ Height[out.ls.fin] = Height[tree.fin] + 1
            /\ task.type = "finalize" =>
                  /\ task.block \in Chain[tree.netTip.digest]
                  /\ Height[task.block] <= Height[tree.fin] + 1
                  /\ out.kind \in {"running", "state", "fatal"}
                  /\ out.kind = "state" => Height[task.block] <= Height[out.ls.fin]
    BY <1>2 DEF Pipeline
  <2> QED
    BY SMTT(30), <1>5, <2>3, <2>4, <2>5, <2>6, <2>7 DEF Pipeline
<1> QED
  BY <1>5, <1>6

(* A request only replaces the queued one.                                 *)
LEMMA QueueEffect ==
    ASSUME NEW a \in ActorState, NEW r \in Request
    PROVE  LET q == QueueConsensusRequest(a, r)
           IN  /\ q \in ActorState
               /\ q.queue = a.queue /\ q.task = a.task
               /\ \/ q.request = a.request
                  \/ /\ q.request = r
                     /\ a.request.kind = "none" \/ Round[r.block] > Round[a.request.block]
<1>1. a.request \in Request
  BY DEF ActorState
<1>2. r.block \in Block /\ a.request.block \in Block
  BY <1>1 DEF Request
<1>3. Round[r.block] \in Nat /\ Round[a.request.block] \in Nat
  BY <1>2, TreeAssumption
<1>4. CASE a.request.kind # "none" /\ Round[r.block] <= Round[a.request.block]
  BY <1>4 DEF QueueConsensusRequest
<1>5. CASE a.request.kind = "none" \/ Round[r.block] > Round[a.request.block]
  <2>1. QueueConsensusRequest(a, r) = [a EXCEPT !.request = r]
    BY SMTT(30), <1>3, <1>5 DEF QueueConsensusRequest
  <2> QED
    BY <1>5, <2>1 DEF ActorState
<1>6. ~ (Round[r.block] <= Round[a.request.block]) => Round[r.block] > Round[a.request.block]
  BY <1>3, SMTT(30)
<1> QED
  BY <1>4, <1>5, <1>6

(* The heights the marshal may come back with.                             *)
LEMMA StoredHeightsType ==
    ASSUME PipelineInv
    PROVE  StoredHeights \subseteq Nat
<1>1. floor \in Nat /\ acked \in Nat \cup {-1}
  BY Zenon DEF PipelineInv, TypeOK
<1> QED
  BY <1>1 DEF StoredHeights
==============================================================================
