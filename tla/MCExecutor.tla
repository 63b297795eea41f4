----------------------------- MODULE MCExecutor -----------------------------
(***************************************************************************)
(* Executor on every block tree of Rounds rounds.                          *)
(*                                                                         *)
(* A block stands for the set of the rounds of its ancestry, itself        *)
(* included, written as a binary number: 0 is genesis, 5 = 101 is the      *)
(* block of round 3 whose parent is the block 1 of round 1.  All trees     *)
(* with one proposal per round are in this universe, and the guards of     *)
(* Executor keep one notarized block per round.                            *)
(***************************************************************************)
EXTENDS Executor, FiniteSetsExt, TLC

CONSTANTS
    Rounds,      \* number of rounds
    EpochFirst   \* rounds that open an epoch

MCBlock == 0 .. 2 ^ Rounds - 1
MCGenesis == 0
RoundsOf(b) == {r \in 1 .. Rounds : (b \div 2 ^ (r - 1)) % 2 = 1}
Last(b) == Max(RoundsOf(b) \cup {0})
Cut(b, r) == b % 2 ^ r

\* TLC evaluates these tables once: "@@ <<>>" makes it enumerate them, and
\* a constant of the .cfg names one through a definition of its own.
ParentTable == [b \in MCBlock |-> IF b = 0 THEN 0 ELSE Cut(b, Last(b) - 1)] @@ <<>>
HeightTable == [b \in MCBlock |-> Cardinality(RoundsOf(b))] @@ <<>>
\* Odd numbers are left for the view 0 of an epoch.
RoundTable == [b \in MCBlock |-> 2 * Last(b)] @@ <<>>
ParentRoundTable ==
    [b \in MCBlock |-> IF Last(b) \in EpochFirst
                       THEN 2 * Last(b) - 1
                       ELSE 2 * Last(ParentTable[b])] @@ <<>>
ChainTable == [b \in MCBlock |-> {Cut(b, r) : r \in RoundsOf(b) \cup {0}}] @@ <<>>

MCParent == ParentTable
MCHeight == HeightTable
MCRound == RoundTable
MCParentRound == ParentRoundTable
MCChain == ChainTable
------------------------------------------------------------------------------
(* One run explores several scenarios, each with its own bounds: a fork    *)
(* needs rounds and contexts, a race of requests needs requests and a      *)
(* fault, a crash needs a restart, and all of them together are out of     *)
(* reach.  A behaviour keeps to the scenario it starts in; the bounds of   *)
(* a scenario lie below the constants of the same name.                    *)
CONSTANT Scenarios

VARIABLE scenario

Within(s) ==
    /\ \A p \in proposals \cup certs : Round[p] <= 2 * s.rounds
    /\ Cardinality(proposals) <= s.contexts
    /\ Cardinality(asked) <= s.requests
    /\ faults <= s.faults
    /\ restarts <= s.restarts

MCInit == Init /\ scenario \in Scenarios
MCNext == Next /\ UNCHANGED scenario /\ Within(scenario)'
MCSpec == MCInit /\ [][MCNext]_<<vars, scenario>>
MCFairSpec == MCSpec /\ Fairness

Scenario(r, c, q, f, n) ==
    [rounds |-> r, contexts |-> c, requests |-> q, faults |-> f, restarts |-> n]
OneScenario == {Scenario(Rounds, MaxContexts, MaxRequests, MaxFaults, MaxRestarts)}
SafetyScenarios ==
    {Scenario(3, 2, 0, 1, 0), Scenario(3, 1, 1, 0, 0), Scenario(2, 2, 2, 1, 0),
     Scenario(3, 1, 0, 0, 1), Scenario(2, 1, 1, 0, 1), Scenario(2, 1, 0, 1, 2)}
ConvergenceScenarios == {Scenario(3, 2, 0, 0, 0), Scenario(2, 1, 0, 1, 0)}
RequestScenarios == {Scenario(2, 2, 1, 0, 0), Scenario(2, 1, 1, 1, 0)}
==============================================================================
