----------------------------- MODULE MCTxQueue -----------------------------
(***************************************************************************)
(* Instances of TxQueue: which queues there are.                           *)
(***************************************************************************)
EXTENDS TxQueue, TLC

CONSTANTS ann,              \* the station
          be, vi, mgt,      \* its queues: two data TIDs, management
          x1, x2            \* senders

Swap == Permutations({x1, x2})

\* Bound of the run with sleeping stations: it ends at the first corrupted list.
ListsIntact == \A q \in Txqs : txq[q].links <= 1

\* Bound of the confirmation run: a retry gives credit back, a few are enough.
FewRetries == \A q \in Txqs : txq[q].credits <= CREDITS + 3

\* One queue.
OneSta == [q \in {be} |-> ann]
OneHwq == [q \in {be} |-> "BE"]
OneUapsd == [q \in {be} |-> "UAPSD"]
OnePrio == [q \in {be} |-> 0]

\* Two data queues of one station, on two hardware queues.
TwoSta == [q \in {be, vi} |-> ann]
TwoHwq == (be :> "BE") @@ (vi :> "VI")
TwoUapsd == [q \in {be, vi} |-> "UAPSD"]
TwoPrio == (be :> 1) @@ (vi :> 0)

\* With the management queue, which shares the hardware queue of be here and
\* follows legacy power save.
ThreeSta == [q \in {be, vi, mgt} |-> ann]
ThreeHwq == (be :> "BE") @@ (vi :> "VI") @@ (mgt :> "BE")
ThreeMixed == (be :> "UAPSD") @@ (vi :> "LEGACY") @@ (mgt :> "LEGACY")
ThreePrio == (be :> 1) @@ (vi :> 0) @@ (mgt :> 2)
=============================================================================
