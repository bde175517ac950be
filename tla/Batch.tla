-------------------------------- MODULE Batch --------------------------------
(***************************************************************************)
(* batch.hpp and detail/batch_simd.hpp: for_each, and transform and        *)
(* transform_reduce as two of its commits.  A whole block of rows is       *)
(* mapped before its first row is committed, so that the arithmetic of     *)
(* independent rows overlaps.  On a machine with AVX2 a tile of rows is    *)
(* tried at once; the lanes it cannot certify are mapped one at a time,    *)
(* between the commits of their neighbours.                                *)
(*                                                                         *)
(* Input and output alias exactly, which the documentation allows: a       *)
(* commit overwrites what the map of that row has read.                    *)
(***************************************************************************)
EXTENDS Integers

CONSTANTS
  Elements, MaxRows, Limit, Unmapped,  \* see RowByRow
  NotAccepted,             \* in place of the value of a lane not certified
  BlockSizes,              \* the block sizes a program is compiled with
  Tile                     \* the lanes of a vector: 4 in the code

ASSUME TileAssumption == Tile \in Nat /\ Tile >= 1
ASSUME RowsAssumption == MaxRows \in Nat /\ Limit \in Int
ASSUME BlockAssumption == BlockSizes \subseteq Nat \ {0}
ASSUME ElementsAssumption ==
  /\ Elements \subseteq Nat
  /\ Unmapped \notin Elements /\ NotAccepted \notin Elements \union {Unmapped}

VARIABLES
  job, cells, total, row, outcome,     \* see RowByRow
  phase,                   \* "idle", "block", "tile", "commit" or "returned"
  count,                   \* the rows of the call
  given,                   \* history: the cells at the call
  blockSize,               \* the call's BlockSize
  certified,               \* the elements a vector lane can certify
  lanes,                   \* the values mapped ahead, by row
  path                     \* which loop runs: "block" or "tile"

callVars == <<job, count, given, blockSize, certified, path>>
batchVars == <<job, cells, total, row, outcome,
          phase, count, given, blockSize, certified, lanes, path>>

RBR == INSTANCE RowByRow

Indices == 0 .. count - 1
Mapped(i) == job.map[cells[i]]
NoLanes == [i \in {} |-> 0]

BatchInit ==
  /\ RBR!Init
  /\ phase = "idle" /\ blockSize = 0 /\ certified = {}
  /\ lanes = NoLanes /\ path = "none"
  /\ count = 0 /\ given = RBR!NoCells

\* can_run is asked once; `available` needs a block of at least a tile.
Call ==
  /\ phase = "idle"
  /\ job' \in RBR!Jobs
  /\ count' \in 0 .. MaxRows
  /\ given' \in [0 .. count' - 1 -> Elements] /\ cells' = given'
  /\ blockSize' \in BlockSizes
  /\ certified' \in SUBSET {e \in Elements : job'.map[e] # Unmapped}
  /\ \/ path' = "block" /\ certified' = {}
     \/ path' = "tile" /\ blockSize' >= Tile /\ count' >= Tile
  /\ phase' = path'
  /\ UNCHANGED <<total, row, outcome, lanes>>

\* evaluate_block maps the rows of a block from the cells as they are.
EvaluateBlock ==
  /\ phase = "block" /\ count - row >= blockSize
  /\ lanes' = [i \in row .. row + blockSize - 1 |-> Mapped(i)]
  /\ phase' = "commit"
  /\ UNCHANGED <<callVars, cells, total, row, outcome>>

\* The tail of either loop goes one row at a time.
EvaluateRow ==
  /\ phase \in {"block", "tile"} /\ row < count
  /\ count - row < IF path = "block" THEN blockSize ELSE Tile
  /\ lanes' = [i \in {row} |-> Mapped(i)]
  /\ phase' = "commit"
  /\ UNCHANGED <<callVars, cells, total, row, outcome>>

\* simd::evaluate: every lane of the tile, certified or not.
EvaluateTile ==
  /\ phase = "tile" /\ count - row >= Tile
  /\ lanes' = [i \in row .. row + Tile - 1 |->
                 IF cells[i] \in certified THEN Mapped(i) ELSE NotAccepted]
  /\ phase' = "commit"
  /\ UNCHANGED <<callVars, cells, total, row, outcome>>

\* An unaccepted lane is mapped after its predecessors were committed.
MapLane ==
  /\ phase = "commit" /\ lanes[row] = NotAccepted
  /\ lanes' = [lanes EXCEPT ![row] = Mapped(row)]
  /\ UNCHANGED <<callVars, cells, total, row, outcome, phase>>

\* transform stores the value; transform_reduce adds it to the total; an
\* update checks the whole row before it writes either.
CommitFails(value) == job.kind # "transform" /\ total + value > Limit

\* Mutants: the row after the committed one is written; a reduction writes.
StoreNextRow(value) ==
  /\ cells' = IF job.kind = "reduce" THEN cells ELSE [cells EXCEPT ![row + 1] = value]
  /\ total' = IF job.kind = "transform" THEN total ELSE total + value
StoreAlways(value) ==
  /\ cells' = [cells EXCEPT ![row] = value]
  /\ total' = IF job.kind = "transform" THEN total ELSE total + value

Store(value) ==
  /\ cells' = IF job.kind = "reduce" THEN cells ELSE [cells EXCEPT ![row] = value]
  /\ total' = IF job.kind = "transform" THEN total ELSE total + value

CommitLane ==
  /\ phase = "commit" /\ lanes[row] \in Elements
  /\ ~CommitFails(lanes[row])
  /\ Store(lanes[row])
  /\ row' = row + 1
  /\ IF row + 1 \in DOMAIN lanes
       THEN UNCHANGED <<phase, lanes>>
       ELSE phase' = path /\ lanes' = NoLanes
  /\ UNCHANGED <<callVars, outcome>>

\* Mutants: a failure mapped ahead is reported at once; the index is one off.
FailLaneAhead ==
  /\ phase = "commit"
  /\ \E i \in DOMAIN lanes :
       /\ i >= row /\ lanes[i] = Unmapped
       /\ outcome' = RBR!Outcome("map error", i)
  /\ phase' = "returned"
  /\ UNCHANGED <<callVars, cells, total, row, lanes>>
FailLaneOffByOne ==
  /\ phase = "commit"
  /\ lanes[row] = Unmapped \/ (lanes[row] \in Elements /\ CommitFails(lanes[row]))
  /\ outcome' = RBR!Outcome("map error", row + 1)
  /\ phase' = "returned"
  /\ UNCHANGED <<callVars, cells, total, row, lanes>>

\* The first row that fails, in row order: mapping it or committing it.
FailLane ==
  /\ phase = "commit"
  /\ \/ /\ lanes[row] = Unmapped
        /\ outcome' = RBR!Outcome("map error", row)
     \/ /\ lanes[row] \in Elements /\ CommitFails(lanes[row])
        /\ outcome' = RBR!Outcome("commit error", row)
  /\ phase' = "returned"
  /\ UNCHANGED <<callVars, cells, total, row, lanes>>

AllRowsDone ==
  /\ phase \in {"block", "tile"} /\ row = count
  /\ outcome' = RBR!Outcome("success", row)
  /\ phase' = "returned"
  /\ UNCHANGED <<callVars, cells, total, row, lanes>>

HandBack ==
  /\ phase = "returned"
  /\ job' = RBR!NoJob /\ cells' = RBR!NoCells /\ total' = 0 /\ row' = 0
  /\ outcome' = RBR!Pending
  /\ count' = 0 /\ given' = RBR!NoCells
  /\ phase' = "idle" /\ blockSize' = 0 /\ certified' = {}
  /\ lanes' = NoLanes /\ path' = "none"

BatchWork ==
  \/ EvaluateBlock \/ EvaluateRow \/ EvaluateTile \/ MapLane
  \/ CommitLane \/ FailLane \/ AllRowsDone

BatchNext == Call \/ BatchWork \/ HandBack

\* The call runs to its end without suspending.
BatchSpec == BatchInit /\ [][BatchNext]_batchVars /\ WF_batchVars(BatchWork)

-----------------------------------------------------------------------------
(* Properties *)

\* A value mapped ahead is still what mapping the row now would give: no
\* commit in between has touched a row that was read before its turn.
LanesCurrent ==
  \A i \in DOMAIN lanes :
    i >= row => lanes[i] \in {NotAccepted, Mapped(i)}

\* docs/batch.md: "output[0..row) was written; output[row..size) is
\* unchanged", at every moment of the call; a reduction writes nothing.
PrefixWritten ==
  \A i \in Indices :
    cells[i] = IF i < row /\ job.kind # "reduce" THEN job.map[given[i]] ELSE given[i]

\* The row reported is the first that fails, its predecessors committed:
\* mapping rows ahead must not let a later failure overtake an earlier one.
FirstFailureReported ==
  phase = "returned" =>
    LET firstRows == IF outcome.status = "success" THEN Indices ELSE 0 .. outcome.index - 1
    IN /\ row = outcome.index
       /\ \A i \in firstRows : job.map[given[i]] # Unmapped
       /\ outcome.status = "map error" => job.map[given[outcome.index]] = Unmapped
       /\ outcome.status = "commit error" =>
            total + job.map[given[outcome.index]] > Limit

\* Blocks, tiles and tails together are the plain loop, for every batch.
ImplementsRowByRow == RBR!Spec
=============================================================================
