---------------------------- MODULE ComponentProofs ----------------------------
(***************************************************************************)
(* Proofs about the components that surround the arithmetic.  Batch, for   *)
(* batches, blocks and tiles of every size and for every map: what is      *)
(* mapped ahead is still current when its turn comes, the rows written are *)
(* a prefix, the failure reported is the first, and every step of the      *)
(* blocked loop is a step of the plain one.  CheckedContext, for any set   *)
(* of contexts, any width of the values and any length of the formulas: a  *)
(* context publishes what the early-return program returns, although it    *)
(* runs on after a failure.  BatchMultiply, for a word of any size: the    *)
(* prepared divisor divides exactly, since a truncated reciprocal is one   *)
(* too low at most, and hands the machine's division a high limb below the *)
(* divisor.  IntegerText, for every text and type: the accumulator of a    *)
(* reading never wraps and never passes the limit of the type.             *)
(* MixedArithmetic, for limbs of any size and any types: nothing computed  *)
(* in a pair of limbs overflows it, and no tier is too narrow.             *)
(* FloatConversion, for words, formats and types of any size: no product   *)
(* and no shift leaves the width chosen from the types alone, and one      *)
(* correction makes the quotient of the truncated reciprocal's product.    *)
(***************************************************************************)
EXTENDS Batch, CheckedContext, BatchMultiply, IntegerText, MixedArithmetic, FloatConversion,
        IntegerLemmas

Stages == {"idle", "block", "tile", "commit", "returned"}

\* Between calls nothing is left over.
Resting ==
  /\ job = RBR!NoJob /\ cells = RBR!NoCells /\ given = RBR!NoCells
  /\ total = 0 /\ row = 0 /\ count = 0 /\ outcome = RBR!Pending /\ lanes = NoLanes

\* During one, the batch keeps its length and its rows their type.
Called ==
  /\ job \in RBR!Jobs /\ path \in {"block", "tile"}
  /\ count \in 0 .. MaxRows /\ row \in 0 .. count /\ blockSize \in BlockSizes
  /\ cells \in [0 .. count - 1 -> Elements] /\ given \in [0 .. count - 1 -> Elements]
  /\ total \in Int
  /\ phase \in {"block", "tile"} => phase = path

TypeCorrect == phase \in Stages /\ IF phase = "idle" THEN Resting ELSE Called

\* Lanes are open only while their rows are committed, and hold the next row.
LanesOpen ==
  /\ phase \in {"block", "tile"} => lanes = NoLanes
  /\ phase = "commit" => row \in DOMAIN lanes
  /\ phase # "idle" => DOMAIN lanes \subseteq 0 .. count - 1

\* Every row before `row` was mapped to a value.
PrefixMapped == \A i \in 0 .. row - 1 : job.map[given[i]] \in Elements

\* An outcome is there exactly when the call has returned.
OutcomeTold ==
  IF phase = "returned"
    THEN /\ outcome.status \in {"success", "map error", "commit error"}
         /\ outcome.status = "success" => row = count
    ELSE outcome = RBR!Pending

BatchInv ==
  /\ TypeCorrect /\ LanesOpen /\ PrefixMapped /\ OutcomeTold
  /\ LanesCurrent /\ PrefixWritten /\ FirstFailureReported

-----------------------------------------------------------------------------
(* What every action relies on.                                            *)

\* The parts of a call in progress, one by one.
LEMMA CallParts ==
  ASSUME TypeCorrect, phase # "idle"
  PROVE  /\ job.kind \in RBR!Kinds /\ job.map \in [Elements -> Elements \union {Unmapped}]
         /\ count \in Nat /\ row \in Nat /\ row <= count /\ total \in Int
         /\ cells \in [Indices -> Elements] /\ given \in [Indices -> Elements]
         /\ blockSize \in Nat /\ blockSize >= 1
<1>1. Called
  BY DEF TypeCorrect
<1>2. /\ job.kind \in RBR!Kinds /\ job.map \in [Elements -> Elements \union {Unmapped}]
      /\ cells \in [Indices -> Elements] /\ given \in [Indices -> Elements] /\ total \in Int
  BY <1>1 DEF Called, RBR!Jobs, Indices
<1>3. count \in 0 .. MaxRows /\ row \in 0 .. count /\ blockSize \in BlockSizes
  BY <1>1 DEF Called
<1>4. count \in Nat /\ blockSize \in Nat /\ blockSize >= 1
  BY <1>3, RowsAssumption, BlockAssumption
<1> QED
  BY <1>2, <1>3, <1>4

\* The row about to be committed has not been written yet: what its lane holds,
\* unless the vector did not accept it, is the map of what the caller gave.
LEMMA LaneValue ==
  ASSUME BatchInv, phase = "commit"
  PROVE  /\ row \in Indices /\ row \in DOMAIN lanes /\ cells[row] = given[row]
         /\ Mapped(row) = job.map[given[row]]
         /\ lanes[row] \in {NotAccepted, job.map[given[row]]}
         /\ job.map[given[row]] \in Elements \union {Unmapped}
<1>1. row \in Nat /\ row \in DOMAIN lanes /\ row \in Indices
  BY CallParts DEF BatchInv, LanesOpen, Indices
<1>2. cells[row] = given[row]
  BY <1>1 DEF BatchInv, PrefixWritten
<1>3. lanes[row] \in {NotAccepted, Mapped(row)}
  BY <1>1 DEF BatchInv, LanesCurrent
<1>4. given[row] \in Elements
  BY <1>1, CallParts DEF BatchInv
<1> QED
  BY <1>1, <1>2, <1>3, <1>4, CallParts DEF BatchInv, Mapped

-----------------------------------------------------------------------------
(* The invariant is inductive.                                             *)

LEMMA InitKeeps == BatchInit => BatchInv
<1> SUFFICES ASSUME BatchInit PROVE BatchInv
  OBVIOUS
<1>1. phase = "idle" /\ Resting
  BY DEF BatchInit, Resting, RBR!Init
<1>2. TypeCorrect /\ LanesOpen /\ OutcomeTold
  BY <1>1 DEF TypeCorrect, Stages, LanesOpen, OutcomeTold, Resting
<1>3. PrefixMapped /\ LanesCurrent /\ PrefixWritten /\ FirstFailureReported
  BY <1>1 DEF Resting, PrefixMapped, LanesCurrent, PrefixWritten, FirstFailureReported,
              Indices, NoLanes
<1> QED
  BY <1>2, <1>3 DEF BatchInv

LEMMA CallKeeps ==
  ASSUME BatchInv, Call PROVE BatchInv'
<1>1. /\ phase = "idle" /\ phase' = path' /\ path' \in {"block", "tile"}
      /\ job' \in RBR!Jobs /\ count' \in 0 .. MaxRows /\ blockSize' \in BlockSizes
      /\ given' \in [0 .. count' - 1 -> Elements] /\ cells' = given'
      /\ total' = total /\ row' = row /\ outcome' = outcome /\ lanes' = lanes
  BY DEF Call
<1>2. total = 0 /\ row = 0 /\ outcome = RBR!Pending /\ lanes = NoLanes
  BY <1>1 DEF BatchInv, TypeCorrect, Resting
<1>3. count' \in Nat
  BY <1>1, RowsAssumption
<1>4. row' \in 0 .. count' /\ total' \in Int /\ row' = 0
  BY <1>1, <1>2, <1>3
<1>5. phase' \in Stages /\ phase' # "idle"
  BY <1>1 DEF Stages
<1>6. Called'
  BY <1>1, <1>4 DEF Called
<1>7. LanesOpen' /\ OutcomeTold'
  BY <1>1, <1>2 DEF LanesOpen, OutcomeTold, NoLanes
<1>8. PrefixMapped' /\ LanesCurrent' /\ FirstFailureReported'
  <2>1. 0 .. row' - 1 = {}
    BY <1>4
  <2> QED
    BY <1>1, <1>2, <2>1 DEF PrefixMapped, LanesCurrent, FirstFailureReported, NoLanes
<1>9. PrefixWritten'
  <2>1. \A i \in 0 .. count' - 1 : ~(i < row')
    BY <1>3, <1>4
  <2> QED
    BY <1>1, <2>1 DEF PrefixWritten, Indices
<1> QED
  BY <1>5, <1>6, <1>7, <1>8, <1>9 DEF BatchInv, TypeCorrect

\* Mapping ahead, in whatever way, opens lanes that hold what mapping now gives.
LEMMA EvaluateKeeps ==
  ASSUME BatchInv, EvaluateBlock \/ EvaluateRow \/ EvaluateTile
  PROVE  BatchInv'
<1>1. PICK ahead \in SUBSET Indices :
        /\ row \in ahead /\ DOMAIN lanes' = ahead
        /\ \A i \in ahead : lanes'[i] \in {NotAccepted, Mapped(i)}
  <2>1. CASE EvaluateBlock
    <3>1. lanes' = [i \in row .. row + blockSize - 1 |-> Mapped(i)]
          /\ count - row >= blockSize /\ phase = "block"
      BY <2>1 DEF EvaluateBlock
    <3>2. row .. row + blockSize - 1 \in SUBSET Indices /\ row \in row .. row + blockSize - 1
      BY <3>1, CallParts DEF BatchInv, Indices
    <3> QED
      BY <3>1, <3>2
  <2>2. CASE EvaluateRow
    <3>1. lanes' = [i \in {row} |-> Mapped(i)] /\ row < count /\ phase \in {"block", "tile"}
      BY <2>2 DEF EvaluateRow
    <3>2. {row} \in SUBSET Indices
      BY <3>1, CallParts DEF BatchInv, Indices
    <3> QED
      BY <3>1, <3>2
  <2>3. CASE EvaluateTile
    <3>1. lanes' = [i \in row .. row + Tile - 1 |->
                      IF cells[i] \in certified THEN Mapped(i) ELSE NotAccepted]
          /\ count - row >= Tile /\ phase = "tile"
      BY <2>3 DEF EvaluateTile
    <3>2. row .. row + Tile - 1 \in SUBSET Indices /\ row \in row .. row + Tile - 1
      BY <3>1, CallParts, TileAssumption DEF BatchInv, Indices
    <3> QED
      BY <3>1, <3>2
  <2> QED
    BY <2>1, <2>2, <2>3
<1>2. /\ phase \in {"block", "tile"} /\ phase' = "commit"
      /\ job' = job /\ count' = count /\ given' = given /\ blockSize' = blockSize
      /\ path' = path /\ cells' = cells /\ total' = total /\ row' = row
      /\ outcome' = outcome
  BY DEF EvaluateBlock, EvaluateRow, EvaluateTile, callVars
<1>3. TypeCorrect'
  BY <1>2 DEF BatchInv, TypeCorrect, Stages, Called
<1>4. LanesOpen' /\ OutcomeTold'
  BY <1>1, <1>2 DEF BatchInv, LanesOpen, OutcomeTold, Indices
<1>5. LanesCurrent'
  BY <1>1, <1>2 DEF LanesCurrent, Mapped
<1>6. PrefixMapped' /\ PrefixWritten' /\ FirstFailureReported'
  BY <1>2 DEF BatchInv, PrefixMapped, PrefixWritten, FirstFailureReported, Indices
<1> QED
  BY <1>3, <1>4, <1>5, <1>6 DEF BatchInv

LEMMA MapLaneKeeps ==
  ASSUME BatchInv, MapLane PROVE BatchInv'
<1>1. /\ phase = "commit" /\ phase' = phase /\ lanes' = [lanes EXCEPT ![row] = Mapped(row)]
      /\ job' = job /\ count' = count /\ given' = given /\ blockSize' = blockSize
      /\ path' = path /\ cells' = cells /\ total' = total /\ row' = row
      /\ outcome' = outcome
  BY DEF MapLane, callVars
<1>2. DOMAIN lanes' = DOMAIN lanes
      /\ \A i \in DOMAIN lanes : lanes'[i] = IF i = row THEN Mapped(row) ELSE lanes[i]
  BY <1>1
<1>3. TypeCorrect'
  BY <1>1 DEF BatchInv, TypeCorrect, Stages, Called
<1>4. LanesOpen' /\ OutcomeTold'
  BY <1>1, <1>2 DEF BatchInv, LanesOpen, OutcomeTold
<1>5. LanesCurrent'
  BY <1>1, <1>2 DEF BatchInv, LanesCurrent, Mapped
<1>6. PrefixMapped' /\ PrefixWritten' /\ FirstFailureReported'
  BY <1>1 DEF BatchInv, PrefixMapped, PrefixWritten, FirstFailureReported, Indices
<1> QED
  BY <1>3, <1>4, <1>5, <1>6 DEF BatchInv

\* A commit writes its own row and no other, so the lanes still open stay current.
LEMMA CommitKeeps ==
  ASSUME BatchInv, CommitLane PROVE BatchInv'
<1> DEFINE mapped == lanes[row]
<1>1. /\ phase = "commit" /\ mapped \in Elements /\ row' = row + 1
      /\ cells' = IF job.kind = "reduce" THEN cells ELSE [cells EXCEPT ![row] = mapped]
      /\ total' = IF job.kind = "transform" THEN total ELSE total + mapped
      /\ \/ row + 1 \in DOMAIN lanes /\ phase' = phase /\ lanes' = lanes
         \/ row + 1 \notin DOMAIN lanes /\ phase' = path /\ lanes' = NoLanes
      /\ job' = job /\ count' = count /\ given' = given /\ blockSize' = blockSize
      /\ path' = path /\ outcome' = outcome
  BY DEF CommitLane, Store, callVars
<1>2. /\ row \in Indices /\ row \in DOMAIN lanes /\ cells[row] = given[row]
      /\ mapped = job.map[given[row]]
  BY <1>1, LaneValue, ElementsAssumption
<1>3. /\ count \in Nat /\ row \in Nat /\ row < count /\ row + 1 \in 0 .. count
      /\ cells \in [Indices -> Elements] /\ given \in [Indices -> Elements] /\ total \in Int
      /\ path \in {"block", "tile"}
  BY <1>1, <1>2, CallParts DEF BatchInv, Indices, TypeCorrect, Called
<1> HIDE DEF mapped
<1>4. TypeCorrect'
  <2>1. cells' \in [0 .. count - 1 -> Elements]
    BY <1>1, <1>3 DEF Indices
  <2>2. total' \in Int
    BY <1>1, <1>3, ElementsAssumption
  <2>3. phase' \in {"commit", path}
    BY <1>1
  <2>4. job' \in RBR!Jobs /\ count' \in 0 .. MaxRows /\ blockSize' \in BlockSizes
        /\ given' \in [0 .. count' - 1 -> Elements] /\ path' \in {"block", "tile"}
    BY <1>1 DEF BatchInv, TypeCorrect, Called
  <2>5. phase' \in Stages /\ phase' # "idle"
    BY <2>3, <1>3 DEF Stages
  <2> QED
    BY <1>1, <1>3, <2>1, <2>2, <2>3, <2>4, <2>5 DEF TypeCorrect, Called
<1>5. LanesOpen' /\ OutcomeTold'
  BY <1>1, <1>3 DEF BatchInv, LanesOpen, OutcomeTold, NoLanes
<1>6. LanesCurrent'
  <2>1. ASSUME NEW i \in DOMAIN lanes', i >= row + 1
        PROVE  lanes'[i] \in {NotAccepted, Mapped(i)'}
    <3>1. lanes' = lanes /\ i \in Indices
      BY <1>1, <2>1 DEF BatchInv, LanesOpen, NoLanes, Indices
    <3>2. cells'[i] = cells[i] /\ i >= row
      BY <1>1, <1>3, <2>1, <3>1 DEF Indices
    <3> QED
      BY <1>1, <2>1, <3>1, <3>2 DEF BatchInv, LanesCurrent, Mapped
  <2> QED
    BY <1>1, <2>1 DEF LanesCurrent
<1>7. PrefixMapped'
  <2>1. \A i \in 0 .. row : i \in 0 .. row - 1 \/ i = row
    BY <1>3
  <2> QED
    BY <1>1, <1>2, <1>3, <2>1 DEF BatchInv, PrefixMapped
<1>8. PrefixWritten'
  <2>1. ASSUME NEW i \in Indices
        PROVE  cells'[i] = IF i < row + 1 /\ job.kind # "reduce"
                             THEN job.map[given[i]] ELSE given[i]
    <3>1. cells[i] = IF i < row /\ job.kind # "reduce" THEN job.map[given[i]] ELSE given[i]
      BY DEF BatchInv, PrefixWritten
    <3>2. i \in Nat /\ (i = row \/ (i < row + 1 <=> i < row))
      BY <1>3 DEF Indices
    <3> QED
      BY <1>1, <1>2, <1>3, <3>1, <3>2
  <2> QED
    BY <1>1, <2>1 DEF PrefixWritten, Indices
<1>9. FirstFailureReported'
  BY <1>1, <1>3 DEF FirstFailureReported
<1> QED
  BY <1>4, <1>5, <1>6, <1>7, <1>8, <1>9 DEF BatchInv

LEMMA FailKeeps ==
  ASSUME BatchInv, FailLane PROVE BatchInv'
<1>1. /\ phase = "commit" /\ phase' = "returned"
      /\ job' = job /\ count' = count /\ given' = given /\ blockSize' = blockSize
      /\ path' = path /\ cells' = cells /\ total' = total /\ row' = row
      /\ lanes' = lanes
      /\ \/ lanes[row] = Unmapped /\ outcome' = RBR!Outcome("map error", row)
         \/ /\ lanes[row] \in Elements /\ CommitFails(lanes[row])
            /\ outcome' = RBR!Outcome("commit error", row)
  BY DEF FailLane, callVars
<1>2. /\ lanes[row] \in {NotAccepted, job.map[given[row]]}
      /\ job.map[given[row]] \in Elements \union {Unmapped}
  BY <1>1, LaneValue
<1>3. lanes[row] = job.map[given[row]]
  BY <1>1, <1>2, ElementsAssumption
<1>4. TypeCorrect'
  BY <1>1 DEF BatchInv, TypeCorrect, Stages, Called
<1>5. /\ outcome'.index = row /\ outcome'.status \in {"map error", "commit error"}
      /\ outcome'.status = "map error" => job.map[given[row]] = Unmapped
      /\ outcome'.status = "commit error" => total + job.map[given[row]] > Limit
  <2>1. CASE lanes[row] = Unmapped /\ outcome' = RBR!Outcome("map error", row)
    BY <2>1, <1>3 DEF RBR!Outcome
  <2>2. CASE /\ CommitFails(lanes[row])
             /\ outcome' = RBR!Outcome("commit error", row)
    BY <2>2, <1>3 DEF RBR!Outcome, CommitFails
  <2> QED
    BY <1>1, <2>1, <2>2
<1>6. LanesOpen' /\ OutcomeTold'
  BY <1>1, <1>5 DEF BatchInv, LanesOpen, OutcomeTold
<1>7. LanesCurrent' /\ PrefixMapped' /\ PrefixWritten'
  BY <1>1 DEF BatchInv, LanesCurrent, Mapped, PrefixMapped, PrefixWritten, Indices
<1>8. FirstFailureReported'
  <2>1. \A i \in 0 .. row - 1 : job.map[given[i]] # Unmapped
    BY ElementsAssumption DEF BatchInv, PrefixMapped
  <2> QED
    BY <1>1, <1>5, <2>1 DEF FirstFailureReported
<1> QED
  BY <1>4, <1>6, <1>7, <1>8 DEF BatchInv

LEMMA FinishKeeps ==
  ASSUME BatchInv, AllRowsDone PROVE BatchInv'
<1>1. /\ phase \in {"block", "tile"} /\ phase' = "returned" /\ row = count
      /\ job' = job /\ count' = count /\ given' = given /\ blockSize' = blockSize
      /\ path' = path /\ cells' = cells /\ total' = total /\ row' = row
      /\ lanes' = lanes /\ outcome' = RBR!Outcome("success", row)
  BY DEF AllRowsDone, callVars
<1>2. TypeCorrect'
  BY <1>1 DEF BatchInv, TypeCorrect, Stages, Called
<1>3. outcome'.index = row /\ outcome'.status = "success"
  BY <1>1 DEF RBR!Outcome
<1>4. LanesOpen' /\ OutcomeTold'
  BY <1>1, <1>3 DEF BatchInv, LanesOpen, OutcomeTold
<1>5. LanesCurrent' /\ PrefixMapped' /\ PrefixWritten'
  BY <1>1 DEF BatchInv, LanesCurrent, Mapped, PrefixMapped, PrefixWritten, Indices
<1>6. FirstFailureReported'
  <2>1. \A i \in Indices : job.map[given[i]] # Unmapped
    BY <1>1, ElementsAssumption DEF BatchInv, PrefixMapped, Indices
  <2> QED
    BY <1>1, <1>3, <2>1 DEF FirstFailureReported, Indices
<1> QED
  BY <1>2, <1>4, <1>5, <1>6 DEF BatchInv

LEMMA ReturnKeeps ==
  ASSUME BatchInv, HandBack PROVE BatchInv'
<1>1. phase' = "idle" /\ Resting'
  BY DEF HandBack, Resting
<1>2. TypeCorrect' /\ LanesOpen' /\ OutcomeTold'
  BY <1>1 DEF TypeCorrect, Stages, LanesOpen, OutcomeTold, Resting
<1>3. PrefixMapped' /\ LanesCurrent' /\ PrefixWritten' /\ FirstFailureReported'
  BY <1>1 DEF Resting, PrefixMapped, LanesCurrent, PrefixWritten, FirstFailureReported,
              Indices, NoLanes
<1> QED
  BY <1>2, <1>3 DEF BatchInv

LEMMA StutterKeeps ==
  ASSUME BatchInv, UNCHANGED batchVars PROVE BatchInv'
  BY DEF batchVars, BatchInv, TypeCorrect, Resting, Called, LanesOpen, PrefixMapped, OutcomeTold,
         LanesCurrent, PrefixWritten, FirstFailureReported, Mapped, Indices

LEMMA NextKeeps == BatchInv /\ [BatchNext]_batchVars => BatchInv'
  BY CallKeeps, EvaluateKeeps, MapLaneKeeps, CommitKeeps, FailKeeps, FinishKeeps, ReturnKeeps,
     StutterKeeps DEF BatchNext, BatchWork

\* The inductive invariant holds in every reachable state.
THEOREM BatchInvariant == BatchSpec => []BatchInv
  BY InitKeeps, NextKeeps, PTL DEF BatchSpec
-----------------------------------------------------------------------------
(* What a reader should know of                                            *)

\* A value for_each mapped ahead is, when its row's turn comes, what mapping the
\* row then would give: no commit in between writes a row that was read ahead.
THEOREM MappedAheadIsCurrent == BatchSpec => []LanesCurrent
<1>1. BatchInv => LanesCurrent
  BY DEF BatchInv
<1> QED
  BY BatchInvariant, <1>1, PTL

\* The documented state of the output at every moment of a call: a prefix is
\* written, the rest is as it was.
THEOREM WrittenIsPrefix == BatchSpec => []PrefixWritten
<1>1. BatchInv => PrefixWritten
  BY DEF BatchInv
<1> QED
  BY BatchInvariant, <1>1, PTL

\* The row a call reports is the first that fails, in whatever blocks or tiles
\* the rows were mapped.
THEOREM FailureIsFirst == BatchSpec => []FirstFailureReported
<1>1. BatchInv => FirstFailureReported
  BY DEF BatchInv
<1> QED
  BY BatchInvariant, <1>1, PTL

-----------------------------------------------------------------------------
(* Every step is a step of the plain loop, or none.                        *)

\* A call in progress is one of the plain loop.
LEMMA CallIsCall ==
  ASSUME BatchInv, phase # "idle"
  PROVE  job # RBR!NoJob /\ RBR!Rows = Indices
<1>1. job.kind \in RBR!Kinds /\ cells \in [Indices -> Elements]
  BY CallParts DEF BatchInv
<1>2. RBR!NoJob.kind = "none"
  BY DEF RBR!NoJob
<1> QED
  BY <1>1, <1>2 DEF RBR!Kinds, RBR!Rows

LEMMA CallRefines ==
  ASSUME BatchInv, Call PROVE RBR!Call
<1>1. job = RBR!NoJob
  BY DEF Call, BatchInv, TypeCorrect, Resting
<1>2. /\ job' \in RBR!Jobs /\ count' \in 0 .. MaxRows
      /\ cells' \in [0 .. count' - 1 -> Elements] /\ UNCHANGED <<total, row, outcome>>
  BY DEF Call
<1>3. cells' \in RBR!Batches
  BY <1>2 DEF RBR!Batches
<1> QED
  BY <1>1, <1>2, <1>3 DEF RBR!Call

LEMMA CommitRefines ==
  ASSUME BatchInv, CommitLane PROVE RBR!Accept
<1>1. /\ phase = "commit" /\ lanes[row] \in Elements /\ ~CommitFails(lanes[row])
      /\ Store(lanes[row]) /\ row' = row + 1 /\ job' = job /\ outcome' = outcome
  BY DEF CommitLane, callVars
<1>2. row \in Indices /\ lanes[row] = job.map[cells[row]]
  BY <1>1, LaneValue, ElementsAssumption DEF Mapped
<1>3. job # RBR!NoJob /\ row \in RBR!Rows
  BY <1>1, <1>2, CallIsCall
<1>4. outcome = RBR!Pending
  BY <1>1 DEF BatchInv, OutcomeTold
<1>5. lanes[row] # Unmapped
  BY <1>1, ElementsAssumption
<1> QED
  BY <1>1, <1>2, <1>3, <1>4, <1>5
     DEF RBR!Accept, RBR!Mapped, RBR!CommitFails, CommitFails, Store

LEMMA FailRefines ==
  ASSUME BatchInv, FailLane PROVE RBR!Reject
<1>1. phase = "commit" /\ UNCHANGED <<job, cells, total, row>>
  BY DEF FailLane, callVars
<1>2. /\ row \in Indices /\ lanes[row] \in {NotAccepted, job.map[cells[row]]}
      /\ job.map[cells[row]] \in Elements \union {Unmapped}
  BY <1>1, LaneValue DEF Mapped
<1>3. job # RBR!NoJob /\ row \in RBR!Rows
  BY <1>1, <1>2, CallIsCall
<1>4. outcome = RBR!Pending
  BY <1>1 DEF BatchInv, OutcomeTold
<1>5. CASE lanes[row] = Unmapped /\ outcome' = RBR!Outcome("map error", row)
  <2>1. job.map[cells[row]] = Unmapped
    BY <1>2, <1>5, ElementsAssumption
  <2> QED
    BY <1>1, <1>3, <1>4, <1>5, <2>1 DEF RBR!Reject, RBR!Mapped
<1>6. CASE /\ lanes[row] \in Elements /\ CommitFails(lanes[row])
           /\ outcome' = RBR!Outcome("commit error", row)
  <2>1. job.map[cells[row]] = lanes[row] /\ lanes[row] # Unmapped
    BY <1>2, <1>6, ElementsAssumption
  <2> QED
    BY <1>1, <1>3, <1>4, <1>6, <2>1
       DEF RBR!Reject, RBR!Mapped, RBR!CommitFails, CommitFails
<1> QED
  BY <1>5, <1>6 DEF FailLane

LEMMA FinishRefines ==
  ASSUME BatchInv, AllRowsDone PROVE RBR!Finish
<1>1. /\ phase \in {"block", "tile"} /\ row = count /\ UNCHANGED <<job, cells, total, row>>
      /\ outcome' = RBR!Outcome("success", row)
  BY DEF AllRowsDone, callVars
<1>2. job # RBR!NoJob /\ row \notin RBR!Rows
  BY <1>1, CallIsCall, CallParts DEF BatchInv, Indices
<1>3. outcome = RBR!Pending
  BY <1>1 DEF BatchInv, OutcomeTold
<1> QED
  BY <1>1, <1>2, <1>3 DEF RBR!Finish

LEMMA ReturnRefines ==
  ASSUME BatchInv, HandBack PROVE RBR!Return
<1>1. outcome.status \in {"success", "map error", "commit error"}
  BY DEF HandBack, BatchInv, OutcomeTold
<1>2. RBR!Pending.status = "pending"
  BY DEF RBR!Pending, RBR!Outcome
<1> QED
  BY <1>1, <1>2 DEF HandBack, RBR!Return

LEMMA NextRefines == BatchInv /\ [BatchNext]_batchVars => [RBR!Next]_(RBR!vars)
<1> SUFFICES ASSUME BatchInv, [BatchNext]_batchVars PROVE [RBR!Next]_(RBR!vars)
  OBVIOUS
<1>1. CASE EvaluateBlock \/ EvaluateRow \/ EvaluateTile \/ MapLane \/ UNCHANGED batchVars
  BY <1>1 DEF EvaluateBlock, EvaluateRow, EvaluateTile, MapLane, callVars, batchVars, RBR!vars
<1>2. CASE Call \/ CommitLane \/ FailLane \/ AllRowsDone \/ HandBack
  BY <1>2, CallRefines, CommitRefines, FailRefines, FinishRefines, ReturnRefines
     DEF RBR!Next
<1> QED
  BY <1>1, <1>2 DEF BatchNext, BatchWork

\* Blocks, tiles and tails have no behaviour the plain loop of docs/batch.md does
\* not have: ImplementsRowByRow but for its fairness, for batches of any size.
THEOREM BlockedIsPlain == BatchSpec => RBR!Init /\ [][RBR!Next]_(RBR!vars)
<1>1. BatchInit => RBR!Init
  BY DEF BatchInit
<1> QED
  BY <1>1, BatchInvariant, NextRefines, PTL DEF BatchSpec

-----------------------------------------------------------------------------
(* The contexts                                                            *)
ContextInv == TypeOK /\ PublishesEarlyReturn

\* What a step of a formula can deliver: a value, or an error without one.
Outcomes ==
  {Result(v) : v \in Raws}
    \union {Error(e) : e \in Errors}

-----------------------------------------------------------------------------

\* A rounded result is representable, and an error carries the placeholder.
LEMMA OnGridOutcome ==
  ASSUME NEW n, NEW d, NEW rounding
  PROVE  OnGrid(n, d, 1, rounding) \in Outcomes
  BY DEF OnGrid, Outcomes, Errors

\* An outcome is one of two shapes.
LEMMA OutcomeShape ==
  ASSUME NEW o \in Outcomes
  PROVE  \/ o.error = "none" /\ o.value \in Raws /\ o = Result(o.value)
         \/ o.error \in Errors /\ o.value = 0 /\ o = Error(o.error)
  BY DEF Outcomes, Result, Error, Errors

\* Absorbing an outcome and continuing the early-return program agree.  The
\* outcome is that of the context's own value; the two programs share it as
\* long as neither has failed.
LEMMA TakenKeeps ==
  ASSUME ContextInv, NEW c \in Contexts, NEW o \in Outcomes,
         Counted(c), Take(c, o),
         strict' = IF strict[c].error = "none"
                     THEN [strict EXCEPT ![c] = o] ELSE strict
  PROVE  ContextInv'
<1>1. \/ o.error = "none" /\ o.value \in Raws /\ o = Result(o.value)
      \/ o.error \in Errors /\ o.value = 0 /\ o = Error(o.error)
  BY OutcomeShape
<1>2. TypeOK'
  <2>1. error_' \in [Contexts -> Errors \union {"none"}]
    BY <1>1 DEF ContextInv, TypeOK, Take, Record
  <2>2. value' \in [Contexts -> Raws]
    BY <1>1, PlaceholderAssumption DEF ContextInv, TypeOK, Take
  <2>3. strict' \in [Contexts -> [error : Errors \union {"none"}, value : Raws]]
    <3>1. o \in [error : Errors \union {"none"}, value : Raws]
      BY <1>1, PlaceholderAssumption DEF Result, Error
    <3> QED
      BY <3>1 DEF ContextInv, TypeOK
  <2>4. steps' \in [Contexts -> 0 .. MaxSteps]
    BY StepsAssumption DEF ContextInv, TypeOK, Counted
  <2> QED
    BY <2>1, <2>2, <2>3, <2>4 DEF TypeOK
<1>3. PublishesEarlyReturn'
  <2> SUFFICES ASSUME NEW k \in Contexts PROVE Published(k)' = strict'[k]
    BY DEF PublishesEarlyReturn
  <2>1. Published(k) = strict[k] /\ Published(c) = strict[c]
    BY DEF ContextInv, PublishesEarlyReturn
  <2>2. CASE k # c
    BY <2>1, <2>2, <1>1 DEF ContextInv, TypeOK, Take, Record, Published
  <2>3. CASE k = c /\ error_[c] # "none"
    <3>1. error_[c] \in Errors
      BY <2>3 DEF ContextInv, TypeOK
    <3>2. strict[c] = Error(error_[c]) /\ strict[c].error # "none"
      BY <2>1, <2>3 DEF Published, Error
    <3>3. strict' = strict /\ error_' = error_
      BY <3>2, <2>3 DEF Take, Record
    <3> QED
      BY <3>2, <3>3, <2>3 DEF Published
  <2>4. CASE k = c /\ error_[c] = "none"
    <3>1. strict[c].error = "none"
      BY <2>1, <2>4 DEF Published, Result
    <3>2. strict'[c] = o
      BY <3>1 DEF ContextInv, TypeOK
    <3>3. CASE o.error = "none"
      <4>1. error_'[c] = "none" /\ value'[c] = o.value
        BY <3>3, <2>4 DEF ContextInv, TypeOK, Take
      <4> QED
        BY <4>1, <3>2, <3>3, <1>1, <2>4 DEF Published, Errors
    <3>4. CASE o.error # "none"
      <4>1. error_'[c] = o.error
        BY <3>4, <2>4 DEF ContextInv, TypeOK, Take, Record
      <4> QED
        BY <4>1, <3>2, <3>4, <1>1, <2>4 DEF Published
    <3> QED
      BY <3>3, <3>4
  <2> QED
    BY <2>2, <2>3, <2>4
<1> QED
  BY <1>2, <1>3 DEF ContextInv

LEMMA ContextStarts ==
  ASSUME ContextInit
  PROVE  ContextInv
<1>1. TypeOK
  BY PlaceholderAssumption, StepsAssumption DEF ContextInit, TypeOK, Result
<1>2. PublishesEarlyReturn
  BY DEF ContextInit, PublishesEarlyReturn, Published, Result
<1> QED
  BY <1>1, <1>2 DEF ContextInv

\* The early-return program takes the same step from the value it shares.
LEMMA SharedValue ==
  ASSUME ContextInv, NEW c \in Contexts, strict[c].error = "none"
  PROVE  strict[c].value = value[c]
<1>1. Published(c) = strict[c]
  BY DEF ContextInv, PublishesEarlyReturn
<1>2. CASE error_[c] = "none"
  BY <1>1, <1>2 DEF Published, Result
<1>3. CASE error_[c] # "none"
  BY <1>1, <1>3 DEF Published, Error
<1> QED
  BY <1>2, <1>3

LEMMA AddAbsorbed ==
  ASSUME ContextInv, NEW c \in Contexts, NEW x \in Raws, Add(c, x) PROVE ContextInv'
<1> DEFINE o == OnGrid(value[c] + x, 1, 1, "exact")
<1>1. o \in Outcomes
  BY OnGridOutcome
<1>2. Counted(c) /\ Take(c, o)
  BY DEF Add
<1>3. strict' = IF strict[c].error = "none"
                  THEN [strict EXCEPT ![c] = o] ELSE strict
  BY SharedValue DEF Add, Continue
<1> QED
  BY <1>1, <1>2, <1>3, TakenKeeps

LEMMA DivAbsorbed ==
  ASSUME ContextInv, NEW c \in Contexts, NEW x \in Raws, NEW rounding,
         Div(c, x, rounding)
  PROVE  ContextInv'
<1> DEFINE o == OnGrid(x, value[c], 1, rounding)
<1>1. o \in Outcomes
  BY OnGridOutcome
<1>2. Counted(c) /\ Take(c, o)
  BY DEF Div
<1>3. strict' = IF strict[c].error = "none"
                  THEN [strict EXCEPT ![c] = o] ELSE strict
  BY SharedValue DEF Div, Continue
<1> QED
  BY <1>1, <1>2, <1>3, TakenKeeps

LEMMA TakeStatusAbsorbed ==
  ASSUME ContextInv, NEW c \in Contexts, NEW e \in {"none", "invalid_precision"},
         TakeStatus(c, e)
  PROVE  ContextInv'
<1>1. /\ steps[c] < MaxSteps /\ steps' = [steps EXCEPT ![c] = @ + 1]
      /\ value' = value
      /\ error_' = IF e # "none" /\ error_[c] = "none"
                     THEN [error_ EXCEPT ![c] = e] ELSE error_
  BY DEF TakeStatus, Counted, Record
<1> DEFINE o == IF e = "none" THEN Result(strict[c].value) ELSE Error(e)
<1>2. strict' = IF strict[c].error = "none"
                  THEN [strict EXCEPT ![c] = o] ELSE strict
  BY DEF TakeStatus, Continue
<1>3. e \in Errors \union {"none"} /\ (e # "none" => e \in Errors)
  BY DEF Errors
<1>4. TypeOK'
  <2>1. strict[c].value \in Raws
    BY DEF ContextInv, TypeOK
  <2>2. o \in [error : Errors \union {"none"}, value : Raws]
    BY <1>3, <2>1, PlaceholderAssumption DEF Result, Error
  <2>3. strict' \in [Contexts -> [error : Errors \union {"none"}, value : Raws]]
    BY <1>2, <2>2 DEF ContextInv, TypeOK
  <2>4. steps' \in [Contexts -> 0 .. MaxSteps]
    BY <1>1, StepsAssumption DEF ContextInv, TypeOK
  <2>5. error_' \in [Contexts -> Errors \union {"none"}]
    BY <1>1, <1>3 DEF ContextInv, TypeOK
  <2> QED
    BY <2>3, <2>4, <2>5, <1>1 DEF ContextInv, TypeOK
<1>5. PublishesEarlyReturn'
  <2> SUFFICES ASSUME NEW k \in Contexts PROVE Published(k)' = strict'[k]
    BY DEF PublishesEarlyReturn
  <2>1. Published(k) = strict[k] /\ Published(c) = strict[c]
    BY DEF ContextInv, PublishesEarlyReturn
  <2>2. CASE k # c
    BY <2>1, <2>2, <1>1, <1>2 DEF ContextInv, TypeOK, Published
  <2>3. CASE k = c /\ error_[c] # "none"
    BY <2>1, <2>3, <1>1, <1>2 DEF Published, Error
  <2>4. CASE k = c /\ error_[c] = "none"
    <3>1. strict[c] = Result(value[c])
      BY <2>1, <2>4 DEF Published
    <3>2. strict[c].error = "none" /\ strict[c].value = value[c]
      BY <3>1 DEF Result
    <3>3. strict'[c] = IF e = "none" THEN Result(value[c]) ELSE Error(e)
      BY <1>2, <3>2 DEF ContextInv, TypeOK
    <3>4. error_'[c] = e /\ value'[c] = value[c]
      BY <1>1, <2>4 DEF ContextInv, TypeOK
    <3> QED
      BY <3>3, <3>4, <2>4 DEF Published
  <2> QED
    BY <2>2, <2>3, <2>4
<1> QED
  BY <1>4, <1>5 DEF ContextInv

LEMMA CopyAbsorbed ==
  ASSUME ContextInv, NEW c \in Contexts, NEW d \in Contexts, Copy(c, d)
  PROVE  ContextInv'
<1>1. TypeOK'
  BY DEF ContextInv, TypeOK, Copy
<1>2. PublishesEarlyReturn'
  BY DEF ContextInv, TypeOK, Copy, PublishesEarlyReturn, Published
<1> QED
  BY <1>1, <1>2 DEF ContextInv

LEMMA ContextSteps ==
  ASSUME ContextInv, [ContextNext]_contextVars
  PROVE  ContextInv'
<1>1. CASE UNCHANGED contextVars
  BY <1>1 DEF contextVars, ContextInv, TypeOK, PublishesEarlyReturn, Published
<1>2. CASE ContextNext
  BY <1>2, AddAbsorbed, DivAbsorbed, TakeStatusAbsorbed, CopyAbsorbed DEF ContextNext
<1> QED
  BY <1>1, <1>2

\* The invariant of the contexts holds in every reachable state.
THEOREM ContextInvariant ==
  ContextSpec => []ContextInv
  BY ContextStarts, ContextSteps, PTL DEF ContextSpec

-----------------------------------------------------------------------------
(* What a program publishes *)

\* Type correctness: a placeholder never makes a value the type cannot hold.
THEOREM ContextTypes ==
  ContextSpec => []TypeOK
<1>1. ContextInv => TypeOK
  BY DEF ContextInv
<1> QED
  BY ContextInvariant, <1>1, PTL

\* result() of checked.hpp gives the value or the error of the same formula
\* written with an early return after every step.
THEOREM EarlyReturn ==
  ContextSpec => []PublishesEarlyReturn
<1>1. ContextInv => PublishesEarlyReturn
  BY DEF ContextInv
<1> QED
  BY ContextInvariant, <1>1, PTL

\* An error is for good: only a copy over the context replaces it.
THEOREM ErrorIsFirst ==
  ContextSpec => ErrorSticks
<1> DEFINE Sticks ==
      \A c \in Contexts :
        error_[c] # "none" /\ error_'[c] # error_[c] =>
          \E d \in Contexts \ {c} : Copy(d, c)
<1>1. ASSUME ContextInv, [ContextNext]_contextVars PROVE [Sticks]_contextVars
  <2> SUFFICES ASSUME NEW k \in Contexts, error_[k] # "none",
                      error_'[k] # error_[k], ContextNext
               PROVE  \E d \in Contexts \ {k} : Copy(d, k)
    BY <1>1 DEF contextVars
  <2>1. error_ \in [Contexts -> Errors \union {"none"}]
    BY <1>1 DEF ContextInv, TypeOK
  <2>2. ASSUME NEW c \in Contexts, NEW o, Take(c, o) PROVE FALSE
    <3>1. CASE k = c
      BY <2>2, <3>1 DEF Take, Record
    <3>2. CASE k # c
      BY <2>1, <2>2, <3>2 DEF Take, Record
    <3> QED
      BY <3>1, <3>2
  <2>3. ASSUME NEW c \in Contexts, NEW x \in Raws, Add(c, x) PROVE FALSE
    BY <2>2, <2>3 DEF Add
  <2>4. ASSUME NEW c \in Contexts, NEW x \in Raws, NEW rounding,
               Div(c, x, rounding)
        PROVE  FALSE
    BY <2>2, <2>4 DEF Div
  <2>5. ASSUME NEW c \in Contexts, NEW e, TakeStatus(c, e) PROVE FALSE
    <3>1. error_' = IF e # "none" /\ error_[c] = "none"
                      THEN [error_ EXCEPT ![c] = e] ELSE error_
      BY <2>5 DEF TakeStatus, Record
    <3> QED
      BY <3>1, <2>1
  <2>6. PICK c \in Contexts : \E d \in Contexts \ {c} : Copy(c, d)
    BY <2>3, <2>4, <2>5 DEF ContextNext
  <2>7. PICK d \in Contexts \ {c} : Copy(c, d)
    BY <2>6
  <2>8. k = d
    BY <2>1, <2>7 DEF Copy
  <2> QED
    BY <2>7, <2>8
<1> QED
  BY <1>1, ContextInvariant, PTL DEF ContextSpec, ErrorSticks

-----------------------------------------------------------------------------
(* The prepared divisor of a batch multiplication.                         *)

\* What a word of any size is, and a divisor prepared for it.
DivisorPrepared == M \in Nat /\ M > 1 /\ divisor \in Nat /\ divisor > 1 /\ divisor < M

-----------------------------------------------------------------------------
(* Facts about products.                                                   *)

\* What the reciprocal's quotient leaves, times M: the reciprocal falls short of
\* M / d by s / d, the quotient of n * p / M by t / M.
LEMMA Shortfall ==
  ASSUME NEW m \in Int, NEW d \in Int, NEW p \in Int, NEW s \in Int, m = p * d + s,
         NEW n \in Int, NEW e \in Int, NEW t \in Int, n * p = e * m + t
  PROVE  (n - e * d) * m = n * s + t * d
<1>1. n * m = n * (p * d) + n * s
  OBVIOUS
<1>2. n * (p * d) = (n * p) * d
  OBVIOUS
<1>3. (n * p) * d = (e * m) * d + t * d
  OBVIOUS
<1>4. (e * m) * d = (e * d) * m
  OBVIOUS
<1>5. (n - e * d) * m = n * m - (e * d) * m
  OBVIOUS
<1> QED
  BY <1>1, <1>2, <1>3, <1>4, <1>5

-----------------------------------------------------------------------------
(* The division.                                                           *)

\* A remainder of less than two divisors needs one correction.
LEMMA OneCorrection ==
  ASSUME NEW n \in Int, NEW d \in Int, d > 0,
         NEW e \in Int, NEW left \in Int, left = n - e * d, 0 <= left, left < d + d
  PROVE  <<e + Indicator(left >= d), left - Indicator(left >= d) * d>> = <<n \div d, n % d>>
<1>1. CASE left < d
  <2>1. n = e * d + left
    OBVIOUS
  <2>2. n \div d = e /\ n % d = left
    BY <1>1, <2>1, DivUnique
  <2>3. Indicator(left >= d) = 0
    BY <1>1 DEF Indicator
  <2> QED
    BY <2>2, <2>3
<1>2. CASE left >= d
  <2>1. n = (e + 1) * d + (left - d)
    OBVIOUS
  <2>2. e + 1 \in Int /\ left - d \in Int /\ 0 <= left - d /\ left - d < d
    BY <1>2
  <2>3. n \div d = e + 1 /\ n % d = left - d
    BY <2>1, <2>2, DivUnique
  <2>4. Indicator(left >= d) = 1
    BY <1>2 DEF Indicator
  <2> QED
    BY <2>3, <2>4
<1> QED
  BY <1>1, <1>2

\* What divide_limb subtracts leaves between zero and two divisors.
LEMMA ReciprocalClose ==
  ASSUME DivisorPrepared, NEW dividend \in Int, 0 <= dividend, dividend < M
  PROVE  LET quotient == (dividend * reciprocal) \div M
         IN /\ quotient \in Int
            /\ 0 <= dividend - quotient * divisor
            /\ dividend - quotient * divisor < divisor + divisor
<1> DEFINE p == M \div divisor
           s == M % divisor
           e == (dividend * p) \div M
           t == (dividend * p) % M
           left == dividend - e * divisor
<1>1. M \in Int /\ M > 1 /\ divisor \in Int /\ divisor > 1
  BY DEF DivisorPrepared
<1>2. p \in Int /\ s \in Int /\ M = p * divisor + s /\ 0 <= s /\ s < divisor
  BY <1>1, DivMod
<1>3. reciprocal = p
  BY DEF reciprocal
<1> HIDE DEF p, s
<1>4. dividend * p \in Int
  BY <1>2
<1>5. e \in Int /\ t \in Int /\ dividend * p = e * M + t /\ 0 <= t /\ t < M
  BY <1>1, <1>4, DivMod
<1> HIDE DEF e, t
<1>6. left \in Int
  BY <1>1, <1>5
<1>7. left * M = dividend * s + t * divisor
  BY <1>1, <1>2, <1>5, Shortfall DEF left
<1>8. 0 <= dividend * s /\ dividend * s <= M * s
  BY <1>1, <1>2, ProductBelow
<1>9. 0 <= t * divisor /\ t * divisor + divisor <= M * divisor
  <2>1. 0 <= t * divisor
    BY <1>1, <1>5, ProductBelow
  <2>2. t * divisor + divisor <= M * divisor
    BY <1>1, <1>5, MultipleOrder
  <2> QED
    BY <2>1, <2>2
<1> HIDE DEF left
<1>10. ~(left < 0)
  <2> SUFFICES ASSUME left < 0 PROVE FALSE
    OBVIOUS
  <2>1. left * M + M <= 0 * M
    BY <1>1, <1>6, MultipleOrder
  <2>2. dividend * s \in Int /\ t * divisor \in Int /\ 0 * M = 0
    BY <1>1, <1>2, <1>5
  <2> QED
    BY <2>1, <2>2, <1>1, <1>6, <1>7, <1>8, <1>9
<1>11. left < s + divisor
  <2>1. (s + divisor) * M = M * s + M * divisor
    BY <1>1, <1>2
  <2>2. /\ dividend * s \in Int /\ t * divisor \in Int
        /\ M * s \in Int /\ M * divisor \in Int
    BY <1>1, <1>2, <1>5
  <2>3. left * M < (s + divisor) * M
    BY <2>1, <2>2, <1>1, <1>7, <1>8, <1>9
  <2> QED
    BY <2>3, <1>1, <1>2, <1>6, CancelFactor
<1>12. 0 <= left /\ left < divisor + divisor
  BY <1>1, <1>2, <1>6, <1>10, <1>11
<1> QED
  BY <1>3, <1>5, <1>12 DEF e, left

\* divide_limb divides a limb: "at most one below" (batch_multiply.hpp), and one
\* correction mends it.
THEOREM LimbDividedExactly ==
  ASSUME DivisorPrepared, NEW dividend \in Int, 0 <= dividend, dividend < M
  PROVE  DivideLimb(dividend) = <<dividend \div divisor, dividend % divisor>>
<1> DEFINE e == (dividend * reciprocal) \div M
<1>1. e \in Int /\ 0 <= dividend - e * divisor /\ dividend - e * divisor < divisor + divisor
  BY ReciprocalClose
<1>2. divisor \in Int /\ divisor > 0
  BY DEF DivisorPrepared
<1> HIDE DEF e
<1>3. dividend - e * divisor \in Int
  BY <1>1, <1>2
<1>4. <<e + Indicator(dividend - e * divisor >= divisor),
        (dividend - e * divisor) - Indicator(dividend - e * divisor >= divisor) * divisor>>
        = <<dividend \div divisor, dividend % divisor>>
  BY <1>1, <1>2, <1>3, OneCorrection
<1> QED
  BY <1>4 DEF DivideLimb, e

\* The high limb is below the divisor, as divq requires, and the limbs' quotients
\* and the last remainder are those of the whole.
THEOREM PreparedDividesExactly ==
  ASSUME DivisorPrepared, NEW dividend \in Int, 0 <= dividend, dividend < M * M
  PROVE  /\ Prepared(dividend) = <<dividend \div divisor, dividend % divisor>>
         /\ High(dividend)[2] < divisor
<1> DEFINE top == dividend \div M
           low == dividend % M
           up == High(dividend)[1]
           rest == High(dividend)[2]
<1>1. M \in Int /\ M > 1 /\ divisor \in Int /\ divisor > 1
  BY DEF DivisorPrepared
<1>2. top \in Int /\ low \in Int /\ dividend = top * M + low /\ 0 <= low /\ low < M
  BY <1>1, DivMod
<1>3. 0 <= top /\ top < M
  <2> HIDE DEF top, low
  <2>1. ~(top < 0)
    <3> SUFFICES ASSUME top < 0 PROVE FALSE
      OBVIOUS
    <3>1. top * M + M <= 0 * M
      BY <1>1, <1>2, MultipleOrder
    <3>2. top * M \in Int /\ 0 * M = 0
      BY <1>1, <1>2
    <3> QED
      BY <3>1, <3>2, <1>1, <1>2
  <2>2. ~(M <= top)
    <3> SUFFICES ASSUME M <= top PROVE FALSE
      OBVIOUS
    <3>1. M * M <= top * M
      BY <1>1, <1>2, ProductBelow
    <3>2. top * M \in Int /\ M * M \in Int
      BY <1>1, <1>2
    <3> QED
      BY <3>1, <3>2, <1>2
  <2> QED
    BY <1>1, <1>2, <2>1, <2>2
<1>4. /\ up \in Int /\ rest \in Int
      /\ top = up * divisor + rest /\ 0 <= rest /\ rest < divisor
  <2>1. CASE top >= divisor
    <3>1. High(dividend) = <<top \div divisor, top % divisor>>
      BY <2>1, <1>2, <1>3, LimbDividedExactly DEF High
    <3>2. /\ top \div divisor \in Int /\ top % divisor \in Int
          /\ top = (top \div divisor) * divisor + (top % divisor)
          /\ 0 <= top % divisor /\ top % divisor < divisor
      BY <1>1, <1>2, DivMod
    <3> QED
      BY <3>1, <3>2
  <2>2. CASE ~(top >= divisor)
    <3>1. High(dividend) = <<0, top>>
      BY <2>2 DEF High
    <3>2. 0 * divisor = 0
      BY <1>1
    <3> QED
      BY <3>1, <3>2, <2>2, <1>1, <1>2, <1>3
  <2> QED
    BY <2>1, <2>2
<1>5. CASE dividend < M
  <2>1. Prepared(dividend) = DivideLimb(dividend)
    BY <1>1, <1>5 DEF Prepared
  <2> QED
    BY <2>1, <1>4, <1>5, LimbDividedExactly
<1>6. CASE ~(dividend < M) /\ build # "asm"
  BY <1>1, <1>4, <1>6 DEF Prepared
<1>7. CASE ~(dividend < M) /\ build = "asm"
  <2> DEFINE x == rest * M + low
             q0 == x \div divisor
             r0 == x % divisor
  <2>1. Prepared(dividend) = <<up * M + q0, r0>>
    BY <1>1, <1>7 DEF Prepared
  <2> HIDE DEF top, low, up, rest
  <2>2. x \in Int
    BY <1>1, <1>2, <1>4
  <2> HIDE DEF x
  <2>3. q0 \in Int /\ r0 \in Int /\ x = q0 * divisor + r0 /\ 0 <= r0 /\ r0 < divisor
    BY <1>1, <2>2, DivMod
  <2> HIDE DEF q0, r0
  <2>4. dividend = (up * M + q0) * divisor + r0
    <3>1. top * M = (up * divisor) * M + rest * M
      BY <1>1, <1>4
    <3>2. (up * M + q0) * divisor = (up * divisor) * M + q0 * divisor
      BY <1>1, <1>4, <2>3
    <3>3. dividend = (up * divisor) * M + x
      BY <1>1, <1>2, <1>4, <3>1 DEF x
    <3> QED
      BY <3>2, <3>3, <1>1, <1>4, <2>3
  <2>5. up * M + q0 \in Int
    BY <1>1, <1>4, <2>3
  <2> DEFINE whole == up * M + q0
  <2>6. dividend \div divisor = whole /\ dividend % divisor = r0
    <3>1. dividend = whole * divisor + r0 /\ whole \in Int
      BY <2>4, <2>5
    <3> HIDE DEF whole
    <3>2. divisor > 0
      BY <1>1
    <3> QED
      BY <3>1, <3>2, <2>3, <1>1, DivUnique
  <2> QED
    BY <2>1, <2>6, <1>4 DEF rest
<1> QED
  BY <1>5, <1>6, <1>7

-----------------------------------------------------------------------------
(* gcd, a recursive function: what it yields is proved by induction on its *)
(* second argument, by way of its restrictions to 0 .. n.                  *)

Upto(g, n) == g = [v \in 0 .. n |-> [u \in Nat |-> IF v = 0 THEN u ELSE g[u % v][v]]]

\* A remainder is below the divisor.
LEMMA ModBelow ==
  ASSUME NEW u \in Nat, NEW v \in Nat, v > 0
  PROVE  u % v \in Nat /\ u % v < v /\ u % v \in 0 .. v - 1
OBVIOUS

\* A restriction at a point.
LEMMA UptoValue ==
  ASSUME NEW n \in Nat, NEW g, Upto(g, n), NEW v \in 0 .. n, NEW u \in Nat
  PROVE  g[v][u] = IF v = 0 THEN u ELSE g[u % v][v]
<1>1. g[v] = [x \in Nat |-> IF v = 0 THEN x ELSE g[x % v][v]]
  BY DEF Upto
<1> QED
  BY <1>1

\* Two restrictions agree where both are defined.
LEMMA UptoAgree ==
  ASSUME NEW n \in Nat, NEW m \in Nat, NEW g, NEW h, Upto(g, n), Upto(h, m),
         NEW k \in Nat, k <= n, k <= m, NEW u \in Nat
  PROVE  g[k][u] = h[k][u]
<1> DEFINE Bad == {v \in Nat : v <= n /\ v <= m /\ \E x \in Nat : g[v][x] # h[v][x]}
<1> SUFFICES ASSUME Bad # {} PROVE FALSE
  OBVIOUS
<1>1. PICK x \in Bad : \A y \in Bad : x <= y
  <2>1. Bad \in SUBSET Nat
    OBVIOUS
  <2> QED
    BY <2>1, LeastNat
<1>2. PICK w \in Nat : g[x][w] # h[x][w]
  OBVIOUS
<1>3. x \in Nat /\ x <= n /\ x <= m /\ x \in 0 .. n /\ x \in 0 .. m
  OBVIOUS
<1>4. g[x][w] = IF x = 0 THEN w ELSE g[w % x][x]
  BY <1>3, UptoValue
<1>5. h[x][w] = IF x = 0 THEN w ELSE h[w % x][x]
  BY <1>3, UptoValue
<1>6. x # 0
  BY <1>2, <1>4, <1>5
<1>7. w % x \in Nat /\ w % x < x
  BY <1>3, <1>6, ModBelow
<1>8. w % x \notin Bad /\ w % x <= n /\ w % x <= m
  <2> HIDE DEF Bad
  <2> QED
    BY <1>1, <1>3, <1>7
<1>9. g[w % x][x] = h[w % x][x]
  BY <1>3, <1>7, <1>8
<1> QED
  BY <1>2, <1>4, <1>5, <1>6, <1>9

\* There is one for every n.
LEMMA UptoExists == \A n \in Nat : \E g : Upto(g, n)
<1> DEFINE Bad == {n \in Nat : ~ \E g : Upto(g, n)}
<1> SUFFICES ASSUME Bad # {} PROVE FALSE
  OBVIOUS
<1>1. PICK x \in Bad : \A y \in Bad : x <= y
  <2>1. Bad \in SUBSET Nat
    OBVIOUS
  <2> QED
    BY <2>1, LeastNat
<1>2. x # 0
  <2> DEFINE g == [v \in 0 .. 0 |-> [u \in Nat |-> u]]
  <2>1. Upto(g, 0)
    <3>1. \A v \in 0 .. 0 : v = 0
      OBVIOUS
    <3>2. g = [v \in 0 .. 0 |-> [u \in Nat |-> IF v = 0 THEN u ELSE g[u % v][v]]]
      BY <3>1
    <3> HIDE DEF g
    <3> QED
      BY <3>2 DEF Upto
  <2>2. \E gg : Upto(gg, 0)
    BY <2>1
  <2>3. 0 \notin Bad
    BY <2>2
  <2> QED
    BY <2>3
<1>3. x \in Nat /\ x - 1 \in Nat /\ x - 1 \notin Bad
  <2>1. x \in Nat
    OBVIOUS
  <2> HIDE DEF Bad
  <2> QED
    BY <1>1, <1>2, <2>1
<1>4. PICK g : Upto(g, x - 1)
  BY <1>3
<1> DEFINE h == [v \in 0 .. x |-> [u \in Nat |-> IF v = 0 THEN u ELSE g[u % v][v]]]
<1>5. ASSUME NEW u \in Nat, NEW v \in 0 .. x, v # 0
      PROVE  h[u % v][v] = g[u % v][v]
  <2> DEFINE w == u % v
  <2>1. v \in Nat /\ w \in 0 .. x - 1 /\ w \in 0 .. x
    BY <1>3, <1>5, ModBelow
  <2> HIDE DEF w
  <2>2. g[w][v] = IF w = 0 THEN v ELSE g[v % w][w]
    BY <1>3, <1>4, <2>1, UptoValue
  <2>3. h[w][v] = IF w = 0 THEN v ELSE g[v % w][w]
    BY <2>1
  <2> QED
    BY <2>2, <2>3 DEF w
<1>6. Upto(h, x)
  <2>1. h = [v \in 0 .. x |-> [u \in Nat |-> IF v = 0 THEN u ELSE h[u % v][v]]]
    <3>1. ASSUME NEW v \in 0 .. x
          PROVE  [u \in Nat |-> IF v = 0 THEN u ELSE g[u % v][v]]
                   = [u \in Nat |-> IF v = 0 THEN u ELSE h[u % v][v]]
      <4> HIDE DEF h
      <4> QED
        BY <1>5
    <3> DEFINE k == [v \in 0 .. x |-> [u \in Nat |-> IF v = 0 THEN u ELSE h[u % v][v]]]
    <3>2. h = k
      BY <3>1, Zenon
    <3> QED
      BY <3>2
  <2> HIDE DEF h
  <2> QED
    BY <2>1 DEF Upto
<1> QED
  BY <1>6

\* The equation gcd is written with does define a function.
LEMMA GcdEquation ==
  ASSUME NEW u \in Nat, NEW v \in Nat
  PROVE  gcd[v][u] = IF v = 0 THEN u ELSE gcd[u % v][v]
<1> DEFINE f(n) == CHOOSE g : Upto(g, n)
           G == [n \in Nat |-> [m \in Nat |-> f(n)[n][m]]]
<1>1. \A n \in Nat : Upto(f(n), n)
  BY UptoExists
<1> HIDE DEF f
<1>2. ASSUME NEW m \in Nat, NEW n \in Nat
      PROVE  f(n)[n][m] = IF n = 0 THEN m ELSE G[m % n][n]
  <2>1. n \in 0 .. n /\ Upto(f(n), n)
    BY <1>1
  <2>2. f(n)[n][m] = IF n = 0 THEN m ELSE f(n)[m % n][n]
    BY <2>1, UptoValue
  <2>3. CASE n # 0
    <3> DEFINE w == m % n
    <3>1. w \in Nat /\ w <= n
      BY <2>3, ModBelow
    <3> HIDE DEF w
    <3>2. f(n)[w][n] = f(w)[w][n]
      BY <3>1, <1>1, UptoAgree
    <3>3. G[w][n] = f(w)[w][n]
      BY <3>1
    <3> QED
      BY <3>2, <3>3, <2>2 DEF w
  <2> QED
    BY <2>2, <2>3
<1>3. G = [n \in Nat |-> [m \in Nat |-> IF n = 0 THEN m ELSE G[m % n][n]]]
  <2>1. ASSUME NEW n \in Nat
        PROVE  [m \in Nat |-> f(n)[n][m]]
                 = [m \in Nat |-> IF n = 0 THEN m ELSE G[m % n][n]]
    <3> HIDE DEF G
    <3> QED
      BY <1>2
  <2> DEFINE J == [n \in Nat |-> [m \in Nat |-> IF n = 0 THEN m ELSE G[m % n][n]]]
  <2>2. G = J
    BY <2>1, Zenon
  <2> QED
    BY <2>2
<1> HIDE DEF G
<1>4. gcd = [n \in Nat |-> [m \in Nat |-> IF n = 0 THEN m ELSE gcd[m % n][n]]]
  BY <1>3 DEF gcd
<1>5. gcd[v] = [m \in Nat |-> IF v = 0 THEN m ELSE gcd[m % v][v]]
  BY <1>4
<1> QED
  BY <1>5

\* What two numbers share is at most the second.
LEMMA GcdBound ==
  ASSUME NEW u \in Nat, NEW v \in Nat, v > 0
  PROVE  gcd[v][u] \in 1 .. v
<1> DEFINE Bad == {n \in Nat : n > 0 /\ \E m \in Nat : gcd[n][m] \notin 1 .. n}
<1> SUFFICES ASSUME Bad # {} PROVE FALSE
  OBVIOUS
<1>1. PICK x \in Bad : \A y \in Bad : x <= y
  <2>1. Bad \in SUBSET Nat
    OBVIOUS
  <2> QED
    BY <2>1, LeastNat
<1>2. PICK m \in Nat : gcd[x][m] \notin 1 .. x
  OBVIOUS
<1> DEFINE w == m % x
<1>3. x \in Nat /\ x > 0 /\ w \in Nat /\ w < x
  BY ModBelow
<1>4. gcd[x][m] = gcd[w][x]
  <2>1. gcd[x][m] = IF x = 0 THEN m ELSE gcd[m % x][x]
    BY <1>3, GcdEquation
  <2> QED
    BY <2>1, <1>3
<1> HIDE DEF w
<1>5. CASE w = 0
  <2>1. gcd[w][x] = x
    BY <1>3, <1>5, GcdEquation
  <2> QED
    BY <2>1, <1>2, <1>3, <1>4
<1>6. CASE w # 0
  <2>1. w > 0 /\ w \notin Bad
    <3> HIDE DEF Bad
    <3> QED
      BY <1>1, <1>3, <1>6
  <2>2. gcd[w][x] \in 1 .. w
    BY <2>1, <1>3
  <2> QED
    BY <2>2, <1>2, <1>3, <1>4
<1> QED
  BY <1>5, <1>6

-----------------------------------------------------------------------------
(* The divisor of every call.                                              *)

\* A word, and the magnitudes of operands of two words.
LEMMA WordSize ==
  /\ M \in Nat /\ M > 1
  /\ \A k \in 0 .. MaxGap : Radix ^ k \in 1 .. M - 1
  /\ \A x \in Rows \union Factors :
       x.bits <= 2 * Word => Magnitude(x.raw) \in 0 .. M * M - 1
<1> DEFINE N == 2 * Word
<1>1. Word \in Nat /\ Word > 0 /\ N \in Nat /\ Word + Word = N /\ Word <= N
  BY BatchAssumption
<1>2. PowerLaws(2, N)
  BY PowersAssumption DEF PowerLaws
<1>3. Radix \in Nat /\ Radix > 0 /\ MaxGap \in Nat /\ Radix ^ MaxGap < M
  BY BatchAssumption
<1>4. PowerLaws(Radix, MaxGap)
  BY PowersAssumption DEF PowerLaws
<1> HIDE DEF N
<1>5. \A k \in 0 .. N : 2 ^ k \in Nat /\ 2 ^ k > 0
  BY <1>1, <1>2, PowersPositive
<1>6. M \in Nat /\ M > 1
  <2>1. 2 ^ (0 + 1) = 2 * 2 ^ 0 /\ 2 ^ 0 = 1 /\ 0 + 1 = 1
    BY <1>1, <1>2 DEF PowerLaws
  <2>2. 2 ^ 1 <= 2 ^ Word
    <3> DEFINE one == 1
    <3>1. one \in 0 .. N /\ Word \in 0 .. N /\ one <= Word
      BY <1>1
    <3> HIDE DEF one
    <3>2. 2 ^ one <= 2 ^ Word
      BY <3>1, <1>1, <1>2, PowersOrder
    <3> QED
      BY <3>2 DEF one
  <2>3. 2 ^ Word \in Nat
    BY <1>1, <1>5
  <2> QED
    BY <2>1, <2>2, <2>3 DEF M
<1>7. ASSUME NEW k \in 0 .. MaxGap PROVE Radix ^ k \in 1 .. M - 1
  <2>1. Radix ^ k \in Nat /\ Radix ^ k > 0 /\ Radix ^ MaxGap \in Nat
    BY <1>3, <1>4, PowersPositive
  <2>2. Radix ^ k <= Radix ^ MaxGap
    BY <1>3, <1>4, PowersOrder
  <2> QED
    BY <2>1, <2>2, <1>3, <1>6
<1>8. ASSUME NEW x \in Rows \union Factors, x.bits <= 2 * Word
      PROVE  Magnitude(x.raw) \in 0 .. M * M - 1
  <2> DEFINE k == x.bits - 1
             h == 2 ^ k
  <2>1. /\ x.bits \in Nat /\ k \in 0 .. N /\ N \in 0 .. N /\ k <= N /\ k + 1 <= N
        /\ x.raw \in -h .. h - 1
    BY <1>1, <1>8, OperandsAssumption DEF N
  <2> HIDE DEF k
  <2>2. h \in Nat /\ h > 0
    BY <1>5, <2>1
  <2>3. 2 ^ (k + 1) = 2 * h /\ k + 1 \in 0 .. N
    BY <1>1, <1>2, <2>1 DEF PowerLaws
  <2>4. 2 * h <= 2 ^ N
    BY <1>1, <1>2, <2>1, <2>3, PowersOrder
  <2>5. 2 ^ N = M * M /\ M * M \in Nat
    <3>1. 2 ^ (Word + Word) = 2 ^ Word * 2 ^ Word
      <4>1. \A j \in 0 .. N : Word + j <= N => 2 ^ (Word + j) = 2 ^ Word * 2 ^ j
        BY <1>1, <1>2, PowersTimes
      <4> QED
        BY <4>1, <1>1
    <3> QED
      BY <3>1, <1>1, <1>6 DEF M
  <2> DEFINE mm == M * M
  <2>6. h < mm
    BY <2>2, <2>4, <2>5
  <2> HIDE DEF h
  <2>7. x.raw \in Int /\ -h <= x.raw /\ x.raw < h
    BY <2>1, <2>2
  <2>8. Magnitude(x.raw) \in Nat /\ Magnitude(x.raw) <= h
    BY <2>2, <2>7 DEF Magnitude
  <2> QED
    BY <2>2, <2>5, <2>6, <2>8
<1> QED
  BY <1>6, <1>7, <1>8

\* Dividing by one is no division.
LEMMA DivideByOne ==
  ASSUME NEW x \in Nat
  PROVE  x \div 1 = x /\ x % 1 = 0
<1>1. x = x * 1 + 0
  OBVIOUS
<1> QED
  BY <1>1, DivUnique

\* Whatever is divided by a prepared divisor, one included.
LEMMA PreparedQuotient ==
  ASSUME divisor \in 1 .. M - 1, NEW x \in 0 .. M * M - 1
  PROVE  /\ Prepared(x) = <<x \div divisor, x % divisor>>
         /\ divisor > 1 => High(x)[2] < divisor
         /\ x % divisor \in 0 .. divisor - 1
<1>1. M \in Nat /\ M > 1 /\ M * M \in Nat
  <2>1. M \in Nat /\ M > 1
    BY WordSize
  <2>2. M * M \in Nat
    BY <2>1, PositiveProduct
  <2> QED
    BY <2>1, <2>2
<1>2. divisor \in Nat /\ divisor > 0 /\ divisor < M
  BY <1>1
<1>3. x \in Int /\ 0 <= x /\ x < M * M /\ x \in Nat
  BY <1>1
<1>4. x % divisor \in 0 .. divisor - 1
  BY <1>2, <1>3, ModBelow
<1>5. CASE divisor = 1
  <2>1. Prepared(x) = <<x, 0>>
    BY <1>5 DEF Prepared
  <2>2. x \div 1 = x /\ x % 1 = 0
    BY <1>3, DivideByOne
  <2> QED
    BY <1>4, <1>5, <2>1, <2>2
<1>6. CASE divisor > 1
  <2>1. DivisorPrepared
    BY <1>1, <1>2, <1>6 DEF DivisorPrepared
  <2> QED
    BY <2>1, <1>3, <1>4, PreparedDividesExactly
<1> QED
  BY <1>2, <1>5, <1>6

\* The quotient of two positive numbers of which the second is no larger.
LEMMA ReducedDenominator ==
  ASSUME NEW d \in Nat, NEW c \in 1 .. d
  PROVE  d \div c \in 1 .. d
<1> DEFINE e == d \div c
<1>1. e \in Int /\ d % c \in Nat /\ d % c < c /\ d = e * c + (d % c) /\ c \in Nat /\ c > 0
  BY DivMod
<1> DEFINE s == d % c
<1> HIDE DEF e, s
<1>2. s \in Nat /\ s < c /\ d = e * c + s
  BY <1>1 DEF s
<1>3. ~(e < 1)
  <2> SUFFICES ASSUME e < 1 PROVE FALSE
    OBVIOUS
  <2>1. e * c + c <= 1 * c
    BY <1>1, MultipleOrder
  <2>2. e * c \in Int /\ 1 * c = c
    BY <1>1
  <2> QED
    BY <1>1, <1>2, <2>1, <2>2
<1>4. e <= e * c /\ e * c \in Nat
  BY <1>1, <1>3, PositiveProduct
<1> QED
  BY <1>1, <1>2, <1>3, <1>4 DEF e

\* The divisor of a plan fits a word and is not zero; a call that uses the plan
\* divides by it what two words hold.
PlanDivides == plan.divisor \in 1 .. M - 1 /\ plan.reduced \in Nat
RowTaken == stage \in {"exact", "lane", "split", "scale"} => request.a \in Rows
SplitLoaded ==
  stage \in {"split", "scale"} /\ UsesPlan =>
    /\ a \in 0 .. M * M - 1 /\ b \in 0 .. M - 1 /\ divisor \in 1 .. M - 1
    /\ stage = "scale" => r \in 0 .. M - 1

IInv == PlanDivides /\ RowTaken /\ SplitLoaded

\* A product of two limbs has two.
LEMMA LimbProduct ==
  ASSUME NEW x \in 0 .. M - 1, NEW y \in 0 .. M - 1
  PROVE  x * y \in 0 .. M * M - 1
<1>1. M \in Nat /\ x \in Nat /\ y \in Nat /\ x < M /\ y < M
  BY WordSize
<1>2. 0 <= x * y /\ x * y <= M * y
  BY <1>1, ProductBelow
<1>3. 0 <= y * M /\ y * M + M <= M * M
  BY <1>1, MultipleOrder, ProductBelow
<1>4. x * y \in Int /\ M * y = y * M /\ y * M \in Int /\ M * M \in Int
  BY <1>1
<1> QED
  BY <1>1, <1>2, <1>3, <1>4

LEMMA InitIInv == Init => IInv
<1> SUFFICES ASSUME Init PROVE IInv
  OBVIOUS
<1>1. plan.divisor = 1 /\ plan.reduced = 0 /\ stage = "idle"
  BY DEF Init, NoPlan
<1> QED
  BY <1>1, WordSize DEF IInv, PlanDivides, RowTaken, SplitLoaded

LEMMA PrepareIInv ==
  ASSUME IInv, Prepare PROVE IInv'
<1>1. PICK f \in Factors, dest \in Dests, rounding \in X!XR(1)!RoundingModes :
        LET prepared == f.bits <= 2 * Word /\ dest.bits <= 2 * Word /\ f.decimals <= MaxGap
            d == Radix ^ f.decimals
            common == gcd[d][Magnitude(f.raw) % d]
        IN plan' = [factor |-> f, dest |-> dest, rounding |-> rounding,
                    reduced |-> IF prepared THEN Magnitude(f.raw) \div common ELSE 0,
                    divisor |-> IF prepared THEN d \div common ELSE 1]
  BY DEF Prepare
<1> DEFINE d == Radix ^ f.decimals
           common == gcd[d][Magnitude(f.raw) % d]
           prepared == f.bits <= 2 * Word /\ dest.bits <= 2 * Word /\ f.decimals <= MaxGap
<1>2. /\ plan'.divisor = IF prepared THEN d \div common ELSE 1
      /\ plan'.reduced = IF prepared THEN Magnitude(f.raw) \div common ELSE 0
  BY <1>1
<1>3. M \in Nat /\ M > 1
  BY WordSize
<1>4. ASSUME prepared
      PROVE  d \div common \in 1 .. M - 1 /\ Magnitude(f.raw) \div common \in Nat
  <2>1. f.decimals \in 0 .. MaxGap
    BY <1>4, OperandsAssumption, BatchAssumption
  <2>2. d \in 1 .. M - 1
    BY <2>1, WordSize
  <2>3. d \in Nat /\ d > 0
    BY <1>3, <2>2
  <2>4. Magnitude(f.raw) \in Nat
    <3>1. Magnitude(f.raw) \in 0 .. M * M - 1 /\ M * M \in Nat
      BY <1>3, <1>4, WordSize, PositiveProduct
    <3> QED
      BY <3>1
  <2> HIDE DEF d
  <2>5. Magnitude(f.raw) % d \in Nat
    BY <2>3, <2>4, ModBelow
  <2>6. common \in 1 .. d
    BY <2>3, <2>5, GcdBound
  <2> HIDE DEF common
  <2>7. d \div common \in 1 .. d
    BY <2>3, <2>6, ReducedDenominator
  <2>8. Magnitude(f.raw) \div common \in Nat
    <3> DEFINE m == Magnitude(f.raw)
    <3> HIDE DEF m
    <3>1. m \in Nat /\ common \in Nat /\ common > 0
      BY <2>3, <2>4, <2>6 DEF m
    <3>2. m \div common \in Nat
      BY <3>1
    <3> QED
      BY <3>2 DEF m
  <2> QED
    BY <2>2, <2>7, <2>8, <1>3
<1> HIDE DEF d, common, prepared
<1>5. PlanDivides'
  BY <1>2, <1>3, <1>4 DEF PlanDivides, M
<1>6. stage = "idle" /\ stage' = stage
  BY DEF Prepare
<1> QED
  BY <1>5, <1>6 DEF IInv, RowTaken, SplitLoaded

LEMMA BeginIInv ==
  ASSUME IInv, CallBinary \/ CallRow PROVE IInv'
<1>1. ASSUME NEW x \in Rows, NEW f, NEW dest, NEW rounding, NEW next,
             next \in {"exact", "lane"}, Begin(x, f, dest, rounding, next)
      PROVE  IInv'
  <2>1. request'.a = x /\ stage' = next /\ plan' = plan
    BY <1>1 DEF Begin, X!Request
  <2> QED
    BY <1>1, <2>1 DEF IInv, PlanDivides, RowTaken, SplitLoaded
<1>2. CASE CallBinary
  <2>1. PICK x \in Rows, f \in Factors, dest \in Dests,
             rounding \in X!XR(1)!RoundingModes :
          Begin(x, f, dest, rounding, "exact")
    BY <1>2 DEF CallBinary
  <2> QED
    BY <2>1, <1>1
<1>3. CASE CallRow
  <2>1. PICK x \in Rows :
          \/ Begin(x, plan.factor, plan.dest, plan.rounding, "exact")
          \/ Begin(x, plan.factor, plan.dest, plan.rounding, "lane")
    BY <1>3 DEF CallRow
  <2> QED
    BY <2>1, <1>1
<1> QED
  BY <1>2, <1>3

LEMMA SplitByPlanIInv ==
  ASSUME IInv, SplitByPlan PROVE IInv'
<1>1. /\ stage = "exact" /\ stage' = "split" /\ UsesPlan
      /\ a' = Magnitude(input.raw) /\ b' = plan.reduced /\ divisor' = plan.divisor
      /\ plan' = plan /\ request' = request
  BY DEF SplitByPlan, EnterSplit
<1>2. input \in Rows /\ input.bits <= 2 * Word /\ plan.reduced < M
  BY <1>1 DEF IInv, RowTaken, UsesPlan, input
<1>3. a' \in 0 .. M * M - 1
  BY <1>1, <1>2, WordSize
<1>4. b' \in 0 .. M - 1 /\ divisor' \in 1 .. M - 1
  BY <1>1, <1>2, WordSize DEF IInv, PlanDivides
<1>5. PlanDivides' /\ RowTaken'
  BY <1>1, <1>2 DEF IInv, PlanDivides, RowTaken, input
<1>6. SplitLoaded'
  BY <1>1, <1>3, <1>4 DEF SplitLoaded
<1> QED
  BY <1>5, <1>6 DEF IInv

LEMMA SplitByScaleIInv ==
  ASSUME IInv, SplitByScale PROVE IInv'
<1>1. /\ stage = "exact" /\ stage' = "split" /\ ~UsesPlan
      /\ plan' = plan /\ request' = request
  BY DEF SplitByScale, EnterSplit
<1>2. UsesPlan' = UsesPlan
  BY <1>1 DEF UsesPlan, Broadcast, input, factor
<1> QED
  BY <1>1, <1>2 DEF IInv, PlanDivides, RowTaken, SplitLoaded

LEMMA SplitDivideIInv ==
  ASSUME IInv, SplitDivide PROVE IInv'
<1>1. /\ stage = "split" /\ stage' = "scale" /\ r' = Divide(a)[2]
      /\ plan' = plan /\ request' = request /\ a' = a /\ b' = b /\ divisor' = divisor
  BY DEF SplitDivide, Divided, split
<1>2. UsesPlan' = UsesPlan
  BY <1>1 DEF UsesPlan, Broadcast, input, factor
<1>3. PlanDivides' /\ RowTaken'
  BY <1>1 DEF IInv, PlanDivides, RowTaken
<1>4. ASSUME UsesPlan PROVE SplitLoaded'
  <2>1. a \in 0 .. M * M - 1 /\ b \in 0 .. M - 1 /\ divisor \in 1 .. M - 1
    BY <1>1, <1>4 DEF IInv, SplitLoaded
  <2>2. r' = a % divisor /\ a % divisor \in 0 .. divisor - 1
    BY <1>1, <1>4, <2>1, PreparedQuotient DEF Divide
  <2>3. r' \in 0 .. M - 1
    BY <2>1, <2>2, WordSize
  <2> QED
    BY <1>1, <2>1, <2>3 DEF SplitLoaded
<1> QED
  BY <1>2, <1>3, <1>4 DEF IInv, SplitLoaded

\* Every other step leaves the stages in which the divisor is used.
LEMMA LeaveIInv ==
  ASSUME IInv,
         \/ Release \/ EvaluateLane \/ ExactProduct \/ FallBack \/ SplitProduct
         \/ ScaleOverflows \/ ScaleTail \/ Finish \/ Return
  PROVE  IInv'
<1>1. CASE Release
  <2>1. plan'.divisor = 1 /\ plan'.reduced = 0 /\ stage' = "idle"
    BY <1>1 DEF Release, NoPlan
  <2> QED
    BY <2>1, WordSize DEF IInv, PlanDivides, RowTaken, SplitLoaded
<1>2. CASE EvaluateLane
  <2>1. /\ stage = "lane" /\ stage' \in {"exact", "answered"}
        /\ plan' = plan /\ request' = request
    BY <1>2 DEF EvaluateLane, Respond
  <2> QED
    BY <2>1 DEF IInv, PlanDivides, RowTaken, SplitLoaded
<1>3. CASE ExactProduct \/ FallBack \/ ScaleOverflows \/ Finish
  <2>1. stage' = "answered" /\ plan' = plan
    BY <1>3 DEF ExactProduct, FallBack, ScaleOverflows, Finish, Respond
  <2> QED
    BY <2>1 DEF IInv, PlanDivides, RowTaken, SplitLoaded
<1>4. CASE SplitProduct \/ ScaleTail
  <2>1. stage' \in {"finish", "answered"} /\ plan' = plan
    BY <1>4 DEF SplitProduct, ScaleTail, Divided, Respond
  <2> QED
    BY <2>1 DEF IInv, PlanDivides, RowTaken, SplitLoaded
<1>5. CASE Return
  <2>1. stage' = "idle" /\ plan' = plan
    BY <1>5 DEF Return
  <2> QED
    BY <2>1 DEF IInv, PlanDivides, RowTaken, SplitLoaded
<1> QED
  BY <1>1, <1>2, <1>3, <1>4, <1>5

LEMMA NextIInv == IInv /\ [Next]_vars => IInv'
<1>1. ASSUME IInv, UNCHANGED vars PROVE IInv'
  BY <1>1 DEF vars, split, IInv, PlanDivides, RowTaken, SplitLoaded, UsesPlan, Broadcast,
              input, factor
<1> QED
  BY <1>1, PrepareIInv, BeginIInv, SplitByPlanIInv, SplitByScaleIInv, SplitDivideIInv,
     LeaveIInv DEF Next, Work

\* Whatever plan multiply_split works with, its divisor is not zero and fits a
\* word, every number it divides fits two, and the division is exact.
THEOREM PreparedExact == Spec => []PreparedDivisionExact
<1>1. IInv => PreparedDivisionExact
  <2> SUFFICES ASSUME IInv, UsesPlan,
                      NEW x \in (IF stage = "split" THEN {IF Together THEN a * b ELSE a}
                                 ELSE IF stage = "scale" THEN {r * b} ELSE {})
               PROVE  /\ Prepared(x) = <<x \div divisor, x % divisor>>
                      /\ divisor > 1 /\ x >= M => High(x)[2] < divisor
    BY DEF PreparedDivisionExact
  <2>1. stage \in {"split", "scale"}
    OBVIOUS
  <2>2. a \in 0 .. M * M - 1 /\ b \in 0 .. M - 1 /\ divisor \in 1 .. M - 1
    BY <2>1 DEF IInv, SplitLoaded
  <2>3. x \in 0 .. M * M - 1
    <3>1. CASE stage = "scale"
      <4>1. x = r * b /\ r \in 0 .. M - 1
        BY <3>1 DEF IInv, SplitLoaded
      <4> QED
        BY <4>1, <2>2, LimbProduct
    <3>2. CASE stage = "split" /\ Together
      <4>1. x = a * b /\ a < M
        BY <3>2 DEF Together
      <4>2. a \in 0 .. M - 1
        BY <4>1, <2>2, WordSize
      <4> QED
        BY <4>1, <4>2, <2>2, LimbProduct
    <3>3. CASE stage = "split" /\ ~Together
      BY <3>3, <2>2
    <3> QED
      BY <2>1, <3>1, <3>2, <3>3
  <2> QED
    BY <2>2, <2>3, PreparedQuotient
<1>2. Spec => []IInv
  BY InitIInv, NextIInv, PTL DEF Spec
<1> QED
  BY <1>1, <1>2, PTL

-----------------------------------------------------------------------------
(* Text conversion.                                                        *)

TextAssumption ==
  WordAssumption /\ TextsAssumption /\ TypesAssumption /\ TextPowersAssumption

\* A call to read a fixed-point value names a text and a type of the model.
TextCalled ==
  textStage = "begin" /\ textRequest.op = "parse" =>
    textRequest.text \in Texts /\ textRequest.type \in Types

\* The digits the accumulator has: those taken, keep of them at most, and keep
\* once it is padded.
Taken == IF textStage # "round" /\ index < keep THEN index ELSE keep

\* The mantissa is made of digits and points; on the fast path the accumulator
\* has only as many digits as were taken, on the other it is within the limit.
Accumulated ==
  textStage \in {"digits", "pad", "round"} =>
    /\ textRequest.type \in Types
    /\ scan.mantissa \in Seq(Nat) /\ pos \in Nat \ {0}
    /\ \A i \in DOMAIN scan.mantissa : Character(scan.mantissa[i]) \/ scan.mantissa[i] = ET!Dot
    /\ index \in Nat /\ accumulator \in Nat
    /\ IF Fast THEN accumulator < DigitBase ^ Taken ELSE accumulator <= TypeLimit(scan.negative)
    /\ textStage = "pad" /\ Fast => index < keep

TextInv == TextCalled /\ Accumulated

\* The limit of a type is a natural number.
LEMMA TextLimit ==
  ASSUME TextAssumption, textRequest.type \in Types, NEW sign
  PROVE  TypeLimit(sign) \in Nat
<1> DEFINE t == textRequest.type
<1>1. t.bits \in Nat /\ t.bits > 0
  BY DEF TextAssumption, TypesAssumption
<1>2. PowerLaws(2, t.bits)
  BY DEF TextAssumption, TextPowersAssumption, PowerLaws
<1>3. 2 ^ (t.bits - 1) \in Nat /\ 2 ^ (t.bits - 1) > 0
  BY <1>1, <1>2, PowersPositive
<1>4. RT!Indicator(sign) \in {0, 1}
  BY DEF RT!Indicator
<1> QED
  BY <1>3, <1>4 DEF TypeLimit, bits

\* The powers of the radix up to the digits of the fast path.
LEMMA FastPowers ==
  ASSUME TextAssumption
  PROVE  /\ DigitBase \in Nat /\ DigitBase > 0
         /\ FastDigits \in Nat /\ PowerLaws(DigitBase, FastDigits)
         /\ \A k \in 0 .. FastDigits :
              DigitBase ^ k \in Nat /\ DigitBase ^ k > 0 /\ DigitBase ^ k <= 2 ^ WordBits
         /\ 2 ^ WordBits \in Nat
<1>1. /\ DigitBase \in Nat /\ DigitBase > 0 /\ FastDigits \in Nat /\ WordBits \in Nat
      /\ DigitBase ^ FastDigits <= 2 ^ WordBits
  BY DEF TextAssumption, WordAssumption
<1>2. PowerLaws(DigitBase, FastDigits) /\ PowerLaws(2, WordBits)
  BY DEF TextAssumption, TextPowersAssumption, PowerLaws
<1>3. 2 ^ WordBits \in Nat
  BY <1>1, <1>2, PowersPositive
<1>4. ASSUME NEW k \in 0 .. FastDigits
      PROVE  DigitBase ^ k \in Nat /\ DigitBase ^ k > 0 /\ DigitBase ^ k <= 2 ^ WordBits
  <2>1. \A m \in 0 .. FastDigits : DigitBase ^ m \in Nat /\ DigitBase ^ m > 0
    BY <1>1, <1>2, PowersPositive
  <2>2. DigitBase ^ k <= DigitBase ^ FastDigits
    BY <1>1, <1>2, PowersOrder
  <2>3. FastDigits \in 0 .. FastDigits
    BY <1>1
  <2>4. DigitBase ^ k \in Nat /\ DigitBase ^ FastDigits \in Nat
    BY <2>1, <2>3
  <2> QED
    BY <1>1, <1>3, <2>1, <2>2, <2>4
<1> QED
  BY <1>1, <1>2, <1>3, <1>4

\* The position of the first character that passes a test, and 0 for none.
LEMMA MantissaInside ==
  ASSUME NEW u \in Seq(Nat)
  PROVE  MantissaEnd(u) \in 0 .. Len(u)
<1> DEFINE I == {i \in 1 .. Len(u) : u[i] = ET!Exp}
           x == Min(I)
<1>1. CASE I = {}
  <2>1. ~(ET!Exp \in Range(u))
    BY <1>1 DEF Range
  <2> QED
    BY <2>1 DEF MantissaEnd
<1>2. CASE I # {}
  <2>1. I \in SUBSET Nat
    OBVIOUS
  <2>2. PICK y \in I : \A z \in I : y <= z
    BY <2>1, <1>2, LeastNat
  <2>3. x \in I
    BY <2>2 DEF Min
  <2>4. SelectInSeq(u, LAMBDA c : c = ET!Exp) = x
    BY <1>2 DEF SelectInSeq
  <2>5. MantissaEnd(u) = x - 1
    <3>1. ET!Exp \in Range(u)
      BY <1>2 DEF Range
    <3> QED
      BY <3>1, <2>4 DEF MantissaEnd
  <2>6. x \in 1 .. Len(u) /\ Len(u) \in Nat
    BY <2>3
  <2> HIDE DEF x
  <2> QED
    BY <2>5, <2>6
<1> QED
  BY <1>1, <1>2

\* A scanned mantissa is a sequence of digits and points.
LEMMA MantissaScanned ==
  ASSUME TextAssumption, textRequest.text \in Texts, Readable
  PROVE  LET m == Scanned.mantissa
         IN  /\ m \in Seq(Nat)
             /\ \A i \in DOMAIN m : Character(m[i]) \/ m[i] = ET!Dot
<1> DEFINE t == textRequest.text
           u == Body
           end == MantissaEnd(u)
           m == SubSeq(u, 1, end)
<1>1. t \in Seq(Nat)
  BY DEF TextAssumption, TextsAssumption
<1>2. u \in Seq(Nat)
  <2>1. t # <<>>
    BY DEF Readable, text
  <2>2. Tail(t) \in Seq(Nat)
    BY <1>1, <2>1
  <2> QED
    BY <1>1, <2>2 DEF Body, text
<1>3. end \in 0 .. Len(u)
  BY <1>2, MantissaInside
<1> HIDE DEF u
<1>4. m \in Seq(Nat)
  <2>1. 1 \in Int /\ end \in Int /\ Len(u) \in Nat
    BY <1>2, <1>3
  <2>2. \A i \in 1 .. end : u[i] \in Nat
    BY <1>2, <1>3
  <2> HIDE DEF end
  <2> QED
    BY <1>2, <1>3, <2>1, <2>2
<1>5. Scanned.mantissa = m
  BY DEF Scanned, u
<1>6. WellFormed(m)
  BY DEF Readable, Scanned, u
<1>7. \A i \in DOMAIN m : Character(m[i]) \/ m[i] = ET!Dot
  BY <1>6 DEF WellFormed
<1> HIDE DEF m
<1> QED
  BY <1>4, <1>5, <1>7

\* The loop starts with nothing taken.
LEMMA StartAccumulates ==
  ASSUME TextAssumption, TextInv, Start PROVE TextInv'
<1>1. /\ textStage = "begin" /\ textRequest.op = "parse" /\ Readable
      /\ scan' = Scanned /\ textStage' = "digits"
      /\ pos' = 1 /\ index' = 0 /\ accumulator' = 0
      /\ UNCHANGED textRequest
  BY DEF Start, LoopFrom, Readable, Parsing
<1>2. textRequest.text \in Texts /\ textRequest.type \in Types
  BY <1>1 DEF TextInv, TextCalled
<1>3. /\ scan'.mantissa \in Seq(Nat)
      /\ \A i \in DOMAIN scan'.mantissa :
           Character(scan'.mantissa[i]) \/ scan'.mantissa[i] = ET!Dot
  BY <1>1, <1>2, MantissaScanned
<1>4. Fast' => accumulator' < (DigitBase ^ Taken)'
  <2> SUFFICES ASSUME Fast' PROVE accumulator' < (DigitBase ^ Taken)'
    OBVIOUS
  <2>1. keep' \in 0 .. FastDigits
    BY DEF Fast
  <2>2. Taken' \in 0 .. FastDigits
    BY <1>1, <2>1, FastPowers DEF Taken
  <2>3. DigitBase ^ Taken' > 0 /\ DigitBase ^ Taken' \in Nat
    BY <2>2, FastPowers
  <2> QED
    BY <1>1, <2>3
<1>5. accumulator' <= TypeLimit(scan.negative)'
  <2>1. TypeLimit(scan'.negative) \in Nat
    BY <1>2, TextLimit
  <2>2. TypeLimit(scan.negative)' = TypeLimit(scan'.negative)
    BY <1>1 DEF TypeLimit, bits
  <2> QED
    BY <1>1, <2>1, <2>2
<1>6. Accumulated'
  BY <1>1, <1>2, <1>3, <1>4, <1>5 DEF Accumulated, Character, ET!Dot, ET!Digit
<1>7. TextCalled'
  BY <1>1 DEF TextCalled
<1> QED
  BY <1>6, <1>7 DEF TextInv

\* One more digit: on the fast path there is room for keep of them, on the
\* other it was tested first.
LEMMA TakeDigitAccumulates ==
  ASSUME TextAssumption, TextInv, TakeDigit PROVE TextInv'
<1> DEFINE lim == TypeLimit(scan.negative)
           d == Current
<1>1. /\ textStage = "digits" /\ textStage' = "digits" /\ pos <= Len(scan.mantissa)
      /\ d # ET!Dot /\ index < keep /\ ~NoRoom
      /\ accumulator' = accumulator * DigitBase + d /\ pos' = pos + 1 /\ index' = index + 1
      /\ UNCHANGED <<textRequest, scan, keep>>
  BY DEF TakeDigit, AtDigit, Skipped
<1>2. Accumulated
  BY DEF TextInv
<1>3. /\ textRequest.type \in Types /\ index \in Nat /\ accumulator \in Nat /\ pos \in Nat \ {0}
      /\ scan.mantissa \in Seq(Nat)
      /\ \A i \in DOMAIN scan.mantissa : Character(scan.mantissa[i]) \/ scan.mantissa[i] = ET!Dot
      /\ IF Fast THEN accumulator < DigitBase ^ Taken ELSE accumulator <= lim
  BY <1>1, <1>2 DEF Accumulated
<1>4. d \in 0 .. DigitBase - 1 /\ DigitBase \in Nat /\ DigitBase > 0
  <2>1. pos \in DOMAIN scan.mantissa
    BY <1>1, <1>3
  <2>2. Character(d)
    BY <1>1, <1>3, <2>1 DEF Current
  <2> QED
    BY <2>2, FastPowers DEF Character, ET!Digit
<1>5. lim \in Nat
  BY <1>3, TextLimit
<1>6. Fast' <=> Fast
  BY <1>1 DEF Fast, bits
<1> HIDE DEF d, lim
<1> DEFINE n == accumulator * DigitBase + d
<1>0. accumulator \in Nat /\ d \in Int /\ d >= 0 /\ d < DigitBase /\ accumulator' = n
  BY <1>1, <1>3, <1>4
<1>7. accumulator' \in Nat /\ index' \in Nat /\ pos' \in Nat \ {0}
  <2>1. n \in Nat
    BY <1>0, <1>4
  <2> HIDE DEF n
  <2> QED
    BY <2>1, <1>0, <1>1, <1>3
<1>8. ASSUME Fast PROVE accumulator' < (DigitBase ^ Taken)'
  <2>1. keep \in 0 .. FastDigits /\ FastDigits \in Nat
    BY <1>8, FastPowers DEF Fast
  <2>2. Taken = index /\ Taken' = index + 1 /\ index \in 0 .. FastDigits - 1
    BY <1>1, <1>3, <2>1 DEF Taken
  <2>3. DigitBase ^ (index + 1) = DigitBase * DigitBase ^ index /\ DigitBase ^ index \in Nat
    BY <2>1, <2>2, FastPowers DEF PowerLaws
  <2>4. accumulator + 1 <= DigitBase ^ index
    BY <1>3, <1>8, <2>2, <2>3
  <2>5. (accumulator + 1) * DigitBase <= DigitBase ^ index * DigitBase
    BY <2>3, <2>4, <1>3, <1>4
  <2>6. n < DigitBase ^ index * DigitBase
    BY <2>3, <2>5, <1>0, <1>4
  <2>7. DigitBase ^ index * DigitBase = DigitBase ^ Taken'
    BY <2>2, <2>3, <1>4
  <2> HIDE DEF n
  <2> QED
    BY <2>6, <2>7, <1>0
<1>9. ASSUME ~Fast PROVE accumulator' <= lim
  <2> DEFINE cut == lim \div DigitBase
             rest == lim % DigitBase
  <2>1. lim = cut * DigitBase + rest /\ cut \in Int /\ rest \in Int
    BY <1>4, <1>5, DivMod
  <2>2. ~(accumulator > cut) /\ ~(accumulator = cut /\ d > rest)
    BY <1>1, <1>9 DEF NoRoom, Cutoff, LastDigit, lim, d
  <2> HIDE DEF cut, rest
  <2>3. ASSUME accumulator = cut PROVE accumulator' <= lim
    <3>1. n <= cut * DigitBase + rest
      BY <2>1, <2>2, <2>3, <1>0, <1>4
    <3> HIDE DEF n
    <3> QED
      BY <3>1, <2>1, <1>0
  <2>4. ASSUME accumulator < cut PROVE accumulator' <= lim
    <3>1. accumulator * DigitBase + DigitBase <= cut * DigitBase
      BY <2>1, <2>4, <1>0, <1>4, MultipleOrder
    <3>2. rest >= 0
      BY <1>4, <1>5, DivMod DEF rest
    <3>3. n <= cut * DigitBase + rest
      BY <3>1, <3>2, <2>1, <1>0, <1>4
    <3> HIDE DEF n
    <3> QED
      BY <3>3, <2>1, <1>0
  <2>5. accumulator <= cut
    BY <2>1, <2>2, <1>0
  <2> QED
    BY <2>3, <2>4, <2>5, <2>1, <1>0
<1>10. TypeLimit(scan.negative)' = lim
  BY <1>1 DEF TypeLimit, bits, lim
<1>11. Accumulated'
  <2>1. IF Fast' THEN accumulator' < (DigitBase ^ Taken)' ELSE accumulator' <= TypeLimit(scan.negative)'
    BY <1>6, <1>8, <1>9, <1>10
  <2>2. /\ textRequest'.type \in Types /\ scan'.mantissa \in Seq(Nat)
        /\ \A i \in DOMAIN scan'.mantissa :
             Character(scan'.mantissa[i]) \/ scan'.mantissa[i] = ET!Dot
    BY <1>1, <1>3
  <2> QED
    BY <2>1, <2>2, <1>1, <1>7 DEF Accumulated, Character, ET!Dot, ET!Digit
<1>12. TextCalled'
  BY <1>1 DEF TextCalled
<1> QED
  BY <1>11, <1>12 DEF TextInv

\* Skipping, dropping and the end of the mantissa leave the accumulator alone;
\* digits are dropped only when all that count are taken.
LEMMA ValueKept ==
  ASSUME TextAssumption, TextInv, SkipCharacter \/ DropDigit \/ MantissaRead
  PROVE  TextInv'
<1>1. /\ textStage = "digits" /\ textStage' # "begin"
      /\ UNCHANGED <<textRequest, scan, keep, accumulator>>
      /\ pos' = pos + 1 \/ pos' = pos
      /\ index' = index \/ (index' = index + 1 /\ index >= keep)
      /\ textStage' = "digits" \/ (textStage' = "pad" /\ index < keep /\ index' = index)
                               \/ (textStage' = "round" /\ ~(index < keep) /\ index' = index)
  BY DEF SkipCharacter, DropDigit, MantissaRead, AtDigit, loop
<1>2. Accumulated
  BY DEF TextInv
<1>3. /\ textRequest.type \in Types /\ index \in Nat /\ accumulator \in Nat /\ pos \in Nat \ {0}
      /\ scan.mantissa \in Seq(Nat)
      /\ \A i \in DOMAIN scan.mantissa : Character(scan.mantissa[i]) \/ scan.mantissa[i] = ET!Dot
      /\ IF Fast THEN accumulator < DigitBase ^ Taken ELSE accumulator <= TypeLimit(scan.negative)
  BY <1>1, <1>2 DEF Accumulated
<1>4. Fast' <=> Fast
  BY <1>1 DEF Fast, bits
<1>5. Fast => Taken' = Taken
  <2>1. Fast => keep \in Int
    BY FastPowers DEF Fast
  <2> QED
    BY <1>1, <1>3, <2>1 DEF Taken
<1>6. TypeLimit(scan.negative)' = TypeLimit(scan.negative)
  BY <1>1 DEF TypeLimit, bits
<1>7. index' \in Nat /\ pos' \in Nat \ {0}
  BY <1>1, <1>3
<1>8. IF Fast' THEN accumulator' < (DigitBase ^ Taken)' ELSE accumulator' <= TypeLimit(scan.negative)'
  BY <1>1, <1>3, <1>4, <1>5, <1>6
<1>11. textStage' = "pad" => index' < keep'
  BY <1>1
<1>9. Accumulated'
  <2>1. /\ textRequest'.type \in Types /\ scan'.mantissa \in Seq(Nat) /\ accumulator' \in Nat
        /\ \A i \in DOMAIN scan'.mantissa :
             Character(scan'.mantissa[i]) \/ scan'.mantissa[i] = ET!Dot
    BY <1>1, <1>3
  <2> QED
    BY <2>1, <1>7, <1>8, <1>11 DEF Accumulated, Character, ET!Dot, ET!Digit
<1>10. TextCalled'
  BY <1>1 DEF TextCalled
<1> QED
  BY <1>9, <1>10 DEF TextInv

\* Zeros at once, on the fast path: keep digits are as many as fit.
LEMMA PadFastAccumulates ==
  ASSUME TextAssumption, TextInv, PadFast PROVE TextInv'
<1>1. /\ textStage = "pad" /\ Fast /\ textStage' = "round"
      /\ accumulator' = accumulator * DigitBase ^ (keep - index)
      /\ UNCHANGED <<textRequest, scan, keep, pos, index>>
  BY DEF PadFast
<1>2. Accumulated
  BY DEF TextInv
<1>3. /\ textRequest.type \in Types /\ index \in Nat /\ accumulator \in Nat /\ pos \in Nat \ {0}
      /\ scan.mantissa \in Seq(Nat)
      /\ \A i \in DOMAIN scan.mantissa : Character(scan.mantissa[i]) \/ scan.mantissa[i] = ET!Dot
      /\ accumulator < DigitBase ^ Taken /\ index < keep
  BY <1>1, <1>2 DEF Accumulated
<1>4. keep \in 0 .. FastDigits /\ FastDigits \in Nat
  BY <1>1, FastPowers DEF Fast
<1>5. Fast' /\ Taken = index /\ Taken' = keep
  BY <1>1, <1>3 DEF Fast, bits, Taken
<1>6. accumulator' \in Nat /\ accumulator' < DigitBase ^ keep
  <2> DEFINE x == DigitBase ^ index
             y == DigitBase ^ (keep - index)
             n == accumulator * y
  <2>1. x \in Nat /\ y \in Nat /\ y > 0
    BY <1>3, <1>4, FastPowers
  <2>2. DigitBase ^ keep = x * y
    <3>1. /\ keep - index \in 0 .. FastDigits /\ index + (keep - index) <= FastDigits
          /\ index + (keep - index) = keep
      BY <1>3, <1>4
    <3> QED
      BY <3>1, <1>3, FastPowers, PowersTimes
  <2> HIDE DEF x, y
  <2>3. accumulator < x /\ accumulator' = n
    BY <1>1, <1>3, <1>5 DEF x, y
  <2>4. n \in Nat /\ n < x * y
    BY <2>1, <2>3, <1>3
  <2> HIDE DEF n
  <2> QED
    BY <2>2, <2>3, <2>4
<1>7. Accumulated'
  <2>1. /\ textRequest'.type \in Types /\ scan'.mantissa \in Seq(Nat)
        /\ \A i \in DOMAIN scan'.mantissa :
             Character(scan'.mantissa[i]) \/ scan'.mantissa[i] = ET!Dot
        /\ accumulator' \in Nat /\ index' \in Nat /\ pos' \in Nat \ {0}
    BY <1>1, <1>3, <1>6
  <2>2. Fast' /\ accumulator' < (DigitBase ^ Taken)'
    BY <1>5, <1>6
  <2> QED
    BY <1>1, <2>1, <2>2 DEF Accumulated, Character, ET!Dot, ET!Digit
<1>8. TextCalled'
  BY <1>1 DEF TextCalled
<1> QED
  BY <1>7, <1>8 DEF TextInv

\* One zero, on the other path: it was tested first.
LEMMA PadAccumulates ==
  ASSUME TextAssumption, TextInv, Pad PROVE TextInv'
<1> DEFINE lim == TypeLimit(scan.negative)
           cut == lim \div DigitBase
           n == accumulator * DigitBase
<1>1. /\ textStage = "pad" /\ ~Fast /\ textStage' \in {"pad", "round"}
      /\ accumulator <= cut /\ accumulator' = n /\ index' = index + 1
      /\ UNCHANGED <<textRequest, scan, keep, pos>>
  BY DEF Pad, Cutoff
<1>2. Accumulated
  BY DEF TextInv
<1>3. /\ textRequest.type \in Types /\ index \in Nat /\ accumulator \in Nat /\ pos \in Nat \ {0}
      /\ scan.mantissa \in Seq(Nat)
      /\ \A i \in DOMAIN scan.mantissa : Character(scan.mantissa[i]) \/ scan.mantissa[i] = ET!Dot
  BY <1>1, <1>2 DEF Accumulated
<1>4. DigitBase \in Nat /\ DigitBase > 0 /\ lim \in Nat
  BY <1>3, FastPowers, TextLimit
<1>5. ~Fast' /\ TypeLimit(scan.negative)' = lim
  BY <1>1 DEF Fast, bits, TypeLimit
<1> HIDE DEF lim
<1>6. n \in Nat /\ n <= lim
  <2>1. lim = cut * DigitBase + (lim % DigitBase) /\ cut \in Int /\ lim % DigitBase >= 0 /\ lim % DigitBase \in Int
    BY <1>4, DivMod
  <2> HIDE DEF cut
  <2>2. n \in Nat /\ n <= cut * DigitBase
    <3>1. accumulator \in Nat /\ accumulator <= cut
      BY <1>1, <1>3
    <3> QED
      BY <3>1, <2>1, <1>4, ProductBelow
  <2> HIDE DEF n
  <2> QED
    BY <2>1, <2>2, <1>4
<1> HIDE DEF n
<1>7. Accumulated'
  <2>1. /\ textRequest'.type \in Types /\ scan'.mantissa \in Seq(Nat)
        /\ \A i \in DOMAIN scan'.mantissa :
             Character(scan'.mantissa[i]) \/ scan'.mantissa[i] = ET!Dot
        /\ accumulator' \in Nat /\ index' \in Nat /\ pos' \in Nat \ {0}
    BY <1>1, <1>3, <1>6
  <2>2. ~Fast' /\ accumulator' <= TypeLimit(scan.negative)'
    BY <1>1, <1>5, <1>6
  <2> QED
    BY <2>1, <2>2 DEF Accumulated, Character, ET!Dot, ET!Digit
<1>8. TextCalled'
  BY <1>1 DEF TextCalled
<1> QED
  BY <1>7, <1>8 DEF TextInv

\* Every other step leaves the loop: to an answer, to the next call or to the
\* chunks of an integer.
LEMMA LoopLeft ==
  ASSUME TextInv, textStage' \in {"answered", "idle", "chunk"} \/ UNCHANGED textVars
  PROVE  TextInv'
<1>1. CASE textStage' \in {"answered", "idle", "chunk"}
  BY <1>1 DEF TextInv, TextCalled, Accumulated
<1>2. CASE UNCHANGED textVars
  <2>1. UNCHANGED <<textRequest, textStage, scan, keep, pos, index, accumulator>>
    BY <1>2 DEF textVars, loop
  <2>2. (Fast' <=> Fast) /\ Taken' = Taken /\ TypeLimit(scan.negative)' = TypeLimit(scan.negative)
    BY <2>1 DEF Fast, bits, TypeLimit, Taken
  <2>3. TextCalled'
    BY <2>1 DEF TextInv, TextCalled
  <2>4. Accumulated'
    BY <2>1, <2>2 DEF TextInv, Accumulated, Character, ET!Dot, ET!Digit
  <2> QED
    BY <2>3, <2>4 DEF TextInv
<1> QED
  BY <1>1, <1>2

\* A call brings a text and a type of the model, if it reads a fixed-point value.
LEMMA CallsAreTexts ==
  ASSUME CallText \/ CallInteger PROVE TextInv'
<1>1. textStage' = "begin"
  BY DEF CallText, CallInteger
<1>2. textRequest'.op = "parse" => textRequest'.text \in Texts /\ textRequest'.type \in Types
  <2>1. CASE textRequest' \in ET!Parses
    BY <2>1 DEF ET!Parses
  <2>2. CASE \E type \in Types : textRequest' \in ET!Formats(type)
    BY <2>2 DEF ET!Formats
  <2>3. CASE textRequest' \in ET!IntegerParses
    BY <2>3 DEF ET!IntegerParses
  <2>4. CASE \E t \in IntegerTypes : textRequest' \in ET!IntegerFormats(t)
    BY <2>4 DEF ET!IntegerFormats
  <2> QED
    BY <2>1, <2>2, <2>3, <2>4 DEF CallText, CallInteger
<1> QED
  BY <1>1, <1>2 DEF TextInv, TextCalled, Accumulated

LEMMA TextNextInv ==
  ASSUME TextAssumption, TextInv, [IntegerNext]_(textVars) PROVE TextInv'
<1>1. CASE CallText \/ CallInteger
  BY <1>1, CallsAreTexts
<1>2. CASE Start
  BY <1>2, StartAccumulates
<1>3. CASE TakeDigit
  BY <1>3, TakeDigitAccumulates
<1>4. CASE SkipCharacter \/ DropDigit \/ MantissaRead
  BY <1>4, ValueKept
<1>5. CASE PadFast
  BY <1>5, PadFastAccumulates
<1>6. CASE Pad
  BY <1>6, PadAccumulates
<1>7. CASE \/ RejectEmpty \/ RejectInvalid \/ ReadZero \/ RejectLong
           \/ DigitOverflows \/ PadOverflows \/ Round
           \/ RejectPrecision \/ RejectInexact \/ Write \/ ReturnText
  <2>1. textStage' \in {"answered", "idle"}
    BY <1>7 DEF RejectEmpty, RejectInvalid, ReadZero, RejectLong, DigitOverflows,
      PadOverflows, Round, RejectPrecision, RejectInexact, Write, ReturnText,
      Refused, Replied
  <2> QED
    BY <2>1, LoopLeft
<1>8. CASE \/ RejectEmptyInteger \/ RejectSign \/ StartInteger
           \/ RejectChunk \/ RejectIntegerRange \/ TakeChunk \/ IntegerRead
           \/ WriteInteger
  <2>1. textStage' \in {"answered", "chunk"}
    BY <1>8 DEF RejectEmptyInteger, RejectSign, StartInteger, RejectChunk,
      RejectIntegerRange, TakeChunk, AtChunk, IntegerRead, WriteInteger,
      Refused, Replied
  <2> QED
    BY <2>1, LoopLeft
<1>9. CASE UNCHANGED textVars
  BY <1>9, LoopLeft
<1> QED
  BY <1>1, <1>2, <1>3, <1>4, <1>5, <1>6, <1>7, <1>8, <1>9 DEF IntegerNext, TextNext

\* The accumulator of parse_fixed never wraps and never passes the type's limit,
\* for every word, radix, text and type.
THEOREM AccumulatorHolds ==
  ASSUME TextAssumption PROVE TextSpec => []AccumulatorFits
<1>1. TextInit => TextInv
  BY DEF TextInit, TextInv, TextCalled, Accumulated
<1>2. TextInv /\ [IntegerNext]_(textVars) => TextInv'
  BY TextNextInv
<1>3. TextInv => AccumulatorFits
  <2> SUFFICES ASSUME TextInv, textStage \in {"digits", "pad", "round"}
               PROVE  accumulator < 2 ^ WordBits \/ (~Fast /\ accumulator <= TypeLimit(scan.negative))
    BY DEF AccumulatorFits
  <2>1. /\ accumulator \in Nat /\ index \in Nat
        /\ IF Fast THEN accumulator < DigitBase ^ Taken ELSE accumulator <= TypeLimit(scan.negative)
    BY DEF TextInv, Accumulated
  <2>2. Fast => Taken \in 0 .. FastDigits
    BY <2>1, FastPowers DEF Fast, Taken
  <2>3. \A k \in 0 .. FastDigits : DigitBase ^ k \in Nat /\ DigitBase ^ k <= 2 ^ WordBits
    BY FastPowers
  <2> QED
    BY <2>1, <2>2, <2>3, FastPowers
<1> QED
  BY <1>1, <1>2, <1>3, PTL DEF TextSpec

-----------------------------------------------------------------------------
(* Mixed-width arithmetic.                                                 *)

\* What defines a power, for every exponent: the provers have no definition of
\* it, and TLC's integers end far below the 1024 bits that are needed here.
Exponentiation == \A x \in Nat : x ^ 0 = 1 /\ \A k \in Nat : x ^ (k + 1) = x * x ^ k

MixedAssumption ==
  /\ Exponentiation
  /\ LimbAssumption /\ DivisorsAssumption /\ RadixAssumption
  /\ RawAssumption /\ TierAssumption

LEMMA PowerTimes ==
  ASSUME Exponentiation, NEW x \in Nat, x > 0, NEW i \in Nat, NEW j \in Nat
  PROVE  /\ x ^ i \in Nat /\ x ^ i > 0
         /\ x ^ (i + j) = x ^ i * x ^ j
         /\ x ^ i <= x ^ (i + j)
<1> DEFINE m == i + j
<1>1. m \in Nat /\ i \in 0 .. m /\ j \in 0 .. m /\ m \in 0 .. m
  OBVIOUS
<1>2. PowerLaws(x, m)
  BY <1>1 DEF Exponentiation, PowerLaws
<1>3. x ^ i \in Nat /\ x ^ i > 0
  BY <1>1, <1>2, PowersPositive
<1>4. x ^ (i + j) = x ^ i * x ^ j
  BY <1>1, <1>2, PowersTimes
<1>5. x ^ i <= x ^ m
  BY <1>1, <1>2, PowersOrder
<1> QED
  BY <1>3, <1>4, <1>5

LEMMA BinaryPower ==
  ASSUME Exponentiation, NEW i \in Nat, NEW j \in Nat
  PROVE  /\ 2 ^ i \in Nat /\ 2 ^ i > 0 /\ 2 ^ j \in Nat /\ 2 ^ j > 0 /\ 2 ^ (i + j) \in Nat
         /\ 2 ^ (i + j) = 2 ^ i * 2 ^ j
         /\ 2 ^ i <= 2 ^ (i + j)
         /\ 2 ^ 0 = 1 /\ 2 ^ (i + 1) = 2 * 2 ^ i
<1> DEFINE x == 2
<1>1. x \in Nat /\ x > 0
  OBVIOUS
<1> HIDE DEF x
<1>2. /\ x ^ i \in Nat /\ x ^ i > 0 /\ x ^ (i + j) = x ^ i * x ^ j /\ x ^ i <= x ^ (i + j)
      /\ x ^ j \in Nat /\ x ^ j > 0 /\ x ^ 0 = 1 /\ x ^ (i + 1) = x * x ^ i
  BY <1>1, PowerTimes DEF Exponentiation
<1>3. x ^ i * x ^ j \in Nat
  BY <1>2
<1> QED
  BY <1>2, <1>3 DEF x

\* What fewer bits hold, more bits hold too.
LEMMA MoreBits ==
  ASSUME Exponentiation, NEW v \in Nat, NEW i \in Nat, NEW k \in Nat, i <= k, v < 2 ^ i
  PROVE  v < 2 ^ k
<1> DEFINE j == k - i
<1>1. j \in Nat /\ i + j = k
  OBVIOUS
<1>2. 2 ^ i <= 2 ^ (i + j) /\ 2 ^ i \in Nat /\ 2 ^ (i + j) \in Nat
  BY <1>1, BinaryPower
<1> QED
  BY <1>1, <1>2

\* The bits of a product are those of its factors, of which one may be a power.
LEMMA BitsOfProduct ==
  ASSUME Exponentiation, NEW u \in Nat, NEW v \in Nat, NEW i \in Nat, NEW j \in Nat,
         u < 2 ^ i, v <= 2 ^ j
  PROVE  u * v \in Nat /\ u * v < 2 ^ (i + j)
<1> DEFINE x == 2 ^ i
           y == 2 ^ j
<1>1. x \in Nat /\ y \in Nat /\ y > 0 /\ 2 ^ (i + j) = x * y
  BY BinaryPower
<1> HIDE DEF x, y
<1>2. u + 1 <= x /\ v <= y
  BY <1>1 DEF x, y
<1>3. u * v <= u * y /\ (u + 1) * y <= x * y /\ (u + 1) * y = u * y + y
  BY <1>1, <1>2
<1>4. u * v \in Nat /\ u * y \in Nat /\ x * y \in Nat
  BY <1>1
<1> QED
  BY <1>1, <1>3, <1>4

LEMMA BitsWithin ==
  ASSUME Exponentiation, NEW u \in Nat, NEW v \in Nat, NEW i \in Nat, NEW j \in Nat, NEW k \in Nat,
         u < 2 ^ i, v <= 2 ^ j, i + j <= k
  PROVE  u * v \in Nat /\ u * v < 2 ^ k
<1> DEFINE w == u * v
           n == i + j
<1>1. w \in Nat /\ w < 2 ^ n
  BY BitsOfProduct
<1>2. n \in Nat /\ n <= k
  OBVIOUS
<1> HIDE DEF w, n
<1>3. w < 2 ^ k
  BY <1>1, <1>2, MoreBits
<1> QED
  BY <1>1, <1>3 DEF w

\* A set of exponents that holds 0 and every successor of a member holds all.
LEMMA AllExponents ==
  ASSUME NEW S, 0 \in S, \A k \in Nat : k \in S => k + 1 \in S
  PROVE  \A k \in Nat : k \in S
<1> DEFINE Bad == {k \in Nat : k \notin S}
<1> SUFFICES ASSUME Bad # {} PROVE FALSE
  OBVIOUS
<1>1. PICK x \in Bad : \A y \in Bad : x <= y
  <2>1. Bad \in SUBSET Nat
    OBVIOUS
  <2> QED
    BY <2>1, LeastNat
<1>2. x # 0 /\ x \in Nat
  OBVIOUS
<1>3. x - 1 \in Nat /\ x - 1 \notin Bad
  BY <1>1, <1>2
<1>4. x - 1 \in S
  BY <1>3
<1>5. (x - 1) + 1 \in S
  BY <1>3, <1>4
<1> QED
  BY <1>2, <1>5

\* A digit fits DigitBits, and so k digits fit k times as many.
LEMMA PowerLoose ==
  ASSUME MixedAssumption
  PROVE  \A k \in Nat : Base ^ k <= 2 ^ PowBitsLoose(k)
<1> DEFINE S == {k \in Nat : Base ^ k <= 2 ^ PowBitsLoose(k)}
<1>1. Exponentiation /\ Base \in Nat /\ Base > 0 /\ DigitBits \in Nat /\ Base <= 2 ^ DigitBits
  BY DEF MixedAssumption, RadixAssumption
<1>2. 0 \in S
  <2>1. PowBitsLoose(0) = 0
    BY <1>1 DEF PowBitsLoose
  <2>2. Base ^ 0 = 1 /\ 2 ^ 0 = 1
    BY <1>1, BinaryPower DEF Exponentiation
  <2>3. 2 ^ PowBitsLoose(0) = 1
    BY <2>1, <2>2
  <2> QED
    BY <2>2, <2>3
<1>3. ASSUME NEW k \in Nat, k \in S PROVE k + 1 \in S
  <2> DEFINE x == Base ^ k
             y == 2 ^ PowBitsLoose(k)
             z == 2 ^ DigitBits
             e == DigitBits * k
  <2>1. e \in Nat /\ DigitBits * (k + 1) = e + DigitBits /\ PowBitsLoose(k) = e
    BY <1>1 DEF PowBitsLoose
  <2>2. x \in Nat /\ Base ^ (k + 1) = Base * x
    BY <1>1, PowerTimes DEF Exponentiation
  <2>3. y \in Nat /\ z \in Nat /\ 2 ^ (e + DigitBits) = y * z
    <3>1. y = 2 ^ e
      BY <2>1
    <3> HIDE DEF e, y
    <3>2. 2 ^ e \in Nat /\ 2 ^ DigitBits \in Nat /\ 2 ^ (e + DigitBits) = 2 ^ e * 2 ^ DigitBits
      BY <1>1, <2>1, BinaryPower
    <3> QED
      BY <3>1, <3>2
  <2>4. 2 ^ PowBitsLoose(k + 1) = y * z
    BY <2>1, <2>3 DEF PowBitsLoose
  <2>5. x <= y /\ Base <= z
    BY <1>1, <1>3
  <2> HIDE DEF x, y, z
  <2>6. Base * x <= z * y /\ z * y = y * z
    <3>1. Base * x <= z * x
      BY <1>1, <2>2, <2>3, <2>5
    <3>2. z * x <= z * y
      BY <2>2, <2>3, <2>5
    <3>3. Base * x \in Int /\ z * x \in Int /\ z * y \in Int
      BY <1>1, <2>2, <2>3
    <3> QED
      BY <3>1, <3>2, <3>3, <2>3
  <2> QED
    BY <2>2, <2>4, <2>6
<1> HIDE DEF S
<1>4. \A k \in Nat : k \in S
  BY <1>2, <1>3, AllExponents
<1> QED
  BY <1>4 DEF S

\* Three digits fit CubeBits, and so the cube of k digits fits k times as many.
LEMMA PowerCubed ==
  ASSUME MixedAssumption
  PROVE  \A k \in Nat : Base ^ k * Base ^ k * Base ^ k <= 2 ^ (CubeBits * k)
<1> DEFINE S == {k \in Nat : Base ^ k * Base ^ k * Base ^ k <= 2 ^ (CubeBits * k)}
<1>1. Exponentiation /\ Base \in Nat /\ Base > 0 /\ CubeBits \in Nat /\ Base ^ 3 <= 2 ^ CubeBits
  BY DEF MixedAssumption, RadixAssumption
<1>2. Base ^ 3 = Base * Base * Base
  <2>1. Base ^ 0 = 1 /\ \A k \in Nat : Base ^ (k + 1) = Base * Base ^ k
    BY <1>1 DEF Exponentiation
  <2>2. Base ^ 1 = Base * Base ^ 0
    <3>1. 0 \in Nat /\ 0 + 1 = 1
      OBVIOUS
    <3> QED
      BY <2>1, <3>1
  <2>3. Base ^ 2 = Base * Base ^ 1
    <3>1. 1 \in Nat /\ 1 + 1 = 2
      OBVIOUS
    <3> QED
      BY <2>1, <3>1
  <2>4. Base ^ 3 = Base * Base ^ 2
    <3>1. 2 \in Nat /\ 2 + 1 = 3
      OBVIOUS
    <3> QED
      BY <2>1, <3>1
  <2>5. Base ^ 1 = Base
    BY <1>1, <2>1, <2>2
  <2>6. Base ^ 3 = Base * (Base * Base)
    BY <2>3, <2>4, <2>5
  <2> QED
    BY <1>1, <2>6
<1>3. 0 \in S
  <2>1. CubeBits * 0 = 0
    BY <1>1
  <2>2. Base ^ 0 = 1 /\ 2 ^ (CubeBits * 0) = 1
    BY <1>1, <2>1, BinaryPower DEF Exponentiation
  <2> QED
    BY <2>2
<1>4. ASSUME NEW k \in Nat, k \in S PROVE k + 1 \in S
  <2> DEFINE x == Base ^ k
             t == x * x * x
             cube == Base * Base * Base
             e == CubeBits * k
             y == 2 ^ e
             z == 2 ^ CubeBits
  <2>1. e \in Nat /\ CubeBits * (k + 1) = e + CubeBits
    BY <1>1
  <2>2. x \in Nat /\ Base ^ (k + 1) = Base * x
    BY <1>1, PowerTimes DEF Exponentiation
  <2>3. y \in Nat /\ z \in Nat /\ 2 ^ (CubeBits * (k + 1)) = y * z
    <3>1. 2 ^ (CubeBits * (k + 1)) = 2 ^ (e + CubeBits)
      BY <2>1
    <3> HIDE DEF e
    <3>2. y \in Nat /\ z \in Nat /\ 2 ^ (e + CubeBits) = y * z
      BY <1>1, <2>1, BinaryPower
    <3> QED
      BY <3>1, <3>2
  <2>4. t <= y /\ cube <= z
    BY <1>1, <1>2, <1>4
  <2> HIDE DEF x, y, z
  <2>5. t \in Nat /\ cube \in Nat /\ (Base * x) * (Base * x) * (Base * x) = cube * t
    BY <1>1, <2>2
  <2> HIDE DEF t, cube
  <2>6. cube * t <= z * y /\ z * y = y * z
    <3>1. cube * t <= z * t
      BY <2>3, <2>4, <2>5
    <3>2. z * t <= z * y
      BY <2>3, <2>4, <2>5
    <3>3. cube * t \in Int /\ z * t \in Int /\ z * y \in Int
      BY <2>3, <2>5
    <3> QED
      BY <3>1, <3>2, <3>3, <2>3
  <2>7. Base ^ (k + 1) * Base ^ (k + 1) * Base ^ (k + 1) = cube * t
    BY <2>2, <2>5
  <2> QED
    BY <2>3, <2>6, <2>7
<1> HIDE DEF S
<1>5. \A k \in Nat : k \in S
  BY <1>3, <1>4, AllExponents
<1> QED
  BY <1>5 DEF S

\* pow10_bits never under-estimates.
LEMMA PowerEstimated ==
  ASSUME MixedAssumption, NEW k \in Nat
  PROVE  /\ PowBits(k) \in Nat /\ PowBits(k) > 0
         /\ Base ^ k \in Nat /\ Base ^ k > 0 /\ Base ^ k < 2 ^ PowBits(k)
<1> DEFINE x == Base ^ k
           n == CubeBits * k
           f == n \div 3
           w == 2 ^ (f + 1)
<1>1. Exponentiation /\ Base \in Nat /\ Base > 0 /\ CubeBits \in Nat
  BY DEF MixedAssumption, RadixAssumption
<1>2. x \in Nat /\ x > 0 /\ x * x * x <= 2 ^ n
  BY <1>1, PowerTimes, PowerCubed
<1>3. n \in Nat
  BY <1>1
<1>4. k * CubeBits = n
  BY <1>1
<1> HIDE DEF n
<1>5. f \in Nat /\ n < 3 * (f + 1)
  BY <1>3
<1>6. PowBits(k) = f + 1
  BY <1>4 DEF PowBits
<1> HIDE DEF f
<1>7. w \in Nat /\ w > 0 /\ 2 ^ (3 * (f + 1)) = w * w * w
  <2> DEFINE g == f + 1
  <2>1. g \in Nat /\ g + g \in Nat /\ (g + g) + g = 3 * g
    BY <1>5
  <2> HIDE DEF g
  <2>2. 2 ^ g \in Nat /\ 2 ^ g > 0 /\ 2 ^ (g + g) = 2 ^ g * 2 ^ g
    BY <1>1, <2>1, BinaryPower
  <2>3. 2 ^ ((g + g) + g) = 2 ^ (g + g) * 2 ^ g
    BY <1>1, <2>1, BinaryPower
  <2>4. 2 ^ (3 * g) = 2 ^ g * 2 ^ g * 2 ^ g
    BY <2>1, <2>2, <2>3
  <2> QED
    BY <2>2, <2>4 DEF g
<1>8. 2 ^ n <= 2 ^ (3 * (f + 1)) /\ 2 ^ n < 2 ^ (3 * (f + 1)) /\ 2 ^ n \in Nat
  <2> DEFINE d == 3 * (f + 1) - n - 1
  <2>1. d \in Nat /\ (n + 1) + d = 3 * (f + 1) /\ n + 1 \in Nat
    BY <1>3, <1>5
  <2> HIDE DEF d
  <2>2. 2 ^ (n + 1) <= 2 ^ ((n + 1) + d) /\ 2 ^ ((n + 1) + d) \in Nat
    BY <1>1, <2>1, BinaryPower
  <2>3. 2 ^ (n + 1) = 2 * 2 ^ n /\ 2 ^ n \in Nat /\ 2 ^ n > 0
    BY <1>1, <1>3, BinaryPower
  <2> QED
    BY <2>1, <2>2, <2>3
<1> HIDE DEF x, w
<1>9. x < w
  <2> SUFFICES ASSUME w <= x PROVE FALSE
    BY <1>2, <1>7
  <2> DEFINE w2 == w * w
             x2 == x * x
  <2>1. w2 <= x2 /\ w2 \in Nat /\ x2 \in Nat
    <3>1. w * w <= w * x /\ w * x <= x * x
      BY <1>2, <1>7
    <3>2. w * w \in Nat /\ w * x \in Nat /\ x * x \in Nat
      BY <1>2, <1>7
    <3> QED
      BY <3>1, <3>2
  <2> HIDE DEF w2, x2
  <2>2. w2 * w <= w2 * x /\ w2 * x <= x2 * x
    BY <2>1, <1>2, <1>7
  <2>3. w2 * w \in Nat /\ w2 * x \in Nat /\ x2 * x \in Nat
    BY <2>1, <1>2, <1>7
  <2>4. w2 * w <= x2 * x
    BY <2>2, <2>3
  <2>5. x2 * x <= 2 ^ n /\ 2 ^ n < w2 * w
    BY <1>2, <1>7, <1>8 DEF w2, x2
  <2> QED
    BY <2>3, <2>4, <2>5, <1>8
<1> QED
  BY <1>1, <1>2, <1>5, <1>6, <1>9 DEF x, w

LEMMA EstimateMonotone ==
  ASSUME MixedAssumption, NEW i \in Nat, NEW j \in Nat, i <= j
  PROVE  /\ PowBits(i) <= PowBits(j) /\ PowBits(i) \in Nat /\ PowBits(j) \in Nat
         /\ \A k \in Nat : PowBits(i) + PowBits(k) <= PowBits(i + k) + 1
<1>1. CubeBits \in Nat
  BY DEF MixedAssumption, RadixAssumption
<1>2. i * CubeBits \in Nat /\ j * CubeBits \in Nat /\ i * CubeBits <= j * CubeBits
  BY <1>1
<1>3. \A k \in Nat : k * CubeBits \in Nat /\ (i + k) * CubeBits = i * CubeBits + k * CubeBits
  BY <1>1
<1> DEFINE x == i * CubeBits
           y == j * CubeBits
<1>4. PowBits(i) = x \div 3 + 1 /\ PowBits(j) = y \div 3 + 1
  BY DEF PowBits
<1>5. ASSUME NEW k \in Nat PROVE PowBits(i) + PowBits(k) <= PowBits(i + k) + 1
  <2> DEFINE z == k * CubeBits
  <2>1. PowBits(k) = z \div 3 + 1 /\ z \in Nat /\ (i + k) * CubeBits = x + z
    BY <1>3 DEF PowBits
  <2>2. PowBits(i + k) = (x + z) \div 3 + 1
    BY <2>1 DEF PowBits
  <2>3. x \in Nat
    BY <1>2
  <2> HIDE DEF x, z
  <2>4. x \div 3 + z \div 3 <= (x + z) \div 3
    BY <2>1, <2>3
  <2> QED
    BY <1>4, <2>1, <2>2, <2>3, <2>4
<1>6. x \in Nat /\ y \in Nat /\ x <= y
  BY <1>2
<1> HIDE DEF x, y
<1>7. x \div 3 <= y \div 3 /\ x \div 3 \in Nat /\ y \div 3 \in Nat
  BY <1>6
<1> QED
  BY <1>4, <1>5, <1>7

\* A power of the scale is a power of the radix with no negative exponent.
LEMMA ScalePower ==
  ASSUME MixedAssumption, NEW k \in Int, NEW e \in Nat, e = IF k > 0 THEN k ELSE 0
  PROVE  /\ Power(k) = Base ^ e /\ Power(k) \in Nat /\ Power(k) > 0
         /\ Power(k) < 2 ^ PowBits(e) /\ Power(k) <= 2 ^ PowBits(e)
         /\ PowBits(e) \in Nat
         /\ Power(k) <= 2 ^ PowBitsLoose(e)
<1>1. Power(k) = Base ^ e
  <2>1. Base ^ 0 = 1
    BY DEF MixedAssumption, Exponentiation, RadixAssumption
  <2> QED
    BY <2>1 DEF Power, EM!Power
<1>2. Exponentiation
  BY DEF MixedAssumption
<1>3. 2 ^ PowBits(e) \in Nat
  BY <1>2, PowerEstimated, BinaryPower
<1> QED
  BY <1>1, <1>3, PowerEstimated, PowerLoose

LEMMA MagnitudeProduct ==
  ASSUME NEW x \in Int, NEW y \in Int
  PROVE  /\ Magnitude(x * y) = Magnitude(x) * Magnitude(y)
         /\ Magnitude(x) \in Nat /\ Magnitude(x) = RM!Magnitude(x)
         /\ x >= 0 => Magnitude(x) = x
         /\ Magnitude(x + y) <= Magnitude(x) + Magnitude(y)
         /\ Magnitude(x - y) <= Magnitude(x) + Magnitude(y)
         /\ Magnitude(-x) = Magnitude(x)
         /\ Magnitude(x + y) \in Nat /\ Magnitude(x - y) \in Nat
<1>1. Magnitude(x * y) = Magnitude(x) * Magnitude(y)
  <2>1. CASE x >= 0 /\ y >= 0
    <3>1. x * y >= 0
      BY <2>1
    <3> QED
      BY <3>1, <2>1 DEF Magnitude
  <2>2. CASE x < 0 /\ y < 0
    <3>1. x * y > 0 /\ (-x) * (-y) = x * y
      BY <2>2
    <3> QED
      BY <3>1, <2>2 DEF Magnitude
  <2>3. CASE x >= 0 /\ y < 0
    <3>1. x * y <= 0 /\ x * (-y) = -(x * y) /\ x * y \in Int
      BY <2>3
    <3> QED
      BY <3>1, <2>3 DEF Magnitude
  <2>4. CASE x < 0 /\ y >= 0
    <3>1. x * y <= 0 /\ (-x) * y = -(x * y) /\ x * y \in Int
      BY <2>4
    <3> QED
      BY <3>1, <2>4 DEF Magnitude
  <2> QED
    BY <2>1, <2>2, <2>3, <2>4
<1> QED
  BY <1>1 DEF Magnitude, RM!Magnitude

LEMMA LimbSizes ==
  ASSUME MixedAssumption
  PROVE  /\ Limb \in Nat /\ Limb > 0 /\ Pair = 2 * Limb /\ Quad = 4 * Limb
         /\ Exponentiation
BY DEF MixedAssumption, LimbAssumption, Pair, Quad

\* The bits counted of an operand hold it.
LEMMA OperandBits ==
  ASSUME MixedAssumption, NEW x \in Operands
  PROVE  /\ x.raw \in Int /\ x.bits \in 1 .. Quad /\ x.decimals \in Nat
         /\ -(2 ^ (x.bits - 1)) <= x.raw /\ x.raw < 2 ^ (x.bits - 1)
         /\ 2 ^ (x.bits - 1) \in Nat /\ 2 ^ (x.bits - 1) > 0
         /\ Magnitude(x.raw) \in Nat /\ Magnitude(x.raw) <= 2 ^ (x.bits - 1)
         /\ MagBits(x.raw) \in 0 .. Quad /\ Magnitude(x.raw) < 2 ^ MagBits(x.raw)
<1> DEFINE m == Magnitude(x.raw)
           S == {k \in 0 .. Quad : m < 2 ^ k}
           half == 2 ^ (x.bits - 1)
<1>1. Limb \in Nat /\ Quad = 4 * Limb /\ Exponentiation
  BY LimbSizes
<1>2. x.bits \in 1 .. Quad /\ x.decimals \in Nat /\ InBits(x.raw, x.bits)
  BY DEF MixedAssumption, RawAssumption
<1>3. half \in Nat /\ half > 0
  <2>1. x.bits - 1 \in Nat
    BY <1>1, <1>2
  <2> QED
    BY <1>1, <2>1, BinaryPower
<1>4. x.raw \in Int /\ -half <= x.raw /\ x.raw < half
  BY <1>2, <1>3 DEF InBits
<1> HIDE DEF half
<1>5. m \in Nat /\ m <= half
  BY <1>3, <1>4 DEF Magnitude
<1>6. Quad \in S
  <2>1. x.bits - 1 \in Nat /\ (x.bits - 1) + 1 = x.bits
    BY <1>1, <1>2
  <2>2. 2 ^ x.bits = 2 * half
    BY <1>1, <2>1, BinaryPower DEF half
  <2>3. m < 2 ^ x.bits
    BY <1>3, <1>5, <2>2
  <2>4. m < 2 ^ Quad
    BY <1>1, <1>2, <1>5, <2>3, MoreBits
  <2> QED
    BY <1>1, <2>4
<1>7. PICK k \in S : \A j \in S : k <= j
  <2>1. S \in SUBSET Nat
    BY <1>1
  <2> HIDE DEF S
  <2> QED
    BY <2>1, <1>6, LeastNat
<1>8. Min(S) \in S
  <2> HIDE DEF S
  <2> QED
    BY <1>7 DEF Min
<1>9. MagBits(x.raw) = Min(S)
  BY <1>4, MagnitudeProduct DEF MagBits, BitWidth
<1> HIDE DEF m
<1>10. Min(S) \in 0 .. Quad /\ m < 2 ^ Min(S)
  BY <1>8
<1> QED
  BY <1>2, <1>3, <1>4, <1>5, <1>9, <1>10 DEF m, half

\* The tier holds the bits it was picked for.
LEMMA TierHoldsBits ==
  ASSUME MixedAssumption, NEW n \in Nat, n <= 16 * Limb
  PROVE  TierFor(n) * Limb \in Nat /\ n <= TierFor(n) * Limb
BY LimbSizes DEF TierFor

\* A call names operands and a destination of the model, and nothing has been
\* computed for it yet.
MixedCalled ==
  /\ op \in EM!Ops /\ mixedRequest.a \in Operands
  /\ op # "cast" => mixedRequest.b \in Operands
  /\ op = "mul_div" => mixedRequest.c \in Operands
  /\ op # "compare" => mixedRequest.dest \in Targets

Aligning == op \in {"add", "sub", "compare"}

\* What a call's fields are.
LEMMA CallFields ==
  ASSUME MixedAssumption, MixedCalled
  PROVE  /\ a_raw \in Int /\ Da \in Nat
         /\ MagBits(a_raw) \in 0 .. Quad /\ Magnitude(a_raw) < 2 ^ MagBits(a_raw)
         /\ op # "cast" =>
              /\ b_raw \in Int /\ Db \in Nat
              /\ MagBits(b_raw) \in 0 .. Quad /\ Magnitude(b_raw) < 2 ^ MagBits(b_raw)
         /\ op = "mul_div" =>
              /\ c_raw \in Int /\ mixedRequest.c.decimals \in Nat
              /\ MagBits(c_raw) \in 0 .. Quad /\ Magnitude(c_raw) < 2 ^ MagBits(c_raw)
         /\ op # "compare" => Dd \in Nat /\ Bd \in 1 .. Quad
         /\ Gap \in Int
         /\ op \in {"cast", "add", "sub", "mul", "div", "mul_div", "compare"}
<1>1. \A x \in Operands :
        /\ x.raw \in Int /\ x.decimals \in Nat
        /\ MagBits(x.raw) \in 0 .. Quad /\ Magnitude(x.raw) < 2 ^ MagBits(x.raw)
  BY OperandBits
<1>2. \A d \in Targets : d.decimals \in Nat /\ d.bits \in 1 .. Quad
  BY DEF MixedAssumption, RawAssumption
<1>3. op \in {"cast", "add", "sub", "mul", "div", "mul_div", "compare"}
  BY DEF MixedCalled, EM!Ops
<1>4. a_raw \in Int /\ Da \in Nat
      /\ MagBits(a_raw) \in 0 .. Quad /\ Magnitude(a_raw) < 2 ^ MagBits(a_raw)
  BY <1>1 DEF MixedCalled, a_raw, Da
<1>5. op # "cast" =>
        /\ b_raw \in Int /\ Db \in Nat
        /\ MagBits(b_raw) \in 0 .. Quad /\ Magnitude(b_raw) < 2 ^ MagBits(b_raw)
  BY <1>1 DEF MixedCalled, b_raw, Db
<1>6. op = "mul_div" =>
        /\ c_raw \in Int /\ mixedRequest.c.decimals \in Nat
        /\ MagBits(c_raw) \in 0 .. Quad /\ Magnitude(c_raw) < 2 ^ MagBits(c_raw)
  BY <1>1 DEF MixedCalled, c_raw
<1>7. op # "compare" => Dd \in Nat /\ Bd \in 1 .. Quad
  BY <1>2 DEF MixedCalled, Dd, Bd
<1>8. Gap \in Int
  BY <1>3, <1>4, <1>5, <1>6, <1>7 DEF Gap, sum_scale, MaxOf
<1> QED
  BY <1>3, <1>4, <1>5, <1>6, <1>7, <1>8

\* Aligned sides fit the bits counted for them.
LEMMA AlignedFits ==
  ASSUME MixedAssumption, MixedCalled, Aligning
  PROVE  LET u == Db - common_scale
             v == Da - common_scale
             p == IF Da < Db THEN Db ELSE Da
         IN /\ u \in Nat /\ v \in Nat /\ u <= Db /\ v <= Da
            /\ sum_scale - Da = u /\ sum_scale - Db = v
            /\ AlignedBits \in Nat /\ AlignedBits <= Quad + PowBits(p)
            /\ Power(u) \in Nat /\ Power(v) \in Nat
            /\ Power(u) < 2 ^ AlignedBits /\ Power(v) < 2 ^ AlignedBits
            /\ Magnitude(a_raw) * Power(u) \in Nat
            /\ Magnitude(b_raw) * Power(v) \in Nat
            /\ Magnitude(a_raw) * Power(u) < 2 ^ AlignedBits
            /\ Magnitude(b_raw) * Power(v) < 2 ^ AlignedBits
<1> DEFINE u == Db - common_scale
           v == Da - common_scale
           p == IF Da < Db THEN Db ELSE Da
           i == MagBits(a_raw)
           j == MagBits(b_raw)
           eu == PowBits(u)
           ev == PowBits(v)
           n == AlignedBits
<1>1. /\ a_raw \in Int /\ Da \in Nat /\ i \in 0 .. Quad /\ Magnitude(a_raw) < 2 ^ i
      /\ b_raw \in Int /\ Db \in Nat /\ j \in 0 .. Quad /\ Magnitude(b_raw) < 2 ^ j
  BY CallFields DEF Aligning
<1>2. /\ u \in Nat /\ v \in Nat /\ u <= Db /\ v <= Da
      /\ sum_scale - Da = u /\ sum_scale - Db = v
      /\ p \in Nat /\ u <= p /\ v <= p
  BY <1>1 DEF common_scale, sum_scale, MaxOf
<1>3. Quad \in Nat /\ Exponentiation
  BY LimbSizes
<1>4. n = IF i + eu < j + ev THEN j + ev ELSE i + eu
  BY DEF AlignedBits, MaxOf
<1>5. /\ Power(u) \in Nat /\ Power(u) < 2 ^ eu /\ Power(u) <= 2 ^ eu
      /\ Power(v) \in Nat /\ Power(v) < 2 ^ ev /\ Power(v) <= 2 ^ ev
  <2>1. u \in Int /\ u = (IF u > 0 THEN u ELSE 0) /\ v \in Int /\ v = (IF v > 0 THEN v ELSE 0)
    BY <1>2
  <2> HIDE DEF u, v
  <2> QED
    BY <1>2, <2>1, ScalePower
<1>6. eu \in Nat /\ ev \in Nat /\ eu <= PowBits(p) /\ ev <= PowBits(p)
      /\ PowBits(p) \in Nat
  BY <1>2, EstimateMonotone
<1>7. Magnitude(a_raw) \in Nat /\ Magnitude(b_raw) \in Nat
  BY <1>1, MagnitudeProduct
<1> HIDE DEF u, v, p, i, j, eu, ev, n
<1>8. n \in Nat /\ n <= Quad + PowBits(p) /\ i + eu <= n /\ j + ev <= n /\ eu <= n /\ ev <= n
  BY <1>1, <1>3, <1>4, <1>6
<1>9. Power(u) < 2 ^ n /\ Power(v) < 2 ^ n
  BY <1>3, <1>5, <1>6, <1>8, MoreBits
<1>11. Magnitude(a_raw) * Power(u) \in Nat /\ Magnitude(a_raw) * Power(u) < 2 ^ n
  <2>1. i \in Nat /\ i + eu <= n
    BY <1>1, <1>8
  <2> QED
    BY <2>1, <1>1, <1>3, <1>5, <1>6, <1>7, <1>8, BitsWithin
<1>12. Magnitude(b_raw) * Power(v) \in Nat /\ Magnitude(b_raw) * Power(v) < 2 ^ n
  <2>1. j \in Nat /\ j + ev <= n
    BY <1>1, <1>8
  <2> QED
    BY <2>1, <1>1, <1>3, <1>5, <1>6, <1>7, <1>8, BitsWithin
<1> QED
  BY <1>2, <1>5, <1>8, <1>9, <1>11, <1>12 DEF u, v, p, n

\* No estimate asks for more than the last tier has.
LEMMA EstimatesFitTiers ==
  ASSUME MixedAssumption, NEW x \in Operands \union Targets, NEW y \in Operands \union Targets,
         NEW e \in Nat, e <= x.decimals + y.decimals
  PROVE  2 * Quad + PowBits(e) <= 16 * Limb /\ x.decimals + y.decimals \in Nat
<1>1. x.decimals \in Nat /\ y.decimals \in Nat
  BY DEF MixedAssumption, RawAssumption
<1>2. 2 * Quad + PowBits(x.decimals + y.decimals) <= 16 * Limb
  BY DEF MixedAssumption, TierAssumption
<1> DEFINE s == x.decimals + y.decimals
<1>3. s \in Nat
  BY <1>1
<1> HIDE DEF s
<1>4. PowBits(e) <= PowBits(s) /\ PowBits(e) \in Nat /\ PowBits(s) \in Nat
  BY <1>3, EstimateMonotone DEF s
<1> QED
  BY <1>2, <1>3, <1>4, LimbSizes DEF s

\* The bits counted of what is to be rescaled.
CombinedBits ==
  CASE op \in {"cast", "div"} -> MagBits(a_raw)
    [] op \in {"add", "sub"} -> AlignedBits + 1
    [] op \in {"mul", "mul_div"} -> MagBits(a_raw) + MagBits(b_raw)

\* What an operation combines fits its bits, as do the sides of a sum.
LEMMA CombinedFits ==
  ASSUME MixedAssumption, MixedCalled, op # "compare"
  PROVE  /\ Combined \in Int /\ CombinedBits \in Nat
         /\ Magnitude(Combined) < 2 ^ CombinedBits
         /\ op \in {"add", "sub"} =>
              /\ Lhs \in Int /\ Rhs \in Int
              /\ Magnitude(Lhs) < 2 ^ CombinedBits /\ Magnitude(Rhs) < 2 ^ CombinedBits
<1>1. Exponentiation /\ Quad \in Nat
  BY LimbSizes
<1>2. /\ a_raw \in Int /\ MagBits(a_raw) \in Nat /\ Magnitude(a_raw) < 2 ^ MagBits(a_raw)
      /\ op # "cast" =>
           b_raw \in Int /\ MagBits(b_raw) \in Nat /\ Magnitude(b_raw) < 2 ^ MagBits(b_raw)
      /\ op \in {"cast", "add", "sub", "mul", "div", "mul_div", "compare"}
  BY CallFields
<1>3. CASE op \in {"cast", "div"}
  <2>1. Combined = a_raw /\ CombinedBits = MagBits(a_raw)
    BY <1>3 DEF Combined, CombinedBits
  <2> QED
    BY <1>2, <1>3, <2>1
<1>4. CASE op \in {"mul", "mul_div"}
  <2> DEFINE i == MagBits(a_raw)
             j == MagBits(b_raw)
  <2>1. Combined = a_raw * b_raw /\ CombinedBits = i + j
    BY <1>4 DEF Combined, CombinedBits
  <2>2. /\ a_raw \in Int /\ i \in Nat /\ Magnitude(a_raw) < 2 ^ i
        /\ b_raw \in Int /\ j \in Nat /\ Magnitude(b_raw) < 2 ^ j
    BY <1>2, <1>4
  <2> HIDE DEF i, j
  <2>3. 2 ^ j \in Nat
    BY <1>1, <2>2, BinaryPower
  <2>7. Magnitude(b_raw) \in Nat
    BY <2>2, MagnitudeProduct
  <2>8. Magnitude(b_raw) <= 2 ^ j /\ Magnitude(b_raw) \in Nat
    BY <2>2, <2>3, <2>7
  <2>4. /\ Magnitude(a_raw * b_raw) = Magnitude(a_raw) * Magnitude(b_raw)
        /\ Magnitude(a_raw) \in Nat /\ Magnitude(b_raw) \in Nat
    BY <2>2, MagnitudeProduct
  <2>5. Magnitude(a_raw) * Magnitude(b_raw) < 2 ^ (i + j)
    BY <1>1, <2>2, <2>4, <2>8, BitsOfProduct
  <2>6. a_raw * b_raw \in Int
    BY <2>2
  <2> QED
    BY <1>4, <2>1, <2>2, <2>4, <2>5, <2>6
<1>5. CASE op \in {"add", "sub"}
  <2> DEFINE n == AlignedBits
             u == Db - common_scale
             v == Da - common_scale
  <2>1. /\ n \in Nat /\ sum_scale - Da = u /\ sum_scale - Db = v
        /\ Power(u) \in Nat /\ Power(v) \in Nat
        /\ Magnitude(a_raw) * Power(u) < 2 ^ n /\ Magnitude(b_raw) * Power(v) < 2 ^ n
    BY <1>5, AlignedFits DEF Aligning
  <2>2. Lhs = a_raw * Power(u) /\ Rhs = b_raw * Power(v)
    BY <2>1 DEF Lhs, Rhs
  <2>3. a_raw \in Int /\ b_raw \in Int
    BY <1>2, <1>5
  <2> HIDE DEF u, v, n
  <2>4. /\ Magnitude(Lhs) < 2 ^ n /\ Magnitude(Rhs) < 2 ^ n
        /\ Magnitude(Lhs) \in Nat /\ Magnitude(Rhs) \in Nat
        /\ Lhs \in Int /\ Rhs \in Int
    <3>1. /\ Magnitude(a_raw * Power(u)) = Magnitude(a_raw) * Magnitude(Power(u))
          /\ Magnitude(Power(u)) = Power(u)
          /\ a_raw * Power(u) \in Int
      <4>1. a_raw \in Int /\ Power(u) \in Int /\ Power(u) >= 0
        BY <2>1, <2>3
      <4>2. a_raw * Power(u) \in Int
        BY <4>1
      <4>3. Magnitude(a_raw * Power(u)) = Magnitude(a_raw) * Magnitude(Power(u))
        BY <4>1, MagnitudeProduct
      <4>4. Magnitude(Power(u)) = Power(u)
        BY <4>1, MagnitudeProduct
      <4> QED
        BY <4>2, <4>3, <4>4
    <3>2. /\ Magnitude(b_raw * Power(v)) = Magnitude(b_raw) * Magnitude(Power(v))
          /\ Magnitude(Power(v)) = Power(v)
          /\ b_raw * Power(v) \in Int
      <4>1. b_raw \in Int /\ Power(v) \in Int /\ Power(v) >= 0
        BY <2>1, <2>3
      <4>2. b_raw * Power(v) \in Int
        BY <4>1
      <4>3. Magnitude(b_raw * Power(v)) = Magnitude(b_raw) * Magnitude(Power(v))
        BY <4>1, MagnitudeProduct
      <4>4. Magnitude(Power(v)) = Power(v)
        BY <4>1, MagnitudeProduct
      <4> QED
        BY <4>2, <4>3, <4>4
    <3>3. Magnitude(Lhs) < 2 ^ n /\ Lhs \in Int
      BY <2>1, <2>2, <3>1
    <3>4. Magnitude(Rhs) < 2 ^ n /\ Rhs \in Int
      BY <2>1, <2>2, <3>2
    <3> QED
      BY <3>3, <3>4, MagnitudeProduct
  <2>5. 2 ^ n \in Nat /\ 2 ^ (n + 1) = 2 * 2 ^ n
    BY <1>1, <2>1, BinaryPower
  <2>6. Combined = Lhs + Rhs \/ Combined = Lhs - Rhs
    BY <1>5 DEF Combined
  <2>7. CombinedBits = n + 1
    BY <1>5 DEF CombinedBits, n
  <2>8. /\ Magnitude(Combined) <= Magnitude(Lhs) + Magnitude(Rhs)
        /\ Magnitude(Combined) \in Nat /\ Combined \in Int
    <3> DEFINE x == Lhs
               y == Rhs
    <3>1. x \in Int /\ y \in Int
      BY <2>4
    <3>2. Combined = x + y \/ Combined = x - y
      BY <2>6
    <3> HIDE DEF x, y
    <3>3. /\ Magnitude(x + y) <= Magnitude(x) + Magnitude(y) /\ Magnitude(x + y) \in Nat
          /\ Magnitude(x - y) <= Magnitude(x) + Magnitude(y) /\ Magnitude(x - y) \in Nat
      BY <3>1, MagnitudeProduct
    <3>4. Combined \in Int
      BY <3>1, <3>2
    <3>5. Magnitude(Combined) <= Magnitude(x) + Magnitude(y) /\ Magnitude(Combined) \in Nat
      BY <3>2, <3>3
    <3> QED
      BY <3>4, <3>5 DEF x, y
  <2> QED
    BY <2>1, <2>4, <2>5, <2>7, <2>8
<1> QED
  BY <1>2, <1>3, <1>4, <1>5

\* The numerator, and what it is made of, fit the bits counted for it, and
\* these the last tier.
LEMMA NumeratorFits ==
  ASSUME MixedAssumption, MixedCalled, op # "compare"
  PROVE  LET n == NumeratorBits
         IN /\ n \in Nat /\ n <= 16 * Limb
            /\ Numerator \in Int /\ Magnitude(Numerator) < 2 ^ n
            /\ Magnitude(Combined) < 2 ^ n
            /\ Power(Up) < 2 ^ n /\ Power(Up) \in Nat
            /\ op \in {"add", "sub"} =>
                 Magnitude(Lhs) < 2 ^ n /\ Magnitude(Rhs) < 2 ^ n
<1> DEFINE n == NumeratorBits
           i == CombinedBits
           e == PowBits(Up)
<1>1. Exponentiation /\ Quad \in Nat /\ Quad = 4 * Limb /\ Limb > 0 /\ Limb \in Nat
  BY LimbSizes
<1>2. /\ Gap \in Int
      /\ op \in {"cast", "add", "sub", "mul", "div", "mul_div", "compare"}
      /\ MagBits(a_raw) \in 0 .. Quad /\ Dd \in Nat /\ Da \in Nat
      /\ op # "cast" => MagBits(b_raw) \in 0 .. Quad /\ Db \in Nat
      /\ op = "mul_div" => mixedRequest.c.decimals \in Nat
  BY CallFields
<1>3. /\ Up \in Nat
      /\ Power(Gap) = Power(Up) /\ Power(Gap) \in Nat
      /\ Power(Gap) < 2 ^ e /\ Power(Gap) <= 2 ^ e /\ e \in Nat
  <2>1. Up = (IF Gap > 0 THEN Gap ELSE 0) /\ Up \in Nat /\ Up \in Int
        /\ Up = (IF Up > 0 THEN Up ELSE 0)
    BY <1>2 DEF Up
  <2>2. /\ Power(Gap) = Base ^ Up /\ Power(Gap) \in Nat
        /\ Power(Gap) < 2 ^ e /\ Power(Gap) <= 2 ^ e /\ e \in Nat
    BY <1>2, <2>1, ScalePower
  <2>3. Power(Up) = Base ^ Up
    BY <2>1, ScalePower
  <2> QED
    BY <2>1, <2>2, <2>3
<1>4. n = i + e
  BY <1>2 DEF NumeratorBits, CombinedBits
<1>5. /\ Combined \in Int /\ i \in Nat /\ Magnitude(Combined) < 2 ^ i
      /\ op \in {"add", "sub"} =>
           /\ Lhs \in Int /\ Rhs \in Int
           /\ Magnitude(Lhs) < 2 ^ i /\ Magnitude(Rhs) < 2 ^ i
  BY CombinedFits
<1>6. n <= 16 * Limb
  <2>1. CASE op = "cast"
    <3>1. Up <= mixedRequest.dest.decimals + mixedRequest.a.decimals
      BY <1>2, <2>1 DEF Up, Gap, Dd, Da
    <3>2. mixedRequest.dest \in Operands \union Targets /\ mixedRequest.a \in Operands \union Targets
      BY <2>1 DEF MixedCalled
    <3>3. 2 * Quad + e <= 16 * Limb
      BY <1>3, <3>1, <3>2, EstimatesFitTiers
    <3>4. i <= Quad
      BY <1>1, <1>2, <2>1 DEF CombinedBits
    <3> HIDE DEF i, e, n
    <3> QED
      BY <1>1, <1>3, <1>4, <1>5, <3>3, <3>4
  <2>2. CASE op = "div"
    <3>1. Up <= mixedRequest.dest.decimals + mixedRequest.b.decimals
      BY <1>2, <2>2 DEF Up, Gap, Dd, Da, Db
    <3>2. mixedRequest.dest \in Operands \union Targets /\ mixedRequest.b \in Operands \union Targets
      BY <2>2 DEF MixedCalled
    <3>3. 2 * Quad + e <= 16 * Limb
      BY <1>3, <3>1, <3>2, EstimatesFitTiers
    <3>4. i <= Quad
      BY <1>1, <1>2, <2>2 DEF CombinedBits
    <3> HIDE DEF i, e, n
    <3> QED
      BY <1>1, <1>3, <1>4, <1>5, <3>3, <3>4
  <2>3. CASE op = "mul"
    <3>1. Up <= mixedRequest.dest.decimals + mixedRequest.a.decimals
      BY <1>2, <2>3 DEF Up, Gap, Dd, Da, Db
    <3>2. mixedRequest.dest \in Operands \union Targets /\ mixedRequest.a \in Operands \union Targets
      BY <2>3 DEF MixedCalled
    <3>3. 2 * Quad + e <= 16 * Limb
      BY <1>3, <3>1, <3>2, EstimatesFitTiers
    <3>4. i <= 2 * Quad
      BY <1>1, <1>2, <2>3 DEF CombinedBits
    <3> HIDE DEF i, e, n
    <3> QED
      BY <1>1, <1>3, <1>4, <1>5, <3>3, <3>4
  <2>4. CASE op = "mul_div"
    <3>1. Up <= mixedRequest.dest.decimals + mixedRequest.c.decimals
      BY <1>2, <2>4 DEF Up, Gap, Dd, Da, Db
    <3>2. mixedRequest.dest \in Operands \union Targets /\ mixedRequest.c \in Operands \union Targets
      BY <2>4 DEF MixedCalled
    <3>3. 2 * Quad + e <= 16 * Limb
      BY <1>3, <3>1, <3>2, EstimatesFitTiers
    <3>4. i <= 2 * Quad
      BY <1>1, <1>2, <2>4 DEF CombinedBits
    <3> HIDE DEF i, e, n
    <3> QED
      BY <1>1, <1>3, <1>4, <1>5, <3>3, <3>4
  <2>5. CASE op \in {"add", "sub"}
    <3> DEFINE p == IF Da < Db THEN Db ELSE Da
               x == IF Da < Db THEN mixedRequest.b ELSE mixedRequest.a
    <3>1. p \in Nat /\ x.decimals = p
      BY <1>2, <2>5 DEF Da, Db
    <3>2. mixedRequest.dest \in Operands \union Targets /\ x \in Operands \union Targets
      BY <2>5 DEF MixedCalled
    <3>3. Up <= Dd /\ mixedRequest.dest.decimals = Dd
      <4>1. Gap = Dd - p
        BY <2>5 DEF Gap, sum_scale, MaxOf
      <4> QED
        BY <1>2, <3>1, <4>1 DEF Up, Dd
    <3>4. i = AlignedBits + 1 /\ AlignedBits \in Nat /\ AlignedBits <= Quad + PowBits(p)
      BY <2>5, AlignedFits DEF CombinedBits, Aligning
    <3> HIDE DEF p, x
    <3>8. p + Up \in Nat /\ p <= p
      BY <1>3, <3>1
    <3>5. PowBits(p) + e <= PowBits(p + Up) + 1
      BY <1>3, <3>1, <3>8, EstimateMonotone DEF e
    <3>6. 2 * Quad + PowBits(p + Up) <= 16 * Limb
      <4>1. p + Up \in Nat /\ p + Up <= x.decimals + mixedRequest.dest.decimals
        BY <1>2, <1>3, <3>1, <3>3
      <4> HIDE DEF Up
      <4> QED
        BY <3>2, <4>1, EstimatesFitTiers
    <3>7. PowBits(p) \in Nat /\ PowBits(p + Up) \in Nat
      BY <3>1, <3>8, PowerEstimated
    <3> HIDE DEF i, e, n
    <3> QED
      BY <1>1, <1>3, <1>4, <1>5, <3>4, <3>5, <3>6, <3>7
  <2> QED
    BY <1>2, <2>1, <2>2, <2>3, <2>4, <2>5
<1> HIDE DEF i, e, n
<1>7. n \in Nat /\ i <= n /\ e <= n
  BY <1>3, <1>4, <1>5
<1>8. Magnitude(Combined) \in Nat /\ Magnitude(Combined) < 2 ^ n
  <2>1. Magnitude(Combined) \in Nat
    BY <1>5, MagnitudeProduct
  <2> QED
    BY <2>1, <1>1, <1>5, <1>7, MoreBits
<1>9. Power(Up) < 2 ^ n
  BY <1>1, <1>3, <1>7, MoreBits
<1>10. op \in {"add", "sub"} => Magnitude(Lhs) < 2 ^ n /\ Magnitude(Rhs) < 2 ^ n
  <2> SUFFICES ASSUME op \in {"add", "sub"}
               PROVE  Magnitude(Lhs) < 2 ^ n /\ Magnitude(Rhs) < 2 ^ n
    OBVIOUS
  <2>1. Magnitude(Lhs) \in Nat /\ Magnitude(Rhs) \in Nat
    BY <1>5, MagnitudeProduct
  <2> QED
    BY <2>1, <1>1, <1>5, <1>7, MoreBits
<1>11. Numerator \in Int /\ Magnitude(Numerator) < 2 ^ n
  <2>1. Numerator = Combined * Power(Gap)
    BY DEF Numerator
  <2>2. /\ Magnitude(Combined * Power(Gap)) = Magnitude(Combined) * Power(Gap)
        /\ Combined * Power(Gap) \in Int
    <3>1. Combined \in Int /\ Power(Gap) \in Int /\ Power(Gap) >= 0
      BY <1>3, <1>5
    <3>2. Combined * Power(Gap) \in Int
      BY <3>1
    <3>3. /\ Magnitude(Combined * Power(Gap)) = Magnitude(Combined) * Magnitude(Power(Gap))
          /\ Magnitude(Power(Gap)) = Power(Gap)
      BY <3>1, MagnitudeProduct
    <3> QED
      BY <3>2, <3>3
  <2>3. Magnitude(Combined) * Power(Gap) < 2 ^ n
    <3> DEFINE x == Magnitude(Combined)
               y == Power(Gap)
    <3>1. x \in Nat /\ y \in Nat /\ i \in Nat /\ e \in Nat /\ n \in Nat
      BY <1>3, <1>5, <1>7, <1>8
    <3>2. x < 2 ^ i /\ y <= 2 ^ e /\ i + e <= n
      BY <1>3, <1>4, <1>5, <3>1 DEF e
    <3> HIDE DEF x, y
    <3>3. x * y < 2 ^ n
      BY <1>1, <3>1, <3>2, BitsWithin
    <3> QED
      BY <3>3 DEF x, y
  <2> QED
    BY <2>1, <2>2, <2>3
<1> QED
  BY <1>3, <1>6, <1>7, <1>8, <1>9, <1>10, <1>11 DEF n

\* The denominator fits its bits, and these the last tier.
LEMMA DenominatorFits ==
  ASSUME MixedAssumption, MixedCalled, op # "compare"
  PROVE  LET n == DenominatorBits
         IN /\ n \in Nat /\ n <= 16 * Limb
            /\ Denominator \in Int /\ Magnitude(Denominator) < 2 ^ n
<1> DEFINE n == DenominatorBits
           k == -Gap
           w == Power(k)
           e == PowBits(Down)
           d == Divisor
           y == IF op = "cast" THEN mixedRequest.a ELSE mixedRequest.b
<1>1. Exponentiation /\ Quad \in Nat /\ Quad = 4 * Limb /\ Limb > 0 /\ Limb \in Nat
  BY LimbSizes
<1>2. /\ Gap \in Int
      /\ op \in {"cast", "add", "sub", "mul", "div", "mul_div", "compare"}
      /\ Dd \in Nat /\ Da \in Nat
      /\ op # "cast" => Db \in Nat
      /\ op = "mul_div" => mixedRequest.c.decimals \in Nat
  BY CallFields
<1>3. /\ Down \in Nat /\ w \in Nat /\ w < 2 ^ e /\ w <= 2 ^ e /\ e \in Nat
  <2>1. Down = (IF k > 0 THEN k ELSE 0) /\ Down \in Nat /\ k \in Int
    BY <1>2 DEF Down
  <2> HIDE DEF k
  <2> QED
    BY <2>1, ScalePower
<1>4. 2 * Quad + e <= 16 * Limb
  <2>1. y \in Operands \union Targets /\ mixedRequest.a \in Operands \union Targets
    BY DEF MixedCalled
  <2>2. Down <= mixedRequest.a.decimals + y.decimals
    BY <1>2 DEF Down, Gap, sum_scale, MaxOf, Dd, Da, Db
  <2> HIDE DEF y
  <2> QED
    BY <1>3, <2>1, <2>2, EstimatesFitTiers
<1>5. CASE op \in {"div", "mul_div"}
  <2> DEFINE i == MagBits(d)
  <2>1. d \in Int /\ i \in 0 .. Quad /\ Magnitude(d) < 2 ^ i
    <3>1. CASE op = "div"
      BY <3>1, CallFields DEF Divisor
    <3>2. CASE op = "mul_div"
      BY <3>2, CallFields DEF Divisor
    <3> QED
      BY <1>5, <3>1, <3>2
  <2>2. n = i + e
    BY <1>5 DEF DenominatorBits
  <2>3. Denominator = d * w
    BY DEF Denominator
  <2> HIDE DEF i, e, d, w, n
  <2>4. d * w \in Int /\ i \in Nat /\ w \in Int /\ w >= 0
    BY <1>3, <2>1, <1>1
  <2>5. Magnitude(d * w) = Magnitude(d) * Magnitude(w) /\ Magnitude(d) \in Nat
    BY <2>1, <2>4, MagnitudeProduct
  <2>6. Magnitude(w) = w
    BY <2>4, MagnitudeProduct
  <2>7. Magnitude(d) * w < 2 ^ (i + e)
    <3> DEFINE m == Magnitude(d)
    <3>1. m \in Nat /\ m < 2 ^ i
      BY <2>1, <2>5
    <3> HIDE DEF m
    <3>2. m * w < 2 ^ (i + e)
      BY <1>1, <1>3, <2>4, <3>1, BitsOfProduct DEF e, w
    <3> QED
      BY <3>2 DEF m
  <2>8. n \in Nat /\ n <= 16 * Limb
    BY <1>1, <1>3, <1>4, <2>1, <2>2 DEF e
  <2> QED
    BY <2>2, <2>3, <2>4, <2>5, <2>6, <2>7, <2>8 DEF n
<1>6. CASE op \notin {"div", "mul_div"}
  <2>1. n = e
    BY <1>6 DEF DenominatorBits
  <2>2. Denominator = 1 * w
    BY <1>6 DEF Denominator, Divisor
  <2> HIDE DEF e, w, n
  <2>3. w \in Nat /\ e \in Nat /\ w < 2 ^ e
    BY <1>3 DEF e, w
  <2>4. Denominator = w
    BY <2>2, <2>3
  <2>5. Magnitude(w) = w
    BY <2>3, MagnitudeProduct
  <2>6. n <= 16 * Limb
    BY <1>1, <1>4, <2>1, <2>3 DEF e
  <2> QED
    BY <2>1, <2>3, <2>4, <2>5, <2>6 DEF n
<1> QED
  BY <1>5, <1>6

\* The limit of the destination fits its bits.
LEMMA LimitFits ==
  ASSUME MixedAssumption, MixedCalled, op # "compare", NEW sign
  PROVE  /\ LimitMagnitude(sign) \in Nat /\ LimitMagnitude(sign) < 2 ^ Bd
         /\ Bd \in Nat /\ Bd <= 16 * Limb
<1> DEFINE n == Bd
           half == 2 ^ (n - 1)
<1>1. n \in 1 .. Quad /\ Quad = 4 * Limb /\ Limb \in Nat /\ Exponentiation
  BY CallFields, LimbSizes
<1>2. RM!Indicator(sign) \in {0, 1}
  BY DEF RM!Indicator
<1>3. LimitMagnitude(sign) = half - 1 + RM!Indicator(sign)
  BY DEF LimitMagnitude
<1>4. half \in Nat /\ half > 0 /\ 2 ^ n = 2 * half
  <2> HIDE DEF n
  <2>1. n - 1 \in Nat /\ (n - 1) + 1 = n
    BY <1>1
  <2> QED
    BY <1>1, <2>1, BinaryPower
<1> HIDE DEF half, n
<1> QED
  BY <1>1, <1>2, <1>3, <1>4 DEF n

\* Nothing the kernel computes for a call is wider than the tier picked for it.
TierWide == \A m \in wides : m < 2 ^ (tier * Limb)

\* What fits its bits fits a tier picked for as many bits or more.
LEMMA WithinTier ==
  ASSUME MixedAssumption, NEW n \in Nat, n <= 16 * Limb,
         NEW i \in Nat, i <= n, NEW m \in Nat, m < 2 ^ i
  PROVE  m < 2 ^ (TierFor(n) * Limb)
<1> DEFINE k == TierFor(n) * Limb
<1>1. k \in Nat /\ n <= k
  BY TierHoldsBits
<1> HIDE DEF k
<1>2. i <= k
  BY <1>1
<1>3. m < 2 ^ k
  BY <1>1, <1>2, LimbSizes, MoreBits
<1> QED
  BY <1>3 DEF k

LEMMA EvaluateFitsTier ==
  ASSUME MixedAssumption, MixedCalled, Evaluate PROVE TierWide'
<1> DEFINE x == NumeratorBits
           y == DenominatorBits
           z == Bd
           n == MaxOf(MaxOf(x, y), z)
           W == {RM!Magnitude(Numerator), RM!Magnitude(Denominator),
                 RM!Magnitude(Combined), Power(Up), LimitMagnitude(Negative)}
           V == IF op \in {"add", "sub"}
                  THEN {RM!Magnitude(Lhs), RM!Magnitude(Rhs)} ELSE {}
<1>1. op # "compare" /\ tier' = TierFor(n) /\ wides' = W \union V
  BY DEF Evaluate
<1>2. /\ x \in Nat /\ x <= 16 * Limb
      /\ Numerator \in Int /\ Magnitude(Numerator) < 2 ^ x
      /\ Magnitude(Combined) < 2 ^ x
      /\ Power(Up) < 2 ^ x /\ Power(Up) \in Nat
      /\ op \in {"add", "sub"} => Magnitude(Lhs) < 2 ^ x /\ Magnitude(Rhs) < 2 ^ x
  BY <1>1, NumeratorFits
<1>3. y \in Nat /\ y <= 16 * Limb /\ Denominator \in Int /\ Magnitude(Denominator) < 2 ^ y
  BY <1>1, DenominatorFits
<1>4. /\ LimitMagnitude(Negative) \in Nat /\ LimitMagnitude(Negative) < 2 ^ z
      /\ z \in Nat /\ z <= 16 * Limb
  BY <1>1, LimitFits
<1>5. Combined \in Int /\ (op \in {"add", "sub"} => Lhs \in Int /\ Rhs \in Int)
  BY <1>1, CombinedFits
<1>6. n \in Nat /\ n <= 16 * Limb /\ x <= n /\ y <= n /\ z <= n
  <2> HIDE DEF x, y, z
  <2> QED
    BY <1>2, <1>3, <1>4 DEF MaxOf, x, y, z
<1> DEFINE t == 2 ^ (TierFor(n) * Limb)
<1> HIDE DEF x, y, z, n
<1>7. \A v \in Int : /\ Magnitude(v) \in Nat /\ RM!Magnitude(v) = Magnitude(v)
                     /\ Magnitude(v) < 2 ^ x => Magnitude(v) < t
                     /\ Magnitude(v) < 2 ^ y => Magnitude(v) < t
  <2> TAKE v \in Int
  <2>1. Magnitude(v) \in Nat /\ RM!Magnitude(v) = Magnitude(v)
    BY MagnitudeProduct
  <2>2. Magnitude(v) < 2 ^ x => Magnitude(v) < t
    BY <1>2, <1>6, <2>1, WithinTier DEF x
  <2>3. Magnitude(v) < 2 ^ y => Magnitude(v) < t
    BY <1>3, <1>6, <2>1, WithinTier DEF y
  <2> QED
    BY <2>1, <2>2, <2>3
<1>8. Power(Up) < t
  BY <1>2, <1>6, WithinTier DEF x
<1>9. LimitMagnitude(Negative) < t
  BY <1>4, <1>6, WithinTier DEF z
<1> HIDE DEF t
<1>10. \A m \in W : m < t
  BY <1>2, <1>3, <1>5, <1>7, <1>8, <1>9 DEF x, y
<1>11. \A m \in V : m < t
  BY <1>2, <1>5, <1>7 DEF x
<1> HIDE DEF W, V
<1> QED
  BY <1>1, <1>10, <1>11 DEF TierWide, t

LEMMA CompareFitsTier ==
  ASSUME MixedAssumption, MixedCalled, wides = {}, KernelCompare PROVE TierWide'
<1> DEFINE n == AlignedBits
           u == Db - common_scale
           v == Da - common_scale
           W == {RM!Magnitude(a_raw) * Power(u), RM!Magnitude(b_raw) * Power(v),
                 Power(u), Power(v)}
           t == 2 ^ (TierFor(n) * Limb)
<1>1. /\ op = "compare"
      /\ (wides' = {} \/ (tier' = TierFor(n) /\ wides' = W))
  BY DEF KernelCompare
<1>2. /\ n \in Nat
      /\ Power(u) \in Nat /\ Power(v) \in Nat /\ Power(u) < 2 ^ n /\ Power(v) < 2 ^ n
      /\ Magnitude(a_raw) * Power(u) \in Nat /\ Magnitude(a_raw) * Power(u) < 2 ^ n
      /\ Magnitude(b_raw) * Power(v) \in Nat /\ Magnitude(b_raw) * Power(v) < 2 ^ n
  BY <1>1, AlignedFits DEF Aligning
<1>3. n <= 16 * Limb
  <2> DEFINE p == IF Da < Db THEN Db ELSE Da
             x == IF Da < Db THEN mixedRequest.b ELSE mixedRequest.a
  <2>1. n <= Quad + PowBits(p)
    BY <1>1, AlignedFits DEF Aligning
  <2>2. x \in Operands \union Targets /\ x.decimals = p /\ p \in Nat
    BY <1>1, CallFields DEF MixedCalled, Da, Db
  <2> HIDE DEF n, p, x
  <2>3. p <= x.decimals + x.decimals
    BY <2>2
  <2>4. 2 * Quad + PowBits(p) <= 16 * Limb
    BY <2>2, <2>3, EstimatesFitTiers
  <2>5. PowBits(p) \in Nat /\ Quad \in Nat
    BY <2>2, PowerEstimated, LimbSizes
  <2> QED
    BY <1>2, <2>1, <2>4, <2>5, LimbSizes DEF n
<1>4. RM!Magnitude(a_raw) = Magnitude(a_raw) /\ RM!Magnitude(b_raw) = Magnitude(b_raw)
  BY DEF RM!Magnitude, Magnitude
<1> HIDE DEF n, u, v
<1>5. \A m \in Nat : m < 2 ^ n => m < t
  <2>1. n \in Nat /\ n <= n /\ n <= 16 * Limb
    BY <1>2, <1>3 DEF n
  <2> QED
    BY <2>1, WithinTier
<1> HIDE DEF t
<1>6. \A m \in W : m < t
  BY <1>2, <1>4, <1>5 DEF n, u, v
<1> HIDE DEF W
<1> QED
  BY <1>1, <1>6 DEF TierWide, t

\* In a pair of limbs.  The bits of two factors bound a product's magnitude.
LEMMA ScaledMagnitude ==
  ASSUME Exponentiation, NEW x \in Int, NEW y \in Int, NEW i \in Nat, NEW j \in Nat, NEW n \in Nat,
         Magnitude(x) <= 2 ^ i, Magnitude(y) <= 2 ^ j, i + j <= n
  PROVE  x * y \in Int /\ Magnitude(x * y) \in Nat /\ Magnitude(x * y) <= 2 ^ n
<1> DEFINE u == Magnitude(x)
           v == Magnitude(y)
           s == 2 ^ i
           t == 2 ^ j
           k == n - (i + j)
<1>1. u \in Nat /\ v \in Nat /\ Magnitude(x * y) = u * v
  BY MagnitudeProduct
<1>2. s \in Nat /\ t \in Nat /\ 2 ^ (i + j) = s * t
  BY BinaryPower
<1>3. u <= s /\ v <= t
  OBVIOUS
<1>4. k \in Nat /\ i + j \in Nat /\ (i + j) + k = n
  OBVIOUS
<1> HIDE DEF k
<1>5. 2 ^ (i + j) <= 2 ^ n /\ 2 ^ n \in Nat
  BY <1>4, BinaryPower
<1> HIDE DEF u, v, s, t
<1>6. u * v <= u * t /\ u * t <= s * t
  BY <1>1, <1>2, <1>3
<1>7. u * v \in Nat /\ u * t \in Nat /\ s * t \in Nat
  BY <1>1, <1>2
<1>8. x * y \in Int
  OBVIOUS
<1> QED
  BY <1>1, <1>2, <1>5, <1>6, <1>7, <1>8

LEMMA LessPower ==
  ASSUME Exponentiation, NEW x \in Nat, x > 0, NEW i \in Nat, NEW k \in Nat, i <= k
  PROVE  x ^ i <= x ^ k /\ x ^ i \in Nat /\ x ^ k \in Nat
<1> DEFINE j == k - i
<1>1. j \in Nat /\ i + j = k
  OBVIOUS
<1> HIDE DEF j
<1>2. x ^ i <= x ^ (i + j) /\ x ^ i \in Nat
  BY <1>1, PowerTimes
<1>3. x ^ k \in Nat
  BY PowerTimes
<1> QED
  BY <1>1, <1>2, <1>3

\* A pair has a bit to spare for its sign.
LEMMA PairHolds ==
  ASSUME MixedAssumption, NEW v \in Int, Magnitude(v) <= 2 ^ (Pair - 2)
  PROVE  InPair(v) /\ InPair(-v)
<1> DEFINE n == Pair - 2
           h == 2 ^ (Pair - 1)
<1>1. n \in Nat /\ n + 1 = Pair - 1 /\ Exponentiation
  BY LimbSizes
<1>2. h = 2 * 2 ^ n /\ 2 ^ n \in Nat /\ 2 ^ n > 0
  BY <1>1, BinaryPower
<1>3. -v \in Int /\ Magnitude(v) <= 2 ^ n
  OBVIOUS
<1> HIDE DEF h, n
<1>4. -h <= v /\ v <= h - 1 /\ -h <= -v /\ -v <= h - 1
  BY <1>2, <1>3 DEF Magnitude
<1>5. h \in Int
  BY <1>2
<1> QED
  BY <1>3, <1>4, <1>5 DEF InPair, InBits, h

\* What the type of an operand says of it.
LEMMA CallBits ==
  ASSUME MixedAssumption, MixedCalled
  PROVE  /\ Ba \in Nat /\ Ba > 0 /\ a_raw \in Int /\ Magnitude(a_raw) <= 2 ^ (Ba - 1)
         /\ Da \in Nat /\ Base ^ Da <= 2 ^ (Ba - 1)
         /\ op # "cast" =>
              /\ Bb \in Nat /\ Bb > 0 /\ b_raw \in Int /\ Magnitude(b_raw) <= 2 ^ (Bb - 1)
              /\ Db \in Nat /\ Base ^ Db <= 2 ^ (Bb - 1)
         /\ op = "mul_div" =>
              /\ mixedRequest.c.bits \in Nat /\ mixedRequest.c.bits > 0
              /\ c_raw \in Int /\ Magnitude(c_raw) <= 2 ^ (mixedRequest.c.bits - 1)
<1>1. \A x \in Operands :
        /\ x.bits \in Nat /\ x.bits > 0 /\ x.raw \in Int /\ Magnitude(x.raw) <= 2 ^ (x.bits - 1)
        /\ x.decimals \in Nat /\ Base ^ x.decimals <= 2 ^ (x.bits - 1)
  <2> TAKE x \in Operands
  <2>1. /\ x.raw \in Int /\ x.bits \in 1 .. Quad /\ x.decimals \in Nat
        /\ Magnitude(x.raw) <= 2 ^ (x.bits - 1)
    BY OperandBits
  <2>2. Base ^ x.decimals <= 2 ^ (x.bits - 1)
    BY DEF MixedAssumption, RawAssumption
  <2>3. x.bits \in Nat /\ x.bits > 0
    BY <2>1, LimbSizes
  <2> QED
    BY <2>1, <2>2, <2>3
<1> QED
  BY <1>1 DEF MixedCalled, Ba, Bb, a_raw, b_raw, c_raw, Da, Db

LEMMA LooseSum ==
  ASSUME MixedAssumption, NEW i \in Nat, NEW j \in Nat, i <= j
  PROVE  /\ PowBitsLoose(i) \in Nat /\ PowBitsLoose(j) \in Nat
         /\ PowBitsLoose(i) <= PowBitsLoose(j)
<1>1. DigitBits \in Nat
  BY DEF MixedAssumption, RadixAssumption
<1>2. DigitBits * i \in Nat /\ DigitBits * j \in Nat /\ DigitBits * i <= DigitBits * j
  BY <1>1
<1> QED
  BY <1>2 DEF PowBitsLoose

\* An aligned side has the bits of its type and of its power.
LEMMA SideBits ==
  ASSUME MixedAssumption, NEW x \in Int, NEW i \in Nat, Magnitude(x) <= 2 ^ i,
         NEW k \in Int, NEW e \in Nat, e = IF k > 0 THEN k ELSE 0,
         NEW n \in Nat, i + PowBitsLoose(e) <= n
  PROVE  x * Power(k) \in Int /\ Magnitude(x * Power(k)) \in Nat
         /\ Magnitude(x * Power(k)) <= 2 ^ n
<1> DEFINE j == PowBitsLoose(e)
           y == Power(k)
<1>1. y \in Nat /\ y <= 2 ^ j
  BY ScalePower
<1>2. j \in Nat /\ Exponentiation
  BY LooseSum, LimbSizes
<1>3. Magnitude(y) <= 2 ^ j /\ y \in Int
  BY <1>1 DEF Magnitude
<1> HIDE DEF j, y
<1>4. i + j <= n
  BY DEF j
<1>5. x * y \in Int /\ Magnitude(x * y) \in Nat /\ Magnitude(x * y) <= 2 ^ n
  BY <1>2, <1>3, <1>4, ScaledMagnitude
<1> QED
  BY <1>5 DEF y

\* The sides of an alignment fit a pair with two bits to spare.
LEMMA NativeSides ==
  ASSUME MixedAssumption, MixedCalled, Aligning, AlignmentFits
  PROVE  LET w == MaxOf(Ba, Bb) - 1 + PowBitsLoose(sum_scale - common_scale)
         IN /\ w \in Nat /\ Pair - 3 \in Nat
            /\ Lhs \in Int /\ Magnitude(Lhs) \in Nat
            /\ Magnitude(Lhs) <= 2 ^ w /\ Magnitude(Lhs) <= 2 ^ (Pair - 3)
            /\ Rhs \in Int /\ Magnitude(Rhs) \in Nat
            /\ Magnitude(Rhs) <= 2 ^ w /\ Magnitude(Rhs) <= 2 ^ (Pair - 3)
<1> DEFINE u == Db - common_scale
           v == Da - common_scale
           p == sum_scale - common_scale
           m == MaxOf(Ba, Bb)
           w == m - 1 + PowBitsLoose(p)
<1>1. /\ Ba \in Nat /\ Ba > 0 /\ a_raw \in Int /\ Magnitude(a_raw) <= 2 ^ (Ba - 1)
      /\ Bb \in Nat /\ Bb > 0 /\ b_raw \in Int /\ Magnitude(b_raw) <= 2 ^ (Bb - 1)
      /\ Da \in Nat /\ Db \in Nat
  BY CallBits DEF Aligning
<1>2. /\ u \in Nat /\ v \in Nat /\ u <= p /\ v <= p /\ p \in Nat
      /\ sum_scale - Da = u /\ sum_scale - Db = v
  BY <1>1 DEF common_scale, sum_scale, MaxOf
<1>3. /\ Ba + PowBitsLoose(u) <= Pair - 2
      /\ Bb + PowBitsLoose(v) <= Pair - 2
  BY DEF AlignmentFits
<1>4. /\ PowBitsLoose(u) \in Nat /\ PowBitsLoose(v) \in Nat /\ PowBitsLoose(p) \in Nat
      /\ PowBitsLoose(u) <= PowBitsLoose(p) /\ PowBitsLoose(v) <= PowBitsLoose(p)
  BY <1>2, LooseSum
<1>5. m \in Nat /\ Ba <= m /\ Bb <= m
  BY <1>1 DEF MaxOf
<1>6. Lhs = a_raw * Power(u) /\ Rhs = b_raw * Power(v)
  BY <1>2 DEF Lhs, Rhs
<1>7. Pair \in Nat
  BY LimbSizes
<1>0. u = (IF u > 0 THEN u ELSE 0) /\ v = (IF v > 0 THEN v ELSE 0) /\ u \in Int /\ v \in Int
  BY <1>2
<1> HIDE DEF u, v, p, m
<1>8. /\ w \in Nat /\ Pair - 3 \in Nat /\ Ba - 1 \in Nat /\ Bb - 1 \in Nat
      /\ (Ba - 1) + PowBitsLoose(u) <= w /\ (Ba - 1) + PowBitsLoose(u) <= Pair - 3
      /\ (Bb - 1) + PowBitsLoose(v) <= w /\ (Bb - 1) + PowBitsLoose(v) <= Pair - 3
  BY <1>1, <1>3, <1>4, <1>5, <1>7
<1> HIDE DEF w
<1>9. /\ Lhs \in Int /\ Magnitude(Lhs) \in Nat
      /\ Magnitude(Lhs) <= 2 ^ w /\ Magnitude(Lhs) <= 2 ^ (Pair - 3)
  BY <1>0, <1>1, <1>2, <1>6, <1>8, SideBits
<1>10. /\ Rhs \in Int /\ Magnitude(Rhs) \in Nat
       /\ Magnitude(Rhs) <= 2 ^ w /\ Magnitude(Rhs) <= 2 ^ (Pair - 3)
  BY <1>0, <1>1, <1>2, <1>6, <1>8, SideBits
<1> QED
  BY <1>8, <1>9, <1>10 DEF w, m, p

LEMMA SidesInPair ==
  ASSUME MixedAssumption, MixedCalled, Aligning, AlignmentFits
  PROVE  InPair(Lhs) /\ InPair(Rhs)
<1> DEFINE k == Pair - 3
           x == Lhs
           y == Rhs
<1>1. /\ k \in Nat /\ x \in Int /\ y \in Int /\ Magnitude(x) \in Nat /\ Magnitude(y) \in Nat
      /\ Magnitude(x) <= 2 ^ k /\ Magnitude(y) <= 2 ^ k
  BY NativeSides
<1>2. k + 1 = Pair - 2
  BY LimbSizes
<1> HIDE DEF k, x, y
<1>3. 2 ^ k <= 2 ^ (k + 1) /\ 2 ^ k \in Nat /\ 2 ^ (k + 1) \in Nat
  BY <1>1, LimbSizes, BinaryPower
<1>4. Magnitude(x) <= 2 ^ (Pair - 2) /\ Magnitude(y) <= 2 ^ (Pair - 2)
  BY <1>1, <1>2, <1>3
<1> QED
  BY <1>1, <1>4, PairHolds DEF x, y

LEMMA NativeSizes ==
  ASSUME MixedAssumption, MixedCalled, op # "compare", Fits
  PROVE  /\ Ba <= Limb \/ op \in {"add", "sub"}
         /\ op \in {"mul", "div", "mul_div"} => Bb <= Limb
         /\ op \in {"add", "sub"} => AlignmentFits
         /\ op = "mul_div" => mixedRequest.c.bits <= Limb
         /\ op \in {"cast", "div"} /\ Gap >= 0 =>
              Ba + PowBitsLoose(Gap) <= Pair - 2
         /\ op \in {"mul", "mul_div"} /\ Gap >= 0 =>
              Ba + Bb - 1 + PowBitsLoose(Gap) <= Pair - 1
         /\ op \in {"add", "sub"} /\ Gap >= 0 =>
              MaxOf(Ba, Bb) + PowBitsLoose(sum_scale - common_scale) + 1
                + PowBitsLoose(Gap) <= Pair - 2
         /\ op = "div" /\ Gap < 0 =>
              Bb + PowBitsLoose(-Gap) <= Pair - 2
         /\ op = "mul_div" /\ Gap < 0 =>
              mixedRequest.c.bits + PowBitsLoose(-Gap) <= Pair - 2
<1>1. op \in {"cast", "add", "sub", "mul", "div", "mul_div"} /\ Gap \in Int
  BY CallFields
<1>2. CASE op = "cast"
  BY <1>1, <1>2 DEF Fits, CastFits
<1>3. CASE op \in {"add", "sub"}
  BY <1>1, <1>3 DEF Fits, AddFits
<1>4. CASE op = "mul"
  BY <1>1, <1>4 DEF Fits, MulFits, ProductBits
<1>5. CASE op = "div"
  BY <1>1, <1>5 DEF Fits, DivFits
<1>6. CASE op = "mul_div"
  BY <1>1, <1>6 DEF Fits, MulDivFits, ProductBits
<1> QED
  BY <1>1, <1>2, <1>3, <1>4, <1>5, <1>6

\* What is rescaled leaves room for the power.
LEMMA NativeCombined ==
  ASSUME MixedAssumption, MixedCalled, op # "compare", Fits
  PROVE  /\ Combined \in Int
         /\ \E i \in Nat : /\ Magnitude(Combined) <= 2 ^ i
                           /\ i + PowBitsLoose(Up) <= Pair - 2
<1>1. /\ op \in {"cast", "add", "sub", "mul", "div", "mul_div"} /\ Gap \in Int
      /\ Combined \in Int
  BY CallFields, CombinedFits
<1>2. /\ Up \in Nat /\ (Gap >= 0 => Up = Gap) /\ (Gap < 0 => Up = 0)
      /\ PowBitsLoose(Up) \in Nat /\ PowBitsLoose(0) = 0
  <2>1. Up \in Nat /\ (Gap >= 0 => Up = Gap) /\ (Gap < 0 => Up = 0)
    BY <1>1 DEF Up
  <2>2. PowBitsLoose(Up) \in Nat
    BY <2>1, LooseSum
  <2>3. PowBitsLoose(0) = 0
    BY DEF PowBitsLoose, MixedAssumption, RadixAssumption
  <2> QED
    BY <2>1, <2>2, <2>3
<1>3. Exponentiation /\ Limb \in Nat /\ Limb > 0 /\ Pair = 2 * Limb
  BY LimbSizes
<1>4. CASE op \in {"cast", "div"}
  <2>1. Combined = a_raw
    BY <1>4 DEF Combined
  <2>2. Ba \in Nat /\ Ba > 0 /\ Magnitude(a_raw) <= 2 ^ (Ba - 1)
    BY CallBits
  <2>3. Ba <= Limb /\ (Gap >= 0 => Ba + PowBitsLoose(Gap) <= Pair - 2)
    BY <1>4, NativeSizes
  <2>4. Ba - 1 \in Nat /\ (Ba - 1) + PowBitsLoose(Up) <= Pair - 2
    BY <1>1, <1>2, <1>3, <2>2, <2>3
  <2> QED
    BY <1>1, <2>1, <2>2, <2>4
<1>5. CASE op \in {"mul", "mul_div"}
  <2> DEFINE i == Ba - 1
             j == Bb - 1
  <2>1. Combined = a_raw * b_raw
    BY <1>5 DEF Combined
  <2>2. /\ Ba \in Nat /\ Ba > 0 /\ a_raw \in Int /\ Magnitude(a_raw) <= 2 ^ i
        /\ Bb \in Nat /\ Bb > 0 /\ b_raw \in Int /\ Magnitude(b_raw) <= 2 ^ j
    BY <1>5, CallBits
  <2>3. /\ Ba <= Limb /\ Bb <= Limb
        /\ Gap >= 0 => Ba + Bb - 1 + PowBitsLoose(Gap) <= Pair - 1
    BY <1>5, NativeSizes
  <2>4. i \in Nat /\ j \in Nat /\ i + j \in Nat /\ i + j + PowBitsLoose(Up) <= Pair - 2
    BY <1>1, <1>2, <1>3, <2>2, <2>3
  <2> HIDE DEF i, j
  <2>5. i + j <= i + j
    BY <2>4
  <2>6. Magnitude(a_raw * b_raw) <= 2 ^ (i + j)
    BY <1>3, <2>2, <2>4, <2>5, ScaledMagnitude
  <2> QED
    BY <1>1, <2>1, <2>4, <2>6
<1>6. CASE op \in {"add", "sub"}
  <2> DEFINE w == MaxOf(Ba, Bb) - 1 + PowBitsLoose(sum_scale - common_scale)
             x == Lhs
             y == Rhs
  <2>1. Aligning /\ AlignmentFits
    BY <1>6, NativeSizes DEF Aligning
  <2>2. /\ w \in Nat /\ Pair - 3 \in Nat
        /\ x \in Int /\ Magnitude(x) \in Nat
        /\ Magnitude(x) <= 2 ^ w /\ Magnitude(x) <= 2 ^ (Pair - 3)
        /\ y \in Int /\ Magnitude(y) \in Nat
        /\ Magnitude(y) <= 2 ^ w /\ Magnitude(y) <= 2 ^ (Pair - 3)
    BY <2>1, NativeSides
  <2>3. Combined = x + y \/ Combined = x - y
    BY <1>6 DEF Combined
  <2>4. Gap >= 0 => w + 1 + PowBitsLoose(Gap) <= Pair - 2
    <3>1. Gap >= 0 =>
            MaxOf(Ba, Bb) + PowBitsLoose(sum_scale - common_scale) + 1
              + PowBitsLoose(Gap) <= Pair - 2
      BY <1>6, NativeSizes
    <3>2. Gap >= 0 => PowBitsLoose(Gap) \in Nat
      BY <1>2
    <3>3. MaxOf(Ba, Bb) \in Nat
      BY <1>6, CallBits DEF MaxOf
    <3>4. PowBitsLoose(sum_scale - common_scale) \in Nat
      <4>1. sum_scale - common_scale \in Nat
        BY <1>6, CallBits DEF sum_scale, common_scale, MaxOf
      <4> QED
        BY <4>1, LooseSum
    <3> QED
      BY <1>3, <3>1, <3>2, <3>3, <3>4
  <2> HIDE DEF w, x, y
  <2>5. Magnitude(Combined) <= Magnitude(x) + Magnitude(y) /\ Magnitude(Combined) \in Nat
    <3>1. /\ Magnitude(x + y) <= Magnitude(x) + Magnitude(y) /\ Magnitude(x + y) \in Nat
          /\ Magnitude(x - y) <= Magnitude(x) + Magnitude(y) /\ Magnitude(x - y) \in Nat
      BY <2>2, MagnitudeProduct
    <3> QED
      BY <2>3, <3>1
  <2>6. \A k \in Nat : 2 ^ k \in Nat /\ 2 ^ (k + 1) = 2 * 2 ^ k
    BY <1>3, BinaryPower
  <2>7. CASE Gap >= 0
    <3>1. Magnitude(Combined) <= 2 ^ (w + 1)
      BY <2>2, <2>5, <2>6
    <3>2. w + 1 \in Nat /\ w + 1 + PowBitsLoose(Up) <= Pair - 2
      BY <1>2, <2>2, <2>4, <2>7
    <3> QED
      BY <1>1, <3>1, <3>2
  <2>8. CASE Gap < 0
    <3> DEFINE k == Pair - 3
    <3>1. k \in Nat /\ Magnitude(x) <= 2 ^ k /\ Magnitude(y) <= 2 ^ k
      BY <2>2
    <3>2. k + 1 \in Nat /\ k + 1 + PowBitsLoose(Up) <= Pair - 2
      BY <1>2, <1>3, <2>2, <2>8
    <3> HIDE DEF k
    <3>3. Magnitude(Combined) <= 2 ^ (k + 1)
      BY <2>2, <2>5, <2>6, <3>1
    <3> QED
      BY <1>1, <3>2, <3>3
  <2> QED
    BY <1>1, <2>7, <2>8
<1> QED
  BY <1>1, <1>4, <1>5, <1>6

\* A quotient's denominator fits as well: where it is a power alone, since every
\* type has room for its own scale.
LEMMA NativeDenominator ==
  ASSUME MixedAssumption, MixedCalled, op # "compare", Fits
  PROVE  Denominator \in Int /\ Magnitude(Denominator) <= 2 ^ (Pair - 2)
<1> DEFINE k == -Gap
           n == Pair - 2
<1>1. /\ op \in {"cast", "add", "sub", "mul", "div", "mul_div"} /\ Gap \in Int
      /\ Dd \in Nat /\ Da \in Nat /\ (op # "cast" => Db \in Nat)
  BY CallFields
<1>2. Down \in Nat /\ k \in Int /\ Down = (IF k > 0 THEN k ELSE 0)
  BY <1>1 DEF Down
<1>3. Exponentiation /\ Limb \in Nat /\ Limb > 0 /\ Pair = 2 * Limb /\ n \in Nat
  BY LimbSizes
<1>4. Power(k) = Base ^ Down /\ Power(k) \in Nat
  BY <1>2, ScalePower
<1>5. Base \in Nat /\ Base > 0
  BY DEF MixedAssumption, RadixAssumption
<1>6. CASE op \in {"cast", "add", "sub", "mul"}
  <2> SUFFICES Power(k) <= 2 ^ n
    <3>1. Denominator = 1 * Power(k)
      BY <1>6 DEF Denominator, Divisor
    <3>2. Denominator = Power(k) /\ Magnitude(Power(k)) = Power(k)
      BY <1>4, <3>1 DEF Magnitude
    <3> QED
      BY <1>4, <3>2
  <2>1. CASE op = "mul"
    <3> DEFINE i == Ba - 1
               j == Bb - 1
               x == Base ^ Da
               y == Base ^ Db
    <3>1. /\ Ba \in Nat /\ Ba > 0 /\ x <= 2 ^ i /\ Ba <= Limb
          /\ Bb \in Nat /\ Bb > 0 /\ y <= 2 ^ j /\ Bb <= Limb
      BY <2>1, CallBits, NativeSizes
    <3>2. i \in Nat /\ j \in Nat /\ i + j <= n
      BY <1>3, <3>1
    <3>3. Da \in Nat /\ Db \in Nat /\ Down <= Da + Db /\ Da + Db \in Nat
      BY <1>1, <2>1 DEF Down, Gap
    <3>4. x \in Nat /\ y \in Nat /\ Base ^ (Da + Db) = x * y
      BY <1>3, <1>5, <3>3, PowerTimes
    <3>5. Base ^ Down <= Base ^ (Da + Db)
      BY <1>2, <1>3, <1>5, <3>3, LessPower
    <3> HIDE DEF i, j, x, y, n
    <3>6. x * y <= 2 ^ n
      <4>1. Magnitude(x) = x /\ Magnitude(y) = y /\ Magnitude(x * y) = x * y
        <5>1. x * y \in Nat
          BY <3>4
        <5> QED
          BY <5>1, <3>4 DEF Magnitude
      <4>2. Magnitude(x) <= 2 ^ i /\ Magnitude(y) <= 2 ^ j /\ x \in Int /\ y \in Int
        BY <4>1, <3>1, <3>4
      <4>3. Exponentiation /\ n \in Nat
        BY <1>3
      <4>4. Magnitude(x * y) <= 2 ^ n
        BY <3>2, <4>2, <4>3, ScaledMagnitude
      <4> QED
        BY <4>1, <4>4
    <3>7. 2 ^ n \in Nat /\ x * y \in Nat
      BY <1>3, <3>4, BinaryPower
    <3> QED
      BY <1>4, <3>4, <3>5, <3>6, <3>7
  <2>2. CASE op \in {"cast", "add", "sub"}
    <3>1. PICK i \in Nat, e \in Nat :
            Down <= e /\ Base ^ e <= 2 ^ i /\ i <= Limb - 1
      <4>1. CASE op = "cast"
        <5>1. Down <= Da
          BY <1>1, <4>1 DEF Down, Gap
        <5>2. Ba - 1 \in Nat /\ Base ^ Da <= 2 ^ (Ba - 1) /\ Ba - 1 <= Limb - 1
          BY <1>3, <4>1, CallBits, NativeSizes
        <5> QED
          BY <1>1, <5>1, <5>2
      <4>2. CASE op \in {"add", "sub"} /\ Da < Db
        <5>1. Down <= Db
          BY <1>1, <4>2 DEF Down, Gap, sum_scale, MaxOf
        <5>2. Bb \in Nat /\ Bb > 0 /\ Base ^ Db <= 2 ^ (Bb - 1)
          BY <4>2, CallBits
        <5>3. Bb <= Limb
          BY <4>2, NativeSizes DEF AlignmentFits
        <5>4. Bb - 1 \in Nat /\ Bb - 1 <= Limb - 1
          BY <1>3, <5>2, <5>3
        <5> QED
          BY <1>1, <4>2, <5>1, <5>2, <5>4
      <4>3. CASE op \in {"add", "sub"} /\ ~(Da < Db)
        <5>1. Down <= Da
          BY <1>1, <4>3 DEF Down, Gap, sum_scale, MaxOf
        <5>2. Ba \in Nat /\ Ba > 0 /\ Base ^ Da <= 2 ^ (Ba - 1)
          BY <4>3, CallBits
        <5>3. Ba <= Limb
          BY <4>3, NativeSizes DEF AlignmentFits
        <5>4. Ba - 1 \in Nat /\ Ba - 1 <= Limb - 1
          BY <1>3, <5>2, <5>3
        <5> QED
          BY <1>1, <4>3, <5>1, <5>2, <5>4
      <4> QED
        BY <2>2, <4>1, <4>2, <4>3
    <3>2. i <= n
      BY <1>3, <3>1
    <3>3. Base ^ Down <= Base ^ e /\ Base ^ e \in Nat
      BY <1>2, <1>3, <1>5, <3>1, LessPower
    <3> HIDE DEF n
    <3>4. 2 ^ i <= 2 ^ n /\ 2 ^ i \in Nat /\ 2 ^ n \in Nat
      BY <1>3, <3>1, <3>2, LessPower
    <3> QED
      BY <1>4, <3>1, <3>3, <3>4
  <2> QED
    BY <1>6, <2>1, <2>2
<1>7. CASE op \in {"div", "mul_div"}
  <2> DEFINE d == Divisor
             m == IF op = "div" THEN Bb ELSE mixedRequest.c.bits
             i == m - 1
  <2>1. m \in Nat /\ m > 0 /\ m <= Limb /\ d \in Int /\ Magnitude(d) <= 2 ^ i
    <3>1. CASE op = "div"
      BY <3>1, CallBits, NativeSizes DEF Divisor
    <3>2. CASE op = "mul_div"
      BY <3>2, CallBits, NativeSizes DEF Divisor
    <3> QED
      BY <1>7, <3>1, <3>2
  <2>2. i \in Nat /\ i + PowBitsLoose(Down) <= n
    <3>1. Gap < 0 => m + PowBitsLoose(-Gap) <= Pair - 2
      BY <1>7, NativeSizes
    <3>2. Gap >= 0 => PowBitsLoose(Down) = 0
      <4>1. DigitBits \in Nat
        BY DEF MixedAssumption, RadixAssumption
      <4> QED
        BY <1>1, <1>2, <4>1 DEF PowBitsLoose
    <3>3. Gap < 0 => Down = -Gap
      BY <1>1 DEF Down
    <3>4. PowBitsLoose(Down) \in Nat
      BY <1>2, LooseSum
    <3> HIDE DEF m
    <3> QED
      BY <1>1, <1>3, <2>1, <3>1, <3>2, <3>3, <3>4
  <2>3. Denominator = d * Power(k)
    BY DEF Denominator
  <2> HIDE DEF d, i, n, k
  <2>4. d * Power(k) \in Int /\ Magnitude(d * Power(k)) <= 2 ^ n
    BY <1>2, <1>3, <2>1, <2>2, SideBits
  <2> QED
    BY <2>3, <2>4 DEF n
<1> QED
  BY <1>1, <1>6, <1>7

\* Nothing the native path computes leaves a pair.
LEMMA NativeFits ==
  ASSUME MixedAssumption, MixedCalled, op # "compare", Fits
  PROVE  /\ InPair(Combined) /\ InPair(Numerator) /\ InPair(Denominator)
         /\ InPair(Turn * Numerator) /\ InPair(Turn * Denominator)
         /\ op \in {"add", "sub"} => InPair(Lhs) /\ InPair(Rhs)
<1> DEFINE n == Pair - 2
<1>1. n \in Nat /\ Exponentiation
  BY LimbSizes
<1>2. Combined \in Int
  BY NativeCombined
<1>3. PICK i \in Nat : /\ Magnitude(Combined) <= 2 ^ i
                       /\ i + PowBitsLoose(Up) <= n
  BY NativeCombined
<1>4. Gap \in Int /\ Up \in Nat /\ Up = (IF Gap > 0 THEN Gap ELSE 0)
      /\ PowBitsLoose(Up) \in Nat
  <2>1. Gap \in Int
    BY CallFields
  <2>2. Up \in Nat /\ Up = (IF Gap > 0 THEN Gap ELSE 0)
    BY <2>1 DEF Up
  <2> QED
    BY <2>1, <2>2, LooseSum
<1>5. Magnitude(Combined) <= 2 ^ n
  <2>1. i <= n
    BY <1>1, <1>3, <1>4
  <2>2. 2 ^ i <= 2 ^ n /\ 2 ^ i \in Nat /\ 2 ^ n \in Nat
    BY <1>1, <2>1, LessPower
  <2>3. Magnitude(Combined) \in Nat
    BY <1>2, MagnitudeProduct
  <2> QED
    BY <1>3, <2>2, <2>3
<1>6. Numerator \in Int /\ Magnitude(Numerator) <= 2 ^ n
  <2>1. Numerator = Combined * Power(Gap)
    BY DEF Numerator
  <2> HIDE DEF n
  <2> QED
    BY <1>1, <1>2, <1>3, <1>4, <2>1, SideBits
<1>7. Denominator \in Int /\ Magnitude(Denominator) <= 2 ^ n
  BY NativeDenominator
<1>8. \A v \in Int : Magnitude(v) <= 2 ^ n => InPair(v) /\ InPair(-v)
  BY PairHolds
<1>9. \A v \in Int : Turn * v = v \/ Turn * v = -v
  BY DEF Turn
<1>10. InPair(Turn * Numerator) /\ InPair(Turn * Denominator)
  BY <1>6, <1>7, <1>8, <1>9
<1>11. ASSUME op \in {"add", "sub"} PROVE InPair(Lhs) /\ InPair(Rhs)
  <2>1. Aligning /\ AlignmentFits
    BY <1>11, NativeSizes DEF Aligning
  <2> QED
    BY <2>1, SidesInPair
<1> QED
  BY <1>2, <1>5, <1>6, <1>7, <1>8, <1>10, <1>11

LEMMA GreatestNat ==
  ASSUME NEW n \in Nat, NEW S \in SUBSET (0 .. n), S # {}
  PROVE  \E x \in S : \A y \in S : x >= y
<1> DEFINE Mirror == {k \in 0 .. n : n - k \in S}
<1>1. Mirror \in SUBSET Nat
  OBVIOUS
<1>2. PICK z \in S : TRUE
  OBVIOUS
<1>3. n - z \in Mirror /\ n - z \in Nat
  <2>1. n - z \in 0 .. n /\ n - (n - z) = z
    OBVIOUS
  <2> QED
    BY <2>1
<1>4. PICK k \in Mirror : \A j \in Mirror : k <= j
  <2> HIDE DEF Mirror
  <2> QED
    BY <1>1, <1>3, LeastNat
<1>5. n - k \in S
  OBVIOUS
<1>6. ASSUME NEW y \in S PROVE n - k >= y
  <2>1. n - y \in 0 .. n /\ n - (n - y) = y
    OBVIOUS
  <2>2. n - y \in Mirror
    BY <2>1
  <2>3. k <= n - y
    BY <1>4, <2>2
  <2> QED
    BY <2>1, <2>3
<1> QED
  BY <1>5, <1>6

\* The decimals counted against a bound have their power below it.
LEMMA DecimalsHold ==
  ASSUME MixedAssumption, NEW bound \in Nat, bound > 1, NEW k \in Nat, k <= Decimals(bound)
  PROVE  Base ^ k \in Nat /\ Base ^ k < bound
<1> DEFINE S == {j \in 0 .. Pair : Base ^ j < bound}
           m == Decimals(bound)
<1>1. Pair \in Nat /\ Exponentiation /\ Base \in Nat /\ Base > 0
  BY LimbSizes DEF MixedAssumption, RadixAssumption
<1>2. 0 \in S
  BY <1>1 DEF Exponentiation
<1>3. \E x \in S : \A y \in S : x >= y
  <2>1. S \in SUBSET (0 .. Pair) /\ S # {}
    BY <1>2
  <2> HIDE DEF S
  <2> QED
    BY <1>1, <2>1, GreatestNat
<1>4. m \in S
  <2>1. m = Max(S)
    BY DEF Decimals
  <2> HIDE DEF S, m
  <2> QED
    BY <1>3, <2>1 DEF Max
<1>5. m \in Nat /\ Base ^ m < bound
  BY <1>1, <1>4
<1> HIDE DEF m
<1>6. Base ^ k <= Base ^ m /\ Base ^ k \in Nat /\ Base ^ m \in Nat
  BY <1>1, <1>5, LessPower DEF m
<1> QED
  BY <1>5, <1>6

\* The range of a pair, and the powers the attempts may use.
LEMMA PairRange ==
  ASSUME MixedAssumption
  PROVE  LET h == 2 ^ (Pair - 1)
         IN /\ h \in Nat /\ h > 1
            /\ \A v \in Int : InPair(v) <=> -h <= v /\ v <= h - 1
<1> DEFINE h == 2 ^ (Pair - 1)
           n == Pair - 2
<1>1. n \in Nat /\ n + 1 = Pair - 1 /\ Exponentiation
  BY LimbSizes
<1>2. h = 2 * 2 ^ n /\ 2 ^ n \in Nat /\ 2 ^ n > 0
  BY <1>1, BinaryPower
<1>3. h \in Nat /\ h > 1
  BY <1>2
<1>4. \A v \in Int : InPair(v) <=> -h <= v /\ v <= h - 1
  BY <1>3 DEF InPair, InBits
<1> QED
  BY <1>3, <1>4

\* A value within the divided bounds stays within them when it is scaled.
LEMMA ScalableHolds ==
  ASSUME MixedAssumption, NEW v \in Int, NEW k \in Int, Scalable(v, k)
  PROVE  v * Power(k) \in Int /\ InPair(v * Power(k))
<1> DEFINE h == 2 ^ (Pair - 1)
           w == Power(k)
           e == IF k > 0 THEN k ELSE 0
           f == (h - 1) \div w
           g == h \div w
<1>1. h \in Nat /\ h > 1 /\ \A x \in Int : InPair(x) <=> -h <= x /\ x <= h - 1
  BY PairRange
<1>2. w \in Nat /\ w > 0
  <2>1. e \in Nat /\ e = (IF k > 0 THEN k ELSE 0)
    OBVIOUS
  <2> HIDE DEF e
  <2> QED
    BY <2>1, ScalePower
<1>3. v <= f /\ -v <= g
  BY DEF Scalable
<1> HIDE DEF h, w
<1>4. f \in Int /\ f * w <= h - 1 /\ g \in Int /\ g * w <= h
  <2>1. /\ h - 1 = f * w + ((h - 1) % w) /\ f \in Int /\ (h - 1) % w \in Nat
        /\ h = g * w + (h % w) /\ g \in Int /\ h % w \in Nat
    BY <1>1, <1>2, DivMod
  <2> HIDE DEF f, g
  <2>2. f * w \in Int /\ g * w \in Int
    BY <1>2, <2>1
  <2> QED
    BY <1>1, <2>1, <2>2
<1> HIDE DEF f, g
<1>5. v * w <= f * w /\ (-v) * w <= g * w /\ (-v) * w = -(v * w) /\ v * w \in Int
  BY <1>2, <1>3, <1>4
<1>6. f * w \in Int /\ g * w \in Int
  BY <1>2, <1>4
<1>7. -h <= v * w /\ v * w <= h - 1
  BY <1>1, <1>4, <1>5, <1>6
<1> QED
  BY <1>1, <1>5, <1>7 DEF w

\* What an attempt goes on to rescale fits, and so do its product and power.
LEMMA RescaleFits ==
  ASSUME MixedAssumption, MixedCalled, NEW v \in Int, InPair(v), Rescalable(v)
  PROVE  InPair(v * Power(Gap)) /\ InPair(Power(-Gap))
<1> DEFINE h == 2 ^ (Pair - 1)
           k == Gap
<1>1. h \in Nat /\ h > 1 /\ \A x \in Int : InPair(x) <=> -h <= x /\ x <= h - 1
  BY PairRange
<1>2. k \in Int
  BY CallFields
<1>3. CASE k >= 0
  <2>1. Scalable(v, k)
    BY <1>3 DEF Rescalable
  <2>2. Power(-k) = 1
    BY <1>2, <1>3 DEF Power, EM!Power
  <2> HIDE DEF h, k
  <2>3. InPair(1)
    BY <1>1
  <2>4. InPair(v * Power(k))
    BY <1>2, <2>1, ScalableHolds
  <2> QED
    BY <2>2, <2>3, <2>4 DEF k
<1>4. CASE k < 0
  <2>1. Power(k) = 1 /\ v * 1 = v
    BY <1>2, <1>4 DEF Power, EM!Power
  <2>2. -k \in Nat /\ -k <= Decimals(h) /\ Power(-k) = Base ^ (-k)
    BY <1>2, <1>4 DEF Rescalable, PairDecimals, Power, EM!Power
  <2>3. Power(-k) \in Nat /\ Power(-k) < h
    <3> HIDE DEF h, k
    <3> QED
      BY <1>1, <2>2, DecimalsHold
  <2>4. InPair(Power(-k))
    BY <1>1, <2>3
  <2> QED
    BY <2>1, <2>4
<1> QED
  BY <1>2, <1>3, <1>4

\* The product by limbs gives up on everything a pair cannot hold.
LEMMA ByLimbsFits ==
  ASSUME MixedAssumption, a_raw \in Int, b_raw \in Int, ProductFitsByLimbs
  PROVE  InPair(a_raw * b_raw)
<1> DEFINE h == 2 ^ (Pair - 1)
           B == 2 ^ Limb
           x == a_raw
           y == b_raw
           l == Magnitude(x)
           m == Magnitude(y)
           lh == l \div B
           ll == l % B
           mh == m \div B
           ml == m % B
           cross == lh * ml + mh * ll
           p == ll * ml
           ph == p \div B
           pl == p % B
           upper == cross + ph
           sign == (x < 0) # (y < 0)
<1>1. h \in Nat /\ h > 1 /\ \A v \in Int : InPair(v) <=> -h <= v /\ v <= h - 1
  BY PairRange
<1>2. B \in Nat /\ B > 0
  BY LimbSizes, BinaryPower
<1>3. /\ l \in Nat /\ m \in Nat /\ Magnitude(x * y) = l * m
      /\ RM!Magnitude(x) = l /\ RM!Magnitude(y) = m
  <2>1. l \in Nat /\ m \in Nat /\ Magnitude(x * y) = l * m
    BY MagnitudeProduct
  <2> QED
    BY <2>1 DEF RM!Magnitude, Magnitude
<1>4. /\ lh = 0 \/ mh = 0
      /\ upper * B + pl <= LimitOf(Pair, sign)
  BY <1>3 DEF ProductFitsByLimbs, Upper, Low
<1>5. LimitOf(Pair, sign) = h - 1 + (IF sign THEN 1 ELSE 0)
  BY DEF LimitOf, RM!Indicator
<1> HIDE DEF h, B, l, m
<1>6. /\ l = lh * B + ll /\ lh \in Int /\ ll \in Int
      /\ m = mh * B + ml /\ mh \in Int /\ ml \in Int
  BY <1>2, <1>3, DivMod
<1> HIDE DEF lh, ll, mh, ml
<1>7. p \in Int
  BY <1>6
<1> HIDE DEF p
<1>8. p = ph * B + pl /\ ph \in Int /\ pl \in Int
  BY <1>2, <1>7, DivMod
<1> HIDE DEF ph, pl
<1>9. l * m = upper * B + pl
  <2>1. CASE lh = 0
    <3>1. l = ll /\ cross = mh * ll
      BY <1>2, <1>6, <2>1
    <3>2. ll * (mh * B + ml) = (mh * ll) * B + ll * ml
      BY <1>2, <1>6
    <3>3. (mh * ll + ph) * B = (mh * ll) * B + ph * B
      BY <1>2, <1>6, <1>8
    <3>4. (mh * ll) * B \in Int /\ ph * B \in Int
      BY <1>2, <1>6, <1>8
    <3> HIDE DEF cross
    <3>5. upper * B = (mh * ll) * B + ph * B
      BY <3>1, <3>3
    <3>6. l * m = (mh * ll) * B + p
      BY <1>6, <3>1, <3>2 DEF p
    <3> HIDE DEF upper
    <3> QED
      BY <1>8, <3>4, <3>5, <3>6
  <2>2. CASE mh = 0
    <3>1. m = ml /\ cross = lh * ml
      BY <1>2, <1>6, <2>2
    <3>2. (lh * B + ll) * ml = (lh * ml) * B + ll * ml
      BY <1>2, <1>6
    <3>3. (lh * ml + ph) * B = (lh * ml) * B + ph * B
      BY <1>2, <1>6, <1>8
    <3>4. (lh * ml) * B \in Int /\ ph * B \in Int
      BY <1>2, <1>6, <1>8
    <3> HIDE DEF cross
    <3>5. upper * B = (lh * ml) * B + ph * B
      BY <3>1, <3>3
    <3>6. l * m = (lh * ml) * B + p
      BY <1>6, <3>1, <3>2 DEF p
    <3> HIDE DEF upper
    <3> QED
      BY <1>8, <3>4, <3>5, <3>6
  <2> QED
    BY <1>4, <2>1, <2>2
<1> HIDE DEF upper
<1>10. l * m <= h - 1 + (IF sign THEN 1 ELSE 0) /\ l * m \in Nat
  BY <1>3, <1>4, <1>5, <1>9
<1>11. x * y \in Int
  OBVIOUS
<1>12. sign => x * y <= 0
  BY DEF sign
<1>13. ~sign => x * y >= 0
  BY DEF sign
<1> DEFINE z == x * y
<1>14. -h <= z /\ z <= h - 1
  <2>1. Magnitude(z) <= h - 1 + (IF sign THEN 1 ELSE 0)
    BY <1>3, <1>10
  <2>2. z \in Int /\ (sign => z <= 0) /\ (~sign => z >= 0)
    BY <1>11, <1>12, <1>13
  <2> HIDE DEF z, sign
  <2> QED
    BY <1>1, <2>1, <2>2 DEF Magnitude
<1> QED
  BY <1>1, <1>11, <1>14

\* An odd number has an inverse modulo any power of two.
LEMMA InverseByBits ==
  ASSUME Exponentiation, NEW odd \in Nat, odd % 2 = 1
  PROVE  \A k \in Nat : \E i \in Nat : i < 2 ^ k /\ \E t \in Int : odd * i = 1 + t * 2 ^ k
<1> DEFINE Found(k) == \E i \in Nat : i < 2 ^ k /\ \E t \in Int : odd * i = 1 + t * 2 ^ k
           S == {k \in Nat : Found(k)}
<1>1. 0 \in S
  <2>1. 2 ^ 0 = 1
    BY BinaryPower
  <2>2. 0 < 2 ^ 0 /\ odd * 0 = 1 + (-1) * 2 ^ 0
    BY <2>1
  <2> QED
    BY <2>2
<1>2. ASSUME NEW k \in Nat, k \in S PROVE k + 1 \in S
  <2> DEFINE base == 2 ^ k
  <2>1. PICK i \in Nat, t \in Int : i < base /\ odd * i = 1 + t * base
    BY <1>2
  <2>2. base \in Nat /\ base > 0 /\ 2 ^ (k + 1) = 2 * base
    BY BinaryPower
  <2> HIDE DEF base
  <2>3. ASSUME NEW u \in Int, t = 2 * u PROVE Found(k + 1)
    <3>1. odd * i = 1 + u * (2 * base)
      <4>1. t * base = u * (2 * base)
        BY <2>2, <2>3
      <4> QED
        BY <2>1, <4>1
    <3>2. i < 2 * base
      BY <2>1, <2>2
    <3> QED
      BY <2>2, <3>1, <3>2
  <2>4. ASSUME NEW u \in Int, t = 2 * u + 1 PROVE Found(k + 1)
    <3> DEFINE v == odd \div 2
    <3>1. v \in Int /\ odd = 2 * v + 1
      BY DivMod
    <3> HIDE DEF v
    <3>2. odd * (i + base) = 1 + (u + v + 1) * (2 * base)
      <4>1. odd * (i + base) = odd * i + odd * base
        BY <2>1, <2>2
      <4>2. odd * base = (2 * v + 1) * base /\ t * base = (2 * u + 1) * base
        BY <2>4, <3>1
      <4>3. (2 * v + 1) * base + (2 * u + 1) * base = (u + v + 1) * (2 * base)
        <5>1. (2 * v + 1) * base = 2 * (v * base) + base /\ v * base \in Int
          BY <2>2, <3>1
        <5>2. (2 * u + 1) * base = 2 * (u * base) + base /\ u * base \in Int
          BY <2>2
        <5>3. (u + v + 1) * (2 * base) = 2 * (u * base) + 2 * (v * base) + 2 * base
          BY <2>2, <3>1
        <5> QED
          BY <2>2, <5>1, <5>2, <5>3
      <4>4. odd * base \in Int /\ t * base \in Int /\ odd * i \in Int /\ (u + v + 1) * (2 * base) \in Int
        BY <2>2, <3>1
      <4> QED
        BY <2>1, <4>1, <4>2, <4>3, <4>4
    <3>3. i + base \in Nat /\ i + base < 2 * base /\ u + v + 1 \in Int
      BY <2>1, <2>2, <3>1
    <3> QED
      BY <2>2, <3>2, <3>3
  <2>5. \E u \in Int : t = 2 * u \/ t = 2 * u + 1
    <3>1. t \div 2 \in Int /\ (t = 2 * (t \div 2) \/ t = 2 * (t \div 2) + 1)
      BY <2>1
    <3> QED
      BY <3>1
  <2> HIDE DEF Found
  <2>6. Found(k + 1)
    BY <2>3, <2>4, <2>5
  <2> QED
    BY <2>6
<1> HIDE DEF S
<1>3. \A k \in Nat : k \in S
  BY <1>1, <1>2, AllExponents
<1> QED
  BY <1>3 DEF S

LEMMA InverseInside ==
  ASSUME MixedAssumption, NEW odd \in Nat, odd % 2 = 1
  PROVE  InverseOf(odd) \in 0 .. 2 ^ Limb - 1
<1> DEFINE base == 2 ^ Limb
           I == 0 .. base - 1
<1>1. PICK i \in Nat, t \in Int : i < base /\ odd * i = 1 + t * base
  BY InverseByBits, LimbSizes
<1>2. base \in Nat /\ base > 1
  <2>1. Limb - 1 \in Nat /\ (Limb - 1) + 1 = Limb
    BY LimbSizes
  <2>2. base = 2 * 2 ^ (Limb - 1) /\ 2 ^ (Limb - 1) \in Nat /\ 2 ^ (Limb - 1) > 0
    BY <2>1, LimbSizes, BinaryPower
  <2> QED
    BY <2>2
<1> HIDE DEF base
<1>3. (odd * i) % base = 1
  <2>1. odd * i \in Int /\ odd * i = t * base + 1
    BY <1>1, <1>2
  <2>2. t \in Int /\ base \in Int /\ base > 0
    BY <1>1, <1>2
  <2> DEFINE n == odd * i
  <2>3. n \in Int /\ n = t * base + 1 /\ 0 <= 1 /\ 1 < base
    BY <1>2, <2>1
  <2> HIDE DEF n
  <2>4. n % base = 1
    BY <2>2, <2>3, DivUnique
  <2> QED
    BY <2>4 DEF n
<1>4. i \in I
  BY <1>1, <1>2
<1>5. InverseOf(odd) = CHOOSE j \in I : (odd * j) % base = 1
  BY DEF InverseOf, base
<1> HIDE DEF I
<1>6. InverseOf(odd) \in I
  BY <1>3, <1>4, <1>5
<1> QED
  BY <1>6 DEF I, base

\* What is left of a number of one limb without its factors two is odd.
LEMMA OddPart ==
  ASSUME MixedAssumption, NEW d \in Nat, d > 0, d < 2 ^ Limb
  PROVE  LET e == TwosIn(d)
         IN e \in Nat /\ d \div 2 ^ e \in Nat /\ (d \div 2 ^ e) % 2 = 1
<1> DEFINE S == {k \in 0 .. Limb : d % 2 ^ k = 0}
           e == TwosIn(d)
           base == 2 ^ e
           o == d \div base
<1>1. Limb \in Nat /\ Limb > 0 /\ Exponentiation
  BY LimbSizes
<1>2. 0 \in S
  <2>1. 2 ^ 0 = 1
    BY <1>1, BinaryPower
  <2>2. d % 2 ^ 0 = 0
    BY <2>1
  <2> QED
    BY <1>1, <2>2
<1>3. \E x \in S : \A y \in S : x >= y
  <2>1. S \in SUBSET (0 .. Limb) /\ S # {}
    BY <1>2
  <2> HIDE DEF S
  <2> QED
    BY <1>1, <2>1, GreatestNat
<1>4. e \in S /\ \A y \in S : e >= y
  <2>1. e = Max(S)
    BY DEF TwosIn
  <2> HIDE DEF S, e
  <2> QED
    BY <1>3, <2>1 DEF Max
<1>5. e \in 0 .. Limb /\ d % base = 0
  BY <1>4
<1> HIDE DEF e
<1>6. base \in Nat /\ base > 0 /\ 2 ^ (e + 1) = 2 * base
  <2>1. e \in Nat
    BY <1>1, <1>5
  <2> QED
    BY <1>1, <2>1, BinaryPower
<1> HIDE DEF base
<1>8. d = o * base /\ o \in Int
  <2>1. d = o * base + (d % base) /\ o \in Int
    BY <1>6, DivMod
  <2> HIDE DEF o
  <2> QED
    BY <1>5, <1>6, <2>1
<1> HIDE DEF o
<1>9. o > 0
  <2> SUFFICES ASSUME o <= 0 PROVE FALSE
    BY <1>8
  <2>1. o * base <= 0
    BY <1>6, <1>8
  <2> QED
    BY <1>8, <2>1
<1>10. o % 2 # 0
  <2> SUFFICES ASSUME o % 2 = 0 PROVE FALSE
    OBVIOUS
  <2> DEFINE h == o \div 2
  <2>1. h \in Int /\ o = 2 * h
    BY <1>8
  <2> HIDE DEF h
  <2>2. d = h * (2 * base)
    BY <1>6, <1>8, <2>1
  <2>3. d % (2 * base) = 0
    <3> DEFINE m == 2 * base
    <3>1. m \in Int /\ m > 0 /\ d = h * m + 0 /\ d \in Int
      BY <1>6, <2>1, <2>2
    <3> HIDE DEF m
    <3>2. d % m = 0
      BY <2>1, <3>1, DivUnique
    <3> QED
      BY <3>2 DEF m
  <2>4. e # Limb
    <3> SUFFICES ASSUME e = Limb PROVE FALSE
      OBVIOUS
    <3>1. d < base
      BY DEF base
    <3>2. o * base >= base
      BY <1>6, <1>8, <1>9
    <3> QED
      BY <1>6, <1>8, <3>1, <3>2
  <2>5. e + 1 \in 0 .. Limb
    BY <1>1, <1>5, <2>4
  <2>6. e + 1 \in S
    BY <1>6, <2>3, <2>5
  <2> QED
    BY <1>4, <1>5, <2>6
<1> QED
  BY <1>5, <1>8, <1>9, <1>10 DEF e, o, base

\* The quotient an attempt divides out is one signed limb.
LEMMA CandidateFits ==
  ASSUME MixedAssumption, NEW v \in Int, NEW d \in Nat, d > 0, d < 2 ^ Limb
  PROVE  Candidate(v, d) \in Int /\ Magnitude(Candidate(v, d)) <= 2 ^ (Limb - 1)
<1> DEFINE e == TwosIn(d)
           o == d \div 2 ^ e
           i == InverseOf(o)
           base == 2 ^ Limb
           h == 2 ^ (Limb - 1)
           n == Low(v \div 2 ^ e) * i
           w == Low(n)
<1>1. e \in Nat /\ o \in Nat /\ o % 2 = 1
  BY OddPart
<1>2. Limb \in Nat /\ Limb - 1 \in Nat /\ (Limb - 1) + 1 = Limb /\ Exponentiation
  BY LimbSizes
<1>3. base \in Nat /\ base > 0 /\ h \in Nat /\ h > 0 /\ base = 2 * h
  BY <1>2, BinaryPower
<1>4. 2 ^ e \in Nat /\ 2 ^ e > 0
  BY <1>1, <1>2, BinaryPower
<1>5. Candidate(v, d) = IF w >= h THEN w - base ELSE w
  BY DEF Candidate
<1> HIDE DEF e, o
<1>6. i \in 0 .. base - 1
  BY <1>1, InverseInside
<1> HIDE DEF i, base, h
<1>7. v \div 2 ^ e \in Int
  BY <1>4
<1>8. Low(v \div 2 ^ e) \in Int
  BY <1>3, <1>7 DEF Low, base
<1>9. n \in Int
  BY <1>3, <1>6, <1>8
<1> HIDE DEF n
<1>10. w \in Int /\ 0 <= w /\ w < base
  BY <1>3, <1>9 DEF Low, base
<1> HIDE DEF w
<1> QED
  BY <1>3, <1>5, <1>10 DEF Magnitude, h

\* A product whose wide factor was divided first fits.
LEMMA ShortenedFits ==
  ASSUME MixedAssumption, MixedCalled, NEW x \in Operands, NEW y \in Operands, WideFirst(x, y)
  PROVE  LET v == Candidate(x.raw, Power(-Gap))
         IN InPair(v * Power(-Gap)) /\ InPair(v * y.raw)
<1> DEFINE k == -Gap
           d == Power(k)
           v == Candidate(x.raw, d)
           base == 2 ^ Limb
<1>1. Gap \in Int /\ Gap < 0 /\ k \in Nat /\ k <= Decimals(base) /\ k > 0
  BY CallFields DEF WideFirst, LimbDecimals
<1>2. Limb \in Nat /\ Limb - 1 \in Nat /\ (Limb - 1) + 1 = Limb /\ Exponentiation
      /\ Pair = 2 * Limb
  BY LimbSizes
<1>3. base \in Nat /\ base > 1
  <2>1. base = 2 * 2 ^ (Limb - 1) /\ 2 ^ (Limb - 1) \in Nat /\ 2 ^ (Limb - 1) > 0
    BY <1>2, BinaryPower
  <2> QED
    BY <2>1
<1>4. x.bits = Pair /\ y.bits <= Limb /\ v * d = x.raw
  BY DEF WideFirst, ExactQuotient
<1>5. d \in Nat /\ d > 0 /\ d < base
  <2>1. k = (IF k > 0 THEN k ELSE 0) /\ k \in Int
    BY <1>1
  <2> HIDE DEF k, base
  <2>2. d = Base ^ k /\ d > 0 /\ d \in Nat
    BY <1>1, <2>1, ScalePower
  <2>3. Base ^ k < base
    BY <1>1, <1>3, DecimalsHold
  <2> QED
    BY <2>2, <2>3
<1>6. x.raw \in Int /\ InPair(x.raw)
  <2>1. InBits(x.raw, x.bits) /\ x.raw \in Int
    BY OperandBits DEF MixedAssumption, RawAssumption
  <2> QED
    BY <1>4, <2>1 DEF InPair
<1>7. v \in Int /\ Magnitude(v) <= 2 ^ (Limb - 1)
  <2> HIDE DEF d
  <2> QED
    BY <1>5, <1>6, CandidateFits
<1>8. y.raw \in Int /\ y.bits \in Nat /\ y.bits > 0 /\ Magnitude(y.raw) <= 2 ^ (y.bits - 1)
  <2>1. y.raw \in Int /\ y.bits \in 1 .. Quad /\ Magnitude(y.raw) <= 2 ^ (y.bits - 1)
    BY OperandBits
  <2> QED
    BY <2>1, LimbSizes
<1> HIDE DEF v, d
<1>9. InPair(v * y.raw)
  <2> DEFINE n == Pair - 2
             j == y.bits - 1
             i == Limb - 1
  <2>1. n \in Nat /\ j \in Nat /\ i \in Nat /\ i + j <= n
    BY <1>2, <1>4, <1>8
  <2>2. Magnitude(v) <= 2 ^ i /\ Magnitude(y.raw) <= 2 ^ j
    BY <1>7, <1>8
  <2> HIDE DEF n, j, i
  <2>3. v * y.raw \in Int /\ Magnitude(v * y.raw) <= 2 ^ n
    BY <1>2, <1>7, <1>8, <2>1, <2>2, ScaledMagnitude
  <2> QED
    BY <2>3, PairHolds DEF n
<1> QED
  BY <1>4, <1>6, <1>9 DEF v, d

\* Until a kernel runs, a call only waits.
MixedInv ==
  /\ mixedStage \in {"idle", "dispatch", "kernel"} => wides = {}
  /\ mixedStage \in {"dispatch", "kernel"} => MixedCalled
  /\ TierWide
  /\ PairNeverOverflows

LEMMA PairCompareFits ==
  ASSUME MixedAssumption, MixedCalled, NativeCompare PROVE PairNeverOverflows'
<1>1. op = "compare" /\ Fits /\ terms' = {Lhs, Rhs}
  BY DEF NativeCompare, Takes, Path
<1>2. Aligning /\ AlignmentFits
  BY <1>1 DEF Aligning, Fits
<1>3. InPair(Lhs) /\ InPair(Rhs)
  BY <1>2, SidesInPair
<1>4. \A v \in terms' : InPair(v)
  BY <1>1, <1>3
<1> QED
  BY <1>4 DEF PairNeverOverflows

LEMMA PairNativeFits ==
  ASSUME MixedAssumption, MixedCalled, Native PROVE PairNeverOverflows'
<1> DEFINE V == {Combined, Numerator, Denominator,
                 Turn * Numerator, Turn * Denominator}
           W == IF op \in {"add", "sub"} THEN {Lhs, Rhs} ELSE {}
<1>1. op # "compare" /\ Fits /\ terms' = V \union W
  BY DEF Native, Takes, Path
<1>2. (\A v \in V : InPair(v)) /\ (\A v \in W : InPair(v))
  BY <1>1, NativeFits
<1> HIDE DEF V, W
<1>3. \A v \in terms' : InPair(v)
  BY <1>1, <1>2
<1> QED
  BY <1>3 DEF PairNeverOverflows

\* An attempt that goes through has only seen values of a pair.
LEMMA PairRescaled ==
  ASSUME MixedAssumption, MixedCalled, PairNeverOverflows,
         NEW v \in Int, InPair(v), Rescale(v)
  PROVE  PairNeverOverflows'
<1>1. CASE Rescalable(v)
  <2>1. terms' = {v, v * Power(Gap), Power(-Gap)}
    BY <1>1 DEF Rescale
  <2>2. InPair(v * Power(Gap)) /\ InPair(Power(-Gap))
    BY <1>1, RescaleFits
  <2>3. \A x \in terms' : InPair(x)
    BY <2>1, <2>2
  <2> QED
    BY <2>3 DEF PairNeverOverflows
<1>2. CASE ~Rescalable(v)
  <2>1. terms' = terms
    BY <1>2 DEF Rescale, Decline
  <2> QED
    BY <2>1 DEF PairNeverOverflows
<1> QED
  BY <1>1, <1>2

LEMMA PairAttemptFits ==
  ASSUME MixedAssumption, MixedCalled, PairNeverOverflows,
         AttemptCast \/ AttemptAddSub \/ AttemptMul
  PROVE  PairNeverOverflows'
<1>1. ASSUME UNCHANGED terms PROVE PairNeverOverflows'
  BY <1>1 DEF PairNeverOverflows
<1>2. CASE AttemptCast
  <2>1. a_raw \in Int
    BY CallFields
  <2>2. CASE InPair(a_raw)
    <3>1. Rescale(a_raw)
      BY <1>2, <2>2 DEF AttemptCast
    <3> QED
      BY <2>1, <2>2, <3>1, PairRescaled
  <2>3. CASE ~InPair(a_raw)
    BY <1>1, <1>2, <2>3 DEF AttemptCast, Decline
  <2> QED
    BY <2>2, <2>3
<1>3. CASE AttemptAddSub
  <2>1. Combined \in Int
    BY <1>3, CombinedFits DEF AttemptAddSub
  <2>2. CASE InPair(Combined) /\ Rescale(Combined)
    BY <2>1, <2>2, PairRescaled
  <2>3. CASE Decline
    BY <1>1, <2>3 DEF Decline
  <2> QED
    BY <1>3, <2>2, <2>3 DEF AttemptAddSub
<1>4. CASE AttemptMul
  <2>1. op = "mul" /\ mixedRequest.a \in Operands /\ mixedRequest.b \in Operands
    BY <1>4 DEF AttemptMul, MixedCalled
  <2>2. ASSUME NEW x \in Operands, NEW y \in Operands, WideFirst(x, y), Shortened(x, y)
        PROVE  PairNeverOverflows'
    <3> DEFINE v == Candidate(x.raw, Power(-Gap))
    <3>1. terms' = {v * Power(-Gap), v * y.raw}
      BY <2>2 DEF Shortened
    <3>2. InPair(v * Power(-Gap)) /\ InPair(v * y.raw)
      BY <2>2, ShortenedFits
    <3> HIDE DEF v
    <3>3. \A z \in terms' : InPair(z)
      BY <3>1, <3>2
    <3> QED
      BY <3>3 DEF PairNeverOverflows
  <2>3. ASSUME ProductFits, Rescale(Combined) PROVE PairNeverOverflows'
    <3>1. Combined = a_raw * b_raw
      BY <2>1 DEF Combined
    <3>2. a_raw \in Int /\ b_raw \in Int /\ Combined \in Int
      BY <2>1, CallFields, CombinedFits
    <3>3. InPair(Combined)
      BY <2>3, <3>1, <3>2, ByLimbsFits DEF ProductFits
    <3> QED
      BY <2>3, <3>2, <3>3, PairRescaled
  <2>4. ASSUME Decline PROVE PairNeverOverflows'
    BY <1>1, <2>4 DEF Decline
  <2> QED
    BY <1>4, <2>1, <2>2, <2>3, <2>4 DEF AttemptMul
<1> QED
  BY <1>2, <1>3, <1>4

LEMMA MixedNextInv ==
  ASSUME MixedAssumption, MixedInv, [MixedNext]_(mixedVars) PROVE MixedInv'
<1>1. CASE CallMixed
  <2>1. /\ mixedStage = "idle" /\ mixedStage' = "dispatch" /\ UNCHANGED <<wides, tier>>
    BY <1>1 DEF CallMixed
  <2>2. MixedCalled'
    <3>1. PICK o \in EM!Ops, x \in Operands :
            \E y \in IF o = "cast" THEN {EM!NoOperand} ELSE Operands,
               z \in IF o = "mul_div" THEN Divisors ELSE {EM!NoOperand},
               d \in IF o = "compare" THEN {EM!NoDest} ELSE Targets,
               mode \in IF o = "compare" THEN {"exact"} ELSE RM!Modes :
              mixedRequest' = EM!Request(o, x, y, z, d, mode)
      BY <1>1 DEF CallMixed
    <3>2. PICK y \in IF o = "cast" THEN {EM!NoOperand} ELSE Operands,
               z \in IF o = "mul_div" THEN Divisors ELSE {EM!NoOperand},
               d \in IF o = "compare" THEN {EM!NoDest} ELSE Targets,
               mode \in IF o = "compare" THEN {"exact"} ELSE RM!Modes :
            mixedRequest' = EM!Request(o, x, y, z, d, mode)
      BY <3>1
    <3>3. /\ mixedRequest'.op = o /\ mixedRequest'.a = x /\ mixedRequest'.b = y /\ mixedRequest'.c = z
          /\ mixedRequest'.dest = d
      BY <3>2 DEF EM!Request
    <3>4. Divisors \subseteq Operands
      BY DEF MixedAssumption, DivisorsAssumption
    <3> QED
      BY <3>1, <3>2, <3>3, <3>4 DEF MixedCalled, op
  <2>3. terms' = terms
    BY <1>1 DEF CallMixed
  <2> QED
    BY <2>1, <2>2, <2>3 DEF MixedInv, TierWide, PairNeverOverflows
<1>2. CASE Evaluate
  <2>1. mixedStage' = "answered" /\ MixedCalled
    BY <1>2 DEF MixedInv, Evaluate, Answered, Kernel, Takes
  <2>2. terms' = terms
    BY <1>2 DEF Evaluate
  <2> QED
    BY <1>2, <2>1, <2>2, EvaluateFitsTier DEF MixedInv, PairNeverOverflows
<1>3. CASE KernelCompare
  <2>1. mixedStage' = "answered" /\ MixedCalled /\ wides = {}
    BY <1>3 DEF MixedInv, KernelCompare, Answered, Kernel, Takes
  <2>2. terms' = terms
    BY <1>3 DEF KernelCompare
  <2> QED
    BY <1>3, <2>1, <2>2, CompareFitsTier DEF MixedInv, PairNeverOverflows
<1>4. CASE \/ DivideByZero \/ NativeCompare \/ Native \/ SameScale
           \/ AttemptCast \/ AttemptAddSub \/ AttemptMul \/ ConstantCompare
  <2>1. /\ mixedStage = "dispatch" /\ mixedStage' \in {"answered", "kernel"}
        /\ UNCHANGED <<mixedRequest, wides, tier>>
    BY <1>4 DEF DivideByZero, NativeCompare, Native, SameScale, AttemptCast,
      AttemptAddSub, AttemptMul, ConstantCompare, Takes, Answered, Rescale,
      Shortened, Decline
  <2>2. MixedCalled /\ PairNeverOverflows
    BY <2>1 DEF MixedInv
  <2>3. PairNeverOverflows'
    <3>1. CASE DivideByZero \/ SameScale \/ ConstantCompare
      BY <2>2, <3>1 DEF DivideByZero, SameScale, ConstantCompare, PairNeverOverflows
    <3> QED
      BY <1>4, <2>2, <3>1, PairCompareFits, PairNativeFits, PairAttemptFits
  <2> QED
    BY <2>1, <2>3 DEF MixedInv, TierWide, MixedCalled, op
<1>5. CASE ReturnMixed
  BY <1>5 DEF ReturnMixed, MixedInv, TierWide, PairNeverOverflows
<1>6. CASE UNCHANGED mixedVars
  <2>1. UNCHANGED <<mixedRequest, mixedStage, terms, tier, wides>>
    BY <1>6 DEF mixedVars
  <2> QED
    BY <2>1 DEF MixedInv, TierWide, MixedCalled, op, PairNeverOverflows
<1> QED
  BY <1>1, <1>2, <1>3, <1>4, <1>5, <1>6 DEF MixedNext, MixedWork

\* For limbs of any size, the tier an estimate picks holds every magnitude the
\* kernel computes for the call, on every path and build.
THEOREM TiersHold ==
  ASSUME MixedAssumption PROVE MixedSpec => [](TierWide /\ TierHolds)
<1>1. MixedInit => MixedInv
  BY DEF MixedInit, MixedInv, TierWide, PairNeverOverflows
<1>2. MixedInv /\ [MixedNext]_(mixedVars) => MixedInv'
  BY MixedNextInv
<1>3. MixedInv => TierWide /\ TierHolds
  BY DEF MixedInv, TierWide, TierHolds
<1> QED
  BY <1>1, <1>2, <1>3, PTL DEF MixedSpec

\* For limbs of any size and any types, nothing computed in a pair of limbs
\* overflows it: neither where the types alone admit an operation, nor in an
\* attempt that its checks let through.
THEOREM PairsHold ==
  ASSUME MixedAssumption PROVE MixedSpec => []PairNeverOverflows
<1>1. MixedInit => MixedInv
  BY DEF MixedInit, MixedInv, TierWide, PairNeverOverflows
<1>2. MixedInv /\ [MixedNext]_(mixedVars) => MixedInv'
  BY MixedNextInv
<1>3. MixedInv => PairNeverOverflows
  BY DEF MixedInv
<1> QED
  BY <1>1, <1>2, <1>3, PTL DEF MixedSpec

-----------------------------------------------------------------------------
(* Floating point.                                                         *)

FloatingAssumption == Exponentiation /\ FloatAssumption /\ FormatsAssumption

\* A call names one of the pairs of format and type and a value of its source.
FloatCalled ==
  /\ floatRequest.op = "from_float" =>
       /\ \E p \in Ingress : format = p[1] /\ floatType = p[2]
       /\ floatRequest.float \in EF!Patterns(format)
  /\ floatRequest.op = "to_float" =>
       /\ \E p \in Egress : format = p[1] /\ floatType = p[2]
       /\ floatRequest.raw \in -(2 ^ (floatType.bits - 1)) .. 2 ^ (floatType.bits - 1) - 1

\* No magnitude is so small that its exponent passes the scale's.
PowerBound == power \in Int /\ power + DivisorBits + floatType.decimals >= 0

\* A significand has the format's precision, what is shifted fits its width, the
\* numerator has K bits and the quotient one or two more than the format keeps.
FloatInv ==
  /\ FloatCalled
  /\ From("scale") =>
       numerator \in Nat /\ numerator < 2 ^ precision /\ power \in Int
  /\ From("round") => floatQuotient \in Nat /\ floatQuotient < 2 ^ Width
  /\ To("divide") =>
       numerator \in Nat /\ 2 ^ (K - 1) <= numerator /\ numerator < 2 ^ K /\ PowerBound
  /\ To("round") =>
       /\ floatQuotient \in Nat /\ PowerBound
       /\ 2 ^ precision <= floatQuotient /\ floatQuotient < 2 ^ (precision + 2)

LEMMA BitWidthIs ==
  ASSUME Exponentiation, WordWidth \in Nat, NEW x \in Nat, NEW k \in 0 .. 4 * WordWidth,
         x < 2 ^ k, k = 0 \/ x >= 2 ^ (k - 1)
  PROVE  bit_width(x) = k
<1> DEFINE P(j) == x < 2 ^ j /\ (j = 0 \/ x >= 2 ^ (j - 1))
           c == CHOOSE j \in 0 .. 4 * WordWidth : P(j)
<1>1. P(k)
  OBVIOUS
<1>2. ASSUME NEW i \in Nat, NEW j \in Nat, P(i), P(j), i < j PROVE FALSE
  <2>1. j - 1 \in Nat /\ i <= j - 1 /\ x >= 2 ^ (j - 1)
    BY <1>2
  <2>2. 2 ^ i <= 2 ^ (j - 1) /\ 2 ^ i \in Nat /\ 2 ^ (j - 1) \in Nat
    BY <2>1, LessPower
  <2> QED
    BY <1>2, <2>1, <2>2
<1> HIDE DEF P
<1>3. c \in 0 .. 4 * WordWidth /\ P(c)
  BY <1>1
<1> HIDE DEF c
<1>4. c \in Nat /\ k \in Nat
  BY <1>3
<1>5. c = k
  BY <1>1, <1>2, <1>3, <1>4
<1> QED
  BY <1>5 DEF bit_width, c, P

LEMMA BitWidthFound ==
  ASSUME Exponentiation, WordWidth \in Nat,
         NEW x \in Nat, NEW m \in 0 .. 4 * WordWidth, x < 2 ^ m
  PROVE  /\ bit_width(x) \in 0 .. m /\ x < 2 ^ bit_width(x)
         /\ bit_width(x) = 0 \/ x >= 2 ^ (bit_width(x) - 1)
<1> DEFINE S == {k \in 0 .. m : x < 2 ^ k}
<1>1. m \in S /\ S \in SUBSET Nat /\ m \in Nat
  OBVIOUS
<1>2. PICK k \in S : \A j \in S : k <= j
  BY <1>1, LeastNat
<1>3. k \in Nat /\ k <= m /\ x < 2 ^ k
  BY <1>1, <1>2
<1>4. ASSUME k # 0 PROVE x >= 2 ^ (k - 1)
  <2>1. k - 1 \in 0 .. m /\ k - 1 \notin S
    BY <1>2, <1>3, <1>4
  <2>2. 2 ^ (k - 1) \in Nat
    BY <1>3, <1>4, LessPower
  <2> QED
    BY <2>1, <2>2
<1>5. k \in 0 .. 4 * WordWidth
  BY <1>3
<1> HIDE DEF S
<1>6. bit_width(x) = k
  BY <1>3, <1>4, <1>5, BitWidthIs
<1> QED
  BY <1>3, <1>4, <1>6

\* A power of five is odd.
LEMMA OddFive ==
  ASSUME Exponentiation
  PROVE  \A d \in Nat :
           5 ^ d \in Nat /\ 5 ^ d > 0 /\ (5 ^ d) % 2 = 1 /\ (d > 0 => 5 ^ d >= 5)
<1> DEFINE five == 5
           S == {d \in Nat : five ^ d \in Nat /\ five ^ d > 0 /\ (five ^ d) % 2 = 1
                               /\ (d > 0 => five ^ d >= 5)}
<1>1. five \in Nat /\ five = 5
  OBVIOUS
<1> HIDE DEF five
<1>2. 0 \in S
  <2>1. five ^ 0 = 1
    BY <1>1 DEF Exponentiation
  <2> QED
    BY <2>1
<1>3. ASSUME NEW d \in Nat, d \in S PROVE d + 1 \in S
  <2> DEFINE x == five ^ d
  <2>1. five ^ (d + 1) = 5 * x /\ x \in Nat /\ x > 0 /\ x % 2 = 1
    BY <1>1, <1>3 DEF Exponentiation
  <2> HIDE DEF x
  <2>2. 5 * x \in Nat /\ 5 * x >= 5 /\ (5 * x) % 2 = 1
    BY <2>1
  <2> QED
    BY <2>1, <2>2
<1>4. \A d \in Nat : d \in S
  <2> HIDE DEF S
  <2> QED
    BY <1>2, <1>3, AllExponents
<1> QED
  BY <1>4 DEF five

\* What the formats and types of from_float's fast path have in common.
LEMMA FastSizes ==
  ASSUME FloatingAssumption, FloatCalled, floatRequest.op = "from_float"
  PROVE  /\ Exponentiation /\ WordWidth \in Nat /\ WordWidth >= 4
         /\ precision \in Nat /\ precision > 0
         /\ floatType.bits \in Nat /\ floatType.bits > 0 /\ floatType.decimals \in Nat
         /\ format.max_exponent \in Nat
         /\ Five \in Nat /\ Five > 0
         /\ 2 ^ precision \in Nat /\ 2 ^ precision > 0
         /\ FastType => Five * 2 ^ precision < 2 ^ (4 * WordWidth)
<1>1. PICK p \in Ingress : format = p[1] /\ floatType = p[2]
  BY DEF FloatCalled
<1>2. /\ Exponentiation /\ WordWidth \in Nat /\ WordWidth >= 4
      /\ precision \in Nat /\ precision > 0
      /\ floatType.bits \in Nat /\ floatType.bits > 0 /\ floatType.decimals \in Nat
      /\ format.max_exponent \in Nat
  BY <1>1 DEF FloatingAssumption, FormatsAssumption, precision
<1>3. Five \in Nat /\ Five > 0
  BY <1>2, OddFive DEF Five
<1>4. 2 ^ precision \in Nat /\ 2 ^ precision > 0
  BY <1>2, BinaryPower
<1>5. FastType => Five * 2 ^ precision < 2 ^ (4 * WordWidth)
  BY <1>1 DEF FloatingAssumption, FloatAssumption, FastType, Five, precision
<1> QED
  BY <1>2, <1>3, <1>4, <1>5

\* The scale's bits hold the power of five.
LEMMA ScaleBitsHold ==
  ASSUME FloatingAssumption, FloatCalled, floatRequest.op = "from_float", FastType
  PROVE  ScaleBits \in Nat /\ Five <= 2 ^ ScaleBits
<1>1. CASE floatType.decimals = 0
  <2>1. ScaleBits = 0
    BY <1>1 DEF ScaleBits
  <2>2. 2 ^ 0 = 1 /\ Five = 1
    BY <1>1 DEF FloatingAssumption, Exponentiation, Five
  <2> QED
    BY <2>1, <2>2
<1>2. CASE floatType.decimals # 0
  <2> DEFINE x == Five
             y == 2 ^ precision
             m == 4 * WordWidth
  <2>1. x \in Nat /\ y \in Nat /\ y > 0 /\ x * y < 2 ^ m /\ m \in Nat /\ WordWidth \in Nat
        /\ Exponentiation
    BY FastSizes
  <2>2. 2 ^ m \in Nat
    BY <2>1, LessPower
  <2> HIDE DEF x, y, m
  <2>3. x <= x * y /\ x * y \in Nat
    BY <2>1
  <2>4. x < 2 ^ m
    BY <2>1, <2>2, <2>3
  <2>5. m \in 0 .. 4 * WordWidth
    BY <2>1 DEF m
  <2>6. bit_width(x) \in 0 .. m /\ x < 2 ^ bit_width(x)
    BY <2>1, <2>4, <2>5, BitWidthFound
  <2>7. ScaleBits = bit_width(x)
    BY <1>2 DEF ScaleBits, x
  <2>8. ScaleBits \in Nat /\ 2 ^ ScaleBits \in Nat
    BY <2>1, <2>6, <2>7, LessPower
  <2>9. x < 2 ^ ScaleBits
    BY <2>6, <2>7
  <2> QED
    BY <2>1, <2>8, <2>9 DEF x
<1> QED
  BY <1>1, <1>2

\* The width chosen from type and format holds every product and every limit.
LEMMA WidthHolds ==
  ASSUME FloatingAssumption, FloatCalled, floatRequest.op = "from_float", FastType,
         NEW x \in Nat, x < 2 ^ precision
  PROVE  /\ Width \in Nat /\ x * Five \in Nat /\ x * Five < 2 ^ Width
         /\ 2 ^ Width \in Nat /\ 2 ^ Width > 0
         /\ 2 ^ (floatType.bits - 1) \in Nat /\ 2 ^ (floatType.bits - 1) > 0
         /\ 2 ^ (floatType.bits - 1) < 2 ^ Width
<1> DEFINE y == Five
           s == ScaleBits
           z == 2 ^ precision
           w == WordWidth
           bs == floatType.bits - 1
<1>1. /\ w \in Nat /\ w >= 2 /\ precision \in Nat
      /\ y \in Nat /\ y > 0 /\ z \in Nat /\ z > 0
      /\ y * z < 2 ^ (4 * w) /\ Exponentiation
      /\ floatType.bits \in Nat /\ floatType.bits > 0
  BY FastSizes
<1>2. s \in Nat /\ y <= 2 ^ s
  BY ScaleBitsHold
<1>3. ScaledBits = precision + s /\ ScaledBits \in Nat
  BY <1>1, <1>2 DEF ScaledBits
<1>4. /\ Width \in {w, 2 * w, 4 * w}
      /\ Width = w => floatType.bits <= w
      /\ Width # 4 * w => ScaledBits <= Width
  BY <1>1, <1>3 DEF Width
<1>5. Width \in Nat /\ floatType.bits <= Width
  BY <1>1, <1>4 DEF FastType
<1> HIDE DEF y, s, w
<1>6. x * y \in Nat /\ x * y < 2 ^ Width
  <2>1. CASE Width = 4 * w
    <3> HIDE DEF z
    <3>1. x * y <= y * z /\ x * y \in Nat /\ y * z \in Nat
      <4>1. x < z
        BY DEF z
      <4>2. x * y <= z * y
        BY <1>1, <4>1
      <4> QED
        BY <1>1, <4>2
    <3>2. 2 ^ (4 * w) \in Nat
      BY <1>1, LessPower
    <3>3. x * y < 2 ^ (4 * w)
      BY <1>1, <3>1, <3>2
    <3> QED
      BY <2>1, <3>1, <3>3
  <2>2. CASE Width # 4 * w
    <3>1. precision + s <= Width
      BY <1>3, <1>4, <2>2
    <3> QED
      BY <1>1, <1>2, <1>5, <3>1, BitsWithin
  <2> QED
    BY <2>1, <2>2
<1>7. bs \in Nat /\ bs + 1 <= Width
  BY <1>1, <1>5
<1> HIDE DEF bs
<1>8. /\ 2 ^ bs \in Nat /\ 2 ^ bs > 0 /\ 2 ^ bs < 2 ^ Width
      /\ 2 ^ Width \in Nat /\ 2 ^ Width > 0
  <2>1. /\ 2 ^ bs \in Nat /\ 2 ^ bs > 0 /\ 2 ^ (bs + 1) = 2 * 2 ^ bs
        /\ 2 ^ Width \in Nat /\ 2 ^ Width > 0
    BY <1>1, <1>5, <1>7, BinaryPower
  <2>2. 2 ^ (bs + 1) <= 2 ^ Width
    BY <1>1, <1>5, <1>7, LessPower
  <2> QED
    BY <2>1, <2>2
<1> QED
  BY <1>5, <1>6, <1>8 DEF bs, y

\* decode_float gives a significand of the format's precision.
LEMMA DecodeInv ==
  ASSUME FloatingAssumption, FloatInv, Decode PROVE FloatInv'
<1> DEFINE f == floatRequest.float
           h == 2 ^ fraction
<1>1. /\ floatRequest.op = "from_float" /\ floatStage' = "scale" /\ UNCHANGED floatRequest
      /\ numerator' = Significand
      /\ power' = (IF field = 0 THEN 1 ELSE field) - bias - fraction
  BY DEF Decode, From
<1>2. /\ Exponentiation /\ precision \in Nat /\ precision > 0 /\ format.max_exponent \in Nat
      /\ 2 ^ precision \in Nat
  BY <1>1, FastSizes DEF FloatInv
<1>3. f \in EF!Patterns(format)
  BY <1>1 DEF FloatInv, FloatCalled
<1>4. /\ f.field \in 0 .. 2 * format.max_exponent - 1
      /\ f.fraction \in 0 .. 2 ^ (IF format.explicit THEN precision ELSE precision - 1) - 1
  BY <1>3 DEF EF!Patterns, EF!Top, EF!FractionBits, precision
<1>5. h \in Nat /\ 2 ^ precision = 2 * h
  <2>1. fraction \in Nat /\ precision = fraction + 1
    BY <1>2 DEF fraction
  <2>2. 2 ^ (fraction + 1) = 2 * 2 ^ fraction /\ 2 ^ fraction \in Nat
    BY <1>2, <2>1, BinaryPower
  <2> QED
    BY <2>1, <2>2
<1>6. Significand \in Nat /\ Significand < 2 ^ precision
  <2>1. CASE format.explicit
    <3>1. Significand = f.fraction
      BY <2>1 DEF Significand
    <3> QED
      BY <1>2, <1>4, <2>1, <3>1
  <2>2. CASE ~format.explicit
    <3>1. f.fraction \in 0 .. h - 1
      BY <1>4, <2>2 DEF fraction
    <3>2. Significand \in {f.fraction, f.fraction + h}
      BY DEF Significand
    <3> HIDE DEF h, f
    <3> QED
      BY <1>2, <1>5, <3>1, <3>2
  <2> QED
    BY <2>1, <2>2
<1>7. power' \in Int
  BY <1>1, <1>2, <1>4 DEF bias, fraction, field
<1>8. (2 ^ precision)' = 2 ^ precision
  BY <1>1 DEF precision, format
<1>9. FloatCalled'
  BY <1>1 DEF FloatInv, FloatCalled, format, floatType, EF!Patterns, EF!Top, EF!FractionBits
<1> QED
  BY <1>1, <1>6, <1>7, <1>8, <1>9 DEF FloatInv, From, To

\* What is shifted stays in its width.
LEMMA ShiftInv ==
  ASSUME FloatingAssumption, FloatInv, ShiftLeft \/ ShiftRight \/ ShiftOut PROVE FloatInv'
<1> DEFINE W == 2 ^ Width
           qt == floatQuotient'
<1>1. /\ FromFast /\ floatRequest.op = "from_float" /\ floatStage' = "round"
      /\ UNCHANGED floatRequest
  BY DEF ShiftLeft, ShiftRight, ShiftOut, Shifted, FromFast, From
<1>2. FastType /\ numerator \in Nat /\ numerator < 2 ^ precision /\ power \in Int
  BY <1>1 DEF FromFast, FloatInv
<1>3. /\ Width \in Nat /\ numerator * Five \in Nat /\ numerator * Five < W
      /\ W \in Nat /\ W > 0
      /\ 2 ^ (floatType.bits - 1) \in Nat /\ 2 ^ (floatType.bits - 1) > 0
      /\ 2 ^ (floatType.bits - 1) < W
  BY <1>1, <1>2, WidthHolds DEF FloatInv
<1>4. product \in Nat /\ product < W
  <2> DEFINE v == numerator * Five
  <2>1. product = v % W
    BY DEF product
  <2> HIDE DEF v, W
  <2>2. v % W = v
    BY <1>3, RemainderOfSmall DEF v
  <2> QED
    BY <1>3, <2>1, <2>2 DEF v
<1>5. /\ Exponentiation /\ scaled \in Int
  BY <1>1, <1>2, FastSizes DEF FloatInv, scaled
<1>6. qt \in Nat /\ qt < W
  <2>1. CASE ShiftLeft
    <3> DEFINE u == 2 ^ scaled
               l == floatLimit
               t == l \div u
    <3>1. qt = product * u /\ scaled \in Nat /\ ~(product > t)
      <4>1. qt = product * u /\ scaled >= 0 /\ ~PastLimit
        BY <2>1 DEF ShiftLeft, Shifted
      <4>2. ~(product > t)
        BY <4>1 DEF PastLimit
      <4> QED
        BY <1>5, <4>1, <4>2
    <3>2. u \in Nat /\ u > 0
      BY <1>5, <3>1, BinaryPower
    <3>3. l \in Nat /\ l < W
      <4> DEFINE h == 2 ^ (floatType.bits - 1)
      <4>1. l = h - RF!Indicator(~floatNegative) /\ h \in Nat /\ h > 0 /\ h < W /\ W \in Nat
        BY <1>3 DEF floatLimit
      <4>2. RF!Indicator(~floatNegative) \in {0, 1}
        BY DEF RF!Indicator
      <4> HIDE DEF h, l, W
      <4> QED
        BY <4>1, <4>2
    <3> HIDE DEF u, l, W, qt
    <3>4. t \in Int /\ t * u \in Int /\ t * u <= l /\ product <= t
      BY <1>4, <3>1, <3>2, <3>3, DivMod
    <3>5. 0 <= product * u /\ product * u <= t * u /\ product * u \in Int
      <4> HIDE DEF t
      <4> QED
        BY <1>4, <3>1, <3>2, <3>4, ProductBelow
    <3> HIDE DEF t
    <3> QED
      BY <1>3, <3>1, <3>3, <3>4, <3>5
  <2>2. CASE ShiftRight
    <3> DEFINE u == 2 ^ (-scaled)
               d == product \div u
    <3>1. qt = d /\ -scaled \in Nat
      BY <1>5, <2>2 DEF ShiftRight, Shifted
    <3>2. u \in Nat /\ u > 0
      BY <1>5, <3>1, BinaryPower
    <3> HIDE DEF u, W, qt
    <3>3. d \in Int /\ 0 <= d /\ d <= product
      <4>1. /\ product = d * u + (product % u) /\ d \in Int
            /\ product % u >= 0 /\ product % u \in Int
        BY <1>4, <3>2, DivMod
      <4>2. 0 <= d
        BY <1>4, <3>2, FloorAtLeast
      <4> HIDE DEF d
      <4>3. d <= d * u /\ d * u \in Int
        BY <3>2, <4>1, <4>2
      <4> QED
        BY <1>4, <4>1, <4>2, <4>3
    <3> HIDE DEF d
    <3> QED
      BY <1>3, <1>4, <3>1, <3>3
  <2>3. CASE ShiftOut
    BY <1>3, <2>3 DEF ShiftOut, Shifted
  <2> QED
    BY <2>1, <2>2, <2>3
<1>7. (2 ^ Width)' = W
  BY <1>1 DEF Width, ScaledBits, ScaleBits, precision, format, floatType, Five
<1>8. FloatCalled'
  BY <1>1 DEF FloatInv, FloatCalled, format, floatType, EF!Patterns, EF!Top, EF!FractionBits
<1> QED
  BY <1>1, <1>6, <1>7, <1>8 DEF FloatInv, From, To

\* Ten is twice five.
LEMMA TenPower ==
  ASSUME Exponentiation
  PROVE  \A d \in Nat : 10 ^ d = 5 ^ d * 2 ^ d
<1> DEFINE ten == 10
           five == 5
           two == 2
           S == {d \in Nat : ten ^ d = five ^ d * two ^ d}
<1>1. ten \in Nat /\ five \in Nat /\ two \in Nat /\ ten = 10 /\ five = 5 /\ two = 2
  OBVIOUS
<1>2. \A d \in Nat : five ^ d \in Nat /\ two ^ d \in Nat
  BY OddFive, BinaryPower
<1> HIDE DEF ten, five, two
<1>3. 0 \in S
  <2>1. ten ^ 0 = 1 /\ five ^ 0 = 1 /\ two ^ 0 = 1
    BY <1>1 DEF Exponentiation
  <2> QED
    BY <2>1
<1>4. ASSUME NEW d \in Nat, d \in S PROVE d + 1 \in S
  <2> DEFINE x == five ^ d
             y == two ^ d
             z == ten ^ d
  <2>1. /\ ten ^ (d + 1) = 10 * z /\ five ^ (d + 1) = 5 * x /\ two ^ (d + 1) = 2 * y
        /\ x \in Nat /\ y \in Nat /\ z = x * y
    BY <1>1, <1>2, <1>4 DEF Exponentiation
  <2> HIDE DEF x, y, z
  <2>2. 10 * z = (5 * x) * (2 * y)
    BY <2>1
  <2> QED
    BY <2>1, <2>2
<1>5. \A d \in Nat : d \in S
  <2> HIDE DEF S
  <2> QED
    BY <1>3, <1>4, AllExponents
<1> QED
  BY <1>5 DEF ten, five, two

\* The divisor's bits, the numerator's and the format's exponents.
LEMMA EgressSizes ==
  ASSUME FloatingAssumption, FloatCalled, floatRequest.op = "to_float"
  PROVE  /\ Exponentiation /\ WordWidth \in Nat /\ WordWidth >= 4
         /\ precision \in Nat /\ precision > 0 /\ precision + 2 <= 2 * WordWidth
         /\ floatType.bits \in Nat /\ floatType.bits > 0 /\ floatType.bits <= 2 * WordWidth
         /\ floatType.decimals \in Nat /\ format.max_exponent \in Nat
         /\ Five \in Nat /\ Five > 0 /\ 2 * Five < 2 ^ (2 * WordWidth)
         /\ floatType.decimals > 0 => Five >= 5
         /\ Five % 2 = 1
         /\ DivisorBits \in Nat /\ DivisorBits > 0 /\ DivisorBits < 2 * WordWidth
         /\ 2 ^ (DivisorBits - 1) <= Five /\ Five < 2 ^ DivisorBits
         /\ K = precision + 1 + DivisorBits /\ K \in Nat /\ K < 4 * WordWidth
         /\ DivisorBits + floatType.decimals <= format.max_exponent
<1> DEFINE w == WordWidth
           d == floatType.decimals
           e == format.max_exponent
           f == Five
           bs == DivisorBits
<1>1. PICK p \in Egress : format = p[1] /\ floatType = p[2]
  BY DEF FloatCalled
<1>2. /\ Exponentiation /\ WordWidth \in Nat /\ WordWidth >= 4
      /\ precision \in Nat /\ precision > 0 /\ precision + 2 <= 2 * WordWidth
      /\ floatType.bits \in Nat /\ floatType.bits > 0 /\ floatType.bits <= 2 * WordWidth
      /\ d \in Nat /\ e \in Nat
  BY <1>1 DEF FloatingAssumption, FormatsAssumption, FloatAssumption, precision
<1>3. 2 * f < 2 ^ (2 * w) /\ 10 ^ d < 2 ^ e
  BY <1>1 DEF FloatingAssumption, FloatAssumption, Five
<1>4. f \in Nat /\ f > 0 /\ f % 2 = 1 /\ (d > 0 => f >= 5)
  BY <1>2, OddFive DEF Five
<1>5. bs \in Nat /\ bs < 2 * w /\ f < 2 ^ bs /\ (bs = 0 \/ f >= 2 ^ (bs - 1))
  <2> DEFINE m == 2 * w - 1
  <2>1. m \in Nat /\ m \in 0 .. 4 * w /\ m + 1 = 2 * w
    BY <1>2
  <2>2. 2 ^ (m + 1) = 2 * 2 ^ m /\ 2 ^ m \in Nat
    BY <1>2, <2>1, BinaryPower
  <2>3. f < 2 ^ m
    BY <1>3, <1>4, <2>1, <2>2
  <2> HIDE DEF m
  <2>4. bs \in 0 .. m /\ f < 2 ^ bs /\ (bs = 0 \/ f >= 2 ^ (bs - 1))
    BY <1>2, <1>4, <2>1, <2>3, BitWidthFound DEF DivisorBits
  <2> QED
    BY <1>2, <2>1, <2>4
<1>6. bs > 0
  <2>1. 2 ^ 0 = 1
    BY <1>2 DEF Exponentiation
  <2>2. ASSUME bs = 0 PROVE FALSE
    <3>1. f < 2 ^ 0
      BY <1>5, <2>2
    <3> QED
      BY <1>4, <2>1, <3>1
  <2> QED
    BY <1>5, <2>2
<1>7. K = precision + 1 + bs /\ K \in Nat /\ K < 4 * w
  BY <1>2, <1>5 DEF K
<1>8. bs + d <= e
  <2> DEFINE c == bs - 1
             x == 2 ^ c
             y == 2 ^ d
             z == 2 ^ e
  <2>1. c \in Nat
    BY <1>5, <1>6
  <2>2. x \in Nat /\ y \in Nat /\ y > 0 /\ 2 ^ (c + d) = x * y /\ z \in Nat
    BY <1>2, <2>1, BinaryPower
  <2>3. 10 ^ d = f * y
    BY <1>2, TenPower DEF Five
  <2>4. x <= f
    BY <1>5, <1>6
  <2> HIDE DEF x, y, z
  <2>5. x * y <= f * y /\ x * y \in Nat /\ f * y \in Nat
    BY <1>4, <2>2, <2>4, ProductBelow
  <2>6. 2 ^ (c + d) < 2 ^ e
    BY <1>3, <2>2, <2>3, <2>5 DEF z
  <2>7. ASSUME e <= c + d PROVE FALSE
    <3>1. 2 ^ e <= 2 ^ (c + d) /\ 2 ^ e \in Nat /\ 2 ^ (c + d) \in Nat
      <4>1. c + d \in Nat
        BY <1>2, <2>1
      <4> HIDE DEF c
      <4> QED
        BY <1>2, <2>7, <4>1, LessPower
    <3> QED
      BY <2>6, <3>1
  <2>8. c + d < e
    BY <1>2, <2>1, <2>7
  <2> QED
    BY <1>2, <1>5, <2>8
<1> QED
  BY <1>2, <1>3, <1>4, <1>5, <1>6, <1>7, <1>8

\* The numerator gets the bits the divisor and the precision ask for.
LEMMA NormaliseInv ==
  ASSUME FloatingAssumption, FloatInv, Normalise PROVE FloatInv'
<1> DEFINE m == magnitude
           bs == bit_width(m)
           l == Lost
           n == numerator'
<1>1. /\ floatRequest.op = "to_float" /\ floatStage' = "divide" /\ UNCHANGED floatRequest
      /\ m # 0 /\ n = (IF l <= 0 THEN m * 2 ^ (-l) ELSE m \div 2 ^ l)
      /\ power' = bs - DivisorBits - floatType.decimals - 1
  BY DEF Normalise, To
<1>2. /\ Exponentiation /\ WordWidth \in Nat
      /\ precision \in Nat
      /\ floatType.bits \in Nat /\ floatType.bits > 0 /\ floatType.bits <= 2 * WordWidth
      /\ floatType.decimals \in Nat /\ DivisorBits \in Nat
      /\ K = precision + 1 + DivisorBits /\ K \in Nat
  BY <1>1, EgressSizes DEF FloatInv
<1>3. m \in Nat /\ m < 2 ^ floatType.bits
  <2> DEFINE h == 2 ^ (floatType.bits - 1)
             x == floatRequest.raw
  <2>1. floatType.bits - 1 \in Nat /\ (floatType.bits - 1) + 1 = floatType.bits
    BY <1>2
  <2>2. h \in Nat /\ h > 0 /\ 2 ^ ((floatType.bits - 1) + 1) = 2 * h
    BY <1>2, <2>1, BinaryPower
  <2>3. 2 ^ floatType.bits = 2 * h
    BY <2>1, <2>2
  <2>4. x \in -h .. h - 1
    BY <1>1 DEF FloatInv, FloatCalled
  <2>5. m = IF x < 0 THEN -x ELSE x
    BY DEF magnitude
  <2> HIDE DEF h, x, m
  <2> QED
    BY <2>2, <2>3, <2>4, <2>5
<1>4. bs \in Nat /\ m < 2 ^ bs /\ (bs = 0 \/ m >= 2 ^ (bs - 1))
  <2>1. floatType.bits \in 0 .. 4 * WordWidth
    BY <1>2
  <2> HIDE DEF m
  <2> QED
    BY <1>2, <1>3, <2>1, BitWidthFound
<1>5. bs > 0
  <2>1. ASSUME bs = 0 PROVE FALSE
    <3>1. m < 2 ^ 0 /\ 2 ^ 0 = 1
      BY <1>2, <1>4, <2>1 DEF Exponentiation
    <3> QED
      BY <1>1, <1>3, <3>1
  <2> QED
    BY <1>4, <2>1
<1>6. bs - 1 \in Nat /\ m >= 2 ^ (bs - 1) /\ l = bs - K
  BY <1>4, <1>5 DEF Lost
<1>7. K - 1 \in Nat
  BY <1>2
<1> DEFINE x == 2 ^ (K - 1)
           y == 2 ^ K
<1>8. x \in Nat /\ x > 0 /\ y \in Nat
  BY <1>2, <1>7, BinaryPower
<1>9. n \in Nat /\ x <= n /\ n < y
  <2>1. CASE l <= 0
    <3> DEFINE i == -l
               u == 2 ^ i
               v == 2 ^ (bs - 1)
               w == 2 ^ bs
    <3>1. i \in Nat /\ bs + i = K /\ (bs - 1) + i = K - 1 /\ n = m * u
      BY <1>1, <1>2, <1>4, <1>6, <2>1
    <3>2. u \in Nat /\ u > 0 /\ v \in Nat /\ 2 ^ ((bs - 1) + i) = v * u
      BY <1>2, <1>6, <3>1, BinaryPower
    <3>3. w \in Nat /\ 2 ^ (bs + i) = w * u
      BY <1>2, <1>4, <3>1, BinaryPower
    <3>4. x = v * u /\ y = w * u /\ v <= m /\ m < w
      BY <1>4, <1>6, <3>1, <3>2, <3>3
    <3> HIDE DEF i, u, v, w, x, y, m, n
    <3>5. m * u \in Nat /\ v * u <= m * u
      BY <1>3, <3>2, <3>4
    <3>6. m * u + u <= w * u
      BY <1>3, <3>2, <3>3, <3>4, MultipleOrder
    <3>7. w * u \in Nat /\ v * u \in Nat
      BY <3>2, <3>3
    <3> QED
      BY <3>1, <3>2, <3>4, <3>5, <3>6, <3>7
  <2>2. CASE ~(l <= 0)
    <3> DEFINE u == 2 ^ l
               v == 2 ^ (bs - 1)
               w == 2 ^ bs
    <3>1. l \in Nat /\ K + l = bs /\ (K - 1) + l = bs - 1 /\ n = m \div u
      BY <1>1, <1>2, <1>4, <1>6, <2>2
    <3>2. u \in Nat /\ u > 0 /\ 2 ^ ((K - 1) + l) = x * u
      BY <1>2, <1>7, <3>1, BinaryPower
    <3>3. 2 ^ (K + l) = y * u
      BY <1>2, <3>1, BinaryPower
    <3>4. v = x * u /\ w = y * u /\ v <= m /\ m < w
      BY <1>4, <1>6, <3>1, <3>2, <3>3
    <3> HIDE DEF u, v, w, x, y, m, n
    <3>5. m \div u \in Int /\ 0 <= m \div u /\ m \div u < y
      BY <1>3, <1>8, <3>2, <3>4, QuotientBelow
    <3>6. x <= m \div u
      BY <1>3, <1>8, <3>2, <3>4, FloorAtLeast
    <3> QED
      BY <3>1, <3>5, <3>6
  <2> QED
    BY <2>1, <2>2
<1>10. power' \in Int /\ power' + DivisorBits + floatType.decimals >= 0
  BY <1>1, <1>2, <1>4, <1>5
<1>11. /\ UNCHANGED <<format, floatType, precision, DivisorBits, K>>
       /\ (2 ^ (K - 1))' = x /\ (2 ^ K)' = y
  BY <1>1 DEF format, floatType, precision, DivisorBits, K, Five
<1>12. PowerBound'
  BY <1>10, <1>11 DEF PowerBound
<1>13. FloatCalled'
  BY <1>1 DEF FloatInv, FloatCalled, format, floatType, EF!Patterns, EF!Top, EF!FractionBits
<1> QED
  BY <1>1, <1>9, <1>11, <1>12, <1>13 DEF FloatInv, From, To

\* The quotient has the bits the format keeps and one or two more.
LEMMA QuotientBits ==
  ASSUME FloatingAssumption, FloatInv, To("divide")
  PROVE  /\ numerator \div Five \in Nat
         /\ 2 ^ precision <= numerator \div Five
         /\ numerator \div Five < 2 ^ (precision + 2)
<1> DEFINE n == numerator
           f == Five
           p == precision
           bs == DivisorBits
           x == 2 ^ p
           y == 2 ^ (p + 2)
           u == 2 ^ bs
           v == 2 ^ (bs - 1)
<1>1. /\ Exponentiation /\ p \in Nat /\ f \in Nat /\ f > 0
      /\ bs \in Nat /\ bs > 0 /\ v <= f /\ f < u
      /\ K = p + 1 + bs
  BY EgressSizes DEF FloatInv, To
<1>2. n \in Nat /\ 2 ^ (K - 1) <= n /\ n < 2 ^ K
  BY DEF FloatInv
<1>3. /\ p + bs = K - 1 /\ (p + 2) + (bs - 1) = K
      /\ bs - 1 \in Nat /\ p + 2 \in Nat
  BY <1>1
<1>4. x \in Nat /\ u \in Nat /\ 2 ^ (p + bs) = x * u
  BY <1>1, BinaryPower
<1>5. y \in Nat /\ v \in Nat /\ 2 ^ ((p + 2) + (bs - 1)) = y * v
  <2> DEFINE i == p + 2
             j == bs - 1
  <2>1. i \in Nat /\ j \in Nat
    BY <1>3
  <2> HIDE DEF i, j
  <2>2. 2 ^ i \in Nat /\ 2 ^ j \in Nat /\ 2 ^ (i + j) = 2 ^ i * 2 ^ j
    BY <1>1, <2>1, BinaryPower
  <2> QED
    BY <2>2 DEF i, j
<1>6. x * u <= n /\ n < y * v
  BY <1>2, <1>3, <1>4, <1>5
<1> HIDE DEF n, f, x, y, u, v
<1>7. x * f <= x * u /\ y * v <= y * f /\ x * f \in Nat /\ x * u \in Nat /\ y * v \in Nat
      /\ y * f \in Nat
  BY <1>1, <1>4, <1>5
<1>8. x * f <= n /\ n < y * f
  BY <1>2, <1>6, <1>7 DEF n
<1>9. n \div f \in Int /\ 0 <= n \div f /\ n \div f < y
  BY <1>1, <1>2, <1>5, <1>8, QuotientBelow DEF n
<1>10. x <= n \div f
  BY <1>1, <1>2, <1>4, <1>8, FloorAtLeast DEF n
<1> QED
  BY <1>9, <1>10 DEF n, f, x, y

\* A division by the divisor itself takes the quotient to the rounding.
LEMMA QuotientInv ==
  ASSUME FloatingAssumption, FloatInv, To("divide"),
         NEW remains, Quotient(numerator \div Five, remains)
  PROVE  FloatInv'
<1>1. /\ floatRequest.op = "to_float" /\ floatStage' = "round"
      /\ UNCHANGED <<floatRequest, power>>
      /\ floatQuotient' = numerator \div Five
  BY DEF Quotient, To
<1>2. /\ floatQuotient' \in Nat
      /\ 2 ^ precision <= floatQuotient' /\ floatQuotient' < 2 ^ (precision + 2)
  BY <1>1, QuotientBits
<1>3. PowerBound
  BY DEF FloatInv
<1>4. /\ UNCHANGED <<format, floatType, precision, DivisorBits, power>>
      /\ (2 ^ precision)' = 2 ^ precision /\ (2 ^ (precision + 2))' = 2 ^ (precision + 2)
  BY <1>1 DEF format, floatType, precision, DivisorBits, Five
<1>5. PowerBound'
  BY <1>3, <1>4 DEF PowerBound
<1>6. FloatCalled'
  BY <1>1 DEF FloatInv, FloatCalled, format, floatType, EF!Patterns, EF!Top, EF!FractionBits
<1> QED
  BY <1>1, <1>2, <1>4, <1>5, <1>6 DEF FloatInv, From, To

\* A limb's product with the carry from the limbs below it.
LEMMA CarriedProduct ==
  ASSUME NEW bs \in Nat, bs > 0, NEW x \in Nat, NEW rc \in Nat, NEW c \in Nat
  PROVE  /\ x \div bs \in Nat /\ x % bs \in Nat
         /\ (x \div bs) * rc + ((x % bs) * rc + c) \div bs = (x * rc + c) \div bs
<1> DEFINE h == x \div bs
           l == x % bs
           t == l * rc + c
           qt == t \div bs
           s == t % bs
<1>1. h \in Int /\ l \in Int /\ x = h * bs + l /\ 0 <= l /\ l < bs
  BY DivMod
<1>2. 0 <= h
  BY FloorAtLeast
<1> HIDE DEF h, l
<1>3. l * rc \in Nat /\ t \in Nat
  BY <1>1
<1> HIDE DEF t
<1>4. qt \in Int /\ s \in Int /\ t = qt * bs + s /\ 0 <= s /\ s < bs
  BY <1>3, DivMod
<1> HIDE DEF qt, s
<1>5. x * rc + c = (h * rc + qt) * bs + s
  <2>1. x * rc + c = (h * bs + l) * rc + c
    BY <1>1
  <2>2. (h * bs + l) * rc = (h * rc) * bs + l * rc
    BY <1>1
  <2>3. (h * rc + qt) * bs = (h * rc) * bs + qt * bs
    BY <1>1, <1>4
  <2>4. (h * rc) * bs \in Int /\ l * rc \in Int /\ qt * bs \in Int
    BY <1>1, <1>4
  <2>5. l * rc + c = qt * bs + s
    BY <1>4 DEF t
  <2> HIDE DEF t
  <2> QED
    BY <1>4, <2>1, <2>2, <2>3, <2>4, <2>5
<1>6. x * rc + c \in Int /\ h * rc + qt \in Int
  BY <1>1, <1>4
<1>7. (x * rc + c) \div bs = h * rc + qt
  <2> DEFINE v == x * rc + c
             g == h * rc + qt
  <2>1. v \in Int /\ g \in Int /\ v = g * bs + s
    BY <1>5, <1>6
  <2> HIDE DEF v, g
  <2>2. v \div bs = g
    BY <1>4, <2>1, DivUnique
  <2> QED
    BY <2>2 DEF v, g
<1> QED
  BY <1>1, <1>2, <1>7 DEF h, l, qt, t

\* The product by the truncated reciprocal is the quotient or one less.
LEMMA TruncatedReciprocal ==
  ASSUME NEW m \in Nat, m > 0, NEW f \in Nat, f > 0, NEW n \in Nat, n < m
  PROVE  /\ (n * (m \div f)) \div m \in Nat
         /\ n \div f - (n * (m \div f)) \div m \in {0, 1}
<1> DEFINE rc == m \div f
           s == m % f
           qt == n \div f
           t == n % f
           e == (n * rc) \div m
<1>1. rc \in Int /\ s \in Int /\ m = rc * f + s /\ 0 <= s /\ s < f /\ 0 <= rc
  BY DivMod, FloorAtLeast
<1>2. qt \in Int /\ t \in Int /\ n = qt * f + t /\ 0 <= t /\ t < f /\ 0 <= qt
  BY DivMod, FloorAtLeast
<1> HIDE DEF rc, s, qt, t
<1>3. n * rc \in Nat
  BY <1>1
<1>4. e \in Int /\ 0 <= e
  BY <1>3, DivMod, FloorAtLeast
<1>5. (n * rc) * f = n * m - n * s
  <2>1. n * m = n * (rc * f) + n * s
    BY <1>1
  <2>2. n * (rc * f) = (n * rc) * f
    BY <1>1
  <2>3. n * m \in Int /\ n * s \in Int /\ (n * rc) * f \in Int
    BY <1>1, <1>3
  <2> QED
    BY <2>1, <2>2, <2>3
<1>6. 0 <= n * s /\ n * s \in Int /\ n * s <= m * f /\ m * f \in Int /\ n * m \in Int
  <2>1. n * s <= n * f /\ n * f <= m * f
    BY <1>1
  <2>2. n * s \in Int /\ n * f \in Int /\ m * f \in Int /\ n * m \in Int /\ 0 <= n * s
    BY <1>1
  <2> QED
    BY <2>1, <2>2
\* From above.
<1>7. e <= qt
  <2>1. ASSUME qt + 1 <= e PROVE FALSE
    <3>1. e * m <= n * rc /\ e * m \in Int
      <4> DEFINE dd == n * rc
      <4>1. dd \in Int /\ dd = e * m + (dd % m) /\ dd % m >= 0 /\ dd % m \in Int
        BY <1>3, DivMod
      <4>2. e * m \in Int
        BY <1>4
      <4> HIDE DEF dd, e
      <4> QED
        BY <4>1, <4>2 DEF dd
    <3> HIDE DEF e
    <3>2. (e * m) * f <= (n * rc) * f /\ (e * m) * f \in Int
      BY <1>3, <3>1
    <3>3. (e * m) * f = (e * f) * m
      BY <1>4
    <3>4. (e * f) * m <= n * m
      BY <1>3, <1>5, <1>6, <3>2, <3>3
    <3>5. /\ (qt + 1) * f <= e * f /\ (qt + 1) * f = qt * f + f
          /\ e * f \in Int /\ qt * f \in Int
      BY <1>2, <1>4, <2>1
    <3>6. n < e * f
      BY <1>2, <3>5
    <3> DEFINE z == e * f
    <3>7. z \in Int /\ n < z /\ z * m <= n * m
      BY <3>4, <3>5, <3>6
    <3> HIDE DEF z
    <3>8. n * m + m <= z * m /\ z * m \in Int
      BY <3>7, MultipleOrder
    <3> QED
      BY <1>6, <3>7, <3>8
  <2> HIDE DEF e
  <2> QED
    BY <1>2, <1>4, <2>1
\* And from below.
<1>8. qt - 1 <= e
  <2>1. ((qt - 1) * m) * f <= (n * rc) * f
    <3>1. ((qt - 1) * m) * f = (qt * f) * m - m * f /\ (qt * f) * m \in Int
      BY <1>2
    <3>2. qt * f <= n /\ qt * f \in Int
      BY <1>2
    <3> DEFINE z == qt * f
    <3> HIDE DEF z
    <3>3. z * m <= n * m /\ z * m \in Int
      BY <3>2 DEF z
    <3> QED
      BY <1>5, <1>6, <3>1, <3>3 DEF z
  <2>2. (qt - 1) * m <= n * rc
    <3> DEFINE dd == (qt - 1) * m
               c == n * rc
    <3>1. dd \in Int /\ c \in Int /\ dd * f <= c * f
      BY <1>2, <1>3, <2>1
    <3> HIDE DEF dd, c
    <3>2. ASSUME c < dd PROVE FALSE
      <4>1. c * f + f <= dd * f
        BY <3>1, <3>2, MultipleOrder
      <4>2. c * f \in Int /\ dd * f \in Int
        BY <3>1
      <4> QED
        BY <3>1, <4>1, <4>2
    <3>3. dd <= c
      BY <3>1, <3>2
    <3> QED
      BY <3>3 DEF dd, c
  <2> DEFINE k == qt - 1
             c == n * rc
  <2>3. k \in Int /\ k * m <= c /\ c \in Int
    BY <1>2, <1>3, <2>2
  <2> HIDE DEF k, c
  <2>4. k <= c \div m
    BY <2>3, FloorAtLeast
  <2> QED
    BY <2>4 DEF k, c
<1> QED
  <2> HIDE DEF e
  <2>1. qt - e \in {0, 1}
    BY <1>2, <1>4, <1>7, <1>8
  <2> QED
    BY <1>4, <2>1 DEF e, qt, rc

\* The reciprocal has no more bits than the quotient, for an odd divisor is no
\* power of two.
LEMMA ReciprocalBits ==
  ASSUME FloatingAssumption, FloatInv, To("divide"), floatType.decimals # 0
  PROVE  Reciprocal \in Nat /\ Reciprocal < 2 ^ (precision + 2)
<1> DEFINE f == Five
           p == precision
           bs == DivisorBits
           y == 2 ^ (p + 2)
           v == 2 ^ (bs - 1)
           m == 2 ^ K
<1>1. /\ Exponentiation /\ p \in Nat /\ f \in Nat /\ f > 0
      /\ bs \in Nat /\ bs > 0 /\ v <= f /\ f < 2 ^ bs
      /\ K = p + 1 + bs /\ K \in Nat /\ f >= 5 /\ f % 2 = 1
  BY EgressSizes DEF FloatInv, To
<1>2. (p + 2) + (bs - 1) = K /\ bs - 1 \in Nat /\ p + 2 \in Nat
  BY <1>1
<1>3. y \in Nat /\ v \in Nat /\ m = y * v
  <2> DEFINE i == p + 2
             j == bs - 1
  <2>1. i \in Nat /\ j \in Nat
    BY <1>2
  <2> HIDE DEF i, j
  <2>2. 2 ^ i \in Nat /\ 2 ^ j \in Nat /\ 2 ^ (i + j) = 2 ^ i * 2 ^ j
    BY <1>1, <2>1, BinaryPower
  <2> QED
    BY <1>2, <2>2 DEF i, j
<1>4. y > 0 /\ m \in Nat
  BY <1>1, <1>2, BinaryPower
<1>5. v < f
  <2>1. CASE bs = 1
    <3>1. f < 2 ^ 1 /\ 2 ^ (0 + 1) = 2 * 2 ^ 0 /\ 2 ^ 0 = 1
      BY <1>1, <2>1 DEF Exponentiation
    <3> QED
      BY <1>1, <3>1
  <2>2. CASE bs # 1
    <3> DEFINE j == bs - 2
               u == 2 ^ j
    <3>1. j \in Nat /\ j + 1 = bs - 1
      BY <1>1, <2>2
    <3>2. u \in Nat /\ 2 ^ (j + 1) = 2 * u
      <4> HIDE DEF j
      <4> QED
        BY <1>1, <3>1, BinaryPower
    <3>3. v = 2 * u
      BY <3>1, <3>2
    <3> HIDE DEF u, v, f
    <3>4. v % 2 = 0
      BY <3>2, <3>3
    <3>5. v # f
      BY <1>1, <3>4
    <3> QED
      BY <1>1, <1>3, <3>5
  <2> QED
    BY <2>1, <2>2
<1> HIDE DEF y, v, m, f
<1>6. m < y * f
  <2>1. y * v + y <= y * f /\ y * v \in Int /\ y * f \in Int
    <3>1. v * y + y <= f * y
      BY <1>1, <1>3, <1>4, <1>5, MultipleOrder
    <3> QED
      BY <1>1, <1>3, <3>1
  <2> QED
    BY <1>3, <1>4, <2>1
<1>7. m \div f \in Int /\ 0 <= m \div f /\ m \div f < y
  BY <1>1, <1>3, <1>4, <1>6, QuotientBelow
<1> QED
  BY <1>7 DEF Reciprocal, m, f, y

\* What the four ways to take the product are about: sizes in words.
LEMMA EstimateSizes ==
  ASSUME FloatingAssumption, FloatInv, To("divide"), ByReciprocal
  PROVE  /\ Exponentiation /\ WordWidth \in Nat /\ WordWidth >= 4
         /\ precision \in Nat /\ precision + 2 <= 2 * WordWidth
         /\ K \in Nat /\ K > WordWidth /\ K < 4 * WordWidth
         /\ precision + 2 <= WordWidth => K < 3 * WordWidth
         /\ numerator \in Nat /\ numerator < 2 ^ K
         /\ Reciprocal \in Nat /\ Reciprocal < 2 ^ (precision + 2)
         /\ Five \in Nat /\ Five > 0 /\ 2 * Five < 2 ^ (2 * WordWidth)
         /\ (numerator * Reciprocal) \div 2 ^ K \in Nat
         /\ numerator \div Five - (numerator * Reciprocal) \div 2 ^ K \in {0, 1}
         /\ (numerator * Reciprocal) \div 2 ^ K < 2 ^ (precision + 2)
<1>1. /\ Exponentiation /\ WordWidth \in Nat /\ WordWidth >= 4
      /\ precision \in Nat /\ precision + 2 <= 2 * WordWidth
      /\ K \in Nat /\ K < 4 * WordWidth
      /\ K = precision + 1 + DivisorBits
      /\ DivisorBits \in Nat /\ DivisorBits < 2 * WordWidth
      /\ Five \in Nat /\ Five > 0 /\ 2 * Five < 2 ^ (2 * WordWidth)
  BY EgressSizes DEF FloatInv, To
<1>2. K > WordWidth /\ floatType.decimals # 0
  BY <1>1 DEF ByReciprocal, OneWord
<1>3. numerator \in Nat /\ numerator < 2 ^ K
  BY DEF FloatInv
<1>4. Reciprocal \in Nat /\ Reciprocal < 2 ^ (precision + 2)
  BY <1>2, ReciprocalBits
<1>5. 2 ^ K \in Nat /\ 2 ^ K > 0
  BY <1>1, BinaryPower
<1>6. /\ (numerator * Reciprocal) \div 2 ^ K \in Nat
      /\ numerator \div Five - (numerator * Reciprocal) \div 2 ^ K \in {0, 1}
  <2> DEFINE m == 2 ^ K
             f == Five
             n == numerator
  <2>1. m \in Nat /\ m > 0 /\ f \in Nat /\ f > 0 /\ n \in Nat /\ n < m
    BY <1>1, <1>3, <1>5
  <2> HIDE DEF m, f, n
  <2>2. (n * (m \div f)) \div m \in Nat /\ n \div f - (n * (m \div f)) \div m \in {0, 1}
    BY <2>1, TruncatedReciprocal
  <2> QED
    BY <2>2 DEF m, f, n, Reciprocal
<1>7. (numerator * Reciprocal) \div 2 ^ K < 2 ^ (precision + 2)
  <2> DEFINE e == (numerator * Reciprocal) \div 2 ^ K
             qt == numerator \div Five
             y == 2 ^ (precision + 2)
  <2>1. qt \in Nat /\ qt < y
    BY QuotientBits
  <2>2. y \in Nat
    BY <1>1, BinaryPower
  <2>3. e \in Nat /\ qt - e \in {0, 1}
    BY <1>6
  <2> HIDE DEF e, qt, y
  <2>4. e < y
    BY <2>1, <2>2, <2>3
  <2> QED
    BY <2>4 DEF e, y
<1>8. precision + 2 <= WordWidth => K < 3 * WordWidth
  BY <1>1
<1> QED
  BY <1>1, <1>2, <1>3, <1>4, <1>6, <1>7, <1>8

\* The limbs of a number, by halves and by words.
LEMMA WordsOf ==
  ASSUME Exponentiation, WordWidth \in Nat, NEW x \in Nat
  PROVE  /\ WordAt(x, 0) = x % 2 ^ WordWidth
         /\ WordAt(x, 1) = (x \div 2 ^ WordWidth) % 2 ^ WordWidth
         /\ WordAt(x, 2) = (x \div (2 ^ WordWidth * 2 ^ WordWidth)) % 2 ^ WordWidth
         /\ 2 ^ (2 * WordWidth) = 2 ^ WordWidth * 2 ^ WordWidth
         /\ 2 ^ WordWidth \in Nat /\ 2 ^ WordWidth > 0
<1> DEFINE w == WordWidth
<1>1. w \in Nat /\ 0 * w = 0 /\ 1 * w = w /\ 2 * w = w + w
  OBVIOUS
<1>2. 2 ^ 0 = 1 /\ 2 ^ w \in Nat /\ 2 ^ w > 0 /\ 2 ^ (w + w) = 2 ^ w * 2 ^ w
  BY <1>1, BinaryPower
<1>3. 2 ^ (0 * w) = 1 /\ 2 ^ (1 * w) = 2 ^ w /\ 2 ^ (2 * w) = 2 ^ w * 2 ^ w
  BY <1>1, <1>2
<1>4. x \div 1 = x
  OBVIOUS
<1> QED
  BY <1>2, <1>3, <1>4 DEF WordAt

\* Every way of taking the product gives its quotient by the power of two.
LEMMA EstimateIs ==
  ASSUME FloatingAssumption, FloatInv, To("divide"), ByReciprocal
  PROVE  Estimate = (numerator * Reciprocal) \div 2 ^ K
<1> DEFINE w == WordWidth
           bs == 2 ^ w
           bb == 2 ^ (2 * w)
           n == numerator
           rc == Reciprocal
           p == precision
           e == (n * rc) \div 2 ^ K
<1>1. /\ Exponentiation /\ w \in Nat /\ w >= 2 /\ p \in Nat /\ p + 2 <= 2 * w
      /\ K \in Nat /\ K > w /\ K < 4 * w
      /\ p + 2 <= w => K < 3 * w
      /\ n \in Nat /\ n < 2 ^ K
      /\ rc \in Nat /\ rc < 2 ^ (p + 2)
      /\ e \in Nat /\ e < 2 ^ (p + 2)
  BY EstimateSizes
<1>2. /\ WordAt(n, 0) = n % bs /\ WordAt(n, 1) = (n \div bs) % bs
      /\ WordAt(n, 2) = (n \div (bs * bs)) % bs
      /\ bb = bs * bs /\ bs \in Nat /\ bs > 0
  BY <1>1, WordsOf
<1>3. n * rc \in Nat /\ p + 2 \in Nat /\ 2 * w \in Nat /\ bb \in Nat /\ bb > 0
  BY <1>1, <1>2, BinaryPower
<1>4. /\ n \div bs \in Nat /\ n % bs \in Nat
      /\ (n \div bs) * rc + ((n % bs) * rc) \div bs = (n * rc) \div bs
      /\ (n * rc) \div bs \in Nat
  <2> HIDE DEF bs, n, rc
  <2>1. /\ n \div bs \in Nat /\ n % bs \in Nat
        /\ (n \div bs) * rc + ((n % bs) * rc + 0) \div bs = (n * rc + 0) \div bs
    BY <1>1, <1>2, CarriedProduct
  <2>2. (n % bs) * rc \in Nat /\ (n % bs) * rc + 0 = (n % bs) * rc /\ n * rc + 0 = n * rc
    BY <1>1, <1>3, <2>1
  <2>3. (n * rc) \div bs \in Nat
    <3> DEFINE c == n * rc
    <3> HIDE DEF c
    <3>1. c \div bs \in Int /\ 0 <= c \div bs
      BY <1>2, <1>3, DivMod, FloorAtLeast DEF c
    <3> QED
      BY <3>1 DEF c
  <2> QED
    BY <2>1, <2>2, <2>3
\* A product shifted by part of the width, then by the rest.
<1>5. ASSUME NEW i \in Nat, i <= K
      PROVE  ((n * rc) \div 2 ^ i) \div 2 ^ (K - i) = e
  <2> DEFINE j == K - i
             x == 2 ^ i
             y == 2 ^ j
             c == n * rc
  <2>1. j \in Nat /\ i + j = K
    BY <1>1, <1>5
  <2>2. x \in Nat /\ x > 0 /\ y \in Nat /\ y > 0 /\ 2 ^ (i + j) = x * y
    <3> HIDE DEF j
    <3> QED
      BY <1>1, <2>1, BinaryPower
  <2> HIDE DEF x, y, c
  <2>3. c \div (y * x) = (c \div x) \div y
    BY <1>3, <2>2, SplitByProduct DEF c
  <2>4. 2 ^ K = y * x
    BY <2>1, <2>2
  <2> QED
    BY <2>3, <2>4 DEF c, x, y
\* The estimate itself is cut to words that hold it.
<1>6. ASSUME NEW i \in Nat, p + 2 <= i PROVE e % 2 ^ i = e
  <2>1. e < 2 ^ i
    BY <1>1, <1>3, <1>6, MoreBits
  <2>2. 2 ^ i \in Nat
    BY <1>1, BinaryPower
  <2> HIDE DEF e
  <2> QED
    BY <1>1, <2>1, <2>2, RemainderOfSmall
<1>7. CASE p + 2 <= w /\ K <= 2 * w
  <2>1. Estimate = Two(n, rc % bs) \div 2 ^ (K - w)
    BY <1>1, <1>7 DEF Estimate
  <2>2. rc % bs = rc
    <3>1. rc < bs
      BY <1>1, <1>3, <1>7, MoreBits
    <3> HIDE DEF rc, bs
    <3> QED
      BY <1>1, <1>2, <3>1, RemainderOfSmall
  <2>3. n \div bs < bs
    <3>1. n < bb
      BY <1>1, <1>3, <1>7, MoreBits
    <3> HIDE DEF n, bs, bb
    <3> QED
      BY <1>1, <1>2, <3>1, QuotientBelow
  <2>4. (n \div bs) % bs = n \div bs
    <3> DEFINE h == n \div bs
    <3>1. h \in Nat /\ h < bs
      BY <1>4, <2>3
    <3> HIDE DEF h, bs
    <3> QED
      BY <1>2, <3>1, RemainderOfSmall DEF h
  <2>5. Two(n, rc % bs) = (n * rc) \div bs
    BY <1>2, <1>4, <2>2, <2>4 DEF Two
  <2>6. w <= K
    BY <1>1
  <2> QED
    BY <1>1, <1>5, <2>1, <2>5, <2>6
<1>8. CASE p + 2 <= w /\ K > 2 * w
  <2>1. Estimate = (Three(n, rc % bs) \div 2 ^ (K - 2 * w)) % bs
    BY <1>1, <1>8 DEF Estimate
  <2>2. rc % bs = rc
    <3>1. rc < bs
      BY <1>1, <1>3, <1>8, MoreBits
    <3> HIDE DEF rc, bs
    <3> QED
      BY <1>1, <1>2, <3>1, RemainderOfSmall
  <2> DEFINE h == n \div bs
             g == h \div bs
             c == ((n % bs) * rc) \div bs
  <2>3. h \in Nat /\ c \in Nat
    <3>1. (n % bs) * rc \in Nat
      BY <1>1, <1>4
    <3> DEFINE z == (n % bs) * rc
    <3> HIDE DEF z
    <3>2. z \div bs \in Int /\ 0 <= z \div bs
      BY <1>2, <3>1, DivMod, FloorAtLeast DEF z
    <3> QED
      BY <1>4, <3>2 DEF z
  <2>4. n \div (bs * bs) = g
    <3> HIDE DEF n, bs
    <3> QED
      BY <1>1, <1>2, SplitByProduct
  <2>5. g \in Nat /\ h % bs \in Nat
        /\ g * rc + ((h % bs) * rc + c) \div bs = (h * rc + c) \div bs
    <3> HIDE DEF h, bs, c, rc
    <3> QED
      BY <1>1, <1>2, <2>3, CarriedProduct
  <2>6. g < bs
    <3>1. 3 * w = w + 2 * w
      BY <1>1
    <3>2. 2 ^ (w + 2 * w) = bs * bb
      BY <1>1, <1>3, BinaryPower
    <3>3. K <= 3 * w /\ 3 * w \in Nat
      BY <1>1, <1>8
    <3>4. n < 2 ^ (3 * w)
      BY <1>1, <3>3, MoreBits
    <3>5. n < bs * bb
      BY <3>1, <3>2, <3>4
    <3> HIDE DEF n, bs, bb
    <3>6. n \div bb < bs
      BY <1>1, <1>2, <1>3, <3>5, QuotientBelow
    <3> QED
      BY <1>2, <2>4, <3>6
  <2>7. g % bs = g
    <3> HIDE DEF g, bs
    <3> QED
      BY <1>2, <2>5, <2>6, RemainderOfSmall
  <2>8. Three(n, rc % bs) = g * rc + ((h % bs) * rc + c) \div bs
    BY <1>2, <2>2, <2>4, <2>7 DEF Three
  <2>9. h * rc + c = (n * rc) \div bs
    BY <1>4
  <2>10. Three(n, rc % bs) = ((n * rc) \div bs) \div bs
    BY <2>5, <2>8, <2>9
  <2>11. ((n * rc) \div bs) \div bs = (n * rc) \div bb
    <3> DEFINE z == n * rc
    <3> HIDE DEF z, bs, bb
    <3>1. z \div (bs * bs) = (z \div bs) \div bs
      BY <1>2, <1>3, SplitByProduct DEF z
    <3> QED
      BY <1>2, <3>1 DEF z
  <2>12. 2 * w <= K
    BY <1>1, <1>8
  <2>13. ((n * rc) \div 2 ^ (2 * w)) \div 2 ^ (K - 2 * w) = e
    BY <1>3, <1>5, <2>12
  <2>14. e % 2 ^ w = e
    BY <1>1, <1>6, <1>8
  <2> QED
    BY <2>1, <2>10, <2>11, <2>13, <2>14
<1>9. CASE p + 2 > w /\ K + p + 2 <= 4 * w
  <2> DEFINE m == 2 ^ (4 * w)
  <2>1. Estimate = (((n * rc) % m) \div 2 ^ K) % bb
    BY <1>1, <1>9 DEF Estimate
  <2>2. n * rc < m
    <3>1. K + (p + 2) <= 4 * w /\ 4 * w \in Nat
      BY <1>1, <1>9
    <3>2. 2 ^ (p + 2) \in Nat
      BY <1>1, <1>3, BinaryPower
    <3>3. rc <= 2 ^ (p + 2)
      BY <1>1, <3>2
    <3> DEFINE j == p + 2
               l == 4 * w
    <3>4. j \in Nat /\ l \in Nat /\ K + j <= l /\ rc <= 2 ^ j
      BY <1>3, <3>1, <3>3
    <3> HIDE DEF j, l
    <3>5. n * rc < 2 ^ l
      BY <1>1, <3>4, BitsWithin
    <3> QED
      BY <3>5 DEF l
  <2>3. (n * rc) % m = n * rc
    <3> DEFINE z == n * rc
    <3>1. m \in Nat
      BY <1>1, BinaryPower
    <3>2. z \in Nat /\ z < m
      BY <1>3, <2>2
    <3> HIDE DEF z, m
    <3>3. z % m = z
      BY <3>1, <3>2, RemainderOfSmall
    <3> QED
      BY <3>3 DEF z
  <2>4. e % bb = e
    BY <1>1, <1>3, <1>6
  <2> QED
    BY <2>1, <2>3, <2>4
<1>10. CASE p + 2 > w /\ ~(K + p + 2 <= 4 * w)
  <2>1. Estimate = (Halves(n, rc) \div 2 ^ (K - 2 * w)) % bb
    BY <1>1, <1>10 DEF Estimate
  <2>2. Halves(n, rc) = (n * rc) \div bb
    <3>1. Halves(n, rc) = (n \div bb) * rc + ((n % bb) * rc) \div bb
      BY DEF Halves
    <3> HIDE DEF n, rc, bb
    <3>2. /\ n % bb \in Nat
          /\ (n \div bb) * rc + ((n % bb) * rc + 0) \div bb = (n * rc + 0) \div bb
      BY <1>1, <1>3, CarriedProduct
    <3>3. (n % bb) * rc + 0 = (n % bb) * rc /\ n * rc + 0 = n * rc
      BY <1>1, <1>3, <3>2
    <3> QED
      BY <3>1, <3>2, <3>3
  <2>3. 2 * w <= K
    BY <1>1, <1>10
  <2>4. ((n * rc) \div 2 ^ (2 * w)) \div 2 ^ (K - 2 * w) = e
    BY <1>3, <1>5, <2>3
  <2>5. e % bb = e
    BY <1>1, <1>3, <1>6
  <2> QED
    BY <2>1, <2>2, <2>4, <2>5
<1>11. (p + 2 <= w \/ p + 2 > w) /\ (K <= 2 * w \/ K > 2 * w)
  BY <1>1
<1> QED
  BY <1>7, <1>8, <1>9, <1>10, <1>11

\* The low two words show what the estimate leaves.
LEMMA RemainderIs ==
  ASSUME FloatingAssumption, FloatInv, To("divide"), ByReciprocal
  PROVE  RemainderOf(Estimate) = numerator - Estimate * Five
<1> DEFINE m == 2 ^ (2 * WordWidth)
           n == numerator
           f == Five
           e == Estimate
           qt == n \div f
           d == n - e * f
<1>1. /\ m \in Nat /\ m > 0 /\ n \in Nat /\ f \in Nat /\ f > 0 /\ 2 * f < m
      /\ e \in Nat /\ qt - e \in {0, 1} /\ qt \in Nat
  <2>1. /\ Exponentiation /\ 2 * WordWidth \in Nat
        /\ n \in Nat /\ f \in Nat /\ f > 0 /\ 2 * f < m
        /\ e \in Nat /\ qt - e \in {0, 1}
    BY EstimateSizes, EstimateIs
  <2>2. m \in Nat /\ m > 0
    BY <2>1, BinaryPower
  <2>3. qt \in Nat
    BY QuotientBits
  <2> QED
    BY <2>1, <2>2, <2>3
<1>2. RemainderOf(e) = ((n % m) - (e * f)) % m
  BY DEF RemainderOf
<1> HIDE DEF m, n, f, e, qt
<1>3. d \in Int /\ 0 <= d /\ d < m
  <2> DEFINE t == n % f
  <2>1. t \in Int /\ n = qt * f + t /\ 0 <= t /\ t < f
    BY <1>1, DivMod DEF qt
  <2> HIDE DEF t
  <2>2. CASE qt = e
    BY <1>1, <2>1, <2>2
  <2>3. CASE qt = e + 1
    <3>1. qt * f = e * f + f /\ e * f \in Int
      BY <1>1, <2>3
    <3>2. d = t + f
      BY <1>1, <2>1, <3>1
    <3> QED
      BY <1>1, <2>1, <3>1, <3>2
  <2> QED
    BY <1>1, <2>2, <2>3
<1>4. ((n % m) - (e * f)) % m = d
  <2> DEFINE h == n \div m
             l == n % m
             dd == l - e * f
             g == -h
  <2>1. h \in Int /\ l \in Int /\ n = h * m + l
    BY <1>1, DivMod
  <2> HIDE DEF h, l
  <2>2. e * f \in Int /\ h * m \in Int
    BY <1>1, <2>1
  <2>3. g \in Int /\ dd \in Int /\ g * m = -(h * m)
    BY <1>1, <2>1, <2>2
  <2>4. dd = g * m + d
    BY <1>1, <2>1, <2>2, <2>3
  <2> HIDE DEF dd, g, d
  <2>5. dd % m = d
    BY <1>1, <1>3, <2>3, <2>4, DivUnique
  <2> QED
    BY <2>5 DEF dd, l
<1> QED
  BY <1>2, <1>4 DEF n, e, f

\* The correction makes the quotient of the estimate.
LEMMA DivideInv ==
  ASSUME FloatingAssumption, FloatInv, DivideFive \/ DivideEstimate PROVE FloatInv'
<1>1. To("divide")
  BY DEF DivideFive, DivideEstimate
<1>2. CASE DivideFive
  <2>1. Quotient(numerator \div Five, numerator % Five # 0)
    BY <1>2 DEF DivideFive
  <2> QED
    BY <1>1, <2>1, QuotientInv
<1>3. CASE DivideEstimate
  <2> DEFINE n == numerator
             f == Five
             e == Estimate
             qt == n \div f
             rc == RemainderOf(Estimate)
  <2>1. ByReciprocal /\ Quotient(e + RF!Indicator(rc >= f), rc # 0 /\ rc # f)
    BY <1>3 DEF DivideEstimate
  <2>2. rc = n - e * f
    BY <1>1, <2>1, RemainderIs
  <2>3. n \in Nat /\ f \in Nat /\ f > 0 /\ e \in Nat /\ qt - e \in {0, 1}
    BY <1>1, <2>1, EstimateSizes, EstimateIs
  <2>4. RF!Indicator(rc >= f) = (IF rc >= f THEN 1 ELSE 0)
    BY DEF RF!Indicator
  <2>5. qt = e + RF!Indicator(rc >= f)
    <3> DEFINE t == n % f
    <3> HIDE DEF n, f, e, rc
    <3>1. qt \in Int /\ t \in Int /\ n = qt * f + t /\ 0 <= t /\ t < f
      BY <2>3, DivMod
    <3> HIDE DEF qt, t
    <3>2. CASE qt = e
      <4>1. rc = t
        BY <2>2, <2>3, <3>1, <3>2
      <4> QED
        BY <2>3, <2>4, <3>1, <3>2, <4>1
    <3>3. CASE qt = e + 1
      <4>1. qt * f = e * f + f /\ e * f \in Int
        BY <2>3, <3>3
      <4>2. rc = t + f
        BY <2>2, <2>3, <3>1, <4>1
      <4> QED
        BY <2>3, <2>4, <3>1, <3>3, <4>2
    <3> QED
      BY <2>3, <3>1, <3>2, <3>3
  <2>6. Quotient(numerator \div Five, rc # 0 /\ rc # f)
    BY <2>1, <2>5
  <2> HIDE DEF rc, f
  <2> QED
    BY <1>1, <2>6, QuotientInv
<1> QED
  BY <1>2, <1>3

\* divq divides two words by one only where the quotient is one word.
LEMMA DivisorAboveHighWord ==
  ASSUME FloatingAssumption, FloatInv, To("divide"), ByInstruction
  PROVE  numerator \div 2 ^ WordWidth < Five
<1> DEFINE w == WordWidth
           c == DivisorBits - 1
           bs == 2 ^ w
           v == 2 ^ c
           n == numerator
           f == Five
<1>1. /\ Exponentiation /\ w \in Nat /\ precision \in Nat
      /\ DivisorBits \in Nat /\ DivisorBits > 0
      /\ v <= f /\ f \in Nat /\ K = precision + 1 + DivisorBits
  BY EgressSizes DEF FloatInv, To
<1>2. c \in Nat /\ K \in Nat /\ c + w \in Nat /\ K <= c + w
  BY <1>1 DEF ByInstruction
<1>3. n \in Nat /\ n < 2 ^ K
  BY DEF FloatInv
<1>4. v \in Nat /\ bs \in Nat /\ bs > 0 /\ 2 ^ (c + w) = v * bs
  <2> HIDE DEF c
  <2> QED
    BY <1>1, <1>2, BinaryPower
<1>5. n < 2 ^ (c + w)
  <2> HIDE DEF c
  <2> QED
    BY <1>1, <1>2, <1>3, MoreBits
<1>6. n < v * bs
  BY <1>4, <1>5
<1> HIDE DEF n, v, bs, f
<1>7. v * bs <= f * bs /\ v * bs \in Int /\ f * bs \in Int
  BY <1>1, <1>4
<1>8. n < f * bs
  BY <1>3, <1>6, <1>7
<1>9. n \div bs < f
  BY <1>1, <1>3, <1>4, <1>8, QuotientBelow
<1> QED
  BY <1>9 DEF n, bs, f

\* A call names a pair and a value of the source's.
LEMMA FloatCallInv ==
  ASSUME FloatingAssumption, FloatInv, CallFloat PROVE FloatInv'
<1>1. floatStage' = "begin"
  BY DEF CallFloat
<1>2. FloatCalled'
  <2>1. CASE \E pair \in Ingress : \E float \in EF!Patterns(pair[1]), mode \in RF!Modes :
               floatRequest' = EF!FromFloat(float, pair[1], pair[2], mode)
    <3>1. PICK pair \in Ingress : \E float \in EF!Patterns(pair[1]), mode \in RF!Modes :
                 floatRequest' = EF!FromFloat(float, pair[1], pair[2], mode)
      BY <2>1
    <3>2. PICK float \in EF!Patterns(pair[1]), mode \in RF!Modes :
                 floatRequest' = EF!FromFloat(float, pair[1], pair[2], mode)
      BY <3>1
    <3>3. /\ floatRequest'.op = "from_float" /\ floatRequest'.format = pair[1]
          /\ floatRequest'.type = pair[2] /\ floatRequest'.float = float
      BY <3>2 DEF EF!FromFloat
    <3>4. format' = pair[1] /\ floatType' = pair[2]
      BY <3>3 DEF format, floatType
    <3>5. EF!Patterns(format)' = EF!Patterns(pair[1])
      BY <3>4 DEF EF!Patterns, EF!Top, EF!FractionBits
    <3> QED
      BY <3>2, <3>3, <3>4, <3>5 DEF FloatCalled
  <2>2. CASE \E pair \in Egress : \E raw \in EF!X(pair[2].bits)!Raws :
               floatRequest' = EF!ToFloat(raw, pair[2], pair[1])
    <3>1. PICK pair \in Egress : \E raw \in EF!X(pair[2].bits)!Raws :
                 floatRequest' = EF!ToFloat(raw, pair[2], pair[1])
      BY <2>2
    <3>2. PICK raw \in EF!X(pair[2].bits)!Raws :
                 floatRequest' = EF!ToFloat(raw, pair[2], pair[1])
      BY <3>1
    <3>3. /\ floatRequest'.op = "to_float" /\ floatRequest'.format = pair[1]
          /\ floatRequest'.type = pair[2] /\ floatRequest'.raw = raw
      BY <3>2 DEF EF!ToFloat
    <3>4. format' = pair[1] /\ floatType' = pair[2]
      BY <3>3 DEF format, floatType
    <3>5. raw \in -(2 ^ (pair[2].bits - 1)) .. 2 ^ (pair[2].bits - 1) - 1
      BY <3>2 DEF EF!X!Raws
    <3> QED
      BY <3>1, <3>3, <3>4, <3>5 DEF FloatCalled
  <2> QED
    BY <2>1, <2>2 DEF CallFloat
<1> QED
  BY <1>1, <1>2 DEF FloatInv, From, To

LEMMA FloatInitInv ==
  FloatInit => FloatInv
BY DEF FloatInit, FloatInv, FloatCalled, From, To, EF!NoRequest

LEMMA FloatNextInv ==
  ASSUME FloatingAssumption, FloatInv, [FloatNext]_floatVars PROVE FloatInv'
<1>1. CASE CallFloat
  BY <1>1, FloatCallInv
<1>2. CASE Decode
  BY <1>2, DecodeInv
<1>3. CASE ShiftLeft \/ ShiftRight \/ ShiftOut
  BY <1>3, ShiftInv
<1>4. CASE Normalise
  BY <1>4, NormaliseInv
<1>5. CASE DivideFive \/ DivideEstimate
  BY <1>5, DivideInv
<1>6. CASE ReturnFloat
  BY <1>6 DEF ReturnFloat, FloatInv, FloatCalled, From, To, EF!NoRequest
<1>7. ASSUME floatStage' = "answered", UNCHANGED floatRequest PROVE FloatInv'
  <2>1. FloatCalled'
    BY <1>7 DEF FloatInv, FloatCalled, format, floatType,
                EF!Patterns, EF!Top, EF!FractionBits
  <2> QED
    BY <1>7, <2>1 DEF FloatInv, From, To
<1>8. CASE RejectNoNumber \/ FromZero \/ ShiftOverflows \/ RoundFixed
             \/ KernelOverflows \/ KernelConvert \/ ToZero \/ RoundFloat
  <2>1. floatStage' = "answered" /\ UNCHANGED floatRequest
    BY <1>8 DEF RejectNoNumber, FromZero, ShiftOverflows, RoundFixed, KernelOverflows,
                KernelConvert, ToZero, RoundFloat, Fail, Reply
  <2> QED
    BY <1>7, <2>1
<1>9. CASE UNCHANGED floatVars
  <2>1. UNCHANGED <<floatStage, floatRequest, numerator, power, floatQuotient>>
    BY <1>9 DEF floatVars, floatState
  <2> QED
    BY <2>1 DEF FloatInv, FloatCalled, From, To, PowerBound, Width, ScaledBits, ScaleBits,
                precision, format, floatType, Five, K, DivisorBits,
                EF!Patterns, EF!Top, EF!FractionBits
<1> QED
  BY <1>1, <1>2, <1>3, <1>4, <1>5, <1>6, <1>8, <1>9 DEF FloatNext

\* What the invariant says of the widths.
LEMMA WidthsOfInv ==
  ASSUME FloatingAssumption, FloatInv PROVE WidthsSuffice
<1>1. ASSUME FromFast PROVE numerator * Five < 2 ^ Width /\ floatLimit < 2 ^ Width
  <2> DEFINE h == 2 ^ (floatType.bits - 1)
             m == 2 ^ Width
  <2>1. /\ numerator * Five < m /\ m \in Nat /\ h \in Nat /\ h < m
    BY <1>1, WidthHolds DEF FloatInv, FromFast, From
  <2>2. floatLimit \in {h, h - 1}
    <3>1. floatLimit = h - RF!Indicator(~floatNegative)
      BY DEF floatLimit
    <3>2. RF!Indicator(~floatNegative) \in {0, 1}
      BY DEF RF!Indicator
    <3> HIDE DEF h
    <3> QED
      BY <2>1, <3>1, <3>2
  <2> HIDE DEF h, m
  <2>3. floatLimit < m
    BY <2>1, <2>2
  <2> QED
    BY <2>1, <2>3 DEF m
<1>2. From("round") => floatQuotient < 2 ^ Width
  BY DEF FloatInv
<1>3. ASSUME To("divide") PROVE bit_width(numerator) = K /\ K <= 4 * WordWidth
  <2>1. Exponentiation /\ WordWidth \in Nat /\ K \in Nat /\ K < 4 * WordWidth
    BY <1>3, EgressSizes DEF FloatInv, To
  <2>2. numerator \in Nat /\ 2 ^ (K - 1) <= numerator /\ numerator < 2 ^ K
    BY <1>3 DEF FloatInv
  <2>3. 2 ^ (K - 1) \in Nat
    <3>1. K # 0
      BY <1>3, EgressSizes DEF FloatInv, To
    <3> QED
      BY <2>1, <3>1, BinaryPower
  <2>4. K \in 0 .. 4 * WordWidth /\ numerator >= 2 ^ (K - 1)
    BY <2>1, <2>2, <2>3
  <2> QED
    BY <2>1, <2>2, <2>4, BitWidthIs
<1>4. ASSUME To("round")
      PROVE  /\ bit_width(floatQuotient) - precision \in {1, 2}
             /\ 1 + Extra + Deep(power + Extra) < RoundWidth
  <2> DEFINE qt == floatQuotient
             p == precision
             w == WordWidth
             e == format.max_exponent
             x == 2 ^ p
             y == 2 ^ (p + 1)
             z == 2 ^ (p + 2)
  <2>1. /\ Exponentiation /\ w \in Nat /\ w >= 4 /\ p \in Nat /\ p + 2 <= 2 * w /\ e \in Nat
        /\ floatType.decimals \in Nat /\ DivisorBits \in Nat
        /\ DivisorBits + floatType.decimals <= e
    BY <1>4, EgressSizes DEF FloatInv, To
  <2>2. qt \in Nat /\ x <= qt /\ qt < z /\ PowerBound
    BY <1>4 DEF FloatInv
  <2>3. x \in Nat /\ y \in Nat
    BY <2>1, BinaryPower
  <2>4. /\ p + 1 \in 0 .. 4 * w /\ p + 2 \in 0 .. 4 * w
        /\ (p + 1) - 1 = p /\ (p + 2) - 1 = p + 1
    BY <2>1
  <2>5. bit_width(qt) \in {p + 1, p + 2}
    <3>1. CASE qt < y
      <4> DEFINE k == p + 1
      <4>1. k \in 0 .. 4 * w /\ qt < 2 ^ k /\ qt >= 2 ^ (k - 1)
        BY <2>2, <2>3, <2>4, <3>1
      <4> HIDE DEF k, qt
      <4>2. bit_width(qt) = k
        BY <2>1, <2>2, <4>1, BitWidthIs
      <4> QED
        BY <4>2 DEF k
    <3>2. CASE ~(qt < y)
      <4> DEFINE k == p + 2
      <4>1. k \in 0 .. 4 * w /\ qt < 2 ^ k /\ qt >= 2 ^ (k - 1)
        BY <2>2, <2>3, <2>4, <3>2
      <4> HIDE DEF k, qt
      <4>2. bit_width(qt) = k
        BY <2>1, <2>2, <4>1, BitWidthIs
      <4> QED
        BY <4>2 DEF k
    <3> QED
      BY <3>1, <3>2
  <2>6. Extra \in {0, 1}
    BY DEF Extra, RF!Indicator
  <2>7. power \in Int /\ power + e >= 0
    BY <2>1, <2>2 DEF PowerBound
  <2>8. min_exponent = 2 - e
    BY DEF min_exponent
  <2> DEFINE d == Deep(power + Extra)
  <2>9. d = 0 \/ d = min_exponent - (power + Extra)
    BY DEF Deep
  <2> HIDE DEF d
  <2>10. d \in Int /\ d <= 2 - Extra
    BY <2>1, <2>6, <2>7, <2>8, <2>9
  <2>11. 1 + Extra + d < RoundWidth
    <3>1. RoundWidth \in {w, 2 * w}
      BY DEF RoundWidth
    <3> QED
      BY <2>1, <2>6, <2>10, <3>1
  <2>12. bit_width(qt) - p \in {1, 2}
    BY <2>1, <2>5
  <2> QED
    BY <2>11, <2>12 DEF d
<1> QED
  BY <1>1, <1>2, <1>3, <1>4 DEF WidthsSuffice

\* And of the division.
LEMMA CorrectionOfInv ==
  ASSUME FloatingAssumption, FloatInv PROVE OneCorrectionIsEnough
<1>1. ASSUME To("divide"), ByReciprocal PROVE numerator \div Five - Estimate \in {0, 1}
  BY <1>1, EstimateSizes, EstimateIs
<1>2. ASSUME To("divide"), ByInstruction PROVE numerator \div 2 ^ WordWidth < Five
  BY <1>2, DivisorAboveHighWord
<1> QED
  BY <1>1, <1>2 DEF OneCorrectionIsEnough

\* WidthsSuffice for every format and type: no product and no shift of the fast
\* conversions between floats and fixed point leaves the width that from_float.hpp
\* and to_float.hpp choose from the types alone.
THEOREM FloatWidthsHold ==
  ASSUME FloatingAssumption
  PROVE  FloatSpec => []WidthsSuffice
<1>1. FloatInit => FloatInv
  BY FloatInitInv
<1>2. FloatInv /\ [FloatNext]_floatVars => FloatInv'
  BY FloatNextInv
<1>3. FloatInv => WidthsSuffice
  BY WidthsOfInv
<1> QED
  BY <1>1, <1>2, <1>3, PTL DEF FloatSpec

\* OneCorrectionIsEnough for every format and type: the product by the truncated
\* reciprocal in to_float_quotient is the quotient or one less, whichever words
\* it is taken in, and divq never traps.
THEOREM CorrectionHolds ==
  ASSUME FloatingAssumption
  PROVE  FloatSpec => []OneCorrectionIsEnough
<1>1. FloatInit => FloatInv
  BY FloatInitInv
<1>2. FloatInv /\ [FloatNext]_floatVars => FloatInv'
  BY FloatNextInv
<1>3. FloatInv => OneCorrectionIsEnough
  BY CorrectionOfInv
<1> QED
  BY <1>1, <1>2, <1>3, PTL DEF FloatSpec
=============================================================================
