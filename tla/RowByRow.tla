------------------------------ MODULE RowByRow ------------------------------
(***************************************************************************)
(* What a batch call promises (docs/batch.md): the effect of a plain loop  *)
(* that maps one row, commits it, and stops at the first row that fails.   *)
(* Rows before the failure are written, the rest is unchanged.             *)
(***************************************************************************)
EXTENDS Integers

CONSTANTS
  Elements,                \* what a cell can hold: positive integers
  MaxRows,                 \* the longest batch
  Limit,                   \* the running total must not exceed this
  Unmapped                 \* in place of the value, where the map fails

VARIABLES
  job,                     \* the call's commit and its map
  cells,                   \* input and output, exactly aliased
  total,                   \* the state a commit carries from row to row
  row,                     \* the next row to commit
  outcome

vars == <<job, cells, total, row, outcome>>

Kinds == {"transform", "reduce", "update"}
Jobs == [kind : Kinds, map : [Elements -> Elements \union {Unmapped}]]
Batches == UNION {[0 .. n - 1 -> Elements] : n \in 0 .. MaxRows}

NoJob == [kind |-> "none", map |-> <<>>]
NoCells == [i \in {} |-> 0]

Outcome(status, index) == [status |-> status, index |-> index]
Pending == Outcome("pending", 0)

Rows == DOMAIN cells
Mapped(i) == job.map[cells[i]]

\* Only a commit that carries a total can fail.
CommitFails(value) == job.kind # "transform" /\ total + value > Limit

Init ==
  /\ job = NoJob /\ cells = NoCells
  /\ total = 0 /\ row = 0
  /\ outcome = Pending

Call ==
  /\ job = NoJob
  /\ job' \in Jobs /\ cells' \in Batches
  /\ UNCHANGED <<total, row, outcome>>

\* "reduce" leaves the cells, "transform" has no total, "update" has both.
Accept ==
  /\ job # NoJob /\ outcome = Pending /\ row \in Rows
  /\ Mapped(row) # Unmapped /\ ~CommitFails(Mapped(row))
  /\ cells' = IF job.kind = "reduce" THEN cells ELSE [cells EXCEPT ![row] = Mapped(row)]
  /\ total' = IF job.kind = "transform" THEN total ELSE total + Mapped(row)
  /\ row' = row + 1
  /\ UNCHANGED <<job, outcome>>

Reject ==
  /\ job # NoJob /\ outcome = Pending /\ row \in Rows
  /\ \/ Mapped(row) = Unmapped /\ outcome' = Outcome("map error", row)
     \/ /\ Mapped(row) # Unmapped /\ CommitFails(Mapped(row))
        /\ outcome' = Outcome("commit error", row)
  /\ UNCHANGED <<job, cells, total, row>>

Finish ==
  /\ job # NoJob /\ outcome = Pending /\ row \notin Rows
  /\ outcome' = Outcome("success", row)
  /\ UNCHANGED <<job, cells, total, row>>

\* The caller takes the outcome.
Return ==
  /\ outcome # Pending
  /\ job' = NoJob /\ cells' = NoCells /\ total' = 0 /\ row' = 0
  /\ outcome' = Pending

Next == Call \/ Accept \/ Reject \/ Finish \/ Return

Spec == Init /\ [][Next]_vars /\ WF_vars(Accept \/ Reject \/ Finish)
=============================================================================
