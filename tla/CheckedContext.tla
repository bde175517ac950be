--------------------------- MODULE CheckedContext ---------------------------
(***************************************************************************)
(* Checked of checked.hpp: a formula is evaluated step by step, every step *)
(* runs even after an earlier one has failed, a failed step yields zero,   *)
(* and the context keeps the first error.  The zero is a legal operand, so *)
(* the steps after a failure can fail too, with errors of their own.       *)
(*                                                                         *)
(* Each context carries the value of its formula so far.  `strict` is the  *)
(* same formula written with an early return after every step: the         *)
(* specification of what result() may publish.                             *)
(***************************************************************************)
EXTENDS ExactRounding

CONSTANTS
  Contexts,                \* the contexts of a program; copies are contexts
  MaxSteps                 \* bounds the length of a formula

\* The placeholder is a value of the type.
ASSUME PlaceholderAssumption == 0 \in Raws
ASSUME StepsAssumption == MaxSteps \in Nat

VARIABLES
  error_,                  \* the first error of each context, or "none"
  value,                   \* the last value of each context's formula
  strict,                  \* history: the early-return evaluation
  steps                    \* the number of steps each context has absorbed

contextVars == <<error_, value, strict, steps>>

ContextInit ==
  /\ error_ = [c \in Contexts |-> "none"]
  /\ value = [c \in Contexts |-> 0]
  /\ strict = [c \in Contexts |-> Result(0)]
  /\ steps = [c \in Contexts |-> 0]

\* Mutant: the last error is kept.
RecordLast(c, e) == error_' = [error_ EXCEPT ![c] = e]

\* record: only the first error is kept.
Record(c, e) ==
  error_' = IF error_[c] = "none" THEN [error_ EXCEPT ![c] = e] ELSE error_

\* take: the operation's value, or a value-initialised placeholder.
Take(c, result) ==
  /\ IF result.error = "none" THEN UNCHANGED error_ ELSE Record(c, result.error)
  /\ value' = [value EXCEPT ![c] = IF result.error = "none" THEN result.value ELSE 0]

\* The early-return program stops at its first error.
Continue(c, Op(_)) ==
  strict' = IF strict[c].error = "none"
              THEN [strict EXCEPT ![c] = Op(strict[c].value)] ELSE strict

\* Mutant: the formula is one step longer than its bound.
CountedPastBound(c) ==
  /\ steps[c] <= MaxSteps
  /\ steps' = [steps EXCEPT ![c] = @ + 1]

Counted(c) ==
  /\ steps[c] < MaxSteps
  /\ steps' = [steps EXCEPT ![c] = @ + 1]

\* c.add(v, x)
Add(c, x) ==
  /\ Counted(c)
  /\ LET Op(v) == OnGrid(v + x, 1, 1, "exact")
     IN Take(c, Op(value[c])) /\ Continue(c, Op)

\* c.div(x, v, rounding), which the placeholder makes a division by zero.
Div(c, x, rounding) ==
  /\ Counted(c)
  /\ LET Op(v) == OnGrid(x, v, 1, rounding)
     IN Take(c, Op(value[c])) /\ Continue(c, Op)

\* Mutant: a successful status clears the context.
TakeStatusClears(c, e) ==
  /\ Counted(c)
  /\ error_' = [error_ EXCEPT ![c] = e]
  /\ UNCHANGED <<value, strict>>

\* take(expected<void>): a status without a value.
TakeStatus(c, e) ==
  /\ Counted(c)
  /\ IF e = "none" THEN UNCHANGED error_ ELSE Record(c, e)
  /\ UNCHANGED value
  /\ LET Op(v) == IF e = "none" THEN Result(v) ELSE Error(e)
     IN Continue(c, Op)

\* A context is copyable, and copies are independent.
Copy(c, d) ==
  /\ error_' = [error_ EXCEPT ![d] = error_[c]]
  /\ value' = [value EXCEPT ![d] = value[c]]
  /\ strict' = [strict EXCEPT ![d] = strict[c]]
  /\ steps' = [steps EXCEPT ![d] = steps[c]]

\* result(value): never a value once a step has failed.
Published(c) == IF error_[c] = "none" THEN Result(value[c]) ELSE Error(error_[c])

ContextNext ==
  \E c \in Contexts :
    \/ \E x \in Raws : Add(c, x)
    \/ \E x \in Raws, rounding \in {"nearest_even", "exact"} : Div(c, x, rounding)
    \/ \E e \in {"none", "invalid_precision"} : TakeStatus(c, e)
    \/ \E d \in Contexts \ {c} : Copy(c, d)

ContextSpec == ContextInit /\ [][ContextNext]_contextVars

-----------------------------------------------------------------------------
(* Properties *)

Errors == {"overflow", "division_by_zero", "inexact", "invalid_precision"}

TypeOK ==
  /\ error_ \in [Contexts -> Errors \union {"none"}]
  /\ value \in [Contexts -> Raws]
  /\ strict \in [Contexts -> [error : Errors \union {"none"}, value : Raws]]
  /\ steps \in [Contexts -> 0 .. MaxSteps]

\* However long the formula runs on after a failure, what a context publishes
\* is what the early-return program returns: the same value, or the same error.
PublishesEarlyReturn == \A c \in Contexts : Published(c) = strict[c]

\* No step of a context clears or replaces its error, and no step of another
\* context changes it.
ErrorSticks ==
  [][\A c \in Contexts :
       error_[c] # "none" /\ error_'[c] # error_[c] =>
         \E d \in Contexts \ {c} : Copy(d, c)]_contextVars
=============================================================================
