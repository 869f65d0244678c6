----------------------------- MODULE CostLedger -----------------------------
(***************************************************************************)
(* What one calculation series promises its readers: results are appended  *)
(* whole, each once per identity, and each supersedes the one before it.   *)
(***************************************************************************)
EXTENDS Integers

CONSTANTS Inputs, Allocations, Keys, Instants

VARIABLE ledger   \* the results: [calculation, records]

\* The result of revision n, after the result before, if there is one.  Its
\* records link as CostCalculator links them: to the records of the result
\* before if one specification allocated both, and to nothing otherwise.
Result(n, input, allocation, at, before) ==
    [calculation |-> [revision |-> n, input |-> input, allocation |-> allocation,
                      at |-> at, supersedes |-> n - 1],
     records |-> {[revision |-> n, input |-> input, allocation |-> allocation, at |-> at,
                   key |-> key,
                   supersedes |-> IF \E e \in before : e.calculation.allocation = allocation
                                  THEN n - 1 ELSE 0] : key \in Keys[allocation]}]

Last == {e \in ledger : \A f \in ledger : f.calculation.revision =< e.calculation.revision}

Append(input, allocation, at) ==
    /\ \A e \in ledger : <<e.calculation.input, e.calculation.allocation>> # <<input, allocation>>
    /\ \/ ledger = {} /\ ledger' = {Result(1, input, allocation, at, {})}
       \/ \E e \in Last :
             ledger' = ledger \cup
                 {Result(e.calculation.revision + 1, input, allocation, at, {e})}

Init == ledger = {}
Next == \E input \in Inputs, allocation \in Allocations, at \in Instants :
            Append(input, allocation, at)

Spec == Init /\ [][Next]_ledger
=============================================================================
