----------------------------- MODULE MCResolution -----------------------------
(* A small instance of Resolution for TLC. *)
EXTENDS Resolution

\* Overlapping intervals of one key, and a card of other dimensions.
Terms == {[key |-> "any", from |-> 0, until |-> 3],
          [key |-> "any", from |-> 1, until |-> 4],
          [key |-> "region", from |-> 1, until |-> 3]}

\* A window that all intervals cover, with and without the region, and one
\* that only the second covers.
Windows == {[keys |-> {"any", "region"}, from |-> 1, until |-> 3],
            [keys |-> {"any"}, from |-> 1, until |-> 3],
            [keys |-> {"any"}, from |-> 2, until |-> 4]}
=============================================================================
