--------------------------- MODULE MCSubmission ----------------------------
(* Small instances of Submission for TLC.                                  *)
EXTENDS Submission, TLC

CONSTANTS r1, r2, r3

Body(k, n, named, flagged) == [kind |-> k, n |-> n, named |-> named, flagged |-> flagged]

\* For the quota only the number of entries counts.
SizeBodies == {Body("single", 1, {}, {}), Body("batch", 2, {}, {})}

\* Every request that names an agent somewhere, and one that does not.
NamedBodies ==
    {Body("single", 1, named, {}) : named \in SUBSET {1}} \cup
    {Body("batch", 3, named, {}) : named \in SUBSET {1, 3}}

\* Requests whose first, last or all entries are flagged.
FlaggedBodies ==
    {Body("single", 1, {1}, {1})} \cup
    {Body("batch", 2, {2}, flagged) : flagged \in {{1}, {2}, {1, 2}}}

StorageBodies == NamedBodies \cup FlaggedBodies

\* Requests are interchangeable; only for runs without a liveness property.
Symmetric == Permutations(Requests)
=============================================================================
