----------------------------- MODULE MCSSCClient -----------------------------
(* Instances of SSCClient for TLC. *)
EXTENDS SSCClient

CONSTANTS a, b, c     \* three requests
CONSTANTS p           \* a path

\* All for one path: any line for it could pass for any answer.
OnePath == [r \in {a, b, c} |-> p]

\* The third is one token too long for an id, which just fits into the others.
AtTheLimit == [r \in {a, b, c} |-> IF r = c THEN 26 ELSE 25]

Short == [r \in {a, c} |-> 6]

=============================================================================
