-------------------------- MODULE MCMatrixDelivery --------------------------
(* Instances of MatrixDelivery for TLC. *)
EXTENDS MatrixDelivery, TLC

CONSTANTS t1, t2, p1, p2, d1, d2, y1, y2

\* Payloads, devices and processes are interchangeable.
Symmetry ==
    {y @@ d @@ p : y \in Permutations(Payloads), d \in Permutations(Devices),
                   p \in Permutations(Processes)}
=============================================================================
