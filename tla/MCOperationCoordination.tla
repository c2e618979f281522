---------------------- MODULE MCOperationCoordination ----------------------
(* Small instances of OperationCoordination for TLC. *)
EXTENDS OperationCoordination, TLC
CONSTANTS r1, g1, e1

MCImportedClaim ==
  [t \in Imported |-> [resource |-> r1, generation |-> g1, epoch |-> e1, deadline |-> 1]]
MCSymmetry == Permutations(Invocations)
=============================================================================
