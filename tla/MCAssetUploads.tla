--------------------------- MODULE MCAssetUploads ---------------------------
(* Two processes, of which one accepts fewer reservations, so that its commit is refused by  *)
(* what the other has planned meanwhile.                                                     *)
EXTENDS AssetUploads

CONSTANTS p1, p2

AssetSize == [a \in Assets |-> 1]
PendingLimits == [p \in Processes |-> IF p = p1 THEN 2 ELSE 1]

=============================================================================
