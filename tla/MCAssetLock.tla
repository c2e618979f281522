---------------------------- MODULE MCAssetLock ----------------------------
(* Instances of AssetLock for TLC. *)
EXTENDS AssetLock, TLC

\* Which of the numbers the file of the dead owner has makes no difference.
DeadOwnersFile == CHOOSE n \in Inodes : TRUE
MCInit == Init /\ owner[DeadOwnersFile] # None
MCFairSpec == MCInit /\ [][Next]_vars /\ Fairness

Interchangeable == Permutations(Processes) \cup Permutations(Inodes)
============================================================================
