-------------------------- MODULE MCAssetBootstrap --------------------------
(* Instances of AssetBootstrap for TLC.                                    *)
EXTENDS AssetBootstrap, FiniteSets, TLC

\* Ids and creation threads are interchangeable.
Symmetry == Permutations(DownloadIds) \cup Permutations(InitThreads)

\* Bound: with both scans made, no more than two ids have been used.
FewDownloads == Cardinality({i \in DownloadIds : dm[i] # "none"}) <= 4 - scans

=============================================================================
