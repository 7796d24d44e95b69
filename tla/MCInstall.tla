----------------------------- MODULE MCInstall -----------------------------
EXTENDS InstallInvariant, TLC

Symmetry == Permutations(Owners) \cup Permutations(Versions)

\* Every root starts alike, with an empty store.
AlikeInit ==
    /\ Init
    /\ \A r, s \in Roots : tree[r] = tree[s] /\ marker[r] = marker[s]
    /\ storeTrees = {}

AlikeSpec == AlikeInit /\ [][Next]_vars

\* The project starts new or in agreement with its manifest.
SettledInit ==
    /\ AlikeInit
    /\ lock \in {None, manifest}
    /\ \A r \in Roots : tree[r] \in {None, manifest}

SettledSpec == SettledInit /\ [][Next]_vars

FairAlikeSpec == AlikeSpec /\ Fairness

\* Bound: no command waits while another one runs.
NoQueue == pc # "free" => \A w \in Waiting : plans[w] = None
=============================================================================
