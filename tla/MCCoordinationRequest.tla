----------------------- MODULE MCCoordinationRequest -----------------------
\* Coordination requests with interchangeable controllers, kinds and commands.
EXTENDS CoordinationRequest, TLC

Symmetry == Permutations(Controllers) \cup Permutations(Kinds) \cup Permutations(Commands)

=============================================================================
