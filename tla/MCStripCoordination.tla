------------------------ MODULE MCStripCoordination ------------------------
\* The strip's coordinations with interchangeable positions.
EXTENDS StripCoordination, TLC

PositionSymmetry == Permutations(Positions)

=============================================================================
