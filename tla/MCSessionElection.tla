-------------------------- MODULE MCSessionElection --------------------------
(* Model-checking instances of SessionElection. *)
EXTENDS SessionElection, TLC

\* Operational clients are interchangeable, and so are observers.
Symmetry == Permutations(Clients \ Observers) \cup Permutations(Observers)

=============================================================================
