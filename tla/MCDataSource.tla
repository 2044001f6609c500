--------------------------- MODULE MCDataSource ---------------------------
(* Instances of DataSource, and of the engines, for TLC. *)
EXTENDS DataSource, TLC

\* Engines that keep to the contract of sourceRequestEvent
Contract == {"populates", "defers", "adds"}

Symmetry == Permutations(Visualizations) \union Permutations(Names)

=============================================================================
