-------------------------- MODULE MCContainerStorage --------------------------
(* The storage of a source for TLC: one value has no column in the database. *)
EXTENDS ContainerStorage

MCKeys == {1, 2}
MCValues == {"a", "b", "list"}
MCStorable == {"a", "b"}

=============================================================================
