------------------------------ MODULE MCDataModel ------------------------------
(* Three sources with lists of up to two items for TLC. *)
EXTENDS DataModel

MCRoles == {"title", "state"}
MCValues == {"a", "b"}

Item(v) == [role \in MCRoles |-> v]

\* Every kind of data: a list that grows, shrinks and changes, values that match the
\* expression, and neither; the item has fewer roles in one of them.
MCContents ==
    { [item |-> Item("a"), list |-> <<Item("a"), Item("b")>>, matching |-> <<>>],
      [item |-> Item("b"), list |-> <<Item("b")>>, matching |-> <<Item("b")>>],
      [item |-> [role \in {"title"} |-> "a"], list |-> NoList, matching |-> <<Item("a")>>],
      [item |-> Item("b"), list |-> <<>>, matching |-> <<>>] }

MCFilters == {{"a", "b", Blank}, {"a"}}

=============================================================================
