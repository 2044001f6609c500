----------------------------- MODULE Subsequences -----------------------------
(* Queues and lists that lose some of their elements and keep the order of *)
(* the rest.                                                               *)
EXTENDS Naturals, Sequences

\* The elements of s at some places
Subsequence(s, places) ==
    LET upTo[n \in 0..Len(s)] ==
          IF n = 0 THEN <<>>
          ELSE IF n \in places THEN Append(upTo[n - 1], s[n]) ELSE upTo[n - 1]
    IN  upTo[Len(s)]

=============================================================================
