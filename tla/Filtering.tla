----------------------------- MODULE Filtering ------------------------------
(***************************************************************************)
(* The loops of the code that append to a new slice what they keep of an   *)
(* old one.                                                                *)
(***************************************************************************)
EXTENDS Naturals, Sequences

\* The elements of s that are in S, in their order.
Kept(s, S) ==
    LET upTo[n \in 0 .. Len(s)] ==
          IF n = 0 THEN << >>
          ELSE IF s[n] \in S THEN Append(upTo[n - 1], s[n])
          ELSE upTo[n - 1]
    IN  upTo[Len(s)]

=============================================================================
