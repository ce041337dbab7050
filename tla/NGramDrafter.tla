---------------------------- MODULE NGramDrafter ----------------------------
(* NGramDrafter::lookup: the draft is what followed an earlier occurrence  *)
(* of the context's own last tokens.  No state.                            *)
EXTENDS Naturals, Sequences, FiniteSetsExt

(* Where the last k tokens of c occur earlier, with room for a token that  *)
(* does not overlap them; positions count from 0.                          *)
Matches(c, k) ==
    {pos \in 0 .. Len(c) - 1 :
        /\ pos + k < Len(c) - k
        /\ SubSeq(c, pos + 1, pos + k) = SubSeq(c, Len(c) - k + 1, Len(c))}

(* The longest suffix that recurs wins, and of its occurrences the latest. *)
Lookup(c, n, maxK, minK) ==
    LET ks == {k \in minK .. maxK : k < Len(c) /\ Matches(c, k) # {}}
    IN IF n = 0 \/ ks = {} THEN <<>>
       ELSE LET k == Max(ks)
                follow == Max(Matches(c, k)) + k
                take == Min({n, Len(c) - k - follow})
            IN SubSeq(c, follow + 1, follow + take)
=============================================================================
