------------------------ MODULE MCContinuousBatcher ------------------------
(***************************************************************************)
(* Small instances of ContinuousBatcher for TLC.  The token 0 is the dummy *)
(* a hole is fed, 9 is the stop token, 1..3 are ordinary text.             *)
(***************************************************************************)
EXTENDS ContinuousBatcher

(* One that leaves room for MaxNew tokens in a slab of MaxContext = 4 rows *)
(* and one that fills it.                                                  *)
PromptsSlab == {<<1>>, <<1, 2, 3>>}

(* Two blocks and a tail, diverging inside the second block.               *)
PromptsDeep == {<<1, 2, 1, 2, 3>>, <<1, 2, 1, 3>>, <<1, 2, 3>>}

(* PrefillChunk = 3, PrefillMaxRows = 4: one that a ragged forward takes   *)
(* together with another of its kind, one that takes a forward of its own, *)
(* and two families of one block and a tail that go through the chunk      *)
(* loop and fill MaxContext = 6 with their first token.                    *)
PromptsMixed == {<<2>>, <<1, 2, 3, 1>>, <<1, 2, 3, 1, 2>>, <<2, 2, 3, 1, 2>>}

(* Two that share one block and a checkpoint, and one that fits a ragged   *)
(* forward (PrefillMaxRows = 2); with the two that submit refuses          *)
(* (MaxContext = 7).                                                       *)
PromptsWarm == {<<>>, <<2, 1>>, <<1, 2, 1, 2, 3>>, <<1, 2, 1, 3>>,
                <<1, 2, 1, 2, 1, 2, 1>>}

(* One prompt for everybody, a block and a tail (PrefillChunk = 3).        *)
PromptsOne == {<<1, 2, 3, 1, 2>>}

ReqSymmetry == Permutations(Reqs)
=============================================================================
