--------------------------- MODULE MCEngineSession ---------------------------
(* EngineSession on a small instance.  The network is a hash of everything *)
(* a forward reads, so that a wrong row, a wrong recurrent state or a      *)
(* wrong penalty window shows in the tokens it picks.                      *)
EXTENDS EngineSession

MCTokens == 0 .. 2
MCPrompts == {<<0>>, <<0, 1>>, <<1, 1, 0>>}

Weigh(s) == FoldLeft(LAMBDA h, t : (2 * h + t + 1) % 7, 0, s)
MCArgmax(k, s, w) == (Weigh(k) + 2 * Weigh(s) + Weigh(w)) % 3

(* A pure attention model with either drafter, and a recurrent one.        *)
MCConfigs ==
    {[recurrent |-> FALSE, ckpt |-> FALSE, ngram |-> n, modes |-> {"plain", "speculative"}] : n \in BOOLEAN}
    \cup {[recurrent |-> TRUE, ckpt |-> TRUE, ngram |-> FALSE, modes |-> {"plain", "mtp", "dflash"}]}

(* Nothing in wouldEngage keeps the speculative loop off a recurrent model. *)
MCSpeculativeRecurrent ==
    {[recurrent |-> TRUE, ckpt |-> FALSE, ngram |-> FALSE, modes |-> {"speculative"}]}
=============================================================================
