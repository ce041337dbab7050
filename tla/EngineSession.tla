---------------------------- MODULE EngineSession ----------------------------
(***************************************************************************)
(* One single-session InferenceEngine across many calls: the prefix cache  *)
(* with its backup slots, the recurrent state and its checkpoint, and the  *)
(* four loops that decode on top of them: InferenceEngine::generate,       *)
(* SpeculativeDecoder, MtpDecoder and DFlashDecoder.                       *)
(*                                                                         *)
(* A KV row and a recurrent state are the tokens they were computed from.  *)
(* What the network computes is the unknown function Argmax of what the    *)
(* forward reads: the rows, the recurrent state and the penalty window.    *)
(* A draft is whatever a drafter may say, so a drafter's own caches are    *)
(* left out.  Calls are serialised by the dispatcher's mutex; what is      *)
(* interleaved with a call is its caller's callbacks and failures.         *)
(***************************************************************************)
EXTENDS Integers, Sequences, SequencesExt, NGramDrafter

CONSTANTS
    Tokens, Prompts, Budgets, StopTokens,
    Argmax(_, _, _),   \* rows, recurrent state, penalty window -> token
    Configs,           \* [recurrent, ckpt, ngram, modes]: the model, its checkpoint, the drafter, the loops
    MaxContext,        \* _maxContextTokens
    NBackups,          \* _prefixSlots - 1
    ContMargin,        \* kContMargin, 4 in the code
    DraftN,            \* draftN, mtpDepth
    MinK, MaxK         \* the n-gram drafter's needle

Modes == {"plain", "speculative", "mtp", "dflash"}

ASSUME SessionAssumption ==
    /\ \A p \in Prompts : p \in Seq(Tokens) /\ p # <<>>
    /\ Budgets \subseteq Nat \ {0} /\ StopTokens \subseteq Tokens
    /\ Configs \subseteq [recurrent : BOOLEAN, ckpt : BOOLEAN, ngram : BOOLEAN,
                         modes : SUBSET Modes]
    /\ MaxContext \in Nat /\ NBackups \in Nat /\ ContMargin \in Nat /\ DraftN \in Nat \ {0}
    /\ MinK \in Nat \ {0} /\ MaxK \in Nat /\ Prompts # {} /\ Budgets # {}

VARIABLES
    config,     \* fixed when the engine is loaded
    active,     \* [kv, tokens]: the committed rows of _kvCache, and _cachedTokens
    backups,    \* _prefixBackups
    age,        \* their lastUsed as ranks, 1 the most recent
    ssm,        \* _ssmState
    snap,       \* [valid, at, state]: _ssmSnapValid, _ssmSnapTokens, _ssmSnapState
    req,        \* [prompt, budget, mode] of the call
    pc,         \* idle, plan, prefill, decode, emit
    generated,  \* the tokens handed to the caller
    last,       \* nextId, tLast, token0: sampled, not in the KV cache yet
    queue,      \* verified in this round, not yet handed out
    aborted,    \* the caller's callback has returned false
    outcome     \* how the last call ended: new, returned, threw

cacheVars == <<active, backups, age, ssm, snap>>
callVars == <<req, pc, generated, last, queue, aborted, outcome>>
vars == <<config, cacheVars, callVars>>

Slack == 4
Backups == 1 .. NBackups
EmptySlot == [kv |-> <<>>, tokens |-> <<>>]
NoSnap == [valid |-> FALSE, at |-> 0, state |-> <<>>]
Rounds == {"speculative", "mtp", "dflash"}
NoToken == CHOOSE t \in Tokens : TRUE
Recurrent == config.recurrent

Init ==
    /\ config \in Configs
    /\ active = EmptySlot
    /\ backups = [b \in Backups |-> EmptySlot]
    /\ age = [b \in Backups |-> NBackups + 1 - b]
    /\ ssm = <<>> /\ snap = NoSnap
    /\ req = [prompt |-> CHOOSE p \in Prompts : TRUE, budget |-> CHOOSE n \in Budgets : TRUE,
              mode |-> "plain"]
    /\ pc = "idle" /\ generated = <<>> /\ last = NoToken /\ queue = <<>>
    /\ aborted = FALSE /\ outcome = "new"
-----------------------------------------------------------------------------
(* What a forward over `input' reads and leaves behind.                    *)

(* The recurrent state is zeroed by a forward that starts at length 0.     *)
Absorb(kv, s, input) ==
    IF ~Recurrent THEN <<>> ELSE IF kv = <<>> THEN input ELSE s \o input

(* The token picked after the i-th input.                                  *)
Picks(kv, s, input, i, w) ==
    LET rows == kv \o SubSeq(input, 1, i)
    IN Argmax(rows, IF Recurrent THEN Absorb(kv, s, SubSeq(input, 1, i)) ELSE rows, w)

Truncate(kv, n) == SubSeq(kv, 1, Min({n, Len(kv)}))
-----------------------------------------------------------------------------
(* The prefix cache.                                                       *)

(* longestCommonPrefix *)
Lcp(a, b) == Max({k \in 0 .. Min({Len(a), Len(b)}) : SubSeq(a, 1, k) = SubSeq(b, 1, k)})

(* selectPrefixSlot: the backup to swap with the active slot, 0 for none.  *)
BetterBackups(p) ==
    {b \in Backups : Lcp(p, backups[b].tokens) > Lcp(p, active.tokens)}

BestBackup(p) ==
    Min({b \in BetterBackups(p) : \A c \in BetterBackups(p) :
            Lcp(p, backups[c].tokens) <= Lcp(p, backups[b].tokens)})

(* Mutant of ContinuesActive: measured against the prompt's length. *)
ContinuesActiveWholePrompt(p) == Lcp(p, active.tokens) >= Len(p)

ContinuesActive(p) == Lcp(p, active.tokens) + ContMargin >= Len(active.tokens)

LeastRecent == CHOOSE b \in Backups : \A c \in Backups : age[c] <= age[b]

SwapWith(p) ==
    IF NBackups = 0 \/ Recurrent THEN 0
    ELSE IF BetterBackups(p) # {} THEN BestBackup(p)
    ELSE IF ContinuesActive(p) THEN 0
    ELSE LeastRecent

(* planPrefixReuse: how much of the slot the prompt p keeps.               *)
Reusable(p, slot) ==
    LET match == Lcp(p, slot.tokens)
        checkpointed == config.ckpt /\ snap.valid /\ match = Len(slot.tokens) /\ match = snap.at
    IN IF ~Recurrent THEN Min({match, Len(p) - 1})
       ELSE IF checkpointed /\ match \in 1 .. Len(p) - 1 THEN match
       ELSE 0

Parked(b) ==
    [c \in Backups |-> IF c = b THEN 1 ELSE IF age[c] < age[b] THEN age[c] + 1 ELSE age[c]]

PlanReuse(p) ==
    LET b == SwapWith(p)
        slot == IF b = 0 THEN active ELSE backups[b]
        keep == Reusable(p, slot)
    IN /\ active' = [slot EXCEPT !.kv = Truncate(slot.kv, keep)]
       /\ backups' = IF b = 0 THEN backups ELSE [backups EXCEPT ![b] = active]
       /\ age' = IF b = 0 THEN age ELSE Parked(b)
       /\ ssm' = IF Recurrent /\ keep > 0 THEN snap.state ELSE ssm

(* Mutant of ResetCache: the checkpoint stays valid. *)
ResetCacheKeepingSnap == active' = EmptySlot /\ UNCHANGED snap

ResetCache ==
    /\ active' = EmptySlot
    /\ snap' = [snap EXCEPT !.valid = FALSE]

(* The end of generate(): what the rows hold is remembered, and with the   *)
(* checkpoint capability the recurrent state is kept beside it.            *)
Remember(kv, s, out) ==
    LET take == Min({Max({Len(kv) - Len(req.prompt), 0}), Len(out)})
        text == req.prompt \o SubSeq(out, 1, take)
    IN /\ active' = [kv |-> kv, tokens |-> text]
       /\ snap' = IF Recurrent /\ config.ckpt
                  THEN [valid |-> TRUE, at |-> Len(text), state |-> s] ELSE snap
-----------------------------------------------------------------------------
(* One call.                                                               *)

Answers(o) == pc' = "idle" /\ outcome' = o

Call(p, n, m) ==
    /\ pc = "idle" /\ m \in config.modes
    /\ req' = [prompt |-> p, budget |-> n, mode |-> m]
    /\ pc' = "plan" /\ generated' = <<>> /\ last' = NoToken
    /\ queue' = <<>> /\ aborted' = FALSE
    /\ UNCHANGED <<config, cacheVars, outcome>>

(* The hard cap; the speculative loop asks for its first token only.       *)
Fits ==
    LET new == IF req.mode = "plain" THEN req.budget ELSE 1
    IN Len(req.prompt) + new + Slack <= MaxContext

(* Too long, or the thermal guard refuses: nothing has happened yet.       *)
Refuse ==
    /\ pc = "plan" /\ Answers("threw")
    /\ UNCHANGED <<config, cacheVars, req, generated, last, queue, aborted>>

Plan ==
    /\ pc = "plan" /\ pc' = "prefill"
    /\ IF req.mode \in {"plain", "speculative"}
       THEN Fits /\ PlanReuse(req.prompt) /\ UNCHANGED snap
       ELSE ResetCache /\ UNCHANGED <<backups, age, ssm>>
    /\ UNCHANGED <<config, req, generated, last, queue, aborted, outcome>>

Suffix == SubSeq(req.prompt, Len(active.kv) + 1, Len(req.prompt))

Prefilled == active.kv \o Suffix

FirstToken(w) == Picks(active.kv, ssm, Suffix, Len(Suffix), w)

(* runPrefill and the first sample; the caller sees the token at once.     *)
PrefillPlain ==
    /\ pc = "prefill" /\ req.mode = "plain"
    /\ active' = [active EXCEPT !.kv = Prefilled]
    /\ ssm' = Absorb(active.kv, ssm, Suffix)
    /\ last' = FirstToken(req.prompt) /\ generated' = <<last'>>
    /\ aborted' \in BOOLEAN /\ pc' = "decode"
    /\ UNCHANGED <<config, backups, age, snap, req, queue, outcome>>

(* A whole generate() for one token, then the callback and the stop test.  *)
PrefillSpeculative ==
    /\ pc = "prefill" /\ req.mode = "speculative"
    /\ ssm' = Absorb(active.kv, ssm, Suffix)
    /\ last' = FirstToken(req.prompt) /\ generated' = <<last'>>
    /\ Remember(Prefilled, ssm', generated')
    /\ aborted' \in BOOLEAN
    /\ IF aborted' \/ last' \in StopTokens \/ req.budget = 1
       THEN Answers("returned")
       ELSE pc' = "decode" /\ UNCHANGED outcome
    /\ UNCHANGED <<config, backups, age, req, queue>>

(* forwardVerify and commitVerified of the whole prompt; token0 waits.     *)
PrefillDrafted ==
    /\ pc = "prefill" /\ req.mode \in {"mtp", "dflash"}
    /\ Len(Prefilled) + Slack <= MaxContext
    /\ active' = [kv |-> Prefilled, tokens |-> active.tokens \o Suffix]
    /\ ssm' = Absorb(active.kv, ssm, Suffix)
    /\ last' = FirstToken(<<>>) /\ pc' = "decode"
    /\ UNCHANGED <<config, backups, age, snap, req, generated, queue, aborted, outcome>>

(* The caller cancels, or the forward throws, after some of the layers.    *)
PrefillEnds ==
    /\ pc = "prefill" /\ ResetCache
    /\ ssm' \in {ssm, Absorb(active.kv, ssm, Suffix)}
    /\ \/ Answers("threw") /\ UNCHANGED aborted
       \/ Answers("returned") /\ aborted' = TRUE /\ req.mode \in {"plain", "speculative"}
    /\ UNCHANGED <<config, backups, age, req, generated, last, queue>>
-----------------------------------------------------------------------------
(* InferenceEngine::runDecode: one token per forward.                      *)

DecodeOver ==
    \/ aborted \/ Len(generated) >= req.budget
    \/ Len(active.kv) >= MaxContext \/ last \in StopTokens

DecodeStep ==
    /\ pc = "decode" /\ req.mode = "plain" /\ ~DecodeOver
    /\ active' = [active EXCEPT !.kv = Append(@, last)]
    /\ ssm' = Absorb(active.kv, ssm, <<last>>)
    /\ last' = Picks(active.kv, ssm, <<last>>, 1, generated)
    /\ generated' = Append(generated, last')
    /\ aborted' \in BOOLEAN
    /\ UNCHANGED <<config, backups, age, snap, req, pc, queue, outcome>>

Finish ==
    /\ pc = "decode" /\ req.mode = "plain" /\ DecodeOver
    /\ Remember(active.kv, ssm, generated) /\ Answers("returned")
    /\ UNCHANGED <<config, backups, age, ssm, req, generated, last, queue, aborted>>

DecodeThrows ==
    /\ pc = "decode" /\ req.mode = "plain" /\ ~DecodeOver
    /\ ResetCache /\ Answers("threw")
    /\ ssm' \in {ssm, Absorb(active.kv, ssm, <<last>>)}
    /\ UNCHANGED <<config, backups, age, req, generated, last, queue, aborted>>
-----------------------------------------------------------------------------
(* The rounds of SpeculativeDecoder, MtpDecoder and DFlashDecoder: draft,  *)
(* verify in one forward, keep the longest prefix the target agrees with.  *)

(* The last token of the budget is left for the target's own pick.         *)
RoundN == Min({DraftN, req.budget - Len(generated) - 1})

DraftsOf(n) == UNION {[1 .. k -> Tokens] : k \in n}

Drafts ==
    IF req.mode # "speculative" THEN DraftsOf({Min({DraftN, req.budget - Len(generated)})})
    ELSE IF config.ngram THEN {Lookup(req.prompt \o generated, RoundN, MaxK, MinK)}
    ELSE DraftsOf(0 .. RoundN)

(* Mutant of History: the prompt is in the penalty window. *)
HistoryWithPrompt(d, i) ==
    IF req.mode = "speculative" THEN req.prompt \o generated \o SubSeq(d, 1, i - 1) ELSE <<>>

(* checkHistory: what the target's own sampler would have been given.      *)
History(d, i) ==
    IF req.mode = "speculative" THEN generated \o SubSeq(d, 1, i - 1) ELSE <<>>

Verified(d, i) == Picks(active.kv, ssm, <<last>> \o d, i, History(d, i))

Accepted(d) == Max({a \in 0 .. Len(d) : \A i \in 1 .. a : Verified(d, i) = d[i]})

Committed(d) == <<last>> \o SubSeq(d, 1, Accepted(d))

(* Mutant of CommitVerified: _cachedTokens is not extended. *)
CommitVerifiedRowsOnly(accepted) == active' = [active EXCEPT !.kv = @ \o accepted]

CommitVerified(accepted) ==
    active' = [kv |-> active.kv \o accepted, tokens |-> active.tokens \o accepted]

(* Mutant of Rollback: the state keeps the rejected drafts. *)
RollbackNothing(d) == Absorb(active.kv, ssm, <<last>> \o d)

(* After a partial accept MTP and DFlash restore the recurrent state and   *)
(* bring it to the accepted prefix again; SpeculativeDecoder does not.     *)
Rollback(d) == Absorb(active.kv, ssm, Committed(d))

StateAfterRound(d) ==
    IF req.mode = "speculative" THEN Absorb(active.kv, ssm, <<last>> \o d) ELSE Rollback(d)

Round(d) ==
    /\ pc = "decode" /\ req.mode \in Rounds
    /\ Len(active.kv) + Len(d) + 1 + Slack <= MaxContext
    /\ CommitVerified(Committed(d))
    /\ ssm' = StateAfterRound(d)
    /\ last' = Verified(d, Accepted(d) + 1)
    /\ queue' = IF req.mode = "speculative" THEN Append(Tail(Committed(d)), last') ELSE Committed(d)
    /\ pc' = "emit"
    /\ UNCHANGED <<config, backups, age, snap, req, generated, aborted, outcome>>

(* No room, a failing forward or a failing drafter: the call throws as the *)
(* rounds left things, with nothing of this round committed.               *)
RoundThrows ==
    /\ pc = "decode" /\ req.mode \in Rounds
    /\ \E d \in Drafts : ssm' \in {ssm, Absorb(active.kv, ssm, <<last>> \o d), Rollback(d)}
    /\ Answers("threw")
    /\ UNCHANGED <<config, active, backups, age, snap, req, generated, last, queue, aborted>>

(* One token of the round is handed out.  The rest is dropped when it is a *)
(* stop, when the caller says so, or when MTP's emit has reached the end.  *)
EmitToken ==
    /\ pc = "emit"
    /\ generated' = Append(generated, Head(queue))
    /\ aborted' \in IF req.mode = "speculative" THEN BOOLEAN ELSE {FALSE}
    /\ LET full == Len(generated') >= req.budget
           cut == aborted' \/ Head(queue) \in StopTokens
           ends == full /\ (req.mode # "speculative" \/ Len(queue) = 1)
       IN IF cut \/ ends
          THEN queue' = <<>> /\ Answers("returned")
          ELSE /\ queue' = Tail(queue)
               /\ pc' = IF Len(queue) = 1 THEN "decode" ELSE "emit"
               /\ UNCHANGED outcome
    /\ UNCHANGED <<config, cacheVars, req, last>>
-----------------------------------------------------------------------------
Engine ==
    \/ Refuse \/ Plan
    \/ PrefillPlain \/ PrefillSpeculative \/ PrefillDrafted \/ PrefillEnds
    \/ DecodeStep \/ Finish \/ DecodeThrows
    \/ \E d \in Drafts : Round(d)
    \/ RoundThrows \/ EmitToken

Next == Engine \/ \E p \in Prompts, n \in Budgets, m \in Modes : Call(p, n, m)

Spec == Init /\ [][Next]_vars

(* A call runs on its HTTP thread, which the operating system schedules.   *)
FairSpec == Spec /\ WF_vars(Engine)
-----------------------------------------------------------------------------
TypeOK ==
    /\ config \in Configs
    /\ active \in [kv : Seq(Tokens), tokens : Seq(Tokens)]
    /\ backups \in [Backups -> [kv : Seq(Tokens), tokens : Seq(Tokens)]]
    /\ age \in [Backups -> Backups]
    /\ ssm \in Seq(Tokens) /\ snap \in [valid : BOOLEAN, at : Nat, state : Seq(Tokens)]
    /\ req \in [prompt : Prompts, budget : Budgets, mode : Modes]
    /\ pc \in {"idle", "plan", "prefill", "decode", "emit"}
    /\ generated \in Seq(Tokens) /\ last \in Tokens /\ queue \in Seq(Tokens)
    /\ aborted \in BOOLEAN /\ outcome \in {"new", "returned", "threw"}

(* No generate() is in the middle of its prefill or its decode loop.       *)
Settled == pc \in {"idle", "plan"} \/ (pc # "prefill" /\ req.mode \in Rounds)

(* Between calls, and between the rounds of a call, _cachedTokens names    *)
(* exactly the rows in the cache, whatever was rejected, cancelled or has  *)
(* thrown; for a parked slot always (InferenceEngine.cpp:1742).            *)
CacheInSync ==
    /\ Settled => active.kv = active.tokens
    /\ \A b \in Backups : backups[b].kv = backups[b].tokens

(* The checkpoint that a continuation would restore is the state after the *)
(* tokens it would be restored for (planPrefixReuse).                      *)
SnapFaithful ==
    pc = "idle" /\ snap.valid /\ snap.at = Len(active.tokens) => snap.state = active.tokens

(* While a call decodes, the recurrent state has absorbed the rows of the  *)
(* cache and nothing else, also after drafts were rejected.                *)
RecurrentInStep == Recurrent /\ pc \in {"decode", "emit"} => ssm = active.kv

(* Every loop hands out, token by token, the target's own greedy answer:   *)
(* within the budget, nothing after a stop or a cancel, and whole unless   *)
(* the call throws.                                                        *)
Greedy(text, w) == Argmax(text, text, w)

Abstract == INSTANCE GreedyDecoder WITH
    NextToken <- Greedy,
    asked <- [prompt |-> req.prompt, budget |-> req.budget,
              penalised |-> req.mode \in {"plain", "speculative"}],
    answer <- generated,
    status <- IF pc = "idle" THEN outcome ELSE "running",
    cancelled <- aborted

ImplementsGreedy == Abstract!Spec

(* A prompt that continues the text of the active slot, or of a parked one *)
(* that matches more of it than the active slot does, resumes with every   *)
(* row of that slot, however the slots were swapped and parked in between  *)
(* (selectPrefixSlot, planPrefixReuse).  A recurrent model has one slot,   *)
(* and MTP and DFlash start over.                                          *)
Resumable(slot) ==
    /\ IsStrictPrefix(slot.tokens, req.prompt)
    /\ slot = active \/ Len(slot.tokens) > Lcp(req.prompt, active.tokens)

ContinuationResumes ==
    [][pc = "plan" /\ pc' = "prefill" /\ ~Recurrent /\ req.mode \in {"plain", "speculative"} =>
         \A slot \in {active} \cup {backups[b] : b \in Backups} :
             Resumable(slot) => IsPrefix(slot.tokens, active'.kv)]_vars
=============================================================================
