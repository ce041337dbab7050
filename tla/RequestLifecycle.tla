-------------------------- MODULE RequestLifecycle --------------------------
(***************************************************************************)
(* What the batcher promises the owner of a ServingRequest, with no slots, *)
(* no device and no worker.  A request is new, queued, running or done.    *)
(* One step of the batcher moves several requests at once, so a step here  *)
(* lets every request make one move of its own, within the two capacities. *)
(***************************************************************************)
EXTENDS Naturals, FiniteSets, Sequences

CONSTANTS Reqs,
          Text,             \* what a request may be answered with
          StopTokens,       \* the tokens that end an answer
          MaxAnswer,        \* tokens per answer
          MaxQueue,         \* queued and running requests together
          MaxRunning        \* running requests

VARIABLES phase,            \* request -> new, queued, running, done
          answer,           \* request -> tokens
          outcome,          \* request -> "", answered, cancelled, error
          raised,           \* requests a client has cancelled
          cleared           \* running requests found not cancelled for their
                            \* next token, which a cancel does not take back

lifecycleVars == <<phase, answer, outcome, raised, cleared>>

Init ==
    /\ phase = [r \in Reqs |-> "new"]
    /\ answer = [r \in Reqs |-> <<>>]
    /\ outcome = [r \in Reqs |-> ""]
    /\ raised = {} /\ cleared = {}

InPhase(p) == {r \in Reqs : phase[r] = p}

Becomes(r, p, a, o) == phase'[r] = p /\ answer'[r] = a /\ outcome'[r] = o

Stays(r) == Becomes(r, phase[r], answer[r], outcome[r])

Accept(r) == phase[r] = "new" /\ Becomes(r, "queued", <<>>, "")

Reject(r) == phase[r] = "new" /\ Becomes(r, "done", <<>>, "error")

Start(r) == phase[r] = "queued" /\ Becomes(r, "running", <<>>, "")

(* One token, unless the client had cancelled when the request was asked;  *)
(* an answer that has reached a stop token or its length ends in the same  *)
(* step.  A clearance is good for one token, so a cancel is followed by    *)
(* one at most.                                                            *)
Emit(r) ==
    /\ phase[r] = "running" /\ (r \notin raised \/ r \in cleared)
    /\ r \notin cleared'
    /\ \E t \in Text :
          LET a == Append(answer[r], t)
              must == t \in StopTokens \/ Len(a) >= MaxAnswer
          IN \/ r \notin raised /\ Becomes(r, "done", a, "answered")
             \/ r \in raised /\ Becomes(r, "done", a, "cancelled")
             \/ ~must /\ Becomes(r, "running", a, "")

Drop(r) ==
    /\ phase[r] = "running" /\ r \in raised
    /\ Becomes(r, "done", answer[r], "cancelled")

Fail(r) ==
    /\ phase[r] \in {"queued", "running"}
    /\ Becomes(r, "done", answer[r], "error")

Move(r) == Stays(r) \/ Accept(r) \/ Reject(r) \/ Start(r) \/ Emit(r) \/ Drop(r) \/ Fail(r)

Next ==
    /\ DOMAIN phase' = Reqs /\ DOMAIN answer' = Reqs /\ DOMAIN outcome' = Reqs
    /\ \A r \in Reqs : Move(r)
    /\ raised \subseteq raised'
    /\ cleared' \ cleared \subseteq InPhase("running") \ raised
    /\ Cardinality(InPhase("queued")') + Cardinality(InPhase("running")') <= MaxQueue
    /\ Cardinality(InPhase("running")') <= MaxRunning

Spec == Init /\ [][Next]_lifecycleVars
=============================================================================
