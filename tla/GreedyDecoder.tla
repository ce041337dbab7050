---------------------------- MODULE GreedyDecoder ----------------------------
(***************************************************************************)
(* What one session of the engine promises its caller, with no cache, no   *)
(* recurrent state and no drafter: the answer grows by the one token that  *)
(* the model picks after the prompt and the answer so far, until the       *)
(* caller stops it, a stop token comes or the budget is used up.           *)
(***************************************************************************)
EXTENDS Naturals, Sequences

CONSTANTS Prompts, Budgets,
          StopTokens,         \* the tokens that end an answer
          NextToken(_, _)     \* the token after a text, under a penalty window

VARIABLES asked,     \* [prompt, budget, penalised] of the current or last request
          answer,    \* the tokens handed to the caller
          status,    \* new, running, returned, threw
          cancelled  \* the caller's callback has returned false

greedyVars == <<asked, answer, status, cancelled>>

Requests == [prompt : Prompts, budget : Budgets, penalised : BOOLEAN]

(* The first token is sampled with the prompt as the penalty window, every *)
(* later one with the answer so far.                                       *)
Window == IF ~asked.penalised THEN <<>> ELSE IF answer = <<>> THEN asked.prompt ELSE answer

Stopped == answer # <<>> /\ answer[Len(answer)] \in StopTokens

Complete == cancelled \/ Stopped \/ Len(answer) = asked.budget

Init ==
    /\ asked \in Requests
    /\ answer = <<>> /\ status = "new" /\ cancelled = FALSE

Start ==
    /\ status # "running" /\ status' = "running"
    /\ asked' \in Requests
    /\ answer' = <<>> /\ cancelled' = FALSE

(* The last token of an answer may come with the return.                   *)
Emit ==
    /\ status = "running" /\ ~Complete
    /\ answer' = Append(answer, NextToken(asked.prompt \o answer, Window))
    /\ cancelled' \in BOOLEAN
    /\ \/ status' = "running"
       \/ status' = "returned" /\ Complete'
    /\ UNCHANGED asked

Return ==
    /\ status = "running" /\ Complete
    /\ status' = "returned"
    /\ UNCHANGED <<asked, answer, cancelled>>

CancelPrefill ==
    /\ status = "running" /\ answer = <<>>
    /\ status' = "returned" /\ cancelled'
    /\ UNCHANGED <<asked, answer>>

(* A failed call has handed out a part of the right answer.                *)
Fail == status = "running" /\ status' = "threw" /\ UNCHANGED <<asked, answer, cancelled>>

Next == Start \/ Emit \/ Return \/ CancelPrefill \/ Fail

Spec == Init /\ [][Next]_greedyVars
=============================================================================
