--------------------------- MODULE RequestService ---------------------------
(***************************************************************************)
(* What the router promises the callers of Batcher::infer and              *)
(* infer_stream, whatever happens between it and the shards: a request     *)
(* gets at most one terminating response, a normal one only after a number *)
(* of tokens its parameters allow, and, unless its caller goes away, it    *)
(* eventually gets one.                                                    *)
(***************************************************************************)
EXTENDS Integers

CONSTANTS
    Requests,
    Params      \* min_new, max_new of each request

VARIABLES
    receiver,   \* "unsent", "open" or, once the caller is gone, "closed"
    answer,     \* the terminating response, "none" before it
    expired,    \* requests past their deadline
    tokens      \* number of tokens generated for each request

vars == <<receiver, answer, expired, tokens>>

Init ==
    /\ receiver = [r \in Requests |-> "unsent"]
    /\ answer = [r \in Requests |-> "none"]
    /\ expired = {}
    /\ tokens = [r \in Requests |-> 0]

Waiting(r) == receiver[r] = "open" /\ answer[r] = "none"

\* A caller submits a request; it is queued, or refused at once.
Submit(r) ==
    /\ receiver[r] = "unsent"
    /\ \/ /\ receiver' = [receiver EXCEPT ![r] = "open"]
          /\ UNCHANGED answer
       \/ /\ receiver' = [receiver EXCEPT ![r] = "closed"]
          /\ answer' = [answer EXCEPT ![r] = "rejected"]
    /\ UNCHANGED <<expired, tokens>>

Leave(r) ==
    /\ Waiting(r)
    /\ receiver' = [receiver EXCEPT ![r] = "closed"]
    /\ UNCHANGED <<answer, expired, tokens>>

PassDeadline(r) ==
    /\ expired' = expired \cup {r}
    /\ UNCHANGED <<receiver, answer, tokens>>

\* One more token; it may be the last one the caller waits for.
Generate(r) ==
    /\ receiver[r] # "unsent" /\ answer[r] = "none"
    /\ tokens[r] < Params[r].max_new
    /\ tokens' = [tokens EXCEPT ![r] = @ + 1]
    /\ \/ UNCHANGED answer
       \/ /\ Waiting(r)
          /\ tokens[r] + 1 >= Params[r].min_new \/ r \in expired
          /\ answer' = [answer EXCEPT ![r] = "ok"]
       \/ /\ Waiting(r)
          /\ answer' = [answer EXCEPT ![r] = "error"]
    /\ UNCHANGED <<receiver, expired>>

\* Some waiting requests fail.
Fail(rs) ==
    /\ \A r \in rs : Waiting(r)
    /\ answer' = [r \in Requests |-> IF r \in rs THEN "error" ELSE answer[r]]
    /\ UNCHANGED <<receiver, expired, tokens>>

\* Some requests run out of time before they got their first token.
TimeOut(rs) ==
    /\ \A r \in rs : Waiting(r) /\ r \in expired /\ tokens[r] = 0
    /\ answer' = [r \in Requests |-> IF r \in rs THEN "timeout" ELSE answer[r]]
    /\ UNCHANGED <<receiver, expired, tokens>>

Next ==
    \/ \E r \in Requests : Submit(r) \/ Leave(r) \/ PassDeadline(r) \/ Generate(r)
    \/ \E rs \in SUBSET Requests : Fail(rs) \/ TimeOut(rs)

Spec == Init /\ [][Next]_vars

\* Every caller that does not leave is answered.
EveryRequestAnswered == \A r \in Requests : Waiting(r) ~> ~Waiting(r)
=============================================================================
