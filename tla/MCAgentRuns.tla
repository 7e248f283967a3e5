---------------------------- MODULE MCAgentRuns ----------------------------
(* Small instances of AgentRuns for TLC.                                   *)
EXTENDS AgentRuns, TLC

CONSTANTS c1, c2, w1, w2, b1, r1, q1, q2, q3

\* Every request continues the same conversation.
OneRun == [q \in Requests |-> r1]

SubmitsAll == [c \in Clients |-> Requests]

\* The second client joins the conversation that the first has begun.
SubmitsJoined == [c \in Clients |-> IF c = c1 THEN {q1, q2} ELSE {q3}]

\* Either a second client submits as well, or somebody aborts.
OneDisturbance ==
  aborts' = 0 \/ \A q \in Requests : answer'[c2][q] = "none" /\ pc'[c2] = "idle"

\* Workers are interchangeable, and so are clients that submit the same.
Interchangeable == Permutations(Clients) \union Permutations(Workers)
=============================================================================
