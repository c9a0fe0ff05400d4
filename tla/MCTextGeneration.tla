-------------------------- MODULE MCTextGeneration --------------------------
EXTENDS TextGeneration

\* The first request is unary with a minimum length and a deadline, the second
\* streams, the third has stop sequences and a deadline.
MCParams == [r \in Requests |->
    [stream    |-> r = 2,
     min_new   |-> IF r = 1 THEN 2 ELSE 0,
     max_new   |-> IF r = 1 THEN 3 ELSE 2,
     stop_seqs |-> r = 3,
     deadline  |-> r # 2]]

\* The same without deadlines.
MCUntimedParams == [r \in Requests |-> [MCParams[r] EXCEPT !.deadline = FALSE]]
=============================================================================
