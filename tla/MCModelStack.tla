------------------------------ MODULE MCModelStack ------------------------------
EXTENDS ModelStack
\* The two calls ask the same, each its own question, or one whose answer
\* cannot be copied.
mcPrompts == {[c \in Caller |-> "same"], [c \in Caller |-> c],
              [c \in Caller |-> IF c = "ask2" THEN "opaque" ELSE c]}
================================================================================
