---------------------------- MODULE MCThrottled ----------------------------
\* Model-checking instance of Throttled.
EXTENDS Throttled

LengthValue == [c \in Item |-> IF c = 1 THEN 1 ELSE 2]
=============================================================================
