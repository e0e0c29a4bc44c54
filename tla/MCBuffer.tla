------------------------------- MODULE MCBuffer -------------------------------
(* Buffer for TLC: a few bytes, a vector of a few places.                    *)
EXTENDS Buffer
===============================================================================
