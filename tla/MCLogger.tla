------------------------------ MODULE MCLogger -------------------------------
(* Logger for TLC.                                                           *)
EXTENDS Logger
==============================================================================
