--------------------------- MODULE MCTcpConnection ---------------------------
(* TcpConnection for TLC: threads and messages are model values.             *)
EXTENDS TcpConnection, TLC

\* Messages are interchangeable, and so are threads (safety runs only).
Symmetry == Permutations(Threads) \cup Permutations(Msgs)
==============================================================================
