------------------------------ MODULE MCDaemon ------------------------------
(* Small instances of Daemon for TLC *)
EXTENDS Daemon, TLC

\* The clients, and the recordings, are interchangeable
ClientSymmetry == Permutations(Clients) \cup Permutations(Recordings)

=============================================================================
