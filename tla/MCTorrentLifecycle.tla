-------------------------- MODULE MCTorrentLifecycle --------------------------
(* Small instances of TorrentLifecycle for TLC. *)
EXTENDS TorrentLifecycle

\* Either a remove request or a change of settings meets the viewers and the ticker.
MCInit == \E absent \in {Removers, Changers} : InitWithout(absent)

MCSpec == MCInit /\ [][Next]_vars /\ Fairness

\* Every property of the lifecycle run holds trivially once raced is set, and
\* raced is never reset: nothing is lost by not exploring further.
Unraced == ~raced
=============================================================================
