---------------------------- MODULE MCRoundTrip -----------------------------
(* The instance of RoundTrip for TLC: the main thread, on which the service    *)
(* starts and stops, and a thread that sends requests.                         *)
EXTENDS RoundTrip

MCThreads == {"main", "worker"}

MCDoes == [main |-> {"login", "logout"}, worker |-> {"other"}]

MCMaxPosts == [main |-> 0, worker |-> 1, network |-> 2]
=============================================================================
