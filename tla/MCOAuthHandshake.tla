-------------------------- MODULE MCOAuthHandshake --------------------------
(* Instances of OAuthHandshake for TLC. *)
EXTENDS OAuthHandshake, SequencesExt

CONSTANTS h1, h2, k1, k2, b1, b2

OneHandshake == {h1}
TwoHandshakes == {h1, h2}
OneCallback == {k1}
TwoCallbacks == {k1, k2}
OneBrowser == {b1}
TwoBrowsers == {b1, b2}

\* Users with a public address, and users without one who have up to two listed.
SomeReports ==
  {[email |-> e, listed |-> <<>>] : e \in {[primary |-> TRUE, verified |-> v] : v \in BOOLEAN}}
  \cup {[email |-> Nil, listed |-> s] : s \in BoundedSeq(Address, 2)}

Symmetry == Permutations(Handshakes) \cup Permutations(Callbacks) \cup Permutations(Browsers)
=============================================================================
