------------------------------ MODULE MCServer ------------------------------
(* Instances of Server for TLC; each .cfg chooses the endpoints clients call. *)
EXTENDS Server, TLC

CONSTANTS r1, r2, r3, r4, alice, bob, google, github

TwoRequests == {r1, r2}
ThreeRequests == {r1, r2, r3}
FourRequests == {r1, r2, r3, r4}

NoAccount == {}
OneAccount == {alice}
TwoAccounts == {alice, bob}

NoProfiles == {}
\* One identity whose address changed at the provider, and another identity
\* with one of these addresses.
SomeProfiles == {<<google, alice>>, <<google, bob>>, <<github, bob>>}

\* Requests are interchangeable, and no property names one.
Symmetry == Permutations(Reqs)
=============================================================================
