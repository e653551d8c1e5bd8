------------------------------ MODULE MCOrder ------------------------------
(* Instances of Order for TLC, with the values of MCServer. *)
EXTENDS MCServer, Order

\* No endpoint of the run reads whether an address is verified, and passwords are
\* interchangeable: of the accounts that differ in these alone one is enough.
MCOrderInit ==
  /\ OrderInit
  /\ \A e \in Registered : users[e].emailVerified /\ users[e].password = "p"

MCOrderSpec == MCOrderInit /\ [][OrderNext]_orderVars
=============================================================================
