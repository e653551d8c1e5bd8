------------------------------- MODULE MCSlug -------------------------------
EXTENDS Slug

\* The slug "org" takes its own runes.
Letters == {"a", "o", "r", "g"}
Capital == [u \in {"A"} |-> "a"]
Org == <<"o", "r", "g">>
=============================================================================
