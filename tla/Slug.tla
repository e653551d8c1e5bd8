-------------------------------- MODULE Slug --------------------------------
(***************************************************************************)
(* slugify of internal/services/auth_service.go, which turns the name of   *)
(* an organization into the readable part of its slug, against what a      *)
(* reader of the slug expects: the words of the name, joined by dashes.    *)
(* A step is a round of the loop.  As the loop may end after any round,    *)
(* the states are those of all names.                                      *)
(***************************************************************************)
EXTENDS Naturals, Sequences, FiniteSetsExt

CONSTANTS
  Lower,    \* runes a-z and 0-9
  Upper,    \* runes that strings.ToLower takes into Lower
  Others,   \* the remaining ones: spaces, dashes, letters beyond ASCII
  LowerOf,  \* strings.ToLower on Upper
  Dash,     \* the rune '-'
  NoName,   \* the slug "org"
  MaxLen    \* bound: the longest name

ASSUME SlugAssumption ==
  /\ LowerOf \in [Upper -> Lower]
  /\ Dash \in Others
  /\ Lower \cap (Upper \cup Others) = {} /\ Upper \cap Others = {}
  /\ NoName \in Seq(Lower) /\ NoName # <<>>
  /\ MaxLen \in Nat

Runes == Lower \cup Upper \cup Others

VARIABLES
  name,     \* the runes the loop has ranged over
  built     \* the text it has written, and prevDash

vars == <<name, built>>

ToLower(r) == IF r \in Upper THEN LowerOf[r] ELSE r

Write(r, dash) == built' = [text |-> Append(built.text, r), prevDash |-> dash]

\* Mutant: prevDash is not reset when a rune is written.
KeepRuneAfterDash(r) ==
  IF r \in Lower THEN Write(r, built.prevDash)
  ELSE IF ~built.prevDash /\ built.text # <<>> THEN Write(Dash, TRUE)
  ELSE UNCHANGED built

\* The switch in the loop.
KeepRune(r) ==
  IF r \in Lower THEN Write(r, FALSE)
  ELSE IF ~built.prevDash /\ built.text # <<>> THEN Write(Dash, TRUE)
  ELSE UNCHANGED built

\* strings.TrimRight(text, "-")
TrimDashes(text) ==
  LET kept == {i \in DOMAIN text : text[i] # Dash} IN
  IF kept = {} THEN <<>> ELSE SubSeq(text, 1, Max(kept))

\* What slugify returns if the name ends here.
Slugify ==
  LET slug == TrimDashes(built.text) IN IF slug = <<>> THEN NoName ELSE slug

Init == name = <<>> /\ built = [text |-> <<>>, prevDash |-> FALSE]

Round(r) ==
  /\ Len(name) < MaxLen
  /\ name' = Append(name, r)
  /\ KeepRune(ToLower(r))

Next == \E r \in Runes : Round(r)

Spec == Init /\ [][Next]_vars

----------------------------------------------------------------------------
\* The rune is part of a word.
InWord(i) == name[i] \in Lower \cup Upper

\* The positions that reach the slug: the runes of words, and between two words
\* the first rune of the gap.
Kept ==
  {i \in DOMAIN name :
     \/ InWord(i)
     \/ i > 1 /\ InWord(i - 1) /\ \E j \in i..Len(name) : InWord(j)}

\* Which of the positions in S it is.
Place(S, i) == Cardinality({k \in S : k <= i})

\* The slug is the words of the name in lower case, joined by single dashes, and
\* "org" if the name has none: the one pass with its flag (auth_service.go:382)
\* loses no word, and joins none to the next.
SlugNamesWords ==
  IF Kept = {} THEN Slugify = NoName
  ELSE /\ Len(Slugify) = Cardinality(Kept)
       /\ \A i \in Kept :
            Slugify[Place(Kept, i)] = IF InWord(i) THEN ToLower(name[i]) ELSE Dash
=============================================================================
