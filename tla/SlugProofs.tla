----------------------------- MODULE SlugProofs -----------------------------
(***************************************************************************)
(* The slug of every name, whatever its length: the invariant of the loop  *)
(* of slugify, and what is left when its last dash is trimmed.             *)
(***************************************************************************)
EXTENDS Slug, FiniteSetTheorems, TLAPS

USE SlugAssumption

\* The positions whose rune, or the dash in its place, the loop has written.
Written == {i \in DOMAIN name : InWord(i) \/ (i > 1 /\ InWord(i - 1))}

\* What is written for them.
RuneOf(i) == IF InWord(i) THEN ToLower(name[i]) ELSE Dash

\* The loop is inside a word.
AtWord == name # <<>> /\ InWord(Len(name))

\* The type of the state.
SlugTypes ==
  /\ name \in Seq(Runes)
  /\ built \in [text : Seq(Lower \cup {Dash}), prevDash : BOOLEAN]

\* The text is what is written for the positions, in their order; the last one is
\* the greatest.
TextNamesWritten ==
  /\ Len(built.text) = Cardinality(Written)
  /\ \A i \in Written : built.text[Place(Written, i)] = RuneOf(i)
  /\ Written # {} => \E i \in Written : \A k \in Written : k <= i

\* The flag and the text tell whether the loop is inside a word, and whether the
\* text ends in a dash.
FlagTold ==
  /\ AtWord <=> built.text # <<>> /\ ~built.prevDash
  /\ built.text # <<>> => (built.text[Len(built.text)] \in Lower <=> ~built.prevDash)

\* A dash in the text stands after a rune of a word, and before one or at the end.
DashesApart ==
  \A i \in DOMAIN built.text : built.text[i] \notin Lower =>
    /\ built.text[i] = Dash /\ 1 < i
    /\ i < Len(built.text) => built.text[i + 1] \in Lower

\* The invariant of the loop.
LoopInv == SlugTypes /\ TextNamesWritten /\ FlagTold /\ DashesApart

----------------------------------------------------------------------------
(* Runes and places *)

\* strings.ToLower leaves a rune of a word, or another one.
LEMMA Lowering ==
  ASSUME NEW r \in Runes
  PROVE  /\ r \in Lower \cup Upper => ToLower(r) \in Lower
         /\ r \notin Lower \cup Upper => ToLower(r) \notin Lower
         /\ Dash \notin Lower
  BY DEF Runes, ToLower

\* The positions are finitely many.
LEMMA WrittenFinite ==
  ASSUME SlugTypes, NEW S \in SUBSET DOMAIN name
  PROVE  /\ IsFiniteSet(S) /\ Cardinality(S) \in Nat
         /\ Cardinality(S) = 0 <=> S = {}
  <1>1. DOMAIN name = 1..Len(name) /\ Len(name) \in Nat
    BY DEF SlugTypes
  <1>2. IsFiniteSet(DOMAIN name)
    BY <1>1, FS_Interval
  <1> QED BY <1>2, FS_Subset, FS_CardinalityType, FS_EmptySet

\* A position that is in the set has one of its places.
LEMMA Places ==
  ASSUME SlugTypes, NEW S \in SUBSET DOMAIN name, NEW i \in S
  PROVE  Place(S, i) \in 1..Cardinality(S)
  <1> DEFINE T == {k \in S : k <= i}
  <1>1. IsFiniteSet(S) /\ Cardinality(S) \in Nat
    BY WrittenFinite
  <1>2. T \in SUBSET S /\ T # {} /\ T \in SUBSET DOMAIN name
    BY DEF SlugTypes
  <1>3. Cardinality(T) \in Nat /\ Cardinality(T) # 0
    BY <1>2, WrittenFinite
  <1>4. Cardinality(T) <= Cardinality(S)
    BY <1>1, <1>2, FS_Subset
  <1> QED BY <1>1, <1>3, <1>4 DEF Place

\* The greatest position of the set has the last place.
LEMMA LastPlace ==
  ASSUME NEW S, NEW i \in S, \A k \in S : k <= i
  PROVE  Place(S, i) = Cardinality(S)
  <1>1. {k \in S : k <= i} = S
    OBVIOUS
  <1> QED BY <1>1 DEF Place

\* What is appended is the last rune of the text.
LEMMA LastOfAppend ==
  ASSUME NEW S, NEW t \in Seq(S), NEW c \in S
  PROVE  Append(t, c) # <<>> /\ Append(t, c)[Len(Append(t, c))] = c
  <1>1. Len(t) \in Nat /\ Len(Append(t, c)) = Len(t) + 1 /\ Append(t, c)[Len(t) + 1] = c
    OBVIOUS
  <1>2. Len(Append(t, c)) # 0
    BY <1>1
  <1> QED BY <1>1, <1>2

----------------------------------------------------------------------------
(* The loop *)

\* What a round does to the positions: it adds one to the name, and writes for it
\* if it is in a word or just after one.
LEMMA RoundPositions ==
  ASSUME SlugTypes, NEW r \in Runes, Round(r), NEW n, n = Len(name)
  PROVE  /\ n \in Nat /\ DOMAIN name = 1..n /\ DOMAIN name' = 1..(n + 1) /\ Len(name') = n + 1
         /\ \A i \in 1..n : name'[i] = name[i]
         /\ name'[n + 1] = r
         /\ \A i \in 1..n : /\ InWord(i)' <=> InWord(i)
                            /\ RuneOf(i)' = RuneOf(i)
         /\ InWord(n + 1)' <=> r \in Lower \cup Upper
         /\ AtWord <=> n > 0 /\ InWord(n)
         /\ AtWord' <=> r \in Lower \cup Upper
         /\ RuneOf(n + 1)' = IF r \in Lower \cup Upper THEN ToLower(r) ELSE Dash
  <1>1. /\ n \in Nat /\ DOMAIN name = 1..n /\ Len(name') = n + 1
        /\ DOMAIN name' = 1..(n + 1)
        /\ \A i \in 1..n : name'[i] = name[i]
        /\ name'[n + 1] = r /\ name' # <<>>
        /\ name # <<>> <=> n > 0
    BY DEF SlugTypes, Round
  <1> QED BY <1>1 DEF InWord, RuneOf, AtWord

\* Which positions are written after a round.
LEMMA RoundWritten ==
  ASSUME SlugTypes, NEW r \in Runes, Round(r), NEW n, n = Len(name)
  PROVE  Written' = IF r \in Lower \cup Upper \/ AtWord THEN Written \cup {n + 1} ELSE Written
  <1>1. ASSUME NEW i \in 1..n PROVE i \in Written' <=> i \in Written
    <2>1. n \in Nat /\ DOMAIN name = 1..n /\ DOMAIN name' = 1..(n + 1)
      BY RoundPositions
    <2>2. InWord(i)' <=> InWord(i)
      BY RoundPositions
    <2>3. i > 1 => (InWord(i - 1)' <=> InWord(i - 1))
      <3>1. i > 1 => i - 1 \in 1..n
        BY <2>1
      <3> QED BY <3>1, RoundPositions
    <2>4. i \in DOMAIN name /\ i \in DOMAIN name'
      BY <2>1
    <2> QED BY <2>2, <2>3, <2>4 DEF Written
  <1>2. n + 1 \in Written' <=> r \in Lower \cup Upper \/ AtWord
    BY RoundPositions DEF Written
  <1>3. Written \subseteq 1..n /\ Written' \subseteq 1..(n + 1)
    BY RoundPositions DEF Written
  <1>4. n \in Nat /\ \A i \in 1..(n + 1) : i \in 1..n \/ i = n + 1
    BY RoundPositions
  <1>5. CASE r \in Lower \cup Upper \/ AtWord
    <2>1. Written' \subseteq Written \cup {n + 1} /\ Written \cup {n + 1} \subseteq Written'
      BY <1>1, <1>2, <1>3, <1>4, <1>5
    <2> QED BY <1>5, <2>1
  <1>6. CASE ~(r \in Lower \cup Upper \/ AtWord)
    <2>1. Written' \subseteq Written /\ Written \subseteq Written'
      BY <1>1, <1>2, <1>3, <1>4, <1>6
    <2> QED BY <1>6, <2>1
  <1> QED BY <1>5, <1>6

\* A round that writes c keeps the text and the positions together.
LEMMA WritingKeeps ==
  ASSUME LoopInv, NEW r \in Runes, Round(r), NEW n, n = Len(name),
         Written' = Written \cup {n + 1},
         NEW c \in Lower \cup {Dash}, built'.text = Append(built.text, c), c = RuneOf(n + 1)'
  PROVE  TextNamesWritten'
  <1> DEFINE t == built.text
             W == Written
  <1>0. SlugTypes /\ t \in Seq(Lower \cup {Dash}) /\ n \in Nat /\ W \in SUBSET (1..n)
        /\ DOMAIN name = 1..n
    BY RoundPositions DEF LoopInv, SlugTypes, Written
  <1>1. Len(t) = Cardinality(W) /\ IsFiniteSet(W) /\ Cardinality(W) \in Nat
    BY <1>0, WrittenFinite DEF LoopInv, TextNamesWritten
  <1>2. Cardinality(W \cup {n + 1}) = Cardinality(W) + 1
    <2>1. n + 1 \notin W
      BY <1>0
    <2> QED BY <1>1, <2>1, FS_AddElement
  <1>3. Len(built'.text) = Cardinality(Written')
    BY <1>0, <1>1, <1>2
  <1>4. \A i \in Written' : i \in W \/ i = n + 1
    BY <1>0
  <1>5. ASSUME NEW i \in W PROVE built'.text[Place(Written', i)] = RuneOf(i)'
    <2>1. {k \in W \cup {n + 1} : k <= i} = {k \in W : k <= i}
      BY <1>0
    <2>2. Place(Written', i) = Place(W, i)
      BY <2>1 DEF Place
    <2>3. Place(W, i) \in 1..Len(t)
      BY <1>0, <1>1, Places
    <2>4. Append(t, c)[Place(W, i)] = t[Place(W, i)]
      BY <1>0, <2>3
    <2>5. t[Place(W, i)] = RuneOf(i)
      BY DEF LoopInv, TextNamesWritten
    <2>6. RuneOf(i)' = RuneOf(i)
      BY <1>0, RoundPositions
    <2> QED BY <2>2, <2>4, <2>5, <2>6
  <1>6. built'.text[Place(Written', n + 1)] = RuneOf(n + 1)'
    <2>1. \A k \in Written' : k <= n + 1
      BY <1>0
    <2>2. Place(Written', n + 1) = Len(t) + 1
      BY <1>1, <1>2, <2>1, LastPlace
    <2> QED BY <1>0, <2>2
  <1>7. \E i \in Written' : \A k \in Written' : k <= i
    BY <1>0
  <1> QED BY <1>3, <1>4, <1>5, <1>6, <1>7 DEF TextNamesWritten

\* A round that writes nothing does so, too.
LEMMA SkippingKeeps ==
  ASSUME LoopInv, NEW r \in Runes, Round(r), Written' = Written, UNCHANGED built
  PROVE  TextNamesWritten'
  <1>1. Written \subseteq 1..Len(name)
    BY RoundPositions DEF LoopInv, Written
  <1>2. \A i \in Written : RuneOf(i)' = RuneOf(i) /\ Place(Written', i) = Place(Written, i)
    BY <1>1, RoundPositions DEF LoopInv, Place
  <1> QED BY <1>2 DEF LoopInv, TextNamesWritten

\* Every round keeps the invariant.
LEMMA RoundKeeps ==
  ASSUME LoopInv, NEW r \in Runes, Round(r)
  PROVE  LoopInv'
  <1> DEFINE n == Len(name)
             t == built.text
             low == ToLower(r)
  <1>0. SlugTypes /\ t \in Seq(Lower \cup {Dash}) /\ built.prevDash \in BOOLEAN
        /\ name' \in Seq(Runes)
    BY DEF LoopInv, SlugTypes, Round
  <1>1. /\ AtWord <=> t # <<>> /\ ~built.prevDash
        /\ t # <<>> => (t[Len(t)] \in Lower <=> ~built.prevDash)
    BY DEF LoopInv, FlagTold
  <1>2. CASE low \in Lower
    <2>1. r \in Lower \cup Upper
      BY <1>2, Lowering
    <2>2. built' = [text |-> Append(t, low), prevDash |-> FALSE]
      BY <1>2 DEF Round, KeepRune, Write
    <2>3. SlugTypes'
      BY <1>0, <1>2, <2>2 DEF SlugTypes
    <2>4. TextNamesWritten'
      BY <1>0, <1>2, <2>1, <2>2, RoundWritten, RoundPositions, WritingKeeps
    <2>5. FlagTold'
      <3>1. AtWord'
        BY <1>0, <2>1, RoundPositions
      <3>2. built'.text # <<>> /\ built'.text[Len(built'.text)] = low
        <4>1. built'.text = Append(t, low)
          BY <2>2
        <4>2. low \in Lower \cup {Dash}
          BY <1>2
        <4> HIDE DEF t, low
        <4> QED BY <1>0, <4>1, <4>2, LastOfAppend
      <3>3. built'.prevDash = FALSE
        BY <2>2
      <3> QED BY <1>2, <3>1, <3>2, <3>3 DEF FlagTold
    <2>6. DashesApart'
      BY <1>0, <1>2, <2>2 DEF LoopInv, DashesApart
    <2> QED BY <2>3, <2>4, <2>5, <2>6 DEF LoopInv
  <1>3. CASE low \notin Lower /\ AtWord
    <2>1. r \notin Lower \cup Upper /\ Dash \notin Lower
      BY <1>3, Lowering
    <2>2. built' = [text |-> Append(t, Dash), prevDash |-> TRUE]
      BY <1>1, <1>3 DEF Round, KeepRune, Write
    <2>3. SlugTypes'
      BY <1>0, <2>2 DEF SlugTypes
    <2>4. TextNamesWritten'
      BY <1>0, <1>3, <2>1, <2>2, RoundWritten, RoundPositions, WritingKeeps
    <2>5. FlagTold'
      <3>1. ~AtWord'
        BY <1>0, <2>1, RoundPositions
      <3>2. built'.text # <<>> /\ built'.text[Len(built'.text)] = Dash
        <4>1. built'.text = Append(t, Dash)
          BY <2>2
        <4> HIDE DEF t
        <4> QED BY <1>0, <4>1, LastOfAppend
      <3>3. built'.prevDash = TRUE
        BY <2>2
      <3> QED BY <2>1, <3>1, <3>2, <3>3 DEF FlagTold
    <2>6. DashesApart'
      BY <1>0, <1>1, <1>3, <2>1, <2>2 DEF LoopInv, DashesApart
    <2> QED BY <2>3, <2>4, <2>5, <2>6 DEF LoopInv
  <1>4. CASE low \notin Lower /\ ~AtWord
    <2>1. r \notin Lower \cup Upper
      BY <1>4, Lowering
    <2>2. UNCHANGED built
      BY <1>1, <1>4 DEF Round, KeepRune
    <2>3. SlugTypes'
      BY <1>0, <2>2 DEF SlugTypes
    <2>4. TextNamesWritten'
      BY <1>0, <1>4, <2>1, <2>2, RoundWritten, SkippingKeeps
    <2>5. FlagTold'
      BY <1>0, <1>1, <1>4, <2>1, <2>2, RoundPositions DEF FlagTold
    <2>6. DashesApart'
      BY <2>2 DEF LoopInv, DashesApart
    <2> QED BY <2>3, <2>4, <2>5, <2>6 DEF LoopInv
  <1> QED BY <1>2, <1>3, <1>4

\* The invariant holds of every name.
LEMMA Loop == Spec => []LoopInv
  <1>1. Init => LoopInv
    <2> SUFFICES ASSUME Init PROVE LoopInv
      OBVIOUS
    <2>1. SlugTypes /\ Written = {} /\ ~AtWord
      BY DEF Init, SlugTypes, Written, AtWord
    <2>2. TextNamesWritten
      BY <2>1, FS_EmptySet DEF Init, TextNamesWritten
    <2> QED BY <2>1, <2>2 DEF Init, LoopInv, FlagTold, DashesApart
  <1>2. LoopInv /\ UNCHANGED vars => LoopInv'
    <2> SUFFICES ASSUME LoopInv, UNCHANGED vars PROVE LoopInv'
      OBVIOUS
    <2>1. name' = name /\ built' = built
      BY DEF vars
    <2>2. Written' = Written
      BY <2>1 DEF Written, InWord
    <2>3. \A i : RuneOf(i)' = RuneOf(i)
      BY <2>1 DEF RuneOf, InWord, ToLower
    <2>4. \A i : Place(Written, i)' = Place(Written, i)
      BY <2>2 DEF Place
    <2>5. TextNamesWritten'
      BY <2>1, <2>2, <2>3, <2>4 DEF LoopInv, TextNamesWritten
    <2>6. SlugTypes'
      BY <2>1 DEF LoopInv, SlugTypes
    <2>7. FlagTold'
      BY <2>1 DEF LoopInv, FlagTold, AtWord, InWord
    <2>8. DashesApart'
      BY <2>1 DEF LoopInv, DashesApart
    <2> QED BY <2>5, <2>6, <2>7, <2>8 DEF LoopInv
  <1>3. LoopInv /\ [Next]_vars => LoopInv'
    BY <1>2, RoundKeeps DEF Next
  <1> QED BY <1>1, <1>3, PTL DEF Spec
----------------------------------------------------------------------------
(* The end of the loop *)

\* The largest number of a set.
LEMMA Largest ==
  ASSUME NEW S \in SUBSET Nat, NEW m \in S, \A k \in S : k <= m
  PROVE  Max(S) = m
  <1>1. \A x \in S : (\A y \in S : x >= y) => x = m
    <2> SUFFICES ASSUME NEW x \in S, \A y \in S : x >= y PROVE x = m
      OBVIOUS
    <2>1. x >= m /\ x <= m /\ x \in Nat /\ m \in Nat
      OBVIOUS
    <2> QED BY <2>1
  <1>2. m \in S /\ \A y \in S : m >= y
    OBVIOUS
  <1> QED BY <1>1, <1>2 DEF Max

\* Of a text whose greatest position without a dash is m, the first m runes are left.
LEMMA Trimmed ==
  ASSUME NEW S, NEW t \in Seq(S), NEW m \in 1..Len(t), t[m] # Dash,
         \A i \in m + 1..Len(t) : t[i] = Dash
  PROVE  /\ TrimDashes(t) \in Seq(S) /\ Len(TrimDashes(t)) = m
         /\ \A i \in 1..m : TrimDashes(t)[i] = t[i]
  <1> DEFINE K == {i \in DOMAIN t : t[i] # Dash}
  <1>1. DOMAIN t = 1..Len(t) /\ Len(t) \in Nat
    OBVIOUS
  <1>2. K \in SUBSET Nat /\ m \in K
    BY <1>1
  <1>3. ASSUME NEW k \in K PROVE k <= m
    <2>1. k \in 1..Len(t) /\ t[k] # Dash
      BY <1>1
    <2>2. k \notin m + 1..Len(t)
      BY <2>1
    <2> QED BY <1>1, <2>1, <2>2
  <1>4. Max(K) = m /\ K # {}
    <2> HIDE DEF K
    <2> QED BY <1>2, <1>3, Largest
  <1>5. TrimDashes(t) = SubSeq(t, 1, m)
    BY <1>4 DEF TrimDashes
  <1> QED BY <1>1, <1>5

\* What slugify returns: the text, without its last rune if that is a dash.
LEMMA Returned ==
  ASSUME LoopInv, NEW n, n = Len(built.text)
  PROVE  /\ n = 0 => Slugify = NoName
         /\ n > 0 /\ ~built.prevDash =>
              /\ Slugify \in Seq(Lower \cup {Dash}) /\ Len(Slugify) = n
              /\ \A i \in 1..n : Slugify[i] = built.text[i]
              /\ built.text[n] \in Lower
         /\ n > 0 /\ built.prevDash =>
              /\ n > 1
              /\ Slugify \in Seq(Lower \cup {Dash}) /\ Len(Slugify) = n - 1
              /\ \A i \in 1..n - 1 : Slugify[i] = built.text[i]
              /\ built.text[n] \notin Lower
  <1> DEFINE t == built.text
             S == Lower \cup {Dash}
  <1>1. t \in Seq(S) /\ n \in Nat /\ DOMAIN t = 1..n /\ Len(t) = n
    BY DEF LoopInv, SlugTypes
  <1>2. Dash \notin Lower
    OBVIOUS
  <1>3. n > 0 => (t[n] \in Lower <=> ~built.prevDash)
    BY <1>1 DEF LoopInv, FlagTold
  <1>4. CASE n = 0
    <2>1. DOMAIN t = {}
      BY <1>1, <1>4
    <2>2. TrimDashes(t) = <<>>
      <3> HIDE DEF t
      <3> QED BY <2>1 DEF TrimDashes
    <2> QED BY <1>4, <2>2 DEF Slugify
  <1>5. CASE n > 0 /\ ~built.prevDash
    <2>1. n \in 1..Len(t) /\ t[n] # Dash /\ \A i \in n + 1..Len(t) : t[i] = Dash
      BY <1>1, <1>2, <1>3, <1>5
    <2>2. /\ TrimDashes(t) \in Seq(S) /\ Len(TrimDashes(t)) = n
          /\ \A i \in 1..n : TrimDashes(t)[i] = t[i]
      <3> HIDE DEF t, S
      <3> QED BY <1>1, <2>1, Trimmed
    <2>3. TrimDashes(t) # <<>>
      BY <1>5, <2>2
    <2>4. Slugify = TrimDashes(t)
      BY <2>3 DEF Slugify
    <2> QED BY <1>3, <1>5, <2>2, <2>4
  <1>6. CASE n > 0 /\ built.prevDash
    <2>1. t[n] \notin Lower /\ n \in DOMAIN t
      BY <1>1, <1>3, <1>6
    <2>2. t[n] = Dash /\ 1 < n
      BY <2>1 DEF LoopInv, DashesApart
    <2>3. n - 1 \in DOMAIN t /\ n - 1 < Len(t) /\ n - 1 + 1 = n
      BY <1>1, <2>2
    <2>4. t[n - 1] \in Lower
      BY <2>1, <2>3 DEF LoopInv, DashesApart
    <2>5. n - 1 \in 1..Len(t) /\ t[n - 1] # Dash /\ \A i \in (n - 1) + 1..Len(t) : t[i] = Dash
      BY <1>1, <1>2, <2>2, <2>3, <2>4
    <2>6. /\ TrimDashes(t) \in Seq(S) /\ Len(TrimDashes(t)) = n - 1
          /\ \A i \in 1..n - 1 : TrimDashes(t)[i] = t[i]
      <3> HIDE DEF t, S
      <3> QED BY <1>1, <2>5, Trimmed
    <2>7. TrimDashes(t) # <<>>
      BY <1>1, <2>2, <2>6
    <2>8. Slugify = TrimDashes(t)
      BY <2>7 DEF Slugify
    <2> QED BY <1>6, <2>1, <2>2, <2>6, <2>8
  <1> QED BY <1>1, <1>3, <1>4, <1>5, <1>6

\* The positions that reach the slug are those written, without the last one if
\* the name ends outside a word.
LEMMA KeptOfWritten ==
  ASSUME LoopInv
  PROVE  /\ Kept \subseteq Written /\ Written \in SUBSET DOMAIN name
         /\ AtWord => Kept = Written
         /\ ~AtWord => \A m \in Written :
              (\A k \in Written : k <= m) /\ ~InWord(m) => Kept = Written \ {m}
  <1> DEFINE n == Len(name)
  <1>1. n \in Nat /\ DOMAIN name = 1..n
    BY DEF LoopInv, SlugTypes
  <1>2. Kept \subseteq Written /\ Written \in SUBSET DOMAIN name
    BY DEF Kept, Written
  <1>3. ASSUME AtWord PROVE Written \subseteq Kept
    <2>1. n \in DOMAIN name /\ InWord(n)
      BY <1>1, <1>3 DEF AtWord
    <2>2. \A i \in DOMAIN name : n \in i..n
      BY <1>1
    <2> QED BY <2>1, <2>2 DEF Kept, Written
  <1>4. ASSUME NEW m \in Written, \A k \in Written : k <= m, ~InWord(m)
        PROVE  Kept = Written \ {m}
    <2>1. m \in 1..n /\ m > 1 /\ InWord(m - 1)
      BY <1>1, <1>4 DEF Written
    <2>2. ASSUME m \in Kept PROVE FALSE
      <3>1. PICK j \in m..n : InWord(j)
        BY <1>4, <2>2 DEF Kept
      <3>2. j \in Written /\ j \in Nat /\ m <= j
        BY <1>1, <2>1, <3>1 DEF Written
      <3>3. j = m
        BY <1>4, <2>1, <3>2
      <3> QED BY <1>4, <3>1, <3>3
    <2>3. ASSUME NEW i \in Written, i # m PROVE i \in Kept
      <3>1. i \in 1..n /\ i <= m /\ m - 1 \in i..n
        BY <1>1, <1>4, <2>1, <2>3 DEF Written
      <3>2. InWord(i) \/ (i > 1 /\ InWord(i - 1))
        BY DEF Written
      <3> QED BY <1>1, <2>1, <3>1, <3>2 DEF Kept
    <2> QED BY <1>2, <2>2, <2>3
  <1> QED BY <1>2, <1>3, <1>4

\* The slug names the words whatever the name.
LEMMA Names ==
  ASSUME LoopInv
  PROVE  SlugNamesWords
  <1> DEFINE t == built.text
             n == Len(t)
  <1>1. n \in Nat /\ built.prevDash \in BOOLEAN /\ (t # <<>> <=> n > 0) /\ SlugTypes
    BY DEF LoopInv, SlugTypes
  <1>2. /\ n = Cardinality(Written)
        /\ \A i \in Written : t[Place(Written, i)] = RuneOf(i)
    BY DEF LoopInv, TextNamesWritten
  <1>3. Written \in SUBSET DOMAIN name /\ Kept \subseteq Written
    BY KeptOfWritten
  <1>4. IsFiniteSet(Written) /\ (n = 0 <=> Written = {})
    BY <1>1, <1>2, <1>3, WrittenFinite
  <1>5. \A i \in Written : Place(Written, i) \in 1..n
    BY <1>1, <1>2, <1>3, Places
  <1>6. CASE n = 0
    <2>1. Kept = {}
      BY <1>3, <1>4, <1>6
    <2> QED BY <1>6, <2>1, Returned DEF SlugNamesWords
  <1>7. CASE n > 0 /\ ~built.prevDash
    <2>1. AtWord
      BY <1>1, <1>7 DEF LoopInv, FlagTold
    <2>2. Kept = Written /\ Kept # {}
      BY <1>4, <1>7, <2>1, KeptOfWritten
    <2>3. Len(Slugify) = n /\ \A i \in 1..n : Slugify[i] = t[i]
      BY <1>7, Returned
    <2>4. \A i \in Kept : Slugify[Place(Kept, i)] = RuneOf(i)
      BY <1>2, <1>5, <2>2, <2>3
    <2> QED BY <1>2, <2>2, <2>3, <2>4 DEF SlugNamesWords, RuneOf
  <1>8. CASE n > 0 /\ built.prevDash
    <2>1. ~AtWord
      BY <1>1, <1>8 DEF LoopInv, FlagTold
    <2>2. /\ n > 1 /\ Len(Slugify) = n - 1 /\ t[n] \notin Lower
          /\ \A i \in 1..n - 1 : Slugify[i] = t[i]
      BY <1>8, Returned
    <2>3. PICK m \in Written : \A k \in Written : k <= m
      BY <1>4, <1>8 DEF LoopInv, TextNamesWritten
    <2>4. ~InWord(m)
      <3>1. RuneOf(m) = t[n]
        BY <1>2, <2>3, LastPlace
      <3>2. m \in DOMAIN name /\ name[m] \in Runes
        BY <1>1, <1>3 DEF SlugTypes
      <3> QED BY <2>2, <3>1, <3>2, Lowering DEF RuneOf, InWord
    <2>5. Kept = Written \ {m}
      BY <2>1, <2>3, <2>4, KeptOfWritten
    <2>6. Cardinality(Kept) = n - 1
      BY <1>2, <1>4, <2>5, FS_RemoveElement
    <2>7. Kept # {}
      <3>1. n - 1 # 0
        BY <1>1, <2>2
      <3>2. Kept \in SUBSET DOMAIN name
        BY <1>3
      <3> HIDE DEF n
      <3> QED BY <1>1, <2>6, <3>1, <3>2, WrittenFinite
    <2>8. ASSUME NEW i \in Kept PROVE Slugify[Place(Kept, i)] = RuneOf(i)
      <3>1. i \in Nat /\ m \in Nat /\ i <= m /\ i # m
        BY <1>1, <1>3, <2>3, <2>5 DEF SlugTypes
      <3>2. {k \in Kept : k <= i} = {k \in Written : k <= i}
        BY <2>5, <3>1
      <3>3. Place(Kept, i) = Place(Written, i)
        BY <3>2 DEF Place
      <3>4. Place(Kept, i) \in 1..n - 1
        BY <1>1, <1>3, <2>6, Places
      <3> QED BY <1>2, <2>2, <2>5, <3>3, <3>4
    <2> QED BY <2>2, <2>6, <2>7, <2>8 DEF SlugNamesWords, RuneOf
  <1> QED BY <1>1, <1>6, <1>7, <1>8

----------------------------------------------------------------------------
(* The theorems *)

\* slugify (auth_service.go:382) keeps every word of every name, apart from the
\* next one, and writes nothing else.
THEOREM SlugOfWords == Spec => []SlugNamesWords
  BY Loop, Names, PTL
=============================================================================
