-------------------------- MODULE ArgumentsProofs --------------------------
(***************************************************************************)
(* Theorems about module Arguments, for every set of lines and any number  *)
(* of them: the words of a command are the fields of its line, ls gets the *)
(* folders of its path, and strtok damages the heap in one case only.      *)
(***************************************************************************)
EXTENDS Arguments, SequenceTheorems, FiniteSetTheorems, WellFoundedInduction, TLAPS

\* A text without zeros, with a bound on its length.
IsText(text, length) == text \in Seq(1 .. 255) /\ Len(text) <= length

\* No text is longer: a word of a line with two bytes of a header.
MaxText == BufferSize + 2

\* What readDirectory is called with.
IsPath(dir) == IsText(dir, MaxText) /\ dir # << >> /\ Last(dir) = Slash

-----------------------------------------------------------------------------
(* The inductive invariant *)

\* Between the call of strtok with a text and the use of the words.
Splitting == pc \notin {"idle", "fault"}

Where ==
  /\ pc \in {"idle", "fault", "first", "strtok", "push", "next", "split"}
  /\ caller \in {"parse", "path"}
  /\ pc = "fault" => line = << >>
  /\ Splitting => /\ IsText(line, BufferSize) /\ line # << >>
                  /\ caller = "path" => IsPath(path)

\* Only a path can have been damaged, behind its text.
OnlyThat ==
  overwritten => caller = "path" /\ words # << >> /\ Len(words[1]) % 128 = 11

\* For "ls p" the path is p with a slash.
PathGiven ==
  LET fields == Fields(line, Space)
  IN caller = "path" /\ Len(fields) = 2 /\ Last(line) # Space
       => path = WholePath(fields[2])

\* Nothing is left of a path that is a slash: strtok goes on behind the words
\* of the line, and finds nothing.
NothingToSplit ==
  /\ caller = "path" /\ words = << >>
  /\ pc \in {"next", "strtok", "split"}
  /\ pc # "next" => token = Null
  /\ size \in Int /\ size <= 0
  /\ storage[nxt] = 0

\* The first block behind the text is that of the first word.
BehindTheText ==
  LET n == Len(Text)
      block == FirstBlock(words[1])
  IN /\ newest <=> words = << >>
     /\ storage[n + 3] = 0
     /\ newest => storage[n + 1] = 0 /\ storage[n + 2] = 0
     /\ ~newest => /\ storage[n + 1] = Low(block) \/ (overwritten /\ storage[n + 1] = 0)
                   /\ storage[n + 2] = High(block)

\* nxt is on a delimiter that is a 0 already, and a field begins behind it.
Rests ==
  /\ nxt < Len(Text) /\ Text[nxt] = Delimiter /\ Text[nxt + 1] # Delimiter
  /\ storage[nxt] = 0

\* Delimiters are zeros up to nxt.
InTheText ==
  \A n \in 1 .. Len(Text) :
    /\ n < nxt => storage[n] = (IF Text[n] = Delimiter THEN 0 ELSE Text[n])
    /\ n = nxt => storage[n] = Text[n] \/ Rests
    /\ n > nxt => storage[n] = Text[n]

Bytes ==
  /\ storage \in Seq(0 .. 255) /\ Len(storage) = Len(Text) + 3
  /\ BehindTheText

\* The fields that begin up to a place.
TheStarts == Starts(Text, Delimiter)
UpTo(S, k) == {j \in S : j <= k}
Rank(S, k) == Cardinality(UpTo(S, k))

\* The last field takes the header along, if it is not the first one.
WordAt(k) ==
  IF k # 1 /\ EndOfField(Text, Delimiter, k) = Len(Text) + 1
  THEN Field(Text, Delimiter, k) \o HeaderText(FirstBlock(words[1]))
  ELSE Field(Text, Delimiter, k)

WordsSoFar ==
  /\ words \in Seq(Seq(1 .. 255))
  /\ \A n \in 1 .. Len(words) :
       \E k \in TheStarts : Rank(TheStarts, k) = n /\ words[n] = WordAt(k)

\* How far strtok has come, and what it is going to return.
Progress ==
  /\ nxt \in 1 .. Len(Text) + 3 /\ size = Len(Text) + 1 - nxt
  /\ pc \in {"strtok", "push"} /\ token # Null =>
       /\ token \in TheStarts /\ token <= nxt
       /\ \A j \in TheStarts : j <= token \/ j > nxt
       /\ Len(words) = Rank(TheStarts, token - 1)
  /\ pc = "push" => token # Null
  /\ pc = "next" => words # << >> /\ Len(words) = Rank(TheStarts, nxt)
  /\ pc = "split" \/ (pc = "strtok" /\ token = Null) =>
       nxt > Len(Text) /\ words # << >> /\ Len(words) = Cardinality(TheStarts)
  /\ pc \in {"push", "split"} \/ (pc = "next" /\ nxt <= Len(Text)) => storage[nxt] = 0

SplitInv ==
  /\ Bytes
  /\ pc = "first" => words = << >> /\ \A n \in 1 .. Len(Text) : storage[n] = Text[n]
  /\ pc # "first" => InTheText /\ WordsSoFar /\ Progress

ArgumentsInv ==
  /\ Where /\ OnlyThat
  /\ Splitting => /\ PathGiven
                  /\ Text = << >> => NothingToSplit
                  /\ Text # << >> => SplitInv

-----------------------------------------------------------------------------
(* The least of a set, and the n-th *)

LEMMA MinExists ==
  ASSUME NEW S \in SUBSET Nat, S # {}
  PROVE  Min(S) \in S /\ \A n \in S : Min(S) <= n
<1>1. IsWellFoundedOn(OpToRel(<, Nat), Nat)
  BY NatLessThanWellFounded
<1>2. PICK x \in S : \A y \in S : ~ (<<y, x>> \in OpToRel(<, Nat))
  BY <1>1, WFMin, Zenon
<1>3. \A y \in S : x <= y
  <2> SUFFICES ASSUME NEW y \in S, ~(x <= y) PROVE FALSE
    OBVIOUS
  <2>1. y \in Nat /\ x \in Nat /\ y < x
    OBVIOUS
  <2>2. <<y, x>> \in OpToRel(<, Nat)
    BY <2>1 DEF OpToRel
  <2> QED
    BY <1>2, <2>2
<1> QED
  BY <1>3 DEF Min

\* The least place of an interval that has a property.
LEMMA MinOfPlaces ==
  ASSUME NEW S, NEW a \in Nat, NEW b \in Nat, NEW m \in a .. b,
         S \subseteq a .. b, m \in S, \A n \in a .. b : n < m => n \notin S
  PROVE  Min(S) = m
<1>1. S \in SUBSET Nat /\ S # {} /\ a .. b \subseteq Nat
  OBVIOUS
<1>2. Min(S) \in S /\ \A n \in S : Min(S) <= n
  BY <1>1, MinExists
<1>3. Min(S) \in a .. b /\ Min(S) <= m
  BY <1>2
<1> QED
  BY <1>2, <1>3

\* The rank of the elements of a set: how many are not greater.
LEMMA Ranks ==
  ASSUME NEW b \in Nat, NEW S \in SUBSET (1 .. b)
  PROVE  /\ IsFiniteSet(S) /\ Cardinality(S) \in Nat
         /\ \A k \in Int : Rank(S, k) \in Nat /\ Rank(S, k) <= Cardinality(S)
         /\ \A k, l \in Int : k <= l /\ (\A j \in S : j <= k \/ j > l) => Rank(S, l) = Rank(S, k)
         /\ \A k \in S : Rank(S, k) = Rank(S, k - 1) + 1
         /\ \A k, l \in Int : k <= l => Rank(S, k) <= Rank(S, l)
         /\ \A k \in Int : (\A j \in S : j <= k) <=> Rank(S, k) = Cardinality(S)
<1>1. /\ IsFiniteSet(S) /\ Cardinality(S) \in Nat
      /\ \A j \in S : j \in Int
  <2>1. IsFiniteSet(1 .. b)
    BY FS_Interval
  <2>2. IsFiniteSet(S)
    BY <2>1, FS_Subset
  <2> QED
    BY <2>2, FS_CardinalityType
<1>2. \A k \in Int : UpTo(S, k) \in SUBSET S /\ IsFiniteSet(UpTo(S, k))
  <2> SUFFICES ASSUME NEW k \in Int
               PROVE  UpTo(S, k) \in SUBSET S /\ IsFiniteSet(UpTo(S, k))
    OBVIOUS
  <2>1. UpTo(S, k) \in SUBSET S
    BY DEF UpTo
  <2> QED
    BY <1>1, <2>1, FS_Subset
<1>3. \A k \in Int : /\ Rank(S, k) \in Nat /\ Rank(S, k) <= Cardinality(S)
                     /\ Cardinality(S) = Rank(S, k) => S = UpTo(S, k)
  BY <1>1, <1>2, FS_Subset, FS_CardinalityType DEF Rank
<1>4. ASSUME NEW k \in Int, NEW l \in Int, k <= l, \A j \in S : j <= k \/ j > l
      PROVE  Rank(S, l) = Rank(S, k)
  <2>1. \A j \in S : j <= l <=> j <= k
    BY <1>1, <1>4
  <2>2. UpTo(S, l) = UpTo(S, k)
    BY <2>1 DEF UpTo
  <2> QED
    BY <2>2 DEF Rank
<1>5. ASSUME NEW k \in S PROVE Rank(S, k) = Rank(S, k - 1) + 1
  <2>1. k \in Int /\ k - 1 \in Int /\ \A j \in S : j <= k <=> j <= k - 1 \/ j = k
    BY <1>1
  <2>2. UpTo(S, k) = UpTo(S, k - 1) \cup {k} /\ k \notin UpTo(S, k - 1)
    <3>1. ~(k <= k - 1)
      BY <2>1
    <3>2. \A j : j \in UpTo(S, k) <=> j \in UpTo(S, k - 1) \cup {k}
      BY <2>1 DEF UpTo
    <3>3. UpTo(S, k) = UpTo(S, k - 1) \cup {k}
      BY <3>2
    <3> QED
      BY <3>1, <3>3 DEF UpTo
  <2>3. IsFiniteSet(UpTo(S, k - 1))
    BY <1>2, <2>1
  <2>4. Cardinality(UpTo(S, k - 1) \cup {k}) = Cardinality(UpTo(S, k - 1)) + 1
    BY <2>2, <2>3, FS_AddElement
  <2> QED
    BY <2>2, <2>4 DEF Rank
<1>6. ASSUME NEW k \in Int, NEW l \in Int, k <= l PROVE Rank(S, k) <= Rank(S, l)
  <2>1. \A j \in S : j <= k => j <= l
    BY <1>1, <1>6
  <2>2. UpTo(S, k) \in SUBSET UpTo(S, l)
    BY <2>1 DEF UpTo
  <2> QED
    BY <1>2, <2>2, FS_Subset DEF Rank
<1>7. ASSUME NEW k \in Int PROVE (\A j \in S : j <= k) <=> Rank(S, k) = Cardinality(S)
  <2>1. (\A j \in S : j <= k) <=> UpTo(S, k) = S
    BY DEF UpTo
  <2> QED
    BY <1>2, <1>3, <2>1 DEF Rank
<1> QED
  BY <1>1, <1>3, <1>4, <1>5, <1>6, <1>7

\* The element of a rank is the only one.
LEMMA NthIsIt ==
  ASSUME NEW b \in Nat, NEW S \in SUBSET (1 .. b), NEW k \in S
  PROVE  Nth(S, Rank(S, k)) = k
<1>0. /\ \A l \in S : l \in Int /\ l - 1 \in Int
      /\ \A n \in Int : Rank(S, n) \in Nat
      /\ \A n \in S : Rank(S, n) = Rank(S, n - 1) + 1
      /\ \A n, l \in Int : n <= l => Rank(S, n) <= Rank(S, l)
  <2>1. \A l \in S : l \in Int /\ l - 1 \in Int
    OBVIOUS
  <2>2. \A n \in Int : Rank(S, n) \in Nat
    BY Ranks
  <2>3. \A n \in S : Rank(S, n) = Rank(S, n - 1) + 1
    BY Ranks
  <2>4. \A n, l \in Int : n <= l => Rank(S, n) <= Rank(S, l)
    BY Ranks
  <2> QED
    BY <2>1, <2>2, <2>3, <2>4
<1>1. ASSUME NEW l \in S, Rank(S, l) = Rank(S, k) PROVE l = k
  <2>1. l \in Int /\ k \in Int /\ l - 1 \in Int /\ k - 1 \in Int
    BY <1>0
  <2>2. CASE l < k
    <3>1. l <= k - 1
      BY <2>1, <2>2
    <3>2. Rank(S, l) \in Nat /\ Rank(S, k) \in Nat /\ Rank(S, k - 1) \in Nat
          /\ Rank(S, k) = Rank(S, k - 1) + 1 /\ Rank(S, l) <= Rank(S, k - 1)
      BY <1>0, <2>1, <3>1
    <3> QED
      BY <1>1, <3>2
  <2>3. CASE k < l
    <3>1. k <= l - 1
      BY <2>1, <2>3
    <3>2. Rank(S, k) \in Nat /\ Rank(S, l) \in Nat /\ Rank(S, l - 1) \in Nat
          /\ Rank(S, l) = Rank(S, l - 1) + 1 /\ Rank(S, k) <= Rank(S, l - 1)
      BY <1>0, <2>1, <3>1
    <3> QED
      BY <1>1, <3>2
  <2> QED
    BY <2>1, <2>2, <2>3
<1> QED
  BY <1>1 DEF Nth, Rank, UpTo

\* The first element of all.
LEMMA RankOfFirst ==
  ASSUME NEW b \in Nat, NEW S \in SUBSET (1 .. b), 1 \in S
  PROVE  /\ Rank(S, 0) = 0
         /\ \A k \in S : Rank(S, k) = 1 => k = 1
         /\ \A k \in S : Rank(S, k - 1) \in Nat /\ (Rank(S, k - 1) = 0 => k = 1)
<1>1. Rank(S, 0) = 0
  <2>1. \A j \in S : ~(j <= 0)
    OBVIOUS
  <2>2. UpTo(S, 0) = {}
    BY <2>1 DEF UpTo
  <2> QED
    BY <2>2, FS_EmptySet DEF Rank
<1>2. \A k \in S : k \in Int /\ k - 1 \in Int
  OBVIOUS
<1>3. \A k \in S : Rank(S, k) = Rank(S, k - 1) + 1
  BY Ranks
<1>4. \A k \in Int : Rank(S, k) \in Nat
  BY Ranks
<1>5. ASSUME NEW k \in S, k # 1 PROVE Rank(S, k - 1) >= 1
  <2>1. 1 <= k - 1 /\ 1 \in Int /\ k - 1 \in Int
    BY <1>2, <1>5
  <2>2. Rank(S, 1) <= Rank(S, k - 1)
    BY <2>1, Ranks
  <2>3. Rank(S, 1) = 1
    BY <1>1, <1>3
  <2> QED
    BY <1>4, <2>1, <2>2, <2>3
<1> QED
  BY <1>1, <1>2, <1>3, <1>4, <1>5

-----------------------------------------------------------------------------
(* Fields *)

LEMMA FieldEnds ==
  ASSUME NEW m \in Nat, NEW text, IsText(text, m), NEW d, NEW k \in 1 .. Len(text)
  PROVE  LET e == EndOfField(text, d, k)
         IN /\ e \in k .. Len(text) + 1
            /\ e = Len(text) + 1 \/ text[e] = d
            /\ \A n \in k .. e - 1 : text[n] # d
            /\ Field(text, d, k) \in Seq(1 .. 255)
            /\ Len(Field(text, d, k)) = e - k
            /\ \A n \in 1 .. e - k : Field(text, d, k)[n] = text[k + n - 1]
<1> DEFINE S == {n \in k .. Len(text) + 1 : n = Len(text) + 1 \/ text[n] = d}
           e == EndOfField(text, d, k)
<1>1. Len(text) \in Nat /\ \A n \in 1 .. Len(text) : text[n] \in 1 .. 255
  BY LenProperties, ElementOfSeq DEF IsText
<1>2. S \in SUBSET Nat /\ Len(text) + 1 \in S
  BY <1>1
<1>3. e \in S /\ \A n \in S : e <= n
  <2> HIDE DEF S
  <2>1. Min(S) \in S /\ \A n \in S : Min(S) <= n
    BY <1>2, MinExists
  <2> QED
    BY <2>1 DEF EndOfField, S
<1> HIDE DEF e
<1>4. /\ e \in k .. Len(text) + 1 /\ (e = Len(text) + 1 \/ text[e] = d)
      /\ \A n \in k .. e - 1 : text[n] # d
  BY <1>1, <1>3
<1>5. Field(text, d, k) = SubSeq(text, k, e - 1)
  BY DEF Field, e
<1>6. \A i \in k .. e - 1 : text[i] \in 1 .. 255
  BY <1>1, <1>4
<1>7. /\ SubSeq(text, k, e - 1) \in Seq(1 .. 255)
      /\ Len(SubSeq(text, k, e - 1)) = IF k <= e - 1 THEN e - 1 - k + 1 ELSE 0
      /\ \A n \in 1 .. e - 1 - k + 1 : SubSeq(text, k, e - 1)[n] = text[k + n - 1]
  BY <1>1, <1>4, <1>6, SubSeqProperties
<1> QED
  BY <1>1, <1>4, <1>5, <1>7 DEF e

\* A field that is followed by another one ends in the text.
LEMMA FollowedField ==
  ASSUME NEW m \in Nat, NEW text, IsText(text, m), NEW d,
         NEW k \in Starts(text, d), NEW j \in Starts(text, d), k < j
  PROVE  EndOfField(text, d, k) < j
<1>1. k \in 1 .. Len(text) /\ j \in 1 .. Len(text) /\ text[j - 1] = d /\ Len(text) \in Nat
  BY LenProperties DEF Starts, IsText
<1>2. /\ EndOfField(text, d, k) \in k .. Len(text) + 1
      /\ \A n \in k .. EndOfField(text, d, k) - 1 : text[n] # d
  <2>1. k \in 1 .. Len(text)
    BY <1>1
  <2> QED
    BY <2>1, FieldEnds, ZenonT(60)
<1> QED
  BY <1>1, <1>2

\* The last one does not, if the text does not end with a delimiter.
LEMMA LastField ==
  ASSUME NEW m \in Nat, NEW text, IsText(text, m), NEW d,
         NEW k \in Starts(text, d), \A j \in Starts(text, d) : j <= k
  PROVE  EndOfField(text, d, k) = Len(text) + 1 <=> Last(text) # d
<1> DEFINE e == EndOfField(text, d, k)
           P == {p \in e .. Len(text) : text[p] # d}
<1>1. k \in 1 .. Len(text) /\ Len(text) \in Nat /\ DOMAIN text = 1 .. Len(text)
  BY LenProperties DEF Starts, IsText
<1>2. /\ e \in k .. Len(text) + 1 /\ (e = Len(text) + 1 \/ text[e] = d)
      /\ \A n \in k .. e - 1 : text[n] # d
  BY <1>1, FieldEnds
<1> HIDE DEF e
<1>3. e = Len(text) + 1 => Last(text) # d
  BY <1>1, <1>2 DEF Last
<1>4. ASSUME e # Len(text) + 1, Last(text) # d PROVE FALSE
  <2>1. Len(text) \in P /\ P \in SUBSET Nat
    BY <1>1, <1>2, <1>4 DEF Last
  <2>2. PICK p \in P : \A n \in P : p <= n
    <3> HIDE DEF P
    <3> QED
      BY <2>1, MinExists
  <2>3. p > e /\ p - 1 \in e .. Len(text) /\ p - 1 \notin P
    BY <1>1, <1>2, <1>4, <2>2
  <2>4. p \in Starts(text, d)
    BY <1>1, <1>2, <2>3 DEF Starts
  <2> QED
    BY <1>1, <1>2, <2>3, <2>4
<1> QED
  BY <1>3, <1>4 DEF e

-----------------------------------------------------------------------------
(* Strings in storage *)

\* A string ends where its first 0 is.
LEMMA StringIs ==
  ASSUME NEW bytes \in Seq(0 .. 255), NEW at \in 1 .. Len(bytes), NEW e \in at .. Len(bytes),
         bytes[e] = 0, \A n \in at .. e - 1 : bytes[n] # 0
  PROVE  /\ strlen(bytes, at) = e - at
         /\ StringAt(bytes, at) \in Seq(1 .. 255)
         /\ Len(StringAt(bytes, at)) = e - at
         /\ \A n \in 1 .. e - at : StringAt(bytes, at)[n] = bytes[at + n - 1]
<1> DEFINE S == {n \in at .. Len(bytes) : bytes[n] = 0}
<1>1. Len(bytes) \in Nat /\ \A n \in 1 .. Len(bytes) : bytes[n] \in 0 .. 255
  BY LenProperties, ElementOfSeq
<1>2. EndOf(bytes, at) = e
  <2>1. S \subseteq at .. Len(bytes) /\ e \in S /\ at \in Nat
    BY <1>1
  <2>2. \A n \in at .. Len(bytes) : n < e => n \notin S
    BY <1>1
  <2> HIDE DEF S
  <2>3. Min(S) = e
    BY <1>1, <2>1, <2>2, MinOfPlaces
  <2> QED
    BY <2>3 DEF EndOf, S
<1>3. \A i \in at .. e - 1 : bytes[i] \in 1 .. 255
  BY <1>1
<1>4. /\ SubSeq(bytes, at, e - 1) \in Seq(1 .. 255)
      /\ Len(SubSeq(bytes, at, e - 1)) = IF at <= e - 1 THEN e - 1 - at + 1 ELSE 0
      /\ \A n \in 1 .. e - 1 - at + 1 : SubSeq(bytes, at, e - 1)[n] = bytes[at + n - 1]
  BY <1>1, <1>3, SubSeqProperties
<1> QED
  BY <1>1, <1>2, <1>4 DEF strlen, StringAt

\* strspn counts a row of delimiters.
LEMMA RowOfDelimiters ==
  ASSUME NEW bytes \in Seq(0 .. 255), NEW at \in 1 .. Len(bytes), NEW d, d # 0,
         bytes[Len(bytes)] = 0
  PROVE  /\ strspn(bytes, at, d) \in 0 .. Len(bytes) - at
         /\ bytes[at + strspn(bytes, at, d)] # d
         /\ \A n \in at .. at + strspn(bytes, at, d) - 1 : bytes[n] = d
<1> DEFINE S == {n \in 0 .. Len(bytes) - at : bytes[at + n] # d}
<1>1. Len(bytes) \in Nat
  BY LenProperties
<1>2. S \in SUBSET Nat /\ Len(bytes) - at \in S
  BY <1>1
<1>3. strspn(bytes, at, d) \in S /\ \A n \in S : strspn(bytes, at, d) <= n
  <2> HIDE DEF S
  <2>1. Min(S) \in S /\ \A n \in S : Min(S) <= n
    BY <1>2, MinExists
  <2> QED
    BY <2>1 DEF strspn, S
<1>4. \A n \in at .. at + strspn(bytes, at, d) - 1 : bytes[n] = d
  <2> SUFFICES ASSUME NEW n \in at .. at + strspn(bytes, at, d) - 1, bytes[n] # d
               PROVE  FALSE
    OBVIOUS
  <2>1. n - at \in 0 .. Len(bytes) - at /\ at + (n - at) = n /\ n - at < strspn(bytes, at, d)
    BY <1>1, <1>3
  <2>2. n - at \in S
    BY <2>1
  <2> QED
    BY <1>1, <1>3, <2>1, <2>2
<1> QED
  BY <1>1, <1>3, <1>4

\* The first bytes of a header: the first is odd, so it is no space; and the
\* second is less than a space.
LEMMA HeaderBytes ==
  ASSUME NEW n \in 0 .. MaxText
  PROVE  /\ Low(n) \in 1 .. 255 /\ Low(n) # Space
         /\ High(n) \in 0 .. Space - 1
         /\ Low(n) = Slash => n % 128 = 11
         /\ n < 100 => High(n) = 0
         /\ HeaderText(n) \in Seq(1 .. 255)
         /\ Len(HeaderText(n)) = IF High(n) = 0 THEN 1 ELSE 2
         /\ HeaderText(n)[1] = Low(n)
         /\ High(n) # 0 => HeaderText(n)[2] = High(n)
<1>1. n \in Nat /\ n <= 1026
  BY DEF BufferSize, MaxText
<1>2. Header(n) = 2 * n + 25
  BY <1>1 DEF Header
<1>3. High(n) \in Nat /\ Low(n) \in 0 .. 255 /\ 2 * n + 25 = 256 * High(n) + Low(n)
  BY <1>1, <1>2 DEF High, Low
<1>4. Low(n) \in 1 .. 255 /\ Low(n) # Space
  BY <1>1, <1>3 DEF Space
<1>5. High(n) \in 0 .. Space - 1 /\ (n < 100 => High(n) = 0)
  BY <1>1, <1>3 DEF Space
<1>6. Low(n) = Slash => n % 128 = 11
  <2> SUFFICES ASSUME Low(n) = Slash PROVE n % 128 = 11
    OBVIOUS
  <2>1. n = 128 * High(n) + 11
    BY <1>1, <1>3 DEF Slash
  <2> QED
    BY <1>3, <2>1
<1>7. /\ HeaderText(n) \in Seq(1 .. 255)
      /\ Len(HeaderText(n)) = IF High(n) = 0 THEN 1 ELSE 2
      /\ HeaderText(n)[1] = Low(n)
      /\ High(n) # 0 => HeaderText(n)[2] = High(n)
  <2>1. CASE High(n) = 0
    <3>1. HeaderText(n) = <<Low(n)>>
      BY <2>1 DEF HeaderText
    <3> QED
      BY <1>4, <2>1, <3>1
  <2>2. CASE High(n) # 0
    <3>1. HeaderText(n) = <<Low(n), High(n)>> /\ High(n) \in 1 .. 255
      BY <1>5, <2>2 DEF HeaderText, Space
    <3> QED
      BY <1>4, <2>2, <3>1
  <2> QED
    BY <2>1, <2>2
<1> QED
  BY <1>4, <1>5, <1>6, <1>7

-----------------------------------------------------------------------------
(* The text that is split *)

LEMMA TextFacts ==
  ASSUME Where, Splitting
  PROVE  /\ IsText(Text, MaxText) /\ MaxText \in Nat /\ MaxText > 100
         /\ Len(Text) \in Nat /\ Len(Text) <= MaxText /\ DOMAIN Text = 1 .. Len(Text)
         /\ Text # << >> => Len(Text) > 0 /\ 1 \in TheStarts
         /\ \A n \in 1 .. Len(Text) : Text[n] \in 1 .. 255
         /\ Delimiter \in {Space, Slash} /\ Delimiter \in 1 .. 255
         /\ caller = "parse" => Text = line /\ Delimiter = Space
         /\ caller = "path" /\ Text # << >> => Text[Len(Text)] = Delimiter /\ Delimiter = Slash
         /\ TheStarts \in SUBSET (1 .. Len(Text))
<1>0. MaxText \in Nat /\ MaxText > 100
  BY DEF MaxText, BufferSize
<1>1. /\ IsText(Text, MaxText)
      /\ caller = "path" /\ Text # << >> => Text[Len(Text)] = Slash
  <2>1. CASE caller = "parse"
    BY <2>1, LenProperties DEF Where, IsText, Text, BufferSize, MaxText
  <2>2. CASE caller = "path"
    <3>1. /\ path \in Seq(1 .. 255) /\ Len(path) <= MaxText /\ path # << >>
          /\ Text = Relative(path) /\ Len(path) \in Nat \ {0} /\ path[Len(path)] = Slash
      BY <2>2, LenProperties, EmptySeq DEF Where, IsPath, IsText, Text, Last
    <3>2. /\ Tail(path) \in Seq(1 .. 255) /\ Len(Tail(path)) = Len(path) - 1
          /\ \A i \in 1 .. Len(Tail(path)) : Tail(path)[i] = path[i + 1]
      BY <3>1, HeadTailProperties
    <3>3. Tail(path) # << >> => Len(Tail(path)) \in Nat \ {0}
      BY <3>2, EmptySeq
    <3>4. Tail(path) # << >> => Tail(path)[Len(Tail(path))] = Slash
      BY <3>1, <3>2, <3>3
    <3> QED
      BY <2>2, <3>1, <3>2, <3>4, <1>0 DEF IsText, Relative
  <2> QED
    BY <2>1, <2>2 DEF Where
<1>2. /\ Len(Text) \in Nat /\ Len(Text) <= MaxText /\ DOMAIN Text = 1 .. Len(Text)
      /\ \A n \in 1 .. Len(Text) : Text[n] \in 1 .. 255
      /\ Text # << >> => Len(Text) > 0
  BY <1>1, LenProperties, ElementOfSeq, EmptySeq DEF IsText
<1>3. /\ Delimiter \in {Space, Slash} /\ Delimiter \in 1 .. 255
      /\ caller = "parse" => Text = line /\ Delimiter = Space
      /\ caller = "path" => Delimiter = Slash
  BY DEF Delimiter, Space, Slash, Text
<1>4. TheStarts \in SUBSET (1 .. Len(Text)) /\ (Text # << >> => 1 \in TheStarts)
  BY <1>2 DEF TheStarts, Starts
<1> QED
  BY <1>0, <1>1, <1>2, <1>3, <1>4

LEMMA TheText ==
  ASSUME UNCHANGED <<caller, line, path>>
  PROVE  /\ Text' = Text /\ Delimiter' = Delimiter /\ TheStarts' = TheStarts
         /\ PathGiven' = PathGiven
BY DEF Text, Delimiter, TheStarts, PathGiven

-----------------------------------------------------------------------------
(* The words *)

\* The first field is no longer than the text, nor is its block.
LEMMA FirstField ==
  ASSUME Where, Splitting, Text # << >>
  PROVE  LET field == Field(Text, Delimiter, 1)
         IN /\ WordAt(1) = field
            /\ Len(field) \in 0 .. MaxText
            /\ FirstBlock(field) \in 0 .. MaxText
<1>1. /\ Len(Text) \in Nat /\ 1 \in 1 .. Len(Text)
      /\ Len(Text) <= MaxText /\ IsText(Text, MaxText) /\ MaxText \in Nat
      /\ MaxText > 100
  BY TextFacts
<1>2. /\ EndOfField(Text, Delimiter, 1) \in 1 .. Len(Text) + 1
      /\ Len(Field(Text, Delimiter, 1)) = EndOfField(Text, Delimiter, 1) - 1
  BY <1>1, FieldEnds
<1>3. Len(Field(Text, Delimiter, 1)) \in 0 .. MaxText
  <2>1. EndOfField(Text, Delimiter, 1) - 1 \in 0 .. MaxText
    BY <1>1, <1>2
  <2> QED
    BY <1>2, <2>1
<1> QED
  BY <1>1, <1>3 DEF FirstBlock, WordAt

\* The first word is the first field, so that the header behind the text is
\* that of a short block.
LEMMA FirstWord ==
  ASSUME Where, Splitting, Text # << >>, WordsSoFar, words # << >>
  PROVE  /\ words[1] = Field(Text, Delimiter, 1)
         /\ Len(words[1]) \in 0 .. MaxText
         /\ FirstBlock(words[1]) \in 0 .. MaxText
         /\ (words[1] # << >> => FirstBlock(words[1]) = Len(words[1]))
         /\ (words[1] = << >> => FirstBlock(words[1]) = 12)
         /\ Len(words) \in Nat \ {0}
<1>1. Len(words) \in Nat \ {0}
  BY EmptySeq DEF WordsSoFar
<1>2. PICK k \in TheStarts : Rank(TheStarts, k) = 1 /\ words[1] = WordAt(k)
  BY <1>1 DEF WordsSoFar
<1>3. TheStarts \in SUBSET (1 .. Len(Text)) /\ Len(Text) \in Nat /\ 1 \in TheStarts
  BY TextFacts
<1>4. k = 1
  BY <1>2, <1>3, RankOfFirst
<1>5. words[1] = Field(Text, Delimiter, 1)
  BY <1>2, <1>4, FirstField
<1> QED
  BY <1>1, <1>5, FirstField DEF FirstBlock

\* When strtok returns, what its reader sees from a field on is the field, with
\* the header behind the text if it is the last one and not the first.
LEMMA WordIsRead ==
  ASSUME Where, OnlyThat, Splitting, Text # << >>, SplitInv, pc = "push"
  PROVE  StringAt(storage, token) = WordAt(token) /\ WordAt(token) \in Seq(1 .. 255)
<1> DEFINE n == Len(Text)
           e == EndOfField(Text, Delimiter, token)
           field == Field(Text, Delimiter, token)
<1>1. /\ TheStarts \in SUBSET (1 .. n) /\ n \in Nat /\ 1 \in TheStarts
      /\ IsText(Text, MaxText) /\ MaxText \in Nat
      /\ Delimiter \in 1 .. 255
      /\ \A k \in 1 .. n : Text[k] \in 1 .. 255
  BY TextFacts
<1>2. /\ InTheText /\ WordsSoFar /\ Progress /\ BehindTheText
      /\ storage \in Seq(0 .. 255) /\ Len(storage) = n + 3
  BY DEF SplitInv, Bytes
<1>3. /\ token \in TheStarts /\ token \in 1 .. n /\ token <= nxt /\ storage[nxt] = 0
      /\ nxt \in 1 .. n + 3
      /\ Len(words) = Rank(TheStarts, token - 1)
  BY <1>1, <1>2 DEF Progress
<1>4. /\ e \in token .. n + 1 /\ (e = n + 1 \/ Text[e] = Delimiter)
      /\ \A k \in token .. e - 1 : Text[k] # Delimiter
      /\ field \in Seq(1 .. 255) /\ Len(field) = e - token
      /\ \A k \in 1 .. e - token : field[k] = Text[token + k - 1]
  <2>1. token \in 1 .. Len(Text)
    BY <1>3
  <2> QED
    BY <1>1, <2>1, FieldEnds
<1> HIDE DEF e, field, n
<1>0. \A x \in 1 .. 255 : x # 0
  OBVIOUS
<1>5. \A k \in token .. e - 1 : storage[k] = Text[k] /\ storage[k] # 0
  <2> SUFFICES ASSUME NEW k \in token .. e - 1
               PROVE  storage[k] = Text[k] /\ storage[k] # 0
    OBVIOUS
  <2>1. k \in 1 .. n /\ Text[k] # Delimiter /\ Text[k] \in 1 .. 255
    BY <1>1, <1>3, <1>4
  <2>2. storage[k] = Text[k]
    BY <1>2, <1>3, <2>1 DEF InTheText, Rests, n
  <2>3. Text[k] # 0
    BY <1>0, <2>1
  <2> QED
    BY <2>2, <2>3
<1>6. ASSUME NEW last \in e .. n + 3, storage[last] = 0, \A k \in e .. last - 1 : storage[k] # 0
      PROVE  /\ StringAt(storage, token) \in Seq(1 .. 255)
             /\ Len(StringAt(storage, token)) = last - token
             /\ \A k \in 1 .. last - token : StringAt(storage, token)[k] = storage[token + k - 1]
  <2>1. /\ token \in 1 .. Len(storage) /\ last \in token .. Len(storage)
        /\ \A k \in token .. last - 1 : storage[k] # 0
    BY <1>1, <1>2, <1>3, <1>4, <1>5, <1>6
  <2> QED
    BY <1>2, <1>6, <2>1, StringIs
<1>7. ASSUME storage[e] = 0 PROVE StringAt(storage, token) = field
  <2>1. e \in e .. n + 3 /\ \A k \in e .. e - 1 : storage[k] # 0
    BY <1>1, <1>3, <1>4
  <2>2. /\ StringAt(storage, token) \in Seq(1 .. 255)
        /\ Len(StringAt(storage, token)) = e - token
        /\ \A k \in 1 .. e - token : StringAt(storage, token)[k] = storage[token + k - 1]
    BY <1>6, <1>7, <2>1
  <2>3. \A k \in 1 .. e - token : StringAt(storage, token)[k] = field[k]
    BY <1>1, <1>3, <1>4, <1>5, <2>2
  <2> QED
    BY <1>4, <2>2, <2>3, SeqEqual
<1>8. CASE e # n + 1
  <2>1. storage[e] = 0
    <3>1. e \in 1 .. n /\ Text[e] = Delimiter
      BY <1>1, <1>3, <1>4, <1>8
    <3>2. ~(nxt < e)
      BY <1>1, <1>3, <1>4, <1>5
    <3>3. CASE nxt = e
      BY <1>3, <3>3
    <3>4. CASE e < nxt
      BY <1>2, <3>1, <3>4 DEF InTheText, n
    <3> QED
      BY <1>1, <1>3, <1>4, <3>2, <3>3, <3>4
  <2>2. WordAt(token) = field
    BY <1>8 DEF WordAt, e, n, field
  <2> QED
    BY <1>4, <1>7, <2>1, <2>2
<1>9. CASE e = n + 1 /\ newest
  <2>1. storage[e] = 0
    BY <1>2, <1>9 DEF BehindTheText, n
  <2>2. token = 1
    <3>1. Len(words) = 0
      BY <1>2, <1>9 DEF BehindTheText
    <3> QED
      BY <1>1, <1>3, <3>1, RankOfFirst
  <2>3. WordAt(token) = field
    BY <2>2 DEF WordAt, field
  <2> QED
    BY <1>4, <1>7, <2>1, <2>3
<1>10. CASE e = n + 1 /\ ~newest
  <2> DEFINE block == FirstBlock(words[1])
             header == HeaderText(block)
  <2>1. words # << >> /\ block \in 0 .. MaxText
    BY <1>2, <1>10, FirstWord DEF BehindTheText
  <2>2. /\ Low(block) \in 1 .. 255 /\ High(block) \in 0 .. Space - 1
        /\ header \in Seq(1 .. 255)
        /\ Len(header) = IF High(block) = 0 THEN 1 ELSE 2
        /\ header[1] = Low(block) /\ (High(block) # 0 => header[2] = High(block))
    BY <2>1, HeaderBytes
  <2> HIDE DEF block, header
  <2>3. ~overwritten
    <3>1. caller = "path" => Text[n] = Delimiter /\ n \in token .. e - 1
      BY <1>1, <1>3, <1>4, <1>10, TextFacts DEF n
    <3> QED
      BY <1>4, <3>1 DEF OnlyThat
  <2>4. /\ storage[n + 1] = Low(block) /\ storage[n + 2] = High(block)
        /\ storage[n + 3] = 0
    BY <1>2, <1>10, <2>3 DEF BehindTheText, n, block
  <2>5. token # 1
    <3>1. Rank(TheStarts, 0) = 0
      BY <1>1, RankOfFirst
    <3>2. Len(words) \in Nat \ {0}
      BY <1>2, <2>1, FirstWord
    <3> QED
      BY <1>3, <3>1, <3>2
  <2>6. WordAt(token) = field \o header
    BY <1>10, <2>5 DEF WordAt, e, n, field, header, block
  <2> DEFINE last == e + Len(header)
  <2>7. /\ last \in e .. n + 3 /\ storage[last] = 0
        /\ \A k \in 1 .. Len(header) : storage[n + k] = header[k] /\ header[k] # 0
    <3>1. CASE High(block) = 0
      <4>1. Len(header) = 1 /\ last = n + 2 /\ last \in e .. n + 3 /\ 1 .. Len(header) = {1}
        BY <1>1, <1>10, <2>2, <3>1
      <4>2. storage[n + 1] = header[1] /\ storage[n + 2] = 0
        BY <2>2, <2>4, <3>1, Zenon
      <4>3. header[1] # 0
        <5>1. header[1] \in 1 .. 255
          BY <2>2
        <5> QED
          BY <1>0, <5>1
      <4> QED
        BY <4>1, <4>2, <4>3
    <3>2. CASE High(block) # 0
      <4>1. Len(header) = 2 /\ last = n + 3 /\ last \in e .. n + 3 /\ 1 .. Len(header) = {1, 2}
        BY <1>1, <1>10, <2>2, <3>2
      <4>2. /\ storage[n + 1] = header[1] /\ header[1] # 0
            /\ storage[n + 2] = header[2] /\ header[2] # 0
        BY <1>0, <2>2, <2>4, <3>2
      <4> QED
        BY <2>4, <4>1, <4>2
    <3> QED
      BY <3>1, <3>2
  <2>8. \A k \in e .. last - 1 : storage[k] # 0
    <3> SUFFICES ASSUME NEW k \in e .. last - 1 PROVE storage[k] # 0
      OBVIOUS
    <3>1. k - n \in 1 .. Len(header) /\ n + (k - n) = k
      BY <1>1, <1>10, <2>2
    <3> QED
      BY <2>7, <3>1
  <2>9. /\ StringAt(storage, token) \in Seq(1 .. 255)
        /\ Len(StringAt(storage, token)) = last - token
        /\ \A k \in 1 .. last - token : StringAt(storage, token)[k] = storage[token + k - 1]
    BY <1>6, <2>7, <2>8
  <2>10. /\ field \o header \in Seq(1 .. 255)
         /\ Len(field \o header) = Len(field) + Len(header)
         /\ \A k \in 1 .. Len(field) + Len(header) :
              (field \o header)[k] = IF k <= Len(field) THEN field[k] ELSE header[k - Len(field)]
    <3>1. field \in Seq(1 .. 255) /\ header \in Seq(1 .. 255)
      BY <1>4, <2>2
    <3> QED
      BY <3>1, ConcatProperties
  <2>11. /\ last - token = Len(field) + Len(header) /\ Len(field) \in Nat /\ Len(header) \in Nat
         /\ Len(field) = n + 1 - token
    BY <1>1, <1>3, <1>4, <1>10, <2>2
  <2>12. \A k \in 1 .. last - token : StringAt(storage, token)[k] = (field \o header)[k]
    <3> SUFFICES ASSUME NEW k \in 1 .. last - token
                 PROVE  storage[token + k - 1] = (field \o header)[k]
      BY <2>9
    <3>1. CASE k <= Len(field)
      <4>1. k \in 1 .. e - token /\ token + k - 1 \in token .. e - 1
        BY <1>1, <1>3, <1>4, <1>10, <2>11, <3>1
      <4>2. storage[token + k - 1] = field[k]
        BY <1>4, <1>5, <4>1
      <4> QED
        BY <2>10, <2>11, <3>1, <4>2
    <3>2. CASE k > Len(field)
      <4>1. k - Len(field) \in 1 .. Len(header) /\ n + (k - Len(field)) = token + k - 1
        BY <1>1, <1>3, <2>11, <3>2
      <4>2. storage[token + k - 1] = header[k - Len(field)]
        BY <2>7, <4>1
      <4> QED
        BY <2>10, <2>11, <3>2, <4>2
    <3> QED
      BY <2>11, <3>1, <3>2
  <2> HIDE DEF last
  <2> QED
    BY <2>6, <2>9, <2>10, <2>11, <2>12, SeqEqual
<1> QED
  BY <1>8, <1>9, <1>10

LEMMA SameWords ==
  ASSUME UNCHANGED <<caller, line, path, words>>
  PROVE  WordsSoFar' <=> WordsSoFar
BY DEF WordsSoFar, WordAt, TheStarts, Text, Delimiter

-----------------------------------------------------------------------------
(* The calls of strtok *)

\* A text is copied, with nothing behind it.
LEMMA SplitBegins ==
  ASSUME NEW who, NEW text, Split(who, text), Text' = text, text # << >>,
         IsText(text, MaxText)
  PROVE  SplitInv' /\ OnlyThat'
<1>1. /\ pc' = "first" /\ words' = << >> /\ newest' = TRUE /\ overwritten' = FALSE
      /\ storage' = text \o <<0, 0, 0>>
  BY DEF Split
<1>2. /\ text \in Seq(0 .. 255) /\ Len(text) \in Nat
      /\ <<0, 0, 0>> \in Seq(0 .. 255) /\ Len(<<0, 0, 0>>) = 3
  <2>1. text \in Seq(1 .. 255) /\ 1 .. 255 \subseteq 0 .. 255
    BY DEF IsText
  <2> QED
    BY <2>1, SeqMonotonic, LenProperties
<1>3. /\ storage' \in Seq(0 .. 255) /\ Len(storage') = Len(text) + 3
      /\ \A n \in 1 .. Len(text) + 3 :
           storage'[n] = IF n <= Len(text) THEN text[n] ELSE <<0, 0, 0>>[n - Len(text)]
  BY <1>1, <1>2, ConcatProperties
<1>4. \A n \in 1 .. Len(text) : storage'[n] = text[n]
  BY <1>2, <1>3
<1>5. /\ storage'[Len(text) + 1] = 0 /\ storage'[Len(text) + 2] = 0
      /\ storage'[Len(text) + 3] = 0
  <2>1. \A k \in 1 .. 3 : storage'[Len(text) + k] = 0
    <3> SUFFICES ASSUME NEW k \in 1 .. 3 PROVE storage'[Len(text) + k] = 0
      OBVIOUS
    <3>1. /\ Len(text) + k \in 1 .. Len(text) + 3 /\ ~(Len(text) + k <= Len(text))
          /\ (Len(text) + k) - Len(text) = k
      BY <1>2
    <3>2. storage'[Len(text) + k] = <<0, 0, 0>>[k]
      BY <1>3, <3>1
    <3> QED
      BY <3>2
  <2> QED
    BY <2>1
<1>6. Bytes'
  BY <1>1, <1>3, <1>5 DEF Bytes, BehindTheText
<1> QED
  BY <1>1, <1>4, <1>6 DEF SplitInv, OnlyThat

LEMMA FirstTokenKeeps ==
  ASSUME Where, Splitting, Text # << >>, SplitInv, FirstToken
  PROVE  SplitInv'
<1> DEFINE n == Len(Text)
<1>1. /\ pc' = "strtok" /\ nxt' = 1 /\ token' = 1 /\ size' = strlen(storage, 1)
      /\ UNCHANGED <<caller, line, path, storage, newest, words, overwritten>>
  BY DEF FirstToken
<1>2. Text' = Text /\ Delimiter' = Delimiter /\ TheStarts' = TheStarts
  BY <1>1, TheText
<1>3. /\ Bytes /\ words = << >> /\ \A k \in 1 .. n : storage[k] = Text[k]
  BY DEF SplitInv, FirstToken
<1>4. /\ n \in Nat /\ n > 0 /\ 1 \in TheStarts /\ TheStarts \in SUBSET (1 .. n)
      /\ \A k \in 1 .. n : Text[k] \in 1 .. 255
  BY TextFacts
<1> HIDE DEF n
<1>5. /\ storage \in Seq(0 .. 255) /\ Len(storage) = n + 3 /\ storage[n + 1] = 0
  BY <1>3 DEF Bytes, BehindTheText, n
<1>6. size' = n
  <2>1. \A x \in 1 .. 255 : x # 0
    OBVIOUS
  <2>2. \A k \in 1 .. (n + 1) - 1 : storage[k] # 0
    <3> SUFFICES ASSUME NEW k \in 1 .. (n + 1) - 1 PROVE storage[k] # 0
      OBVIOUS
    <3>1. k \in 1 .. n
      BY <1>4
    <3>2. storage[k] = Text[k] /\ Text[k] \in 1 .. 255
      BY <1>3, <1>4, <3>1
    <3> QED
      BY <2>1, <3>2
  <2>3. 1 \in 1 .. Len(storage) /\ n + 1 \in 1 .. Len(storage)
    BY <1>4, <1>5
  <2>4. strlen(storage, 1) = (n + 1) - 1
    BY <1>5, <2>2, <2>3, StringIs
  <2> QED
    BY <1>1, <1>4, <2>4
<1>7. Bytes'
  BY <1>1, <1>2, <1>3 DEF Bytes, BehindTheText
<1>8. InTheText'
  BY <1>1, <1>2, <1>3, <1>4 DEF InTheText, n
<1>9. WordsSoFar'
  BY <1>1, <1>3, EmptySeq DEF WordsSoFar
<1>10. Progress'
  <2>1. \A j \in TheStarts : j <= 1 \/ j > 1
    BY <1>4
  <2>2. Len(words) = 0 /\ Rank(TheStarts, 1 - 1) = 0
    <3>1. Rank(TheStarts, 0) = 0
      BY <1>4, RankOfFirst
    <3>2. 1 - 1 = 0
      OBVIOUS
    <3> QED
      BY <1>3, <3>1, <3>2, EmptySeq
  <2>3. nxt' \in 1 .. n + 3 /\ size' = n + 1 - nxt' /\ token' # Null
    BY <1>1, <1>4, <1>6 DEF Null
  <2> QED
    BY <1>1, <1>2, <1>4, <2>1, <2>2, <2>3 DEF Progress, n
<1> QED
  BY <1>1, <1>7, <1>8, <1>9, <1>10 DEF SplitInv

LEMMA NextTokenKeeps ==
  ASSUME Where, Splitting, Text # << >>, SplitInv, NextToken
  PROVE  SplitInv'
<1> DEFINE n == Len(Text)
<1>1. /\ pc = "next" /\ pc' = "strtok"
      /\ UNCHANGED <<caller, line, path, storage, newest, words, overwritten>>
  BY DEF NextToken
<1>2. Text' = Text /\ Delimiter' = Delimiter /\ TheStarts' = TheStarts
  BY <1>1, TheText
<1>3. Bytes /\ InTheText /\ WordsSoFar /\ Progress
  BY <1>1 DEF SplitInv
<1>4. /\ n \in Nat /\ n > 0 /\ 1 \in TheStarts /\ TheStarts \in SUBSET (1 .. n)
      /\ \A k \in 1 .. n : Text[k] \in 1 .. 255
      /\ DOMAIN Text = 1 .. n
  BY TextFacts
<1>5. /\ nxt \in 1 .. n + 3 /\ size = n + 1 - nxt /\ words # << >>
      /\ Len(words) = Rank(TheStarts, nxt)
      /\ nxt <= n => storage[nxt] = 0
  BY <1>1, <1>3 DEF Progress
<1> HIDE DEF n
<1>6. Bytes'
  BY <1>1, <1>2, <1>3 DEF Bytes, BehindTheText
<1>7. WordsSoFar'
  BY <1>1, <1>3, SameWords
<1>8. CASE size > 0
  <2>1. nxt' = nxt + 1 /\ size' = size - 1 /\ token' = nxt + 1
    BY <1>8 DEF NextToken
  <2>2. nxt <= n /\ size \in Int
    BY <1>4, <1>5, <1>8
  <2>3. Rests
    <3>1. \A x \in 1 .. 255 : x # 0
      OBVIOUS
    <3>2. nxt \in 1 .. n
      BY <1>4, <1>5, <2>2
    <3>3. storage[nxt] = 0 /\ Text[nxt] \in 1 .. 255
      BY <1>4, <1>5, <2>2, <3>2
    <3>4. Text[nxt] # 0
      BY <3>1, <3>3
    <3> QED
      BY <1>3, <3>2, <3>3, <3>4 DEF InTheText, n
  <2>4. nxt + 1 \in TheStarts
    <3>1. nxt + 1 \in 1 .. n /\ (nxt + 1) - 1 = nxt
      BY <1>4, <1>5, <2>3 DEF Rests, n
    <3> QED
      BY <1>4, <2>3, <3>1 DEF TheStarts, Starts, Rests
  <2>5. InTheText'
    <3> SUFFICES ASSUME NEW k \in 1 .. n
                 PROVE  /\ k < nxt + 1 => storage[k] = (IF Text[k] = Delimiter THEN 0 ELSE Text[k])
                        /\ k >= nxt + 1 => storage[k] = Text[k]
      BY <1>1, <1>2, <1>4, <1>5, <2>1 DEF InTheText, n
    <3>1. CASE k < nxt
      BY <1>3, <1>4, <1>5, <3>1 DEF InTheText, n
    <3>2. CASE k = nxt
      BY <1>4, <1>5, <2>3, <3>2 DEF Rests
    <3>3. CASE k > nxt
      BY <1>3, <1>4, <1>5, <3>3 DEF InTheText, n
    <3> QED
      BY <1>4, <1>5, <3>1, <3>2, <3>3
  <2>6. Progress'
    <3>1. nxt' \in 1 .. n + 3 /\ size' = n + 1 - nxt' /\ token' <= nxt'
      BY <1>4, <1>5, <2>1, <2>2
    <3>2. \A j \in TheStarts : j <= token' \/ j > nxt'
      BY <1>4, <1>5, <2>1
    <3>3. (nxt + 1) - 1 = nxt /\ token' # Null
      BY <1>5, <2>1 DEF Null
    <3> QED
      BY <1>1, <1>2, <1>5, <2>1, <2>4, <3>1, <3>2, <3>3 DEF Progress, n
  <2> QED
    BY <1>1, <1>6, <1>7, <2>5, <2>6 DEF SplitInv
<1>9. CASE ~(size > 0)
  <2>1. nxt' = nxt /\ size' = size /\ token' = Null
    BY <1>9 DEF NextToken, statics
  <2>2. nxt > n
    BY <1>4, <1>5, <1>9
  <2>3. InTheText'
    BY <1>1, <1>2, <1>3, <2>1 DEF InTheText, Rests
  <2>4. Len(words) = Cardinality(TheStarts)
    <3>1. nxt \in Int /\ \A j \in TheStarts : j <= nxt
      BY <1>4, <1>5, <2>2
    <3>2. Rank(TheStarts, nxt) = Cardinality(TheStarts)
      BY <1>4, <3>1, Ranks
    <3> QED
      BY <1>5, <3>2
  <2>5. Progress'
    BY <1>1, <1>2, <1>5, <2>1, <2>2, <2>4 DEF Progress, n
  <2> QED
    BY <1>1, <1>6, <1>7, <2>3, <2>5 DEF SplitInv
<1> QED
  BY <1>8, <1>9

LEMMA ReturnKeeps ==
  ASSUME Where, Splitting, Text # << >>, SplitInv, Return
  PROVE  SplitInv'
<1>1. /\ pc = "strtok" /\ pc' = IF token = Null THEN "split" ELSE "push"
      /\ storage[nxt] = 0
      /\ UNCHANGED <<caller, line, path, storage, newest, token, nxt, size, words, overwritten>>
  BY DEF Return, statics
<1>2. Text' = Text /\ Delimiter' = Delimiter /\ TheStarts' = TheStarts
  BY <1>1, TheText
<1>3. Bytes /\ InTheText /\ WordsSoFar /\ Progress
  BY <1>1 DEF SplitInv
<1>4. Bytes' /\ InTheText'
  BY <1>1, <1>2, <1>3 DEF Bytes, BehindTheText, InTheText, Rests
<1>5. WordsSoFar'
  BY <1>1, <1>3, SameWords
<1>6. Progress'
  BY <1>1, <1>2, <1>3 DEF Progress
<1> QED
  BY <1>1, <1>4, <1>5, <1>6 DEF SplitInv

\* A turn that reaches behind the text finds a slash there.
LEMMA TurnKeeps ==
  ASSUME Where, OnlyThat, Splitting, Text # << >>, SplitInv, Turn
  PROVE  SplitInv' /\ OnlyThat'
<1> DEFINE n == Len(Text)
           d == Delimiter
           i == strspn(storage, nxt, d)
           last == nxt + i - 1
<1>1. /\ pc = "strtok" /\ storage[nxt] # 0
      /\ UNCHANGED <<pc, caller, line, path, newest, token, words>>
      /\ storage' = [k \in DOMAIN storage |-> IF k \in nxt .. last THEN 0 ELSE storage[k]]
      /\ overwritten' = (overwritten \/ (i > 0 /\ last > Len(storage) - 3))
  BY DEF Turn
<1>2. Text' = Text /\ Delimiter' = Delimiter /\ TheStarts' = TheStarts
  BY <1>1, TheText
<1>3. Bytes /\ InTheText /\ WordsSoFar /\ Progress /\ BehindTheText
  BY <1>1 DEF SplitInv, Bytes
<1>4. /\ n \in Nat /\ n > 0 /\ TheStarts \in SUBSET (1 .. n)
      /\ \A k \in 1 .. n : Text[k] \in 1 .. 255
      /\ DOMAIN Text = 1 .. n /\ d \in {Space, Slash} /\ d \in 1 .. 255 /\ d # 0
      /\ caller = "parse" => d = Space
  <2>1. \A x \in 1 .. 255 : x # 0
    OBVIOUS
  <2>2. d \in 1 .. 255
    BY TextFacts
  <2>3. d # 0
    BY <2>1, <2>2
  <2> QED
    BY <2>3, TextFacts
<1>5. /\ storage \in Seq(0 .. 255) /\ Len(storage) = n + 3 /\ DOMAIN storage = 1 .. n + 3
      /\ storage[n + 3] = 0 /\ nxt \in 1 .. n + 3 /\ size = n + 1 - nxt
      /\ \A k \in 1 .. n + 3 : storage[k] \in 0 .. 255
  <2>1. /\ storage \in Seq(0 .. 255) /\ Len(storage) = n + 3
        /\ storage[n + 3] = 0 /\ nxt \in 1 .. n + 3 /\ size = n + 1 - nxt
    BY <1>3 DEF Bytes, BehindTheText, Progress
  <2>2. DOMAIN storage = 1 .. Len(storage)
    BY <2>1, LenProperties
  <2>3. \A k \in 1 .. Len(storage) : storage[k] \in 0 .. 255
    BY <2>1, ElementOfSeq
  <2> QED
    BY <2>1, <2>2, <2>3
<1>6. /\ i \in 0 .. (n + 3) - nxt /\ storage[nxt + i] # d
      /\ \A k \in nxt .. last : storage[k] = d
  <2>1. nxt \in 1 .. Len(storage) /\ storage[Len(storage)] = 0
    BY <1>5
  <2> QED
    BY <1>4, <1>5, <2>1, RowOfDelimiters
<1>7. /\ i = 0 => nxt' = nxt + 1 /\ size' = size - 1
      /\ i # 0 /\ size - (i - 1) > 1 => nxt' = last - 1 + 1 /\ size' = size - (i - 1) + 1 - 1
      /\ i # 0 /\ ~(size - (i - 1) > 1) => nxt' = last + 1 /\ size' = size - (i - 1) - 1
  <2> DEFINE cut == [nxt |-> nxt + i - 1, size |-> size - (i - 1)]
             moved == IF i = 0 THEN [nxt |-> nxt, size |-> size] ELSE StepBack(cut)
  <2>0. size \in Int /\ i \in Int
    BY <1>4, <1>5, <1>6
  <2>1. nxt' = moved.nxt + 1 /\ size' = moved.size - 1
    BY DEF Turn
  <2>2. cut.nxt = last /\ cut.size = size - (i - 1)
    OBVIOUS
  <2>3. i = 0 => moved.nxt = nxt /\ moved.size = size
    OBVIOUS
  <2>4. i # 0 => moved = StepBack(cut)
    OBVIOUS
  <2>5. cut.size > 1 => /\ StepBack(cut).nxt = cut.nxt - 1
                        /\ StepBack(cut).size = cut.size + 1
    BY DEF StepBack
  <2>6. ~(cut.size > 1) => StepBack(cut) = cut
    BY DEF StepBack
  <2> HIDE DEF cut, moved, i, last
  <2>7. i = 0 => nxt' = nxt + 1 /\ size' = size - 1
    BY <2>1, <2>3
  <2>8. ASSUME i # 0, size - (i - 1) > 1
        PROVE  nxt' = last - 1 + 1 /\ size' = size - (i - 1) + 1 - 1
    <3>1. moved.nxt = cut.nxt - 1 /\ moved.size = cut.size + 1
      BY <2>2, <2>4, <2>5, <2>8
    <3>2. moved.nxt = last - 1 /\ moved.size = size - (i - 1) + 1
      BY <2>2, <3>1, Zenon
    <3>3. nxt' = last - 1 + 1
      BY <2>1, <3>2
    <3>4. size' = size - (i - 1) + 1 - 1
      BY <2>0, <2>1, <3>2
    <3> QED
      BY <3>3, <3>4
  <2>9. ASSUME i # 0, ~(size - (i - 1) > 1)
        PROVE  nxt' = last + 1 /\ size' = size - (i - 1) - 1
    <3>1. moved = cut
      BY <2>2, <2>4, <2>6, <2>9
    <3> QED
      BY <2>1, <2>2, <3>1
  <2> QED
    BY <2>7, <2>8, <2>9
<1> HIDE DEF i, last, n, d
<1>8. last = nxt + i - 1 /\ last \in Int /\ i \in Nat /\ nxt \in Nat
  BY <1>4, <1>5, <1>6 DEF last
<1>9. ~newest => /\ words # << >> /\ FirstBlock(words[1]) \in 0 .. MaxText
                 /\ storage[n + 2] = High(FirstBlock(words[1]))
                 /\ storage[n + 1] = Low(FirstBlock(words[1])) \/ storage[n + 1] = 0
  BY <1>3, FirstWord DEF BehindTheText, n
<1>10. storage[n + 2] # d
  <2>1. newest => storage[n + 2] = 0
    BY <1>3 DEF BehindTheText, n
  <2>2. ~newest => storage[n + 2] \in 0 .. Space - 1
    BY <1>9, HeaderBytes
  <2>3. \A x \in 0 .. Space - 1 : x # Space /\ x # Slash
    BY DEF Space, Slash
  <2>4. 0 # d
    BY <1>4
  <2> QED
    BY <1>4, <2>1, <2>2, <2>3, <2>4
<1>11. nxt <= n + 2 /\ (i > 0 => last <= n + 1)
  <2>1. nxt # n + 3
    BY <1>1, <1>5
  <2>2. ~(n + 2 \in nxt .. last)
    BY <1>6, <1>10
  <2> QED
    BY <1>4, <1>5, <1>6, <1>8, <2>1, <2>2
<1>12. /\ nxt' \in 1 .. n + 3 /\ size' = n + 1 - nxt' /\ nxt' >= nxt /\ nxt' >= last
       /\ i = 0 => nxt' = nxt + 1
       /\ i > 0 /\ last < n => nxt' = last
       /\ i > 0 /\ last >= n => nxt' = last + 1
  <2>1. CASE i = 0
    BY <1>4, <1>5, <1>7, <1>8, <1>11, <2>1
  <2>2. CASE i > 0 /\ last < n
    <3>1. size - (i - 1) = n + 1 - last /\ n + 1 - last > 1
      BY <1>4, <1>5, <1>8, <2>2
    <3>2. nxt' = last /\ size' = n + 1 - last
      BY <1>4, <1>7, <1>8, <2>2, <3>1
    <3> QED
      BY <1>4, <1>5, <1>8, <2>2, <3>2
  <2>3. CASE i > 0 /\ last >= n
    <3>1. size - (i - 1) = n + 1 - last /\ ~(n + 1 - last > 1)
      BY <1>4, <1>5, <1>8, <2>3
    <3>2. nxt' = last + 1 /\ size' = n + 1 - last - 1
      BY <1>4, <1>7, <1>8, <2>3, <3>1
    <3> QED
      BY <1>4, <1>5, <1>8, <1>11, <2>3, <3>2
  <2> QED
    BY <1>4, <1>8, <2>1, <2>2, <2>3
<1>13. \A k \in 1 .. n : /\ k < nxt => storage[k] = (IF Text[k] = d THEN 0 ELSE Text[k])
                         /\ k >= nxt => storage[k] = Text[k]
  <2>1. ~Rests
    BY <1>1 DEF Rests
  <2> QED
    BY <1>3, <1>4, <1>5, <2>1 DEF InTheText, n, d
<1>14. /\ storage' \in Seq(0 .. 255) /\ Len(storage') = n + 3
       /\ \A k \in 1 .. n + 3 : storage'[k] = IF k \in nxt .. last THEN 0 ELSE storage[k]
  <2>1. storage' = [k \in 1 .. n + 3 |-> IF k \in nxt .. last THEN 0 ELSE storage[k]]
    BY <1>1, <1>5
  <2>2. n + 3 \in Nat
    BY <1>4
  <2>3. \A k \in 1 .. n + 3 : (IF k \in nxt .. last THEN 0 ELSE storage[k]) \in 0 .. 255
    BY <1>5
  <2>4. storage' \in [1 .. n + 3 -> 0 .. 255] /\ DOMAIN storage' = 1 .. n + 3
    BY <2>1, <2>3
  <2>5. storage' \in Seq(0 .. 255)
    <3>1. storage' \in UNION {[1 .. k -> 0 .. 255] : k \in Nat}
      BY <2>2, <2>4, Zenon
    <3> QED
      BY <3>1, SeqDef, Zenon
  <2>6. Len(storage') = n + 3
    BY <2>2, <2>4, <2>5, LenProperties
  <2> QED
    BY <2>1, <2>5, <2>6
<1>15. storage'[n + 3] = storage[n + 3] /\ storage'[n + 2] = storage[n + 2]
  <2>1. ~(n + 3 \in nxt .. last) /\ ~(n + 2 \in nxt .. last)
    BY <1>4, <1>5, <1>8, <1>11
  <2>2. n + 3 \in 1 .. n + 3 /\ n + 2 \in 1 .. n + 3
    BY <1>4
  <2> QED
    BY <1>14, <2>1, <2>2
<1>16. InTheText'
  <2> SUFFICES ASSUME NEW k \in 1 .. n
               PROVE  /\ k < nxt' => storage'[k] = (IF Text[k] = d THEN 0 ELSE Text[k])
                      /\ k = nxt' => storage'[k] = Text[k] \/ Rests'
                      /\ k > nxt' => storage'[k] = Text[k]
    BY <1>2 DEF InTheText, n, d
  <2>1. k \in 1 .. n + 3
    BY <1>4
  <2>2. CASE k \in nxt .. last
    <3>1. storage'[k] = 0 /\ Text[k] = d /\ i > 0 /\ ~(k > nxt')
      BY <1>4, <1>5, <1>6, <1>8, <1>12, <1>13, <1>14, <2>1, <2>2
    <3>2. CASE k = nxt'
      <4>1. last < n /\ k = last /\ last + 1 = nxt + i
        BY <1>4, <1>5, <1>8, <1>12, <2>2, <3>1, <3>2
      <4>2. last + 1 \in 1 .. n /\ last + 1 >= nxt
        BY <1>4, <1>5, <1>8, <4>1
      <4>3. Text[last + 1] # d
        BY <1>6, <1>13, <4>1, <4>2
      <4>4. Rests'
        BY <1>2, <3>1, <3>2, <4>1, <4>3 DEF Rests, n, d
      <4> QED
        BY <3>2, <4>4
    <3> QED
      BY <3>1, <3>2
  <2>3. CASE ~(k \in nxt .. last)
    <3>1. storage'[k] = storage[k]
      BY <1>14, <2>1, <2>3
    <3>2. CASE k < nxt
      BY <1>4, <1>5, <1>12, <1>13, <3>1, <3>2
    <3>3. CASE k >= nxt
      <4>1. storage[k] = Text[k]
        BY <1>13, <3>3
      <4>2. CASE k < nxt'
        <5>1. i = 0 /\ k = nxt
          BY <1>4, <1>5, <1>8, <1>12, <2>3, <3>3, <4>2
        <5>2. nxt + i = nxt
          BY <1>5, <5>1
        <5>3. Text[k] # d
          BY <1>6, <4>1, <5>1, <5>2
        <5> QED
          BY <1>12, <3>1, <4>1, <4>2, <5>3
      <4> QED
        BY <1>12, <3>1, <4>1, <4>2
    <3> QED
      BY <1>5, <3>2, <3>3
  <2> QED
    BY <2>2, <2>3
<1>17. Progress'
  <2>1. ASSUME NEW j \in TheStarts, j > nxt PROVE j > nxt'
    <3> SUFFICES ASSUME j <= nxt' PROVE FALSE
      BY <1>4, <1>5, <1>12
    <3>1. j \in 1 .. n /\ j - 1 \in 1 .. n /\ Text[j] # d /\ Text[j - 1] = d
      BY <1>4, <1>5, <2>1 DEF TheStarts, Starts, d
    <3>2. storage[j] = Text[j] /\ storage[j - 1] = Text[j - 1]
      BY <1>4, <1>5, <1>13, <2>1, <3>1
    <3>3. CASE i = 0
      <4>1. j - 1 = nxt + i
        BY <1>4, <1>5, <1>12, <2>1, <3>1, <3>3
      <4> QED
        BY <1>6, <3>1, <3>2, <4>1
    <3>4. CASE i > 0
      <4>1. j \in nxt .. last
        BY <1>4, <1>5, <1>8, <1>12, <2>1, <3>1, <3>4
      <4> QED
        BY <1>6, <3>1, <3>2, <4>1
    <3> QED
      BY <1>8, <3>3, <3>4
  <2>2. token # Null => /\ token \in TheStarts /\ token <= nxt
                        /\ \A j \in TheStarts : j <= token \/ j > nxt
                        /\ Len(words) = Rank(TheStarts, token - 1)
    BY <1>1, <1>3 DEF Progress
  <2>3. ASSUME token # Null
        PROVE  token <= nxt' /\ \A j \in TheStarts : j <= token \/ j > nxt'
    <3>1. token \in TheStarts /\ token <= nxt
      BY <2>2, <2>3
    <3>2. token \in Nat
      BY <1>4, <3>1
    <3>3. token <= nxt'
      BY <1>5, <1>12, <3>1, <3>2
    <3> QED
      BY <2>1, <2>2, <2>3, <3>3
  <2>4. token = Null => nxt > n /\ words # << >> /\ Len(words) = Cardinality(TheStarts)
    BY <1>1, <1>3 DEF Progress, n
  <2>5. token = Null => nxt' > n
    BY <1>4, <1>5, <1>12, <2>4
  <2> QED
    BY <1>1, <1>2, <1>12, <2>2, <2>3, <2>4, <2>5 DEF Progress, n
<1>18. ASSUME i > 0, last > n PROVE BehindTheText' /\ OnlyThat'
  <2>1. n + 1 \in nxt .. last \/ nxt = n + 2
    BY <1>4, <1>5, <1>8, <1>11, <1>18
  <2>2. storage[n + 1] = d /\ n + 1 \in nxt .. last
    BY <1>4, <1>6, <1>8, <1>11, <1>18, <2>1
  <2>3. ~newest
    BY <1>3, <1>4, <2>2 DEF BehindTheText, n
  <2>4. Low(FirstBlock(words[1])) = d
    BY <1>4, <1>9, <2>2, <2>3
  <2>5. d = Slash /\ caller = "path"
    <3>1. d # Space
      BY <1>9, <2>3, <2>4, HeaderBytes
    <3> QED
      BY <1>4, <3>1 DEF Where
  <2>6. FirstBlock(words[1]) % 128 = 11
    BY <1>9, <2>3, <2>4, <2>5, HeaderBytes
  <2>7. words # << >> /\ Len(words[1]) % 128 = 11
    <3>1. 12 % 128 # 11
      OBVIOUS
    <3>2. words[1] # << >>
      BY <1>3, <1>9, <2>3, <2>6, <3>1, FirstWord
    <3> QED
      BY <1>3, <1>9, <2>3, <2>6, <3>2, FirstWord
  <2>8. overwritten' /\ storage'[n + 1] = 0
    <3>1. last > Len(storage) - 3 /\ n + 1 \in 1 .. n + 3
      BY <1>4, <1>5, <1>18
    <3> QED
      BY <1>1, <1>14, <1>18, <2>2, <3>1
  <2>9. OnlyThat'
    BY <1>1, <2>5, <2>7 DEF OnlyThat
  <2>10. BehindTheText'
    BY <1>1, <1>2, <1>3, <1>15, <2>3, <2>8 DEF BehindTheText, n
  <2> QED
    BY <2>9, <2>10
<1>19. ASSUME ~(i > 0 /\ last > n) PROVE BehindTheText' /\ OnlyThat'
  <2>1. ~(n + 1 \in nxt .. last) /\ n + 1 \in 1 .. n + 3
    BY <1>4, <1>5, <1>8, <1>19
  <2>2. storage'[n + 1] = storage[n + 1]
    BY <1>14, <2>1
  <2>3. Len(storage) - 3 = n
    BY <1>4, <1>5
  <2>4. overwritten' <=> overwritten
    BY <1>1, <1>19, <2>3
  <2>5. OnlyThat'
    BY <1>1, <2>4 DEF OnlyThat
  <2>6. BehindTheText'
    BY <1>1, <1>2, <1>3, <1>15, <2>2, <2>4 DEF BehindTheText, n
  <2> QED
    BY <2>5, <2>6
<1>20. Bytes' /\ OnlyThat'
  BY <1>2, <1>14, <1>18, <1>19 DEF Bytes, n
<1>21. WordsSoFar'
  BY <1>1, <1>3, SameWords
<1> QED
  BY <1>1, <1>16, <1>17, <1>20, <1>21 DEF SplitInv

\* The first word's block is the first one behind the text.
LEMMA PushWordKeeps ==
  ASSUME Where, OnlyThat, Splitting, Text # << >>, SplitInv, PushWord
  PROVE  SplitInv' /\ OnlyThat'
<1> DEFINE n == Len(Text)
           word == StringAt(storage, token)
<1>1. /\ pc = "push" /\ pc' = "next" /\ words' = Append(words, word) /\ newest' = FALSE
      /\ storage' = IF newest
                    THEN [storage EXCEPT ![Len(storage) - 2] = Low(FirstBlock(word)),
                                         ![Len(storage) - 1] = High(FirstBlock(word))]
                    ELSE storage
      /\ UNCHANGED <<caller, line, path, token, nxt, size, overwritten>>
  BY DEF PushWord, statics
<1>2. Text' = Text /\ Delimiter' = Delimiter /\ TheStarts' = TheStarts
  BY <1>1, TheText
<1>3. Bytes /\ InTheText /\ WordsSoFar /\ Progress /\ BehindTheText
  BY <1>1 DEF SplitInv, Bytes
<1>4. /\ n \in Nat /\ TheStarts \in SUBSET (1 .. n) /\ 1 \in TheStarts
  BY TextFacts
<1>5. word = WordAt(token) /\ word \in Seq(1 .. 255)
  BY <1>1, WordIsRead
<1> HIDE DEF n, word
<1>6. /\ token \in TheStarts /\ token <= nxt /\ nxt \in 1 .. n + 3 /\ storage[nxt] = 0
      /\ \A j \in TheStarts : j <= token \/ j > nxt
      /\ Len(words) = Rank(TheStarts, token - 1)
      /\ words \in Seq(Seq(1 .. 255)) /\ Len(words) \in Nat
      /\ size = n + 1 - nxt
  BY <1>1, <1>3, LenProperties DEF Progress, WordsSoFar, n
<1>7. /\ words' \in Seq(Seq(1 .. 255)) /\ Len(words') = Len(words) + 1 /\ words' # << >>
      /\ words'[Len(words) + 1] = word
      /\ \A m \in 1 .. Len(words) : words'[m] = words[m]
  BY <1>1, <1>5, <1>6, AppendProperties
<1>8. ASSUME words # << >>
      PROVE  words'[1] = words[1] /\ \A k : WordAt(k)' = WordAt(k)
  <2>1. 1 \in 1 .. Len(words)
    BY <1>6, <1>8, EmptySeq
  <2>2. words'[1] = words[1]
    BY <1>7, <2>1
  <2> QED
    BY <1>2, <2>2 DEF WordAt
<1>9. ASSUME words = << >>
      PROVE  token = 1 /\ words'[1] = word /\ \A k : k = 1 => WordAt(k)' = WordAt(k)
  <2>1. Len(words) = 0
    BY <1>9, EmptySeq
  <2>2. token = 1
    BY <1>4, <1>6, <2>1, RankOfFirst
  <2>3. Len(words) + 1 = 1
    BY <2>1
  <2>4. words'[1] = word
    BY <1>7, <2>3
  <2> QED
    BY <1>1, <1>2, <2>2, <2>4 DEF WordAt
<1>10. Rank(TheStarts, token) = Len(words) + 1
  <2>1. \A k \in TheStarts : Rank(TheStarts, k) = Rank(TheStarts, k - 1) + 1
    BY <1>4, Ranks
  <2> QED
    BY <1>6, <2>1
<1>11. WordsSoFar'
  <2> SUFFICES ASSUME NEW m \in 1 .. Len(words')
               PROVE  \E k \in TheStarts : Rank(TheStarts, k) = m /\ words'[m] = WordAt(k)'
    BY <1>2, <1>7 DEF WordsSoFar
  <2>1. CASE m \in 1 .. Len(words)
    <3>1. words # << >>
      BY <1>6, <2>1, EmptySeq
    <3>2. PICK k \in TheStarts : Rank(TheStarts, k) = m /\ words[m] = WordAt(k)
      BY <1>3, <2>1 DEF WordsSoFar
    <3> QED
      BY <1>7, <1>8, <2>1, <3>1, <3>2
  <2>2. CASE m = Len(words) + 1
    <3>1. \A k : k = token => WordAt(k)' = WordAt(k)
      BY <1>8, <1>9
    <3>2. PICK k \in TheStarts : k = token
      BY <1>6
    <3>3. Rank(TheStarts, k) = m /\ words'[m] = WordAt(k)
      BY <1>5, <1>7, <1>10, <2>2, <3>2
    <3> QED
      BY <3>1, <3>2, <3>3
  <2> QED
    BY <1>6, <1>7, <2>1, <2>2
<1>12. /\ storage \in Seq(0 .. 255) /\ Len(storage) = n + 3 /\ DOMAIN storage = 1 .. n + 3
       /\ Len(storage) - 2 = n + 1 /\ Len(storage) - 1 = n + 2
  BY <1>3, <1>4, LenProperties DEF Bytes, n
<1>13. ASSUME newest
       PROVE  /\ storage' \in Seq(0 .. 255) /\ Len(storage') = n + 3
              /\ storage'[n + 1] = Low(FirstBlock(words'[1]))
              /\ storage'[n + 2] = High(FirstBlock(words'[1]))
              /\ \A k \in 1 .. n + 3 : k # n + 1 /\ k # n + 2 => storage'[k] = storage[k]
  <2> DEFINE low == Low(FirstBlock(word))
             high == High(FirstBlock(word))
  <2>1. words = << >> /\ words'[1] = word
    BY <1>3, <1>9, <1>13 DEF BehindTheText
  <2>2. low \in 0 .. 255 /\ high \in 0 .. 255
    <3>1. FirstBlock(word) \in 0 .. MaxText
      BY <1>5, <1>9, <2>1, FirstField
    <3> QED
      BY <3>1, HeaderBytes DEF Space
  <2> HIDE DEF low, high
  <2>3. storage' = [storage EXCEPT ![n + 1] = low, ![n + 2] = high]
    BY <1>1, <1>12, <1>13 DEF low, high
  <2> DEFINE marked == [storage EXCEPT ![n + 1] = low]
  <2>4. n + 1 \in 1 .. Len(storage) /\ n + 2 \in 1 .. Len(storage) /\ n + 1 # n + 2
    BY <1>4, <1>12
  <2>5. /\ marked \in Seq(0 .. 255) /\ Len(marked) = n + 3 /\ marked[n + 1] = low
        /\ \A k \in 1 .. n + 3 : k # n + 1 => marked[k] = storage[k]
    BY <1>12, <2>2, <2>4, ExceptSeq
  <2>6. storage' = [marked EXCEPT ![n + 2] = high]
    BY <2>3
  <2> HIDE DEF marked
  <2>7. /\ storage' \in Seq(0 .. 255) /\ Len(storage') = n + 3 /\ storage'[n + 2] = high
        /\ \A k \in 1 .. n + 3 : k # n + 2 => storage'[k] = marked[k]
    BY <1>12, <2>2, <2>4, <2>5, <2>6, ExceptSeq
  <2>8. storage'[n + 1] = low
    BY <1>12, <2>4, <2>5, <2>7
  <2>9. \A k \in 1 .. n + 3 : k # n + 1 /\ k # n + 2 => storage'[k] = storage[k]
    BY <2>5, <2>7
  <2> QED
    BY <2>1, <2>7, <2>8, <2>9 DEF low, high
<1>14. \A k \in 1 .. n : storage'[k] = storage[k]
  <2>1. \A k \in 1 .. n : k \in 1 .. n + 3 /\ k # n + 1 /\ k # n + 2
    BY <1>4
  <2>2. newest => \A k \in 1 .. n : storage'[k] = storage[k]
    BY <1>13, <2>1
  <2> QED
    BY <1>1, <2>2
<1>15. Bytes'
  <2>1. CASE newest
    <3>1. storage'[n + 3] = 0
      <4>1. n + 3 \in 1 .. n + 3 /\ n + 3 # n + 1 /\ n + 3 # n + 2
        BY <1>4
      <4>2. storage[n + 3] = 0
        BY <1>3 DEF BehindTheText, n
      <4> QED
        BY <1>13, <2>1, <4>1, <4>2
    <3> QED
      BY <1>1, <1>2, <1>7, <1>13, <2>1, <3>1 DEF Bytes, BehindTheText, n
  <2>2. CASE ~newest
    <3>1. words # << >> /\ storage' = storage
      BY <1>1, <1>3, <2>2 DEF BehindTheText
    <3> QED
      BY <1>1, <1>2, <1>3, <1>7, <1>8, <2>2, <3>1 DEF Bytes, BehindTheText
  <2> QED
    BY <2>1, <2>2
<1>16. InTheText'
  <2> SUFFICES ASSUME NEW k \in 1 .. n
               PROVE  /\ k < nxt => storage[k] = (IF Text[k] = Delimiter THEN 0 ELSE Text[k])
                      /\ k = nxt => storage[k] = Text[k] \/ Rests'
                      /\ k > nxt => storage[k] = Text[k]
    BY <1>1, <1>2, <1>14 DEF InTheText, n
  <2>1. k = nxt /\ Rests => Rests'
    BY <1>1, <1>2, <1>14 DEF Rests
  <2> QED
    BY <1>3, <2>1 DEF InTheText, n
<1>17. Progress'
  <2>1. Rank(TheStarts, nxt) = Rank(TheStarts, token)
    <3>1. token \in Int /\ nxt \in Int /\ token \in TheStarts
      BY <1>4, <1>6
    <3>2. \A k, l \in Int : k <= l /\ (\A j \in TheStarts : j <= k \/ j > l)
                            => Rank(TheStarts, l) = Rank(TheStarts, k)
      BY <1>4, Ranks
    <3> QED
      BY <1>6, <3>1, <3>2
  <2>2. Len(words') = Rank(TheStarts, nxt)
    BY <1>7, <1>10, <2>1
  <2>3. nxt <= n => storage'[nxt] = 0
    BY <1>4, <1>6, <1>14
  <2> QED
    BY <1>1, <1>2, <1>6, <1>7, <2>2, <2>3 DEF Progress, n
<1>18. OnlyThat'
  BY <1>1, <1>7, <1>8 DEF OnlyThat
<1> QED
  BY <1>1, <1>11, <1>15, <1>16, <1>17, <1>18 DEF SplitInv

-----------------------------------------------------------------------------
(* The words of a text *)

\* A word has at most two bytes more than the text.
LEMMA WordIsText ==
  ASSUME Where, Splitting, Text # << >>, WordsSoFar, words # << >>, NEW k \in TheStarts
  PROVE  /\ WordAt(k) \in Seq(1 .. 255) /\ Len(WordAt(k)) <= Len(Text) + 2
         /\ Field(Text, Delimiter, k) \in Seq(1 .. 255)
<1> DEFINE field == Field(Text, Delimiter, k)
           header == HeaderText(FirstBlock(words[1]))
<1>1. IsText(Text, MaxText) /\ MaxText \in Nat /\ k \in 1 .. Len(Text) /\ Len(Text) \in Nat
  BY TextFacts
<1>2. /\ EndOfField(Text, Delimiter, k) \in k .. Len(Text) + 1
      /\ field \in Seq(1 .. 255) /\ Len(field) = EndOfField(Text, Delimiter, k) - k
  BY <1>1, FieldEnds
<1>3. header \in Seq(1 .. 255) /\ Len(header) \in {1, 2}
  <2>1. FirstBlock(words[1]) \in 0 .. MaxText
    BY FirstWord
  <2> QED
    BY <2>1, HeaderBytes
<1> HIDE DEF field, header
<1>4. field \o header \in Seq(1 .. 255) /\ Len(field \o header) = Len(field) + Len(header)
  BY <1>2, <1>3, ConcatProperties
<1>5. Len(field) \in Nat /\ Len(field) <= Len(Text)
  BY <1>1, <1>2
<1>6. WordAt(k) = field \o header \/ WordAt(k) = field
  BY DEF WordAt, field, header
<1>7. field \o header \in Seq(1 .. 255) /\ Len(field \o header) <= Len(Text) + 2
  <2>1. CASE Len(header) = 1
    BY <1>1, <1>4, <1>5, <2>1
  <2>2. CASE Len(header) = 2
    BY <1>1, <1>4, <1>5, <2>2
  <2> QED
    BY <1>3, <2>1, <2>2
<1>8. Len(field) <= Len(Text) + 2
  BY <1>1, <1>5
<1> QED
  BY <1>2, <1>6, <1>7, <1>8 DEF field

\* When strtok finds no more, every field has become a word.
LEMMA AllWords ==
  ASSUME Where, Splitting, Text # << >>, SplitInv, pc = "split"
  PROVE  /\ words = WithHeader(Fields(Text, Delimiter), Text, Delimiter)
         /\ words # << >> /\ WordsSoFar
         /\ Len(Fields(Text, Delimiter)) = Len(words)
         /\ Fields(Text, Delimiter)[1] = words[1]
         /\ \A m \in 1 .. Len(words) : Fields(Text, Delimiter)[m] \in Seq(1 .. 255)
<1> DEFINE d == Delimiter
           C == Cardinality(TheStarts)
           F == Fields(Text, d)
           header == HeaderText(FirstBlock(words[1]))
<1>1. /\ WordsSoFar /\ words # << >> /\ Len(words) = C
      /\ words \in Seq(Seq(1 .. 255))
  BY DEF SplitInv, Progress, WordsSoFar
<1>2. /\ TheStarts \in SUBSET (1 .. Len(Text)) /\ Len(Text) \in Nat /\ 1 \in TheStarts
      /\ IsText(Text, MaxText) /\ MaxText \in Nat /\ TheStarts = Starts(Text, d)
  BY TextFacts DEF TheStarts
<1>3. C \in Nat /\ C >= 1
  <2>1. Len(words) \in Nat \ {0}
    BY <1>1, EmptySeq
  <2> QED
    BY <1>1, <2>1
<1>4. F = [m \in 1 .. C |-> Field(Text, d, Nth(TheStarts, m))]
  BY <1>2 DEF Fields
<1> HIDE DEF C, F, header, d
<1>5. ASSUME NEW m \in 1 .. C
      PROVE  /\ F[m] \in Seq(1 .. 255)
             /\ words[m] = IF m = C /\ C >= 2 /\ Last(Text) # d THEN F[m] \o header ELSE F[m]
  <2>1. PICK k \in TheStarts : Rank(TheStarts, k) = m /\ words[m] = WordAt(k)
    BY <1>1, <1>5 DEF WordsSoFar
  <2>2. Nth(TheStarts, m) = k
    BY <1>2, <2>1, NthIsIt
  <2>3. F[m] = Field(Text, d, k)
    BY <1>4, <1>5, <2>2
  <2>4. F[m] \in Seq(1 .. 255)
    BY <1>1, <2>3, WordIsText DEF d
  <2>5. k \in 1 .. Len(Text)
    BY <1>2
  <2>6. k = 1 <=> m = 1
    <3>1. Rank(TheStarts, 0) = 0 /\ 1 - 1 = 0
      <4>1. Rank(TheStarts, 0) = 0
        BY <1>2, RankOfFirst
      <4> QED
        BY <4>1
    <3>2. \A l \in TheStarts : Rank(TheStarts, l) = Rank(TheStarts, l - 1) + 1
      BY <1>2, Ranks
    <3>3. Rank(TheStarts, 1) = 0 + 1
      BY <1>2, <3>1, <3>2
    <3>4. Rank(TheStarts, k) = 1 => k = 1
      BY <1>2, RankOfFirst
    <3> QED
      BY <2>1, <3>3, <3>4
  <2>7. m = C <=> \A j \in TheStarts : j <= k
    <3>1. k \in Int
      BY <2>5
    <3> QED
      BY <1>2, <2>1, <3>1, Ranks DEF C
  <2>8. CASE m # C
    <3>1. PICK j \in TheStarts : k < j
      BY <1>2, <2>5, <2>7, <2>8
    <3>2. EndOfField(Text, d, k) < j /\ j <= Len(Text) /\ j \in Nat
      BY <1>2, <2>5, <3>1, FollowedField
    <3>3. EndOfField(Text, d, k) # Len(Text) + 1
      BY <1>2, <3>2
    <3>4. WordAt(k) = Field(Text, d, k)
      BY <3>3 DEF WordAt, d
    <3> QED
      BY <2>1, <2>3, <2>4, <2>8, <3>4
  <2>9. CASE m = C
    <3>1. EndOfField(Text, d, k) = Len(Text) + 1 <=> Last(Text) # d
      BY <1>2, <2>7, <2>9, LastField
    <3>2. k # 1 <=> C >= 2
      BY <1>3, <2>6, <2>9
    <3> QED
      BY <2>1, <2>3, <2>4, <2>9, <3>1, <3>2 DEF WordAt, d, header
  <2> QED
    BY <2>8, <2>9
<1>6. F \in Seq(Seq(1 .. 255)) /\ Len(F) = C
  <2>1. DOMAIN F = 1 .. C /\ F \in [1 .. C -> Seq(1 .. 255)]
    BY <1>4, <1>5
  <2>2. F \in Seq(Seq(1 .. 255))
    BY <1>3, <2>1, SeqDef
  <2> QED
    BY <1>3, <2>1, <2>2, LenProperties
<1>7. F[1] = words[1]
  <2>1. 1 \in 1 .. C /\ ~(1 = C /\ C >= 2)
    BY <1>3
  <2> QED
    BY <1>5, <2>1
<1>8. CASE C < 2 \/ Last(Text) = d
  <2>1. WithHeader(F, Text, d) = F
    BY <1>6, <1>8 DEF WithHeader
  <2>2. \A m \in 1 .. Len(words) : words[m] = F[m]
    BY <1>1, <1>3, <1>5, <1>8
  <2>3. words = F
    BY <1>1, <1>6, <2>2, SeqEqual
  <2> QED
    BY <1>1, <1>5, <1>6, <1>7, <2>1, <2>3 DEF F, d
<1>9. CASE C >= 2 /\ Last(Text) # d
  <2>1. WithHeader(F, Text, d) = [F EXCEPT ![C] = F[C] \o header]
    <3>1. ~(C < 2)
      BY <1>3, <1>9
    <3> QED
      BY <1>6, <1>7, <1>9, <3>1 DEF WithHeader, header
  <2>2. C \in 1 .. C /\ F[C] \o header = words[C]
    <3>1. C \in 1 .. C
      BY <1>3
    <3>2. words[C] = IF C = C /\ C >= 2 /\ Last(Text) # d THEN F[C] \o header ELSE F[C]
      BY <1>5, <3>1
    <3> QED
      BY <1>9, <3>1, <3>2
  <2>3. words[C] \in Seq(1 .. 255)
    BY <1>1, <2>2, ElementOfSeq
  <2>4. /\ WithHeader(F, Text, d) \in Seq(Seq(1 .. 255)) /\ Len(WithHeader(F, Text, d)) = C
        /\ \A m \in 1 .. C : WithHeader(F, Text, d)[m] = IF m = C THEN words[C] ELSE F[m]
    BY <1>6, <2>1, <2>2, <2>3, ExceptSeq
  <2>5. \A m \in 1 .. Len(words) : words[m] = WithHeader(F, Text, d)[m]
    BY <1>1, <1>5, <2>4
  <2>6. words = WithHeader(F, Text, d)
    BY <1>1, <2>4, <2>5, SeqEqual
  <2> QED
    BY <1>1, <1>5, <1>6, <1>7, <2>6 DEF F, d
<1> QED
  BY <1>3, <1>8, <1>9

-----------------------------------------------------------------------------
(* ls *)

\* strcmp finds equal strings only.
LEMMA StringsCompare ==
  ASSUME NEW s \in Seq(1 .. 255), NEW t \in Seq(1 .. 255), strcmp(s, t) = 0
  PROVE  t = s
<1> DEFINE S == {k \in 1 .. Len(s) + 1 : At(s, k) = 0 \/ At(s, k) # At(t, k)}
           n == Min(S)
<1>1. /\ Len(s) \in Nat /\ DOMAIN s = 1 .. Len(s) /\ \A k \in 1 .. Len(s) : s[k] \in 1 .. 255
      /\ Len(t) \in Nat /\ DOMAIN t = 1 .. Len(t) /\ \A k \in 1 .. Len(t) : t[k] \in 1 .. 255
  BY LenProperties, ElementOfSeq
<1>2. \A x \in 1 .. 255 : x # 0 /\ x \in Int
  OBVIOUS
<1>3. /\ \A k \in Int : At(s, k) \in Int /\ (At(s, k) # 0 <=> k \in 1 .. Len(s))
      /\ \A k \in Int : At(t, k) \in Int /\ (At(t, k) # 0 <=> k \in 1 .. Len(t))
  <2>1. \A k \in Int : /\ k \in 1 .. Len(s) => At(s, k) \in 1 .. 255
                       /\ k \notin 1 .. Len(s) => At(s, k) = 0
    BY <1>1 DEF At
  <2>2. \A k \in Int : /\ k \in 1 .. Len(t) => At(t, k) \in 1 .. 255
                       /\ k \notin 1 .. Len(t) => At(t, k) = 0
    BY <1>1 DEF At
  <2>3. 0 \in Int
    OBVIOUS
  <2>4. ASSUME NEW k \in Int PROVE At(s, k) \in Int /\ (At(s, k) # 0 <=> k \in 1 .. Len(s))
    <3>1. CASE k \in 1 .. Len(s)
      <4>1. At(s, k) \in 1 .. 255
        BY <2>1, <3>1
      <4> QED
        BY <1>2, <3>1, <4>1
    <3>2. CASE k \notin 1 .. Len(s)
      BY <2>1, <2>3, <3>2
    <3> QED
      BY <3>1, <3>2
  <2>5. ASSUME NEW k \in Int PROVE At(t, k) \in Int /\ (At(t, k) # 0 <=> k \in 1 .. Len(t))
    <3>1. CASE k \in 1 .. Len(t)
      <4>1. At(t, k) \in 1 .. 255
        BY <2>2, <3>1
      <4> QED
        BY <1>2, <3>1, <4>1
    <3>2. CASE k \notin 1 .. Len(t)
      BY <2>2, <2>3, <3>2
    <3> QED
      BY <3>1, <3>2
  <2> QED
    BY <2>4, <2>5
<1>4. n \in S /\ \A k \in S : n <= k
  <2>1. Len(s) + 1 \in 1 .. Len(s) + 1 /\ ~(Len(s) + 1 \in 1 .. Len(s))
    BY <1>1
  <2>2. S \in SUBSET Nat /\ Len(s) + 1 \in S
    BY <1>1, <1>3, <2>1
  <2> HIDE DEF S
  <2> QED
    BY <2>2, MinExists
<1>5. At(s, n) - At(t, n) = 0
  BY DEF strcmp
<1> HIDE DEF n
<1>6. At(s, n) = 0 /\ At(t, n) = 0
  <2>1. n \in 1 .. Len(s) + 1 /\ (At(s, n) = 0 \/ At(s, n) # At(t, n))
    BY <1>4
  <2>2. n \in Int
    BY <1>1, <2>1
  <2>3. At(s, n) \in Int /\ At(t, n) \in Int
    BY <1>3, <2>2
  <2>4. At(s, n) = At(t, n)
    BY <1>5, <2>3
  <2> QED
    BY <2>1, <2>4
<1>7. n \in 1 .. Len(s) + 1 /\ n \in Int /\ Len(s) \in Nat /\ Len(t) \in Nat
      /\ \A k \in 1 .. Len(s) : k \in Int
  BY <1>1, <1>4
<1>8. n = Len(s) + 1
  <2>1. n \notin 1 .. Len(s)
    BY <1>3, <1>6, <1>7
  <2> QED
    BY <1>7, <2>1
<1>9. \A k \in 1 .. Len(s) : At(t, k) = At(s, k) /\ At(s, k) # 0
  <2> SUFFICES ASSUME NEW k \in 1 .. Len(s)
               PROVE  At(t, k) = At(s, k) /\ At(s, k) # 0
    OBVIOUS
  <2>1. k \in 1 .. Len(s) + 1 /\ k \in Int /\ ~(n <= k)
    BY <1>7, <1>8
  <2>2. k \notin S
    BY <1>4, <2>1
  <2>3. At(s, k) = At(t, k)
    BY <2>1, <2>2
  <2> QED
    BY <1>3, <2>1, <2>3
<1>10. Len(t) = Len(s)
  <2>1. Len(t) <= Len(s)
    BY <1>1, <1>3, <1>6, <1>8
  <2>2. Len(s) # 0 => Len(s) \in 1 .. Len(t)
    <3>1. Len(s) # 0 => Len(s) \in 1 .. Len(s) /\ Len(s) \in Int
      BY <1>7
    <3>2. Len(s) # 0 => At(t, Len(s)) # 0
      BY <1>9, <3>1
    <3> QED
      BY <1>3, <3>1, <3>2
  <2>3. CASE Len(s) = 0
    BY <1>1, <2>1, <2>3
  <2>4. CASE Len(s) # 0
    <3>1. Len(s) \in 1 .. Len(t)
      BY <2>2, <2>4
    <3>2. Len(s) <= Len(t)
      BY <1>1, <3>1
    <3>3. Len(s) \in Nat /\ Len(t) \in Nat
      BY <1>1
    <3> QED
      BY <2>1, <3>2, <3>3
  <2> QED
    BY <2>3, <2>4
<1>11. \A k \in 1 .. Len(s) : t[k] = s[k]
  BY <1>1, <1>9, <1>10 DEF At
<1> QED
  BY <1>10, <1>11, SeqEqual

LEMMA LsIsFirst ==
  ASSUME LsIsCalled, words[1] \in Seq(1 .. 255)
  PROVE  words[1] = ls
<1>1. Names(words[1]) # {} /\ lib[Min(Names(words[1]))] = ls
  BY DEF LsIsCalled, present, get
<1>2. Names(words[1]) \in SUBSET Nat
  BY DEF Names, lib
<1>3. Min(Names(words[1])) \in Names(words[1])
  BY <1>1, <1>2, MinExists
<1>4. strcmp(ls, words[1]) = 0
  BY <1>1, <1>3 DEF Names
<1>5. ls \in Seq(1 .. 255)
  BY DEF ls
<1> QED
  BY <1>4, <1>5, StringsCompare

LEMMA AllButTheLast ==
  ASSUME NEW string \in Seq(1 .. 255), string # << >>
  PROVE  /\ Front(string) \in Seq(1 .. 255) /\ Len(Front(string)) = Len(string) - 1
         /\ \A n \in 1 .. Len(string) - 1 : Front(string)[n] = string[n]
<1> DEFINE m == Len(string) - 1
<1>1. m \in Nat /\ m + 1 = Len(string)
  BY EmptySeq, LenProperties
<1> HIDE DEF m
<1>2. \A i \in 1 .. m : string[i] \in 1 .. 255
  <2>1. \A i \in 1 .. m : i \in 1 .. Len(string)
    BY <1>1
  <2> QED
    BY <2>1, ElementOfSeq
<1>3. /\ SubSeq(string, 1, m) \in Seq(1 .. 255)
      /\ Len(SubSeq(string, 1, m)) = IF 1 <= m THEN m - 1 + 1 ELSE 0
      /\ \A i \in 1 .. m - 1 + 1 : SubSeq(string, 1, m)[i] = string[1 + i - 1]
  BY <1>1, <1>2, SubSeqProperties
<1>4. Len(SubSeq(string, 1, m)) = m
  BY <1>1, <1>3
<1>5. \A i \in 1 .. m : SubSeq(string, 1, m)[i] = string[i]
  <2>1. \A i \in 1 .. m : i \in 1 .. m - 1 + 1 /\ 1 + i - 1 = i
    BY <1>1
  <2> QED
    BY <1>3, <2>1
<1> QED
  BY <1>3, <1>4, <1>5 DEF Front, m

\* What ls makes of a word is a path.
LEMMA TrimmedPath ==
  ASSUME NEW c_path \in Seq(1 .. 255), Len(c_path) <= MaxText
  PROVE  IsPath(TrimPath(c_path))
<1> DEFINE trim == IF c_path = << >> THEN << >> ELSE Front(c_path)
<1>1. MaxText \in Nat /\ MaxText > 100
  BY DEF MaxText, BufferSize
<1>2. trim \in Seq(1 .. 255) /\ Len(trim) \in Nat /\ Len(trim) < MaxText
  <2>1. CASE c_path = << >>
    BY <1>1, <2>1, EmptySeq
  <2>2. CASE c_path # << >>
    <3>1. /\ Front(c_path) \in Seq(1 .. 255) /\ Len(Front(c_path)) = Len(c_path) - 1
      BY <2>2, AllButTheLast
    <3>2. Len(c_path) \in Nat \ {0}
      BY <2>2, EmptySeq
    <3> QED
      BY <1>1, <2>2, <3>1, <3>2
  <2> QED
    BY <2>1, <2>2
<1> HIDE DEF trim
<1>3. Slash \in 1 .. 255
  BY DEF Slash
<1>4. /\ Append(trim, Slash) \in Seq(1 .. 255) /\ Len(Append(trim, Slash)) = Len(trim) + 1
      /\ Append(trim, Slash)[Len(trim) + 1] = Slash /\ Append(trim, Slash) # << >>
  <2>1. /\ Append(trim, Slash) \in Seq(1 .. 255) /\ Len(Append(trim, Slash)) = Len(trim) + 1
        /\ Append(trim, Slash)[Len(trim) + 1] = Slash
    BY <1>2, <1>3, AppendProperties
  <2>2. Len(Append(trim, Slash)) # 0
    BY <1>2, <2>1
  <2> QED
    BY <2>1, <2>2, EmptySeq
<1>5. CASE trim # << >> /\ Last(trim) = Slash
  BY <1>1, <1>2, <1>5 DEF TrimPath, trim, IsPath, IsText
<1>6. CASE ~(trim # << >> /\ Last(trim) = Slash)
  <2>1. TrimPath(c_path) = Append(trim, Slash)
    BY <1>6 DEF TrimPath, trim
  <2> QED
    BY <1>1, <1>2, <1>4, <2>1 DEF IsPath, IsText, Last
<1> QED
  BY <1>5, <1>6

\* The byte that ls cuts off is the one from the heap.
LEMMA LsGivesThePath ==
  ASSUME Where, Splitting, Text # << >>, SplitInv, pc = "split", caller = "parse",
         LsIsCalled, Len(Fields(line, Space)) = 2, Last(line) # Space
  PROVE  Len(words) = 2 /\ TrimPath(words[2]) = WholePath(Fields(line, Space)[2])
<1> DEFINE F == Fields(line, Space)
           header == HeaderText(FirstBlock(F[1]))
<1>1. Text = line /\ Delimiter = Space
  BY TextFacts
<1>2. /\ words = WithHeader(F, line, Space) /\ Len(words) = 2 /\ F[1] = words[1]
      /\ words \in Seq(Seq(1 .. 255)) /\ F[2] \in Seq(1 .. 255)
  <2>1. /\ words = WithHeader(F, line, Space) /\ Len(words) = 2 /\ F[1] = words[1]
        /\ WordsSoFar /\ \A m \in 1 .. Len(words) : F[m] \in Seq(1 .. 255)
    BY <1>1, AllWords
  <2> QED
    BY <2>1 DEF WordsSoFar
<1>3. words[1] = ls
  <2>1. 1 \in 1 .. Len(words)
    BY <1>2
  <2>2. words[1] \in Seq(1 .. 255)
    BY <1>2, <2>1, ElementOfSeq
  <2> QED
    BY <2>2, LsIsFirst
<1>4. header \in Seq(1 .. 255) /\ Len(header) = 1
  <2>1. FirstBlock(F[1]) = 2
    BY <1>2, <1>3 DEF FirstBlock, ls
  <2>2. 2 \in 0 .. MaxText
    BY DEF MaxText, BufferSize
  <2> QED
    BY <2>1, <2>2, HeaderBytes
<1>5. words[2] = F[2] \o header
  <2>1. 2 \in DOMAIN words /\ Len(F) = 2
    BY <1>2, LenProperties
  <2> HIDE DEF F
  <2>2. words = [F EXCEPT ![2] = F[2] \o header]
    BY <1>2, <2>1 DEF WithHeader, F
  <2>3. 2 \in DOMAIN F
    BY <2>1, <2>2
  <2> HIDE DEF header
  <2> QED
    BY <2>2, <2>3
<1> HIDE DEF F, header
<1>6. /\ words[2] \in Seq(1 .. 255) /\ Len(words[2]) = Len(F[2]) + 1 /\ Len(F[2]) \in Nat
      /\ \A m \in 1 .. Len(F[2]) : words[2][m] = F[2][m]
  <2>1. /\ F[2] \o header \in Seq(1 .. 255) /\ Len(F[2] \o header) = Len(F[2]) + Len(header)
        /\ \A m \in 1 .. Len(F[2]) + Len(header) :
             (F[2] \o header)[m] = IF m <= Len(F[2]) THEN F[2][m] ELSE header[m - Len(F[2])]
    <3>1. F[2] \in Seq(1 .. 255) /\ header \in Seq(1 .. 255)
      BY <1>2, <1>4
    <3> QED
      BY <3>1, ConcatProperties
  <2>2. Len(F[2]) \in Nat
    BY <1>2, LenProperties
  <2> QED
    BY <1>4, <1>5, <2>1, <2>2
<1>7. words[2] # << >>
  BY <1>6, EmptySeq
<1>8. Front(words[2]) = F[2]
  <2>1. /\ Front(words[2]) \in Seq(1 .. 255) /\ Len(Front(words[2])) = Len(words[2]) - 1
        /\ \A m \in 1 .. Len(words[2]) - 1 : Front(words[2])[m] = words[2][m]
    BY <1>6, <1>7, AllButTheLast
  <2>2. Len(words[2]) - 1 = Len(F[2])
    BY <1>6
  <2>3. \A m \in 1 .. Len(F[2]) : Front(words[2])[m] = F[2][m]
    BY <1>6, <2>1, <2>2
  <2>4. Len(Front(words[2])) = Len(F[2])
    BY <2>1, <2>2
  <2>5. \A m \in 1 .. Len(Front(words[2])) : Front(words[2])[m] = F[2][m]
    BY <2>3, <2>4
  <2> QED
    <3>1. F[2] \in Seq(1 .. 255) /\ Front(words[2]) \in Seq(1 .. 255)
      BY <1>2, <2>1
    <3> QED
      BY <2>4, <2>5, <3>1, SeqEqual
<1> QED
  BY <1>2, <1>7, <1>8 DEF TrimPath, WholePath, F

LEMMA LsKeeps ==
  ASSUME ArgumentsInv, Ls
  PROVE  ArgumentsInv'
<1>1. /\ pc = "split" /\ caller = "parse" /\ LsIsCalled /\ Splitting
      /\ Where /\ OnlyThat /\ Text = line /\ line # << >> /\ SplitInv
      /\ IsText(line, BufferSize)
  BY DEF Ls, ArgumentsInv, Splitting, Where, Text
<1>2. /\ WordsSoFar /\ words # << >>
  BY <1>1, AllWords
<1>3. PICK dir : ReadDirectory(dir) /\ IsPath(dir)
                 /\ (Len(Fields(line, Space)) = 2 /\ Last(line) # Space
                       => dir = WholePath(Fields(line, Space)[2]))
  <2>1. CASE Len(words) > 1
    <3>1. words[2] \in Seq(1 .. 255) /\ Len(words[2]) <= MaxText
      <4>1. 2 \in 1 .. Len(words)
        BY <1>2, <2>1, LenProperties DEF WordsSoFar
      <4>2. PICK k \in TheStarts : words[2] = WordAt(k)
        BY <1>2, <4>1 DEF WordsSoFar
      <4>3. WordAt(k) \in Seq(1 .. 255) /\ Len(WordAt(k)) <= Len(line) + 2
        BY <1>1, <1>2, WordIsText
      <4>4. Len(WordAt(k)) \in Nat /\ Len(line) \in Nat /\ Len(line) <= BufferSize
        BY <1>1, <4>3, LenProperties DEF IsText
      <4>5. BufferSize \in Nat
        BY DEF BufferSize
      <4>6. Len(WordAt(k)) <= BufferSize + 2
        BY <4>3, <4>4, <4>5
      <4> QED
        BY <4>2, <4>3, <4>6 DEF MaxText
    <3>2. IsPath(TrimPath(words[2]))
      BY <3>1, TrimmedPath
    <3>3. ReadDirectory(TrimPath(words[2]))
      BY <2>1 DEF Ls
    <3>4. Len(Fields(line, Space)) = 2 /\ Last(line) # Space
            => TrimPath(words[2]) = WholePath(Fields(line, Space)[2])
      BY <1>1, LsGivesThePath
    <3> QED
      BY <3>2, <3>3, <3>4
  <2>2. CASE ~(Len(words) > 1)
    <3>1. PICK c_path \in Garbage : ReadDirectory(TrimPath(c_path))
      BY <2>2 DEF Ls
    <3>2. c_path \in Seq(1 .. 255) /\ Len(c_path) <= MaxText
      <4>1. c_path \in Seq(1 .. 127) /\ Len(c_path) < BufferSize
        BY ArgumentsAssumption
      <4>2. 1 .. 127 \subseteq 1 .. 255
        OBVIOUS
      <4>3. c_path \in Seq(1 .. 255)
        BY <4>1, <4>2, SeqMonotonic
      <4>4. Len(c_path) \in Nat /\ BufferSize \in Nat
        BY <4>1, LenProperties DEF BufferSize
      <4>5. Len(c_path) <= BufferSize + 2
        BY <4>1, <4>4
      <4> QED
        BY <4>3, <4>5 DEF MaxText
    <3>3. IsPath(TrimPath(c_path))
      BY <3>2, TrimmedPath
    <3>4. ~(Len(Fields(line, Space)) = 2 /\ Last(line) # Space)
      <4>1. ~(2 > 1) => FALSE
        OBVIOUS
      <4> QED
        BY <1>1, <2>2, <4>1, LsGivesThePath
    <3> QED
      BY <3>1, <3>3, <3>4
  <2> QED
    BY <2>1, <2>2
<1>4. path' = dir /\ line' = line /\ caller' = "path"
  BY <1>3 DEF ReadDirectory, Split
<1>5. PathGiven'
  BY <1>3, <1>4 DEF PathGiven
<1>6. Text' = Relative(dir) /\ IsText(Relative(dir), MaxText)
  <2>1. dir \in Seq(1 .. 255) /\ Len(dir) <= MaxText /\ dir # << >>
    BY <1>3 DEF IsPath, IsText
  <2>2. Tail(dir) \in Seq(1 .. 255) /\ Len(Tail(dir)) = Len(dir) - 1 /\ Len(dir) \in Nat
    BY <2>1, HeadTailProperties, LenProperties
  <2>3. MaxText \in Nat
    BY <1>1, TextFacts
  <2>4. Len(Tail(dir)) <= MaxText
    BY <2>1, <2>2, <2>3
  <2> QED
    BY <1>4, <2>1, <2>2, <2>4 DEF Text, Relative, IsText
<1>7. CASE Relative(dir) # << >>
  <2>1. Split("path", Relative(dir))
    BY <1>3, <1>7 DEF ReadDirectory
  <2>2. SplitInv' /\ OnlyThat'
    BY <1>6, <1>7, <2>1, SplitBegins
  <2>3. pc' = "first"
    BY <2>1 DEF Split
  <2>4. Where'
    BY <1>1, <1>3, <1>4, <2>3 DEF Where, Splitting
  <2> QED
    BY <1>5, <1>6, <1>7, <2>2, <2>4 DEF ArgumentsInv
<1>8. CASE Relative(dir) = << >>
  <2>1. /\ words' = << >> /\ pc' = "next"
        /\ UNCHANGED <<storage, newest, token, nxt, size, overwritten>>
    BY <1>3, <1>8 DEF ReadDirectory, statics
  <2>2. size \in Int /\ size <= 0 /\ storage[nxt] = 0
    <3>1. /\ nxt \in 1 .. Len(line) + 3 /\ size = Len(line) + 1 - nxt
          /\ nxt > Len(line) /\ storage[nxt] = 0
      BY <1>1 DEF SplitInv, Progress
    <3>2. Len(line) \in Nat
      BY <1>1, LenProperties DEF IsText
    <3> QED
      BY <3>1, <3>2
  <2>3. NothingToSplit'
    BY <1>4, <2>1, <2>2 DEF NothingToSplit
  <2>4. Where'
    BY <1>1, <1>3, <1>4, <2>1 DEF Where, Splitting
  <2>5. OnlyThat'
    BY <1>1, <2>1 DEF OnlyThat
  <2> QED
    BY <1>5, <1>6, <1>8, <2>3, <2>4, <2>5 DEF ArgumentsInv
<1> QED
  BY <1>7, <1>8

-----------------------------------------------------------------------------
(* Every step *)

\* A path that is a slash has no words.
LEMMA NothingKeeps ==
  ASSUME ArgumentsInv, Splitting, Text = << >>,
         FirstToken \/ NextToken \/ Turn \/ Return \/ PushWord
  PROVE  ArgumentsInv'
<1>1. Where /\ OnlyThat /\ PathGiven /\ NothingToSplit
  BY DEF ArgumentsInv
<1>2. /\ pc \in {"next", "strtok"} /\ pc' \in {"strtok", "split"} /\ token' = Null
      /\ UNCHANGED <<caller, line, path, storage, newest, nxt, size, words, overwritten>>
  <2>1. CASE NextToken
    <3>1. ~(size > 0)
      BY <1>1 DEF NothingToSplit
    <3> QED
      BY <1>1, <2>1, <3>1 DEF NextToken, statics
  <2>2. CASE Return
    BY <1>1, <2>2 DEF Return, NothingToSplit, statics
  <2>3. ~FirstToken /\ ~Turn /\ ~PushWord
    BY <1>1 DEF FirstToken, Turn, PushWord, NothingToSplit
  <2> QED
    BY <2>1, <2>2, <2>3
<1>3. Text' = Text /\ PathGiven' = PathGiven
  BY <1>2, TheText
<1>4. NothingToSplit'
  BY <1>1, <1>2 DEF NothingToSplit
<1>5. Where' /\ OnlyThat'
  BY <1>1, <1>2 DEF Where, OnlyThat, Splitting
<1> QED
  BY <1>1, <1>3, <1>4, <1>5 DEF ArgumentsInv

LEMMA ParseKeeps ==
  ASSUME ArgumentsInv, NEW text \in Lines, Parse(text)
  PROVE  ArgumentsInv'
<1>1. /\ line' = text /\ caller' = "parse" /\ pc' = "first" /\ text # << >>
      /\ Split("parse", text)
  BY DEF Parse, Split
<1>2. text \in Seq(1 .. 255) /\ Len(text) <= BufferSize /\ Len(text) <= MaxText
  <2>1. text \in Seq(1 .. 127) /\ Len(text) < BufferSize
    BY ArgumentsAssumption
  <2>2. 1 .. 127 \subseteq 1 .. 255
    OBVIOUS
  <2>3. text \in Seq(1 .. 255)
    BY <2>1, <2>2, SeqMonotonic
  <2>4. Len(text) \in Nat /\ BufferSize \in Nat
    BY <2>1, LenProperties DEF BufferSize
  <2>5. Len(text) <= BufferSize /\ Len(text) <= BufferSize + 2
    BY <2>1, <2>4
  <2> QED
    BY <2>3, <2>5 DEF MaxText
<1>3. Text' = text
  BY <1>1 DEF Text
<1>4. SplitInv' /\ OnlyThat'
  BY <1>1, <1>2, <1>3, SplitBegins DEF IsText
<1>5. Where' /\ PathGiven'
  BY <1>1, <1>2 DEF Where, PathGiven, IsText, Splitting
<1> QED
  BY <1>1, <1>3, <1>4, <1>5 DEF ArgumentsInv

LEMMA StrtokKeeps ==
  ASSUME ArgumentsInv, FirstToken \/ NextToken \/ Turn \/ Return \/ PushWord
  PROVE  ArgumentsInv'
<1>1. /\ Splitting /\ Where /\ OnlyThat /\ PathGiven
      /\ pc' \notin {"idle", "fault"} /\ pc' \in {"strtok", "push", "next", "split"}
      /\ UNCHANGED <<caller, line, path>>
  BY DEF ArgumentsInv, Splitting, Where, FirstToken, NextToken, Turn, Return, PushWord
<1>2. Text' = Text /\ PathGiven' = PathGiven
  BY <1>1, TheText
<1>3. CASE Text = << >>
  BY <1>1, <1>3, NothingKeeps
<1>4. CASE Text # << >>
  <2>1. SplitInv
    BY <1>1, <1>4 DEF ArgumentsInv
  <2>2. SplitInv' /\ OnlyThat'
    <3>1. CASE FirstToken
      BY <1>1, <1>4, <2>1, <3>1, FirstTokenKeeps DEF FirstToken, OnlyThat
    <3>2. CASE NextToken
      BY <1>1, <1>4, <2>1, <3>2, NextTokenKeeps DEF NextToken, OnlyThat
    <3>3. CASE Turn
      BY <1>1, <1>4, <2>1, <3>3, TurnKeeps
    <3>4. CASE Return
      BY <1>1, <1>4, <2>1, <3>4, ReturnKeeps DEF Return, OnlyThat
    <3>5. CASE PushWord
      BY <1>1, <1>4, <2>1, <3>5, PushWordKeeps
    <3> QED
      BY <3>1, <3>2, <3>3, <3>4, <3>5
  <2>3. Where'
    BY <1>1 DEF Where, Splitting
  <2> QED
    BY <1>1, <1>2, <1>4, <2>2, <2>3 DEF ArgumentsInv
<1> QED
  BY <1>3, <1>4

LEMMA ArgumentsStep == ArgumentsInv /\ [Next]_vars => ArgumentsInv'
<1> SUFFICES ASSUME ArgumentsInv, [Next]_vars PROVE ArgumentsInv'
  OBVIOUS
<1>1. ASSUME NEW text \in Lines, Parse(text) PROVE ArgumentsInv'
  BY <1>1, ParseKeeps
<1>2. CASE ParseEmptyLine
  <2>1. /\ pc' = "fault" /\ line' = << >> /\ ~Splitting'
        /\ UNCHANGED <<caller, words, overwritten>>
    BY <1>2 DEF ParseEmptyLine, Splitting
  <2> QED
    BY <2>1 DEF ArgumentsInv, Where, OnlyThat
<1>3. CASE FirstToken \/ NextToken \/ Turn \/ Return \/ PushWord
  BY <1>3, StrtokKeeps
<1>4. CASE Ls
  BY <1>4, LsKeeps
<1>5. CASE Done
  <2>1. pc' = "idle" /\ ~Splitting' /\ UNCHANGED <<caller, words, overwritten>>
    BY <1>5 DEF Done, Splitting
  <2> QED
    BY <2>1 DEF ArgumentsInv, Where, OnlyThat
<1>6. CASE FaultAgain \/ UNCHANGED vars
  <2>1. UNCHANGED <<pc, caller, line, path, storage, newest, token, nxt, size, words,
                    overwritten>>
    BY <1>6 DEF FaultAgain, vars, statics
  <2>2. /\ Text' = Text /\ PathGiven' = PathGiven /\ Delimiter' = Delimiter
        /\ TheStarts' = TheStarts /\ Splitting' = Splitting
    BY <2>1, TheText DEF Splitting
  <2>3. Where' = Where /\ OnlyThat' = OnlyThat /\ NothingToSplit' = NothingToSplit
    BY <2>1, <2>2 DEF Where, OnlyThat, NothingToSplit, Splitting
  <2>4. SplitInv => SplitInv'
    <3>1. Bytes' = Bytes /\ InTheText' = InTheText
      BY <2>1, <2>2 DEF Bytes, BehindTheText, InTheText, Rests
    <3>2. Progress' = Progress
      BY <2>1, <2>2 DEF Progress
    <3>3. WordsSoFar' <=> WordsSoFar
      BY <2>1, SameWords
    <3> QED
      BY <2>1, <2>2, <3>1, <3>2, <3>3 DEF SplitInv
  <2> QED
    BY <2>2, <2>3, <2>4 DEF ArgumentsInv
<1> QED
  BY <1>1, <1>2, <1>3, <1>4, <1>5, <1>6 DEF Next

LEMMA ArgumentsStart == Init => ArgumentsInv
BY DEF Init, ArgumentsInv, Where, OnlyThat, Splitting

-----------------------------------------------------------------------------
(* Theorems *)

\* The bytes, the words and the place of strtok are related at every step.
THEOREM ArgumentsInvariance == Spec => []ArgumentsInv
<1>1. Init => ArgumentsInv
  BY ArgumentsStart
<1>2. ArgumentsInv /\ [Next]_vars => ArgumentsInv'
  BY ArgumentsStep
<1> QED
  BY <1>1, <1>2, PTL DEF Spec

\* Whatever was parsed before, a command gets the fields of its line, the last
\* of them with the bytes of a header (parse of kernel/tty.cpp and strtok).
THEOREM WordsAreFields == Spec => []WordsAreTheFields
<1>1. ArgumentsInv => WordsAreTheFields
  <2> SUFFICES ASSUME ArgumentsInv, AtSplit("parse")
               PROVE  words = WithHeader(Fields(line, Space), line, Space)
    BY DEF WordsAreTheFields
  <2>1. /\ Splitting /\ Where /\ pc = "split" /\ caller = "parse" /\ Text = line
        /\ Delimiter = Space /\ line # << >> /\ SplitInv
    BY DEF ArgumentsInv, AtSplit, Splitting, Where, Text, Delimiter
  <2> QED
    BY <2>1, AllWords
<1> QED
  BY <1>1, ArgumentsInvariance, PTL

\* The fields of nothing.
LEMMA NoFields == Fields(<< >>, Slash) = << >>
<1>1. Starts(<< >>, Slash) = {}
  <2>1. DOMAIN << >> = {}
    OBVIOUS
  <2> QED
    BY <2>1 DEF Starts
<1>2. Cardinality(Starts(<< >>, Slash)) = 0
  BY <1>1, FS_EmptySet
<1>3. Fields(<< >>, Slash) = [n \in {} |-> Field(<< >>, Slash, Nth(Starts(<< >>, Slash), n))]
  BY <1>2 DEF Fields
<1>4. << >> = [n \in {} |-> Field(<< >>, Slash, Nth(Starts(<< >>, Slash), n))]
  OBVIOUS
<1> QED
  BY <1>3, <1>4

\* For "ls p" readDirectory gets p with a slash, and its folders (ls.cpp and
\* FAT16::readDirectory).
THEOREM LsGetsPath == Spec => []LsGetsItsPath
<1>1. ArgumentsInv => LsGetsItsPath
  <2> SUFFICES ASSUME ArgumentsInv, AtSplit("path"), Len(Fields(line, Space)) = 2,
                      Last(line) # Space
               PROVE  /\ path = WholePath(Fields(line, Space)[2])
                      /\ words = Fields(Relative(path), Slash)
    BY DEF LsGetsItsPath
  <2>1. /\ Splitting /\ Where /\ PathGiven /\ pc = "split" /\ caller = "path"
        /\ Text = Relative(path) /\ Delimiter = Slash
    BY DEF ArgumentsInv, AtSplit, Splitting, Text, Delimiter
  <2>2. path = WholePath(Fields(line, Space)[2])
    BY <2>1 DEF PathGiven
  <2>3. CASE Text = << >>
    <3>1. words = << >>
      BY <2>1, <2>3 DEF ArgumentsInv, NothingToSplit
    <3>2. Relative(path) = << >>
      BY <2>1, <2>3
    <3> QED
      BY <2>2, <3>1, <3>2, NoFields
  <2>4. CASE Text # << >>
    <3>1. words = WithHeader(Fields(Text, Delimiter), Text, Delimiter)
      BY <2>1, <2>4, AllWords DEF ArgumentsInv
    <3>2. Last(Text) = Delimiter
      BY <2>1, <2>4, TextFacts DEF Last
    <3> QED
      BY <2>1, <2>2, <3>1, <3>2 DEF WithHeader
  <2> QED
    BY <2>2, <2>3, <2>4
<1> QED
  BY <1>1, ArgumentsInvariance, PTL

\* strtok writes behind its text for one kind of path only.
THEOREM HeapIsUntouched == Spec => []HeapUntouched
<1>1. ArgumentsInv => HeapUntouched
  BY DEF ArgumentsInv, HeapUntouched, OnlyThat, Where
<1> QED
  BY <1>1, ArgumentsInvariance, PTL
=============================================================================
