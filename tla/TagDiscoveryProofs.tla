------------------------- MODULE TagDiscoveryProofs -------------------------
(***************************************************************************)
(* Proofs about TagDiscovery, for every set of fields, length of the        *)
(* technology arrays, contents behind them, and number of calls.            *)
(***************************************************************************)
EXTENDS TagDiscovery, FiniteSetTheorems, FunctionTheorems, WellFoundedInduction, TLAPS

Items == Requests \cup Orders \cup Events
Due(q) == {i \in 1..Len(q) : q[i].c \in Answered}

-----------------------------------------------------------------------------
(* What is to come for the threads, in a queue that grows and shrinks.     *)

LEMMA ToComeIsANumber ==
    ASSUME NEW S, NEW q \in Seq(S)
    PROVE  IsFiniteSet(Due(q)) /\ ToCome(q) = Cardinality(Due(q)) /\ ToCome(q) \in Nat
<1>1. IsFiniteSet(1..Len(q))
  BY FS_Interval
<1>2. Due(q) \subseteq 1..Len(q) /\ ToCome(q) = Cardinality(Due(q))
  BY DEF Due, ToCome
<1> QED
  BY <1>1, <1>2, FS_Subset, FS_CardinalityType

LEMMA ToComeOfTwo ==
    ASSUME NEW S, NEW p \in Seq(S), NEW q \in Seq(S)
    PROVE  ToCome(p \o q) = ToCome(p) + ToCome(q)
<1> DEFINE n == Len(p)
           behind == {i + n : i \in Due(q)}
           f == [i \in Due(q) |-> i + n]
<1>1. n \in Nat /\ Len(q) \in Nat /\ p \o q \in Seq(S) /\ Len(p \o q) = n + Len(q)
  OBVIOUS
<1>2. Due(p) \subseteq 1..n /\ Due(q) \subseteq 1..Len(q)
  BY DEF Due
<1>3. Due(p \o q) = Due(p) \cup behind
  <2>1. ASSUME NEW i \in Due(p \o q)
        PROVE  i \in Due(p) \cup behind
    <3>1. i \in 1..(n + Len(q)) /\ (p \o q)[i].c \in Answered
      BY <1>1, <2>1 DEF Due
    <3>2. CASE i <= n
      <4>1. i \in 1..Len(p) /\ (p \o q)[i] = p[i]
        BY <3>1, <3>2
      <4> QED
        BY <3>1, <4>1 DEF Due
    <3>3. CASE ~(i <= n)
      <4>1. i - n \in 1..Len(q) /\ (p \o q)[i] = q[i - n] /\ i = (i - n) + n
        BY <1>1, <3>1, <3>3
      <4>2. i - n \in Due(q)
        BY <3>1, <4>1 DEF Due
      <4> QED
        BY <4>1, <4>2
    <3> QED
      BY <3>2, <3>3
  <2>2. ASSUME NEW i \in Due(p)
        PROVE  i \in Due(p \o q)
    <3>1. i \in 1..Len(p) /\ p[i].c \in Answered
      BY DEF Due
    <3>2. (p \o q)[i] = p[i] /\ i \in 1..(n + Len(q))
      BY <1>1, <3>1
    <3> QED
      BY <1>1, <3>1, <3>2 DEF Due
  <2>3. ASSUME NEW i \in Due(q)
        PROVE  i + n \in Due(p \o q)
    <3>1. i \in 1..Len(q) /\ q[i].c \in Answered
      BY DEF Due
    <3>2. (p \o q)[i + n] = q[i] /\ i + n \in 1..(n + Len(q))
      BY <1>1, <3>1
    <3> QED
      BY <1>1, <3>1, <3>2 DEF Due
  <2> QED
    BY <2>1, <2>2, <2>3
<1>4. Due(p) \cap behind = {}
  BY <1>1, <1>2
<1>5. IsFiniteSet(behind) /\ Cardinality(behind) = Cardinality(Due(q))
  <2>1. f \in Bijection(Due(q), behind)
    <3>1. \A i \in Due(q) : i \in Int
      BY <1>2
    <3>2. \A i, j \in Due(q) : f[i] = f[j] => i = j
      BY <1>1, <3>1
    <3>3. f \in [Due(q) -> behind] /\ \A j \in behind : \E i \in Due(q) : f[i] = j
      OBVIOUS
    <3> HIDE DEF f, behind
    <3> QED
      BY <3>2, <3>3, Fun_IsBij
  <2> HIDE DEF f, behind
  <2>2. ExistsBijection(Due(q), behind)
    BY <2>1 DEF ExistsBijection
  <2> QED
    BY <2>2, ToComeIsANumber, FS_Bijection
<1>6. Cardinality(Due(p) \cup behind) = Cardinality(Due(p)) + Cardinality(behind)
  <2> HIDE DEF behind
  <2>1. IsFiniteSet(Due(p)) /\ IsFiniteSet(behind)
    BY <1>5, ToComeIsANumber
  <2>2. Cardinality(Due(p) \cup behind)
          = Cardinality(Due(p)) + Cardinality(behind) - Cardinality(Due(p) \cap behind)
    BY <2>1, FS_Union
  <2>3. Cardinality(Due(p) \cap behind) = 0
    BY <1>4, FS_EmptySet
  <2>4. Cardinality(Due(p)) \in Nat /\ Cardinality(behind) \in Nat
    BY <2>1, FS_CardinalityType
  <2> QED
    BY <2>2, <2>3, <2>4
<1> QED
  BY <1>1, <1>3, <1>5, <1>6, ToComeIsANumber

LEMMA ToComeOfOne ==
    ASSUME NEW e
    PROVE  ToCome(<<e>>) = IF e.c \in Answered THEN 1 ELSE 0
<1>1. Len(<<e>>) = 1 /\ 1..Len(<<e>>) = {1} /\ <<e>>[1] = e
  OBVIOUS
<1>2. Due(<<e>>) = IF e.c \in Answered THEN {1} ELSE {}
  BY <1>1 DEF Due
<1> QED
  BY <1>2, FS_EmptySet, FS_Singleton DEF ToCome, Due

LEMMA ToComeOfNone == ToCome(<<>>) = 0
<1>1. Due(<<>>) = {}
  BY DEF Due
<1> QED
  BY <1>1, FS_EmptySet DEF ToCome, Due

LEMMA ToComeGrows ==
    ASSUME NEW S, NEW q \in Seq(S), NEW e \in S
    PROVE  /\ Append(q, e) \in Seq(S)
           /\ ToCome(Append(q, e)) = ToCome(q) + IF e.c \in Answered THEN 1 ELSE 0
<1>1. Append(q, e) = q \o <<e>> /\ <<e>> \in Seq(S) /\ Append(q, e) \in Seq(S)
  OBVIOUS
<1> QED
  BY <1>1, ToComeOfTwo, ToComeOfOne

LEMMA ToComeShrinks ==
    ASSUME NEW S, NEW q \in Seq(S), q # <<>>
    PROVE  /\ Head(q) \in S /\ Tail(q) \in Seq(S)
           /\ ToCome(q) = ToCome(Tail(q)) + IF Head(q).c \in Answered THEN 1 ELSE 0
<1>1. Head(q) \in S /\ Tail(q) \in Seq(S) /\ <<Head(q)>> \in Seq(S) /\ q = <<Head(q)>> \o Tail(q)
  OBVIOUS
<1>2. ToCome(<<Head(q)>> \o Tail(q)) = ToCome(<<Head(q)>>) + ToCome(Tail(q))
  BY <1>1, ToComeOfTwo
<1>3. ToCome(<<Head(q)>>) = IF Head(q).c \in Answered THEN 1 ELSE 0
  BY ToComeOfOne
<1>4. ToCome(Tail(q)) \in Nat
  BY <1>1, ToComeIsANumber
<1>5. ToCome(q) = ToCome(<<Head(q)>>) + ToCome(Tail(q))
  BY <1>1, <1>2, Zenon
<1> QED
  BY <1>1, <1>3, <1>4, <1>5

\* The handlers of the callback ask for nothing a thread waits for.
LEMMA RequestsAnswerNobody ==
    ASSUME NEW q \in Seq(Requests)
    PROVE  ToCome(q) = 0
<1>1. Due(q) = {}
  <2> SUFFICES ASSUME NEW i \in 1..Len(q), q[i].c \in Answered
               PROVE  FALSE
    BY DEF Due
  <2>1. q[i] \in Requests
    OBVIOUS
  <2> QED
    BY <2>1 DEF Requests, Answered
<1> QED
  BY <1>1, FS_EmptySet DEF ToCome, Due
-----------------------------------------------------------------------------
(* The technology arrays.                                                  *)

LEMMA SomeIsLeast ==
    ASSUME NEW n \in Nat, NEW T \in SUBSET (0..n), T # {}
    PROVE  \E x \in T : \A y \in T : x <= y
<1> DEFINE upTo(x) == {y \in T : y <= x}
           S == SUBSET (0..n)
           R == StrictSubsetOrdering(0..n)
           F == {upTo(x) : x \in T}
<1>1. IsWellFoundedOn(R, S)
  <2>1. IsFiniteSet(0..n)
    BY FS_Interval
  <2> QED
    BY <2>1, FS_FiniteSubsetsOfFinite, FS_StrictSubsetOrderingWellFounded
<1>2. F \subseteq S /\ F # {}
  OBVIOUS
<1>3. PICK A \in F : \A B \in F : ~(<<B, A>> \in R)
  <2> HIDE DEF R, S, F
  <2> QED
    BY <1>1, <1>2, WFMin
<1>4. PICK x \in T : A = upTo(x)
  BY <1>3
<1>5. ASSUME NEW y \in T, ~(x <= y)
      PROVE  FALSE
  <2>1. upTo(y) \in F /\ upTo(y) \in S /\ A \in S
    BY <1>2, <1>3
  <2>2. upTo(y) \subseteq A /\ x \in A /\ x \notin upTo(y)
    <3>1. x \in Int /\ y \in Int /\ y < x
      BY <1>5
    <3>2. \A z \in T : z \in Int
      OBVIOUS
    <3>3. x \in upTo(x) /\ x \notin upTo(y)
      BY <3>1
    <3>4. ASSUME NEW z \in T, z <= y
          PROVE  z <= x
      BY <3>1, <3>2, <3>4
    <3>5. upTo(y) \subseteq upTo(x)
      BY <3>4
    <3> HIDE DEF upTo
    <3> QED
      BY <1>4, <3>3, <3>5
  <2>3. <<upTo(y), A>> \in R
    BY <2>1, <2>2 DEF StrictSubsetOrdering
  <2> QED
    BY <1>3, <2>1, <2>3
<1> QED
  BY <1>5

LEMMA LeastIsOneOf ==
    ASSUME NEW n \in Nat, NEW T \in SUBSET (0..n), T # {}
    PROVE  Least(T) \in T
<1>1. \E i \in T : \A j \in T : i <= j
  BY SomeIsLeast
<1> QED
  BY <1>1 DEF Least

LEMMA ProtocolsOfKinds == \A k \in Kinds : Protocol(k) \in Protocols
BY DEF Kinds, Protocol, Protocols, Dep

\* What the tags' bytes are: of their entries, told or still to be told.
OwnTags == {t \in Tags :
    /\ \A i \in DOMAIN t.told : t.told[i].b = t.told[i].h
    /\ t.idx <= t.num /\ t.idx <= Len(t.saved)
    /\ \A i \in 1..t.idx : t.saved[i] = t.arr[i - 1].h}

\* Whoever leaves the entries and the saved array alone may forget what was told, or start anew.
LEMMA SameEntries ==
    ASSUME NEW t \in OwnTags, NEW u \in Tags, u.arr = t.arr, u.num = t.num, u.saved = t.saved,
           u.told = t.told \/ u.told = <<>>, u.idx = t.idx \/ u.idx = 0
    PROVE  u \in OwnTags
<1>1. u.num \in Nat /\ Len(u.saved) \in Nat
  BY TagDiscoveryAssumption DEF Tags
<1>2. \A i \in DOMAIN u.told : u.told[i].b = u.told[i].h
  <2>1. CASE u.told = t.told
    BY <2>1 DEF OwnTags
  <2>2. CASE u.told = <<>>
    BY <2>2
  <2> QED
    BY <2>1, <2>2
<1>3. u.idx <= u.num /\ u.idx <= Len(u.saved) /\ \A i \in 1..u.idx : u.saved[i] = u.arr[i - 1].h
  <2>1. CASE u.idx = t.idx
    BY <2>1 DEF OwnTags
  <2>2. CASE u.idx = 0
    BY <1>1, <2>2
  <2> QED
    BY <2>1, <2>2
<1> QED
  BY <1>2, <1>3 DEF OwnTags

LEMMA Asks ==
    ASSUME NEW t \in OwnTags, NEW c \in Requests
    PROVE  Ask(t, c) \in OwnTags
<1>1. t \in Tags
  BY DEF OwnTags
<1>2. Append(t.out, c) \in Seq(Requests)
  BY <1>1 DEF Tags
<1>3. Ask(t, c) = [t EXCEPT !.out = Append(t.out, c)]
  BY DEF Ask
<1>4. Ask(t, c) \in Tags
  BY <1>1, <1>2, <1>3 DEF Tags
<1>5. /\ Ask(t, c).arr = t.arr /\ Ask(t, c).num = t.num /\ Ask(t, c).saved = t.saved
      /\ Ask(t, c).told = t.told /\ Ask(t, c).idx = t.idx
  BY <1>1, <1>3 DEF Tags
<1> QED
  BY <1>4, <1>5, SameEntries

LEMMA SelectsEntries ==
    ASSUME NEW t \in OwnTags, NEW e \in Entries
    PROVE  Ask(t, SelectOf(e)) \in OwnTags
<1>1. SelectOf(e) \in Requests
  BY DEF SelectOf, Requests, Entries
<1> QED
  BY <1>1, Asks

LEMMA Fills ==
    ASSUME NEW arr \in [0..MaxTech -> Entries], NEW i, NEW n, NEW e \in Entries
    PROVE  Fill(arr, i, n, e) \in [0..MaxTech -> Entries]
BY DEF Fill

LEMMA EmptyArray == [i \in 0..MaxTech |-> IF i = MaxTech THEN Behind ELSE Zero] \in [0..MaxTech -> Entries]
<1>1. Behind \in Entries
  BY TagDiscoveryAssumption DEF Entries, Handles, Protocols, Dep
<1>2. Zero \in Entries
  BY DEF Zero, Entries, Handles, Protocols
<1> QED
  BY <1>1, <1>2

LEMMA Resets ==
    ASSUME NEW t \in OwnTags
    PROVE  resetTechnologies(t) \in OwnTags
<1>1. MaxTech \in Nat
  BY TagDiscoveryAssumption
<1>2. 0 \in 0..MaxTech /\ 0 \in 0..(MaxTech + 1)
  BY <1>1
<1>3. t \in Tags
  BY DEF OwnTags
<1>4. resetTechnologies(t) \in Tags
  BY <1>2, <1>3, EmptyArray DEF resetTechnologies, Tags
<1>5. /\ resetTechnologies(t).idx = 0 /\ resetTechnologies(t).num = 0
      /\ resetTechnologies(t).told = t.told /\ resetTechnologies(t).saved = t.saved
  BY <1>3 DEF resetTechnologies, Tags
<1>6. Len(t.saved) \in Nat
  BY <1>3 DEF Tags
<1>7. \A i \in DOMAIN t.told : t.told[i].b = t.told[i].h
  BY DEF OwnTags
<1> HIDE DEF resetTechnologies
<1> QED
  BY <1>4, <1>5, <1>6, <1>7 DEF OwnTags

LEMMA Discovers ==
    ASSUME NEW t \in Tags, NEW r \in Results
    PROVE  Discovered(t, r) \in Tags
<1> DEFINE two == CASE r.k \in {"UL", "ISO"} -> Places(t.num, 2) [] r.k = "MFC" -> 2 [] OTHER -> 1
           filled == IF r.k = "MFC" THEN 1 ELSE two
           e == [h |-> r.h, p |-> Protocol(r.k)]
<1>1. MaxTech \in Nat /\ t.num \in 0..(MaxTech + 1) /\ t.disc \in 0..(MaxTech + 1)
  BY TagDiscoveryAssumption DEF Tags
<1>2. two \in {1, 2}
  BY DEF Places
<1>3. e \in Entries
  BY ProtocolsOfKinds DEF Entries, Results
<1>4. Fill(t.arr, t.num, filled, e) \in [0..MaxTech -> Entries]
  BY <1>3, Fills DEF Tags
<1>5. t.num < MaxTech => t.num + two \in 0..(MaxTech + 1)
  BY <1>1, <1>2
<1>6. Discovered(t, r) =
        IF t.num >= MaxTech THEN t
        ELSE [t EXCEPT !.arr = Fill(t.arr, t.num, filled, e), !.num = t.num + two, !.disc = t.num + two]
  BY DEF Discovered, Tags
<1> HIDE DEF two, filled, e
<1>7. CASE t.num >= MaxTech
  BY <1>6, <1>7
<1>8. CASE ~(t.num >= MaxTech)
  <2>1. t.num + two \in 0..(MaxTech + 1)
    BY <1>1, <1>5, <1>8
  <2> QED
    BY <1>4, <1>6, <1>8, <2>1 DEF Tags
<1> QED
  BY <1>7, <1>8

\* A discovered target's entries come behind the list, so not over what was saved.
LEMMA DiscoversBehind ==
    ASSUME NEW t \in OwnTags, NEW r \in Results
    PROVE  Discovered(t, r) \in OwnTags
<1> DEFINE two == CASE r.k \in {"UL", "ISO"} -> Places(t.num, 2) [] r.k = "MFC" -> 2 [] OTHER -> 1
           filled == IF r.k = "MFC" THEN 1 ELSE two
           e == [h |-> r.h, p |-> Protocol(r.k)]
           u == Discovered(t, r)
<1>1. t \in Tags /\ u \in Tags
  BY Discovers DEF OwnTags
<1>2. MaxTech \in Nat /\ t.num \in Nat /\ t.idx \in 0..MaxTech
  BY <1>1, TagDiscoveryAssumption DEF Tags
<1>3. two \in {1, 2}
  BY DEF Places
<1>4. u = IF t.num >= MaxTech THEN t
          ELSE [t EXCEPT !.arr = Fill(t.arr, t.num, filled, e), !.num = t.num + two, !.disc = t.num + two]
  BY <1>1 DEF Discovered, Tags
<1> HIDE DEF two, filled, e, u
<1>5. CASE t.num >= MaxTech
  BY <1>4, <1>5 DEF u
<1>6. CASE ~(t.num >= MaxTech)
  <2>1. /\ u.idx = t.idx /\ u.saved = t.saved /\ u.told = t.told /\ u.num = t.num + two
        /\ u.arr = Fill(t.arr, t.num, filled, e)
    BY <1>1, <1>4, <1>6 DEF Tags
  <2>2. t.idx <= t.num /\ t.idx <= Len(t.saved) /\ \A i \in 1..t.idx : t.saved[i] = t.arr[i - 1].h
    BY DEF OwnTags
  <2>3. ASSUME NEW i \in 1..t.idx
        PROVE  u.arr[i - 1] = t.arr[i - 1]
    <3>1. i - 1 \in 0..MaxTech /\ i - 1 < t.num
      BY <1>2, <2>2
    <3>2. i - 1 \in DOMAIN t.arr
      BY <1>1, <3>1 DEF Tags
    <3>3. \A m \in Int : i - 1 \notin t.num..m
      BY <1>2, <3>1
    <3>4. filled \in Int /\ t.num + filled - 1 \in Int
      BY <1>2, <1>3 DEF filled
    <3>5. i - 1 \notin t.num..(t.num + filled - 1)
      BY <3>3, <3>4
    <3> QED
      BY <2>1, <3>2, <3>5 DEF Fill
  <2>4. u.idx <= u.num
    BY <1>2, <1>3, <2>1, <2>2
  <2>5. \A i \in DOMAIN u.told : u.told[i].b = u.told[i].h
    BY <2>1 DEF OwnTags
  <2>6. u \in OwnTags
    BY <1>1, <2>1, <2>2, <2>3, <2>4, <2>5 DEF OwnTags
  <2> QED
    BY <2>6 DEF u
<1> QED
  BY <1>5, <1>6

LEMMA ActivatedIsListed ==
    ASSUME NEW t \in Tags, NEW e \in Entries, NEW k \in Kinds
    PROVE  Activated(t, e, k) \in Tags /\ Activated(t, e, k).num \in 0..MaxTech
<1> DEFINE n == IF k \in {"UL", "TNP", "ISO", "MFC"} THEN Places(t.idx, 2) ELSE 1
           entry == IF k = "TNP" THEN [e EXCEPT !.p = "MIFARE"] ELSE e
<1>1. MaxTech \in Nat /\ t.idx \in 0..MaxTech
  BY TagDiscoveryAssumption DEF Tags
<1>2. entry \in Entries
  BY DEF Entries, Protocols
<1>3. Fill(t.arr, t.idx, n, entry) \in [0..MaxTech -> Entries]
  BY <1>2, Fills DEF Tags
<1>4. t.idx < MaxTech => t.idx + n \in 0..MaxTech /\ t.idx + n \in 0..(MaxTech + 1)
  BY <1>1 DEF Places
<1>5. Activated(t, e, k) =
        IF t.idx >= MaxTech THEN [t EXCEPT !.num = t.idx]
        ELSE [t EXCEPT !.num = t.idx + n, !.arr = Fill(t.arr, t.idx, n, entry)]
  BY DEF Activated, Tags
<1> HIDE DEF n, entry
<1>6. CASE t.idx >= MaxTech
  <2>1. t.idx \in 0..(MaxTech + 1)
    BY <1>1
  <2> QED
    BY <1>1, <1>5, <1>6, <2>1 DEF Tags
<1>7. CASE ~(t.idx >= MaxTech)
  <2>1. t.idx + n \in 0..MaxTech /\ t.idx + n \in 0..(MaxTech + 1)
    BY <1>1, <1>4, <1>7
  <2> QED
    BY <1>3, <1>5, <1>7, <2>1 DEF Tags
<1> QED
  BY <1>6, <1>7

\* An activated target's entries come from mTechListIndex on.
LEMMA ActivatedIsListedBehind ==
    ASSUME NEW t \in OwnTags, NEW e \in Entries, NEW k \in Kinds
    PROVE  Activated(t, e, k) \in OwnTags /\ Activated(t, e, k).num \in 0..MaxTech
<1> DEFINE n == IF k \in {"UL", "TNP", "ISO", "MFC"} THEN Places(t.idx, 2) ELSE 1
           entry == IF k = "TNP" THEN [e EXCEPT !.p = "MIFARE"] ELSE e
           u == Activated(t, e, k)
<1>1. t \in Tags /\ u \in Tags /\ u.num \in 0..MaxTech
  BY ActivatedIsListed DEF OwnTags
<1>2. MaxTech \in Nat /\ t.idx \in 0..MaxTech
  BY <1>1, TagDiscoveryAssumption DEF Tags
<1>3. n \in {1, 2}
  BY DEF Places
<1>4. u = IF t.idx >= MaxTech THEN [t EXCEPT !.num = t.idx]
          ELSE [t EXCEPT !.num = t.idx + n, !.arr = Fill(t.arr, t.idx, n, entry)]
  BY <1>1 DEF Activated, Tags
<1> HIDE DEF n, entry, u
<1>5. u.idx = t.idx /\ u.saved = t.saved /\ u.told = t.told
  BY <1>1, <1>4 DEF Tags
<1>6. u.num = t.idx \/ u.num = t.idx + n
  BY <1>1, <1>4 DEF Tags
<1>7. t.idx <= t.num /\ t.idx <= Len(t.saved) /\ \A i \in 1..t.idx : t.saved[i] = t.arr[i - 1].h
  BY DEF OwnTags
<1>8. ASSUME NEW i \in 1..t.idx
      PROVE  u.arr[i - 1] = t.arr[i - 1]
  <2>1. CASE t.idx >= MaxTech
    BY <1>1, <1>4, <2>1 DEF Tags
  <2>2. CASE ~(t.idx >= MaxTech)
    <3>1. u.arr = Fill(t.arr, t.idx, n, entry)
      BY <1>1, <1>4, <2>2 DEF Tags
    <3>2. i - 1 \in 0..MaxTech /\ i - 1 \notin t.idx..(t.idx + n - 1)
      BY <1>2
    <3>3. i - 1 \in DOMAIN t.arr
      BY <1>1, <3>2 DEF Tags
    <3> QED
      BY <3>1, <3>2, <3>3 DEF Fill
  <2> QED
    BY <2>1, <2>2
<1>9. u.idx <= u.num
  BY <1>2, <1>3, <1>5, <1>6
<1>10. \A i \in DOMAIN u.told : u.told[i].b = u.told[i].h
  BY <1>5 DEF OwnTags
<1>11. u \in OwnTags
  BY <1>1, <1>5, <1>7, <1>8, <1>9, <1>10 DEF OwnTags
<1> QED
  BY <1>1, <1>11 DEF u

LEMMA Entry ==
    ASSUME NEW t \in Tags, NEW i \in 0..(t.num - 1)
    PROVE  i \in 0..MaxTech /\ t.arr[i] \in Entries
<1>1. MaxTech \in Nat /\ t.num \in 0..(MaxTech + 1)
  BY TagDiscoveryAssumption DEF Tags
<1>2. i \in 0..MaxTech
  BY <1>1
<1> QED
  BY <1>2 DEF Tags

LEMMA SelectsPeer ==
    ASSUME NEW t \in OwnTags, isP2pDiscovered(t)
    PROVE  selectP2p(t) \in OwnTags
<1> DEFINE peers == {i \in 0..(t.num - 1) : t.arr[i].p \in Dep}
           peersF == {i \in peers : t.arr[i].p = "DEPF"}
           first == IF peersF # {} THEN Least(peersF) ELSE Least(peers)
<1>1. peers # {} /\ peers \in SUBSET (0..MaxTech) /\ peersF \subseteq peers
  BY Entry DEF isP2pDiscovered, OwnTags
<1>2. MaxTech \in Nat
  BY TagDiscoveryAssumption
<1>3. first \in 0..MaxTech
  <2> HIDE DEF peers, peersF
  <2> QED
    BY <1>1, <1>2, LeastIsOneOf
<1>4. t.arr[first] \in Entries
  BY <1>3 DEF Tags, OwnTags
<1>5. selectP2p(t) = resetTechnologies(IF t.arr[first].h > 0 THEN Ask(t, SelectOf(t.arr[first])) ELSE t)
  BY DEF selectP2p
<1> HIDE DEF first
<1>6. (IF t.arr[first].h > 0 THEN Ask(t, SelectOf(t.arr[first])) ELSE t) \in OwnTags
  BY <1>4, SelectsEntries
<1> QED
  BY <1>5, <1>6, Resets

LEMMA Selects ==
    ASSUME NEW t \in OwnTags, NEW T \in SUBSET (0..MaxTech), T # {}
    PROVE  Ask([t EXCEPT !.sel = Least(T)], SelectOf(t.arr[Least(T)])) \in OwnTags
<1>1. MaxTech \in Nat
  BY TagDiscoveryAssumption
<1>2. Least(T) \in 0..MaxTech
  BY <1>1, LeastIsOneOf
<1> DEFINE u == [t EXCEPT !.sel = Least(T)]
<1>3. t \in Tags
  BY DEF OwnTags
<1>4. u \in Tags /\ t.arr[Least(T)] \in Entries
  BY <1>2, <1>3 DEF Tags
<1>5. u.arr = t.arr /\ u.num = t.num /\ u.saved = t.saved /\ u.told = t.told /\ u.idx = t.idx
  BY <1>3 DEF Tags
<1> HIDE DEF u
<1>6. u \in OwnTags
  BY <1>4, <1>5, SameEntries
<1> QED
  BY <1>4, <1>6, SelectsEntries DEF u

LEMMA SelectsFirst ==
    ASSUME NEW t \in OwnTags
    PROVE  selectFirstTag(t) \in OwnTags
<1> DEFINE T == {i \in 0..(t.num - 1) : t.arr[i].p \notin Dep}
<1>1. T \in SUBSET (0..MaxTech)
  BY Entry DEF OwnTags
<1>2. selectFirstTag(t) = IF T = {} THEN t ELSE Ask([t EXCEPT !.sel = Least(T)], SelectOf(t.arr[Least(T)]))
  BY DEF selectFirstTag
<1> HIDE DEF T
<1> QED
  BY <1>1, <1>2, Selects

LEMMA SelectsNext ==
    ASSUME NEW t \in OwnTags
    PROVE  selectNextTag(t) \in OwnTags
<1>1. MaxTech \in Nat /\ t.disc \in 0..(MaxTech + 1)
  BY TagDiscoveryAssumption DEF Tags, OwnTags
<1>2. Others(t) \in SUBSET (0..MaxTech)
  BY <1>1 DEF Others
<1> QED
  BY <1>2, Selects DEF selectNextTag

\* The bytes that fillNativeNfcTagMembers leaves: one for each entry of the list.
LEMMA BytesOfAllEntries ==
    ASSUME NEW t \in Tags, t.num \in 0..MaxTech
    PROVE  Bytes(t) \in Seq(Handles) /\ Len(Bytes(t)) = t.num
<1>1. MaxTech \in Nat /\ t.num \in Nat
  BY TagDiscoveryAssumption
<1>2. ASSUME NEW i \in 1..t.num
      PROVE  (IF i <= t.idx /\ i <= Len(t.saved) THEN t.saved[i] ELSE t.arr[i - 1].h) \in Handles
  <2>1. CASE i <= t.idx /\ i <= Len(t.saved)
    <3>1. i \in 1..Len(t.saved) /\ t.saved \in Seq(Handles)
      BY <1>1, <2>1 DEF Tags
    <3> QED
      BY <2>1, <3>1
  <2>2. CASE ~(i <= t.idx /\ i <= Len(t.saved))
    <3>1. i - 1 \in 0..MaxTech
      BY <1>1
    <3>2. t.arr[i - 1] \in Entries
      BY <3>1 DEF Tags
    <3> QED
      BY <2>2, <3>2 DEF Entries
  <2> QED
    BY <2>1, <2>2
<1>3. Bytes(t) \in [1..t.num -> Handles]
  BY <1>2 DEF Bytes
<1> QED
  BY <1>1, <1>3

LEMMA FunctionsAreSequences ==
    ASSUME NEW S, NEW n \in Nat, NEW f \in [1..n -> S]
    PROVE  f \in Seq(S)
OBVIOUS

LEMMA Notifies ==
    ASSUME NEW t \in Tags, t.num \in 0..MaxTech, Len(t.saved) = t.num
    PROVE  Notify(t) \in Tags
<1> DEFINE told == [i \in 1..t.num |-> [h |-> t.arr[i - 1].h, b |-> t.saved[i]]]
<1>1. MaxTech \in Nat /\ t.num \in Nat
  BY TagDiscoveryAssumption
<1>2. ASSUME NEW i \in 1..t.num
      PROVE  [h |-> t.arr[i - 1].h, b |-> t.saved[i]] \in [h : Handles, b : Handles]
  <2>1. i - 1 \in 0..MaxTech /\ i \in 1..Len(t.saved) /\ t.saved \in Seq(Handles)
    BY <1>1 DEF Tags
  <2>2. t.saved[i] \in Handles
    BY <2>1
  <2>3. t.arr[i - 1] \in Entries
    BY <2>1 DEF Tags
  <2> QED
    BY <2>2, <2>3 DEF Entries
<1>3. told \in [1..t.num -> [h : Handles, b : Handles]]
  BY <1>2
<1>4. told \in Seq([h : Handles, b : Handles])
  <2> HIDE DEF told
  <2> QED
    BY <1>1, <1>3, FunctionsAreSequences
<1>5. Notify(t) = [t EXCEPT !.ntf = 0, !.live = FALSE, !.told = told]
  BY DEF Notify
<1> HIDE DEF told
<1>6. [t EXCEPT !.ntf = 0, !.live = FALSE] \in Tags
  BY DEF Tags
<1> QED
  BY <1>4, <1>5, <1>6 DEF Tags

LEMMA Creates ==
    ASSUME NEW t \in Tags, t.num \in 0..MaxTech
    PROVE  createNativeNfcTag(t) \in Tags
<1> DEFINE u == FillMembers(t)
<1>1. u \in Tags /\ u.num = t.num /\ Len(u.saved) = t.num
  <2>1. (IF t.ntf = 0 THEN 0 ELSE t.num) \in 0..MaxTech
    BY TagDiscoveryAssumption
  <2>2. (t.stale \/ (t.idx # 0 /\ (~t.live \/ t.idx > Len(t.saved)))) \in BOOLEAN
    OBVIOUS
  <2>3. u = [t EXCEPT !.stale = t.stale \/ (t.idx # 0 /\ (~t.live \/ t.idx > Len(t.saved))),
                      !.saved = Bytes(t), !.live = TRUE, !.idx = IF t.ntf = 0 THEN 0 ELSE t.num]
    BY DEF FillMembers, Tags
  <2> HIDE DEF u
  <2> QED
    BY <2>1, <2>2, <2>3, BytesOfAllEntries DEF Tags
<1> HIDE DEF u
<1>2. Notify(u) \in Tags
  BY <1>1, Notifies
<1> QED
  BY <1>1, <1>2 DEF createNativeNfcTag, NotifyOrNext, u
\* fillNativeNfcTagMembers takes the bytes of the entries before mTechListIndex from the saved
\* array, and those of the others from their activation: all are their entries' own.
LEMMA BytesAreOwn ==
    ASSUME NEW t \in OwnTags, t.num \in 0..MaxTech, NEW i \in 1..t.num
    PROVE  Bytes(t)[i] = t.arr[i - 1].h
<1>1. i <= t.idx => i \in 1..t.idx
  BY TagDiscoveryAssumption DEF OwnTags, Tags
<1>2. i <= t.idx => t.saved[i] = t.arr[i - 1].h
  BY <1>1 DEF OwnTags
<1> QED
  BY <1>2 DEF Bytes

LEMMA CreatesOwn ==
    ASSUME NEW t \in OwnTags, t.num \in 0..MaxTech
    PROVE  createNativeNfcTag(t) \in OwnTags
<1> DEFINE u == FillMembers(t)
           v == createNativeNfcTag(t)
<1>1. t \in Tags /\ v \in Tags
  BY Creates DEF OwnTags
<1>2. /\ u.num = t.num /\ u.arr = t.arr /\ u.saved = Bytes(t) /\ u.told = t.told
      /\ u.idx \in {0, t.num}
  BY <1>1 DEF FillMembers, Tags
<1>3. Len(Bytes(t)) = t.num /\ t.num \in Nat
  BY <1>1, BytesOfAllEntries, TagDiscoveryAssumption
<1>4. u = v \/ v = Notify(u)
  BY DEF createNativeNfcTag, NotifyOrNext
<1>5. u = [t EXCEPT !.stale = u.stale, !.saved = u.saved, !.live = u.live, !.idx = u.idx]
  BY <1>1 DEF FillMembers, Tags
<1>6. v.num = u.num /\ v.arr = u.arr /\ v.saved = u.saved /\ v.idx = u.idx
  <2> HIDE DEF u, v
  <2> QED
    BY <1>1, <1>4, <1>5 DEF Notify, Tags
<1>7. ASSUME NEW i \in DOMAIN v.told
      PROVE  v.told[i].b = v.told[i].h
  <2>1. CASE u = v
    BY <1>2, <1>7, <2>1 DEF OwnTags
  <2>2. CASE v = Notify(u)
    <3>1. v.told = [j \in 1..u.num |-> [h |-> u.arr[j - 1].h, b |-> u.saved[j]]]
      <4> HIDE DEF u, v
      <4> QED
        BY <1>1, <1>5, <2>2 DEF Notify, Tags
    <3>2. i \in 1..t.num
      BY <1>2, <1>7, <3>1
    <3>3. Bytes(t)[i] = t.arr[i - 1].h
      BY <3>2, BytesAreOwn
    <3> HIDE DEF u, v
    <3> QED
      BY <1>2, <3>1, <3>2, <3>3
  <2> QED
    BY <1>4, <2>1, <2>2
<1>8. \A i \in 1..v.idx : v.saved[i] = v.arr[i - 1].h
  <2> SUFFICES ASSUME NEW i \in 1..v.idx
               PROVE  v.saved[i] = v.arr[i - 1].h
    OBVIOUS
  <2> HIDE DEF u, v
  <2>1. i \in 1..t.num
    BY <1>2, <1>3, <1>6
  <2>2. Bytes(t)[i] = t.arr[i - 1].h
    BY <2>1, BytesAreOwn
  <2> QED
    BY <1>2, <1>6, <2>2
<1> HIDE DEF u, v
<1>9. v.idx <= v.num /\ v.idx <= Len(v.saved)
  BY <1>2, <1>3, <1>6
<1>10. v \in OwnTags
  BY <1>1, <1>7, <1>8, <1>9 DEF OwnTags
<1> QED
  BY <1>10 DEF v

-----------------------------------------------------------------------------
(* The handlers of the callback.                                           *)

\* What a handler changes besides the entries.
LEMMA OwnStays ==
    ASSUME NEW t \in OwnTags
    PROVE  /\ t \in Tags
           /\ \A n \in Nat : [t EXCEPT !.ntf = n] \in OwnTags
           /\ \A n \in Nat, more \in 0..2 : [t EXCEPT !.prev = more, !.ntf = n] \in OwnTags
           /\ [t EXCEPT !.active = TRUE] \in OwnTags
           /\ [t EXCEPT !.idx = 0] \in OwnTags
           /\ [t EXCEPT !.ntf = 0, !.active = FALSE, !.told = <<>>] \in OwnTags
<1>1. t \in Tags
  BY DEF OwnTags
<1>2. ASSUME NEW n \in Nat
      PROVE  [t EXCEPT !.ntf = n] \in OwnTags
  <2> DEFINE u == [t EXCEPT !.ntf = n]
  <2>1. u \in Tags
    BY <1>1 DEF Tags
  <2>2. u.arr = t.arr /\ u.num = t.num /\ u.saved = t.saved /\ u.told = t.told /\ u.idx = t.idx
    BY <1>1 DEF Tags
  <2> HIDE DEF u
  <2>3. u \in OwnTags
    BY <2>1, <2>2, SameEntries
  <2> QED
    BY <2>3 DEF u
<1>3. ASSUME NEW n \in Nat, NEW more \in 0..2
      PROVE  [t EXCEPT !.prev = more, !.ntf = n] \in OwnTags
  <2> DEFINE u == [t EXCEPT !.prev = more, !.ntf = n]
  <2>1. u \in Tags
    BY <1>1 DEF Tags
  <2>2. u.arr = t.arr /\ u.num = t.num /\ u.saved = t.saved /\ u.told = t.told /\ u.idx = t.idx
    BY <1>1 DEF Tags
  <2> HIDE DEF u
  <2>3. u \in OwnTags
    BY <2>1, <2>2, SameEntries
  <2> QED
    BY <2>3 DEF u
<1>4. [t EXCEPT !.active = TRUE] \in OwnTags
  <2> DEFINE u == [t EXCEPT !.active = TRUE]
  <2>1. u \in Tags
    BY <1>1 DEF Tags
  <2>2. u.arr = t.arr /\ u.num = t.num /\ u.saved = t.saved /\ u.told = t.told /\ u.idx = t.idx
    BY <1>1 DEF Tags
  <2> HIDE DEF u
  <2>3. u \in OwnTags
    BY <2>1, <2>2, SameEntries
  <2> QED
    BY <2>3 DEF u
<1>5. [t EXCEPT !.idx = 0] \in OwnTags
  <2> DEFINE u == [t EXCEPT !.idx = 0]
  <2>1. 0 \in 0..MaxTech
    BY TagDiscoveryAssumption
  <2>2. u \in Tags
    BY <1>1, <2>1 DEF Tags
  <2>3. u.arr = t.arr /\ u.num = t.num /\ u.saved = t.saved /\ u.told = t.told /\ u.idx = 0
    BY <1>1 DEF Tags
  <2> HIDE DEF u
  <2>4. u \in OwnTags
    BY <2>2, <2>3, SameEntries
  <2> QED
    BY <2>4 DEF u
<1>6. [t EXCEPT !.ntf = 0, !.active = FALSE, !.told = <<>>] \in OwnTags
  <2> DEFINE u == [t EXCEPT !.ntf = 0, !.active = FALSE, !.told = <<>>]
  <2>1. <<>> \in Seq([h : Handles, b : Handles])
    OBVIOUS
  <2>2. u \in Tags
    BY <1>1, <2>1 DEF Tags
  <2>3. u.arr = t.arr /\ u.num = t.num /\ u.saved = t.saved /\ u.told = <<>> /\ u.idx = t.idx
    BY <1>1 DEF Tags
  <2> HIDE DEF u
  <2>4. u \in OwnTags
    BY <2>2, <2>3, SameEntries
  <2> QED
    BY <2>4 DEF u
<1> QED
  BY <1>1, <1>2, <1>3, <1>4, <1>5, <1>6

Natives == [t : OwnTags, m : Flags, new : Nat, t3t : T3ts]

LEMMA HandsOver ==
    ASSUME NEW x \in Natives
    PROVE  /\ x.t \in OwnTags /\ x.m \in Flags /\ x.new \in Nat /\ x.t3t \in T3ts
           /\ \A t \in OwnTags : [x EXCEPT !.t = t] \in Natives
           /\ \A m \in Flags : [x EXCEPT !.m = m] \in Natives
BY DEF Natives

LEMMA Clears ==
    ASSUME NEW x \in Natives
    PROVE  ClearMultiprotocol(x) \in Natives
<1>1. [x.m EXCEPT !.detected = FALSE] \in Flags
  BY HandsOver DEF Flags
<1>2. ClearMultiprotocol(x) = [x EXCEPT !.m = [x.m EXCEPT !.detected = FALSE], !.new = x.new + 1]
  BY DEF ClearMultiprotocol, Natives
<1>3. x.new + 1 \in Nat
  BY HandsOver
<1> QED
  BY <1>1, <1>2, <1>3 DEF Natives

LEMMA HandlesDiscovery ==
    ASSUME NEW x \in Natives, NEW more \in 0..2, x.t.ntf # 0
    PROVE  handleRfDiscoveryEvent(x, more) \in Natives
<1>1. x.t \in OwnTags /\ x.m \in Flags
  BY HandsOver
<1>2. CASE more = 2
  BY <1>2 DEF handleRfDiscoveryEvent
<1>3. CASE more # 2 /\ ~x.m.reader /\ isP2pDiscovered(x.t)
  <2>1. selectP2p(x.t) \in OwnTags
    BY <1>1, <1>3, SelectsPeer
  <2> DEFINE m == [x.m EXCEPT !.timer = IF x.m.detected THEN "off" ELSE x.m.timer, !.awaited = x.m.detected]
  <2>2. m \in Flags
    BY <1>1 DEF Flags
  <2>3. handleRfDiscoveryEvent(x, more) =
          [x EXCEPT !.t = selectP2p(x.t), !.m = m]
    BY <1>3 DEF handleRfDiscoveryEvent, Natives
  <2> HIDE DEF m
  <2> QED
    BY <2>1, <2>2, <2>3 DEF Natives
<1>4. CASE more # 2 /\ ~(~x.m.reader /\ isP2pDiscovered(x.t)) /\ ~x.m.reader /\ x.m.flag
  <2>1. [x.m EXCEPT !.flag = FALSE, !.detected = TRUE, !.timer = "reconfigure"] \in Flags
    BY <1>1 DEF Flags
  <2>2. handleRfDiscoveryEvent(x, more) =
          [x EXCEPT !.m = [x.m EXCEPT !.flag = FALSE, !.detected = TRUE, !.timer = "reconfigure"],
                    !.new = x.new + 1]
    BY <1>4 DEF handleRfDiscoveryEvent, Natives
  <2>3. x.new + 1 \in Nat
    BY HandsOver
  <2> QED
    BY <2>1, <2>2, <2>3 DEF Natives
<1>5. CASE more # 2 /\ ~(~x.m.reader /\ isP2pDiscovered(x.t)) /\ ~(~x.m.reader /\ x.m.flag)
  <2> DEFINE t == [x.t EXCEPT !.ntf = IF x.m.reader THEN 0 ELSE x.t.ntf - 1]
  <2>1. (IF x.m.reader THEN 0 ELSE x.t.ntf - 1) \in Nat
    <3>1. x.t \in Tags
      BY <1>1, OwnStays
    <3>2. x.t.ntf \in Nat
      BY <3>1 DEF Tags
    <3> QED
      BY <3>2
  <2>2. t \in OwnTags
    BY <1>1, <2>1, OwnStays
  <2>3. [x.m EXCEPT !.flag = TRUE] \in Flags
    BY <1>1 DEF Flags
  <2>4. handleRfDiscoveryEvent(x, more)
          = [x EXCEPT !.t = selectFirstTag(t), !.m = [x.m EXCEPT !.flag = TRUE]]
    BY <1>5 DEF handleRfDiscoveryEvent, Natives
  <2> HIDE DEF t
  <2>5. selectFirstTag(t) \in OwnTags
    BY <2>2, SelectsFirst
  <2> QED
    BY <2>3, <2>4, <2>5 DEF Natives
<1> QED
  BY <1>2, <1>3, <1>4, <1>5

LEMMA DiscResultKeeps ==
    ASSUME NEW x \in Natives, NEW r \in Results, NEW more \in 0..2
    PROVE  OnDiscResult(x, r, more) \in Natives
<1>1. x.t \in OwnTags
  BY HandsOver
<1>2. CASE more = 1 /\ x.t.prev # 2
  <2>1. [x.t EXCEPT !.ntf = 0] \in OwnTags
    BY <1>1, OwnStays
  <2>2. OnDiscResult(x, r, more) = [x EXCEPT !.t = [x.t EXCEPT !.ntf = 0]]
    BY <1>2 DEF OnDiscResult, Natives
  <2> QED
    BY <2>1, <2>2, HandsOver
<1>3. CASE ~(more = 1 /\ x.t.prev # 2)
  <2> DEFINE t == Discovered(x.t, r)
             y == [x EXCEPT !.t = Counted(t, more)]
  <2>1. t \in OwnTags /\ t \in Tags
    BY <1>1, DiscoversBehind, OwnStays
  <2>2. Counted(t, more) \in OwnTags /\ Counted(t, more).ntf # 0
    <3> HIDE DEF t
    <3>1. t.ntf + 1 \in Nat /\ t.ntf + 1 # 0
      BY <2>1 DEF Tags
    <3>2. Counted(t, more) = [t EXCEPT !.prev = more, !.ntf = t.ntf + 1]
      BY DEF Counted
    <3>3. Counted(t, more).ntf = t.ntf + 1
      BY <2>1, <3>2 DEF Tags
    <3>4. [t EXCEPT !.prev = more, !.ntf = t.ntf + 1] \in OwnTags
      BY <2>1, <3>1, OwnStays
    <3> QED
      BY <3>1, <3>2, <3>3, <3>4
  <2>3. y \in Natives /\ y.t = Counted(t, more)
    <3> HIDE DEF t
    <3> QED
      BY <2>2, HandsOver DEF Natives
  <2>4. OnDiscResult(x, r, more) = handleRfDiscoveryEvent(y, more)
    BY <1>3 DEF OnDiscResult
  <2> HIDE DEF t, y
  <2> QED
    BY <2>2, <2>3, <2>4, HandlesDiscovery
<1> QED
  BY <1>2, <1>3

LEMMA PeerKeeps ==
    ASSUME NEW x \in Natives, NEW h \in Handles
    PROVE  PeerInReaderMode(x, h) \in Natives
<1>1. x.t \in OwnTags /\ x.m \in Flags
  BY HandsOver
<1>2. Ask(x.t, [c |-> "idle"]) \in OwnTags
  <2>1. [c |-> "idle"] \in Requests
    BY DEF Requests
  <2> QED
    BY <1>1, <2>1, Asks
<1>3. [x.m EXCEPT !.felica = "dep"] \in Flags /\ [x.m EXCEPT !.felica = "idle"] \in Flags
  BY <1>1 DEF Flags
<1>4. [pc |-> "begin", h |-> h] \in T3ts
  BY DEF T3ts
<1>5. PeerInReaderMode(x, h) =
        IF x.m.felica \in {"idle", "selected"}
        THEN [x EXCEPT !.m = [x.m EXCEPT !.felica = "dep"], !.t3t = [pc |-> "begin", h |-> h]]
        ELSE [x EXCEPT !.m = [x.m EXCEPT !.felica = "idle"], !.t = Ask(x.t, [c |-> "idle"])]
  BY DEF PeerInReaderMode, Natives
<1> QED
  BY <1>2, <1>3, <1>4, <1>5 DEF Natives

LEMMA RestoresKeep ==
    ASSUME NEW x \in Natives, NEW p
    PROVE  Restored(x, p) \in Natives
<1> DEFINE y == [x EXCEPT !.m = [x.m EXCEPT !.timer = "off"]]
<1>1. [x.m EXCEPT !.timer = "off"] \in Flags
  BY HandsOver DEF Flags
<1>2. y \in Natives
  BY <1>1, HandsOver
<1>3. Restored(x, p) = IF ~x.m.detected THEN x ELSE IF p \in Dep THEN y
                       ELSE IF p = "T3T" THEN ClearMultiprotocol(y) ELSE x
  BY DEF Restored, Natives
<1> HIDE DEF y
<1> QED
  BY <1>2, <1>3, Clears

\* With an activation no peer is awaited any more (OnActivated).
Arrived(x) == [x EXCEPT !.m.awaited = FALSE]

LEMMA ArrivalKeeps ==
    ASSUME NEW x \in Natives
    PROVE  Arrived(x) \in Natives /\ Arrived(x).t = x.t /\ Arrived(x).t3t = x.t3t
<1>1. [x.m EXCEPT !.awaited = FALSE] \in Flags
  BY HandsOver DEF Flags
<1>2. Arrived(x) = [x EXCEPT !.m = [x.m EXCEPT !.awaited = FALSE]]
  BY DEF Arrived
<1> QED
  BY <1>1, <1>2 DEF Natives

LEMMA SleepsForNext ==
    ASSUME NEW t \in OwnTags
    PROVE  SleepForNext(t) \in OwnTags
<1>1. [c |-> "sleep"] \in Requests
  BY DEF Requests
<1> QED
  BY <1>1, Asks DEF SleepForNext

LEMMA ActivationKeeps ==
    ASSUME NEW y \in Natives, NEW e \in Entries, NEW k \in Kinds
    PROVE  OnActivated(y, e, k) \in Natives
<1> DEFINE x == Restored(Arrived(y), e.p)
           active == [x.t EXCEPT !.active = TRUE]
           listed == Activated(active, e, k)
           told == SleepForNext(createNativeNfcTag(listed))
<1>1. x \in Natives /\ x.t \in OwnTags /\ x.m \in Flags
  BY ArrivalKeeps, RestoresKeep, HandsOver
<1>2. active \in OwnTags
  BY <1>1, OwnStays
<1>3. OnActivated(y, e, k) =
        IF e.p \notin Dep THEN [x EXCEPT !.t = told]
        ELSE IF x.m.reader THEN PeerInReaderMode([x EXCEPT !.t = active], e.h)
        ELSE [x EXCEPT !.t = active, !.m = [x.m EXCEPT !.p2p = TRUE]]
  <2> HIDE DEF told, active
  <2>1. ActivatedTag(x, e, k) =
          IF e.p \notin Dep THEN [x EXCEPT !.t = SleepForNext(createNativeNfcTag(
                                                   Activated([x.t EXCEPT !.active = TRUE], e, k)))]
          ELSE IF x.m.reader THEN PeerInReaderMode([x EXCEPT !.t = [x.t EXCEPT !.active = TRUE]], e.h)
          ELSE [x EXCEPT !.t = [x.t EXCEPT !.active = TRUE], !.m = [x.m EXCEPT !.p2p = TRUE]]
    <3> HIDE DEF x
    <3> QED
      BY <1>1 DEF ActivatedTag, Natives
  <2> QED
    BY <2>1 DEF OnActivated, Arrived, told, active
<1> HIDE DEF x
<1>4. told \in OwnTags
  <2> HIDE DEF active
  <2>1. listed \in OwnTags /\ listed.num \in 0..MaxTech
    BY <1>2, ActivatedIsListedBehind
  <2> HIDE DEF listed
  <2>2. createNativeNfcTag(listed) \in OwnTags
    BY <2>1, CreatesOwn
  <2> QED
    BY <2>2, SleepsForNext
<1> HIDE DEF told, active
<1>5. e.h \in Handles
  BY DEF Entries
<1>6. [x EXCEPT !.t = active] \in Natives /\ [x EXCEPT !.t = told] \in Natives
  BY <1>1, <1>2, <1>4, HandsOver
<1>7. [x EXCEPT !.t = active, !.m = [x.m EXCEPT !.p2p = TRUE]] \in Natives
  <2>1. [x.m EXCEPT !.p2p = TRUE] \in Flags
    BY <1>1 DEF Flags
  <2> QED
    BY <1>1, <1>2, <2>1 DEF Natives
<1> QED
  BY <1>3, <1>5, <1>6, <1>7, PeerKeeps

LEMMA NextTagKeeps ==
    ASSUME NEW t \in OwnTags
    PROVE  NextTag(t) \in OwnTags
<1>1. t.ntf # 0 => t.ntf - 1 \in Nat
  <2>1. t \in Tags
    BY OwnStays
  <2>2. t.ntf \in Nat
    BY <2>1 DEF Tags
  <2> QED
    BY <2>2
<1>2. t.ntf # 0 => [t EXCEPT !.ntf = t.ntf - 1] \in OwnTags
  BY <1>1, OwnStays
<1> QED
  BY <1>2, SelectsNext DEF NextTag

LEMMA GoneKeeps ==
    ASSUME NEW t \in OwnTags, NEW type
    PROVE  Gone(t, type) \in OwnTags
BY OwnStays, Resets DEF Gone

LEMMA DeactivationKeeps ==
    ASSUME NEW x \in Natives, NEW type
    PROVE  OnDeactivated(x, type) \in Natives
<1> DEFINE y == AfterPeer(x)
           z == [y EXCEPT !.t = Gone(NextTag(y.t), type), !.m = [y.m EXCEPT !.p2p = y.m.p2p /\ type = "sleep"]]
<1>1. y \in Natives
  <2> DEFINE u == [x EXCEPT !.m = [x.m EXCEPT !.flag = TRUE]]
  <2>1. [x.m EXCEPT !.flag = TRUE] \in Flags
    BY HandsOver DEF Flags
  <2>2. u \in Natives
    BY <2>1, HandsOver
  <2>3. AfterPeer(x) = IF x.m.detected /\ x.m.p2p THEN ClearMultiprotocol(u) ELSE x
    BY DEF AfterPeer, Natives
  <2> HIDE DEF u
  <2> QED
    BY <2>2, <2>3, Clears
<1> HIDE DEF y
<1>2. z \in Natives
  <2>1. y.t \in OwnTags /\ y.m \in Flags
    BY <1>1, HandsOver
  <2>2. Gone(NextTag(y.t), type) \in OwnTags
    BY <2>1, NextTagKeeps, GoneKeeps
  <2>3. (y.m.p2p /\ type = "sleep") \in BOOLEAN
    OBVIOUS
  <2>4. [y.m EXCEPT !.p2p = y.m.p2p /\ type = "sleep"] \in Flags
    BY <2>1, <2>3 DEF Flags
  <2> QED
    BY <1>1, <2>2, <2>4 DEF Natives
<1>3. OnDeactivated(x, type) = FelicaAsleep(z, type)
  BY <1>1 DEF OnDeactivated, Natives, y
<1> HIDE DEF z
<1>4. FelicaAsleep(z, type) \in Natives
  <2>1. z.m \in Flags /\ z.t3t \in T3ts
    BY <1>2, HandsOver
  <2>2. [z.m EXCEPT !.felica = "asleep"] \in Flags /\ [z.m EXCEPT !.felica = "idle"] \in Flags
    BY <2>1 DEF Flags
  <2>3. [z.t3t EXCEPT !.pc = IF z.t3t.pc = "sleepW" THEN "select" ELSE z.t3t.pc] \in T3ts
    BY <2>1 DEF T3ts
  <2>4. FelicaAsleep(z, type) =
          IF ~z.m.reader \/ type # "sleep" THEN z
          ELSE IF z.m.felica = "dep"
          THEN [z EXCEPT !.m = [z.m EXCEPT !.felica = "asleep"],
                         !.t3t = [z.t3t EXCEPT !.pc = IF z.t3t.pc = "sleepW" THEN "select" ELSE z.t3t.pc]]
          ELSE [z EXCEPT !.m = [z.m EXCEPT !.felica = "idle"]]
    BY <1>2 DEF FelicaAsleep, Natives
  <2> QED
    BY <1>2, <2>2, <2>3, <2>4 DEF Natives
<1> QED
  BY <1>3, <1>4

LEMMA SelectResultKeeps ==
    ASSUME NEW x \in Natives, NEW ok \in BOOLEAN
    PROVE  OnSelectResult(x, ok) \in Natives
<1> DEFINE t == Ask([x.t EXCEPT !.idx = 0], [c |-> "idle"])
<1>1. x.t \in OwnTags /\ x.m \in Flags /\ x.t3t \in T3ts
  BY HandsOver
<1>2. t \in OwnTags
  <2>1. [x.t EXCEPT !.idx = 0] \in OwnTags
    BY <1>1, OwnStays
  <2>2. [c |-> "idle"] \in Requests
    BY DEF Requests
  <2> QED
    BY <2>1, <2>2, Asks
<1>3. [x.m EXCEPT !.felica = "selected"] \in Flags
  BY <1>1 DEF Flags
<1>4. [x.t3t EXCEPT !.pc = IF x.t3t.pc = "selectW" THEN "idle" ELSE x.t3t.pc] \in T3ts
  BY <1>1 DEF T3ts
<1>5. OnSelectResult(x, ok) =
        IF ~ok THEN [x EXCEPT !.t = t]
        ELSE IF x.m.reader /\ x.m.felica = "asleep"
        THEN [x EXCEPT !.m = [x.m EXCEPT !.felica = "selected"],
                       !.t3t = [x.t3t EXCEPT !.pc = IF x.t3t.pc = "selectW" THEN "idle" ELSE x.t3t.pc]]
        ELSE x
  BY DEF OnSelectResult, Natives
<1> HIDE DEF t
<1> QED
  BY <1>2, <1>3, <1>4, <1>5 DEF Natives
-----------------------------------------------------------------------------
(* The threads: what they ask NFA for, and where they go on.               *)

PrioWaiting == prio["stopW"] + prio["disableW"] + prio["enableW"] + prio["startW"]

LEMMA WaitersAreANumber ==
    ASSUME TypeOK
    PROVE  PrioWaiting \in Nat /\ Waiters \in Nat /\ ToCome(nfa.q) \in Nat
<1>1. \A pc \in {"stopW", "disableW", "enableW", "startW"} : prio[pc] \in Nat
  BY DEF TypeOK, PrioPcs
<1>2. nfa.q \in Seq(Items)
  BY DEF TypeOK, Controllers, Items
<1>3. ToCome(nfa.q) \in Nat
  BY <1>2, ToComeIsANumber
<1>4. PrioWaiting \in Nat
  BY <1>1 DEF PrioWaiting
<1>5. Waiters = PrioWaiting + IF SvcWaits THEN 1 ELSE 0
  BY DEF Waiters, PrioWaiting
<1>6. (IF SvcWaits THEN 1 ELSE 0) \in Nat
  OBVIOUS
<1>7. Waiters \in Nat
  <2> HIDE DEF Waiters, PrioWaiting, SvcWaits
  <2> QED
    BY <1>4, <1>5, <1>6
<1> QED
  BY <1>3, <1>4, <1>7

LEMMA OrdersComeBack ==
    ASSUME TypeOK, NEW c \in Orders, AskNfa(c)
    PROVE  nfa' \in Controllers /\ ToCome(nfa'.q) = ToCome(nfa.q) + 1
<1>1. nfa \in Controllers /\ nfa.q \in Seq(Items) /\ c \in Items
  BY DEF TypeOK, Controllers, Items
<1>2. nfa' = [nfa EXCEPT !.q = Append(nfa.q, c)]
  BY DEF AskNfa, Queue
<1>3. c.c \in Answered
  BY DEF Orders, Answered
<1>4. Append(nfa.q, c) \in Seq(Items) /\ ToCome(Append(nfa.q, c)) = ToCome(nfa.q) + 1
  BY <1>1, <1>3, ToComeGrows
<1> QED
  BY <1>1, <1>2, <1>4 DEF Controllers, Items

LEMMA RequestsDoNot ==
    ASSUME TypeOK, NEW c \in Requests, AskNfa(c)
    PROVE  nfa' \in Controllers /\ ToCome(nfa'.q) = ToCome(nfa.q)
<1>1. nfa \in Controllers /\ nfa.q \in Seq(Items) /\ c \in Items
  BY DEF TypeOK, Controllers, Items
<1>2. nfa' = [nfa EXCEPT !.q = Append(nfa.q, c)]
  BY DEF AskNfa, Queue
<1>3. c.c \notin Answered
  BY DEF Requests, Answered
<1>4. Append(nfa.q, c) \in Seq(Items) /\ ToCome(Append(nfa.q, c)) = ToCome(nfa.q)
  BY <1>1, <1>3, ToComeGrows, ToComeIsANumber
<1> QED
  BY <1>1, <1>2, <1>4 DEF Controllers, Items

LEMMA OrdersOfThreads ==
    /\ Cmd("stop") \in Orders /\ Cmd("start") \in Orders /\ Cmd("disable") \in Orders
    /\ Enable("F") \in Orders /\ Enable("all") \in Orders
BY DEF Cmd, Enable, Orders

LEMMA PrioMoves ==
    ASSUME TypeOK, NEW from \in PrioPcs, NEW to \in PrioPcs, from # to, prio[from] > 0,
           prio' = PrioTo(from, to)
    PROVE  /\ prio' \in [PrioPcs -> Nat]
           /\ prio'[from] = prio[from] - 1 /\ prio'[to] = prio[to] + 1
           /\ \A pc \in PrioPcs \ {from, to} : prio'[pc] = prio[pc]
<1>1. prio \in [PrioPcs -> Nat]
  BY DEF TypeOK
<1>2. prio[from] - 1 \in Nat /\ prio[to] + 1 \in Nat
  BY <1>1
<1>3. prio' = [prio EXCEPT ![from] = prio[from] - 1, ![to] = prio[to] + 1]
  BY DEF PrioTo
<1> QED
  BY <1>1, <1>2, <1>3

LEMMA PrioLeaves ==
    ASSUME TypeOK, NEW from \in PrioPcs, prio[from] > 0, prio' = PrioEnds(from)
    PROVE  /\ prio' \in [PrioPcs -> Nat]
           /\ \A pc \in PrioPcs \ {from} : prio'[pc] = prio[pc]
<1>1. prio \in [PrioPcs -> Nat]
  BY DEF TypeOK
<1>2. prio[from] - 1 \in Nat
  BY <1>1
<1>3. prio' = [prio EXCEPT ![from] = prio[from] - 1]
  BY DEF PrioEnds
<1> QED
  BY <1>1, <1>2, <1>3

\* A thread that goes on to wait for its order, from a place where it does not wait.
LEMMA PrioWaitsOneMore ==
    ASSUME TypeOK, NEW from \in {"begin", "disable", "enable", "start"},
           NEW to \in {"stopW", "disableW", "enableW", "startW"}, prio[from] > 0, prio' = PrioTo(from, to)
    PROVE  prio' \in [PrioPcs -> Nat] /\ PrioWaiting' = PrioWaiting + 1
<1>1. from \in PrioPcs /\ to \in PrioPcs /\ from # to
  BY DEF PrioPcs
<1>2. /\ prio' \in [PrioPcs -> Nat] /\ prio'[to] = prio[to] + 1
      /\ \A pc \in PrioPcs \ {from, to} : prio'[pc] = prio[pc]
  BY <1>1, PrioMoves
<1>3. \A pc \in {"stopW", "disableW", "enableW", "startW"} :
        prio[pc] \in Nat /\ pc \in PrioPcs /\ pc # from
  BY DEF TypeOK, PrioPcs
<1>4. \A pc \in {"stopW", "disableW", "enableW", "startW"} :
        prio'[pc] = IF pc = to THEN prio[pc] + 1 ELSE prio[pc]
  BY <1>2, <1>3
<1> QED
  BY <1>2, <1>3, <1>4 DEF PrioWaiting

Keeps == TypeOK' /\ WaitersAreAnswered'

\* The thread of p2p_prio_logic_multiprotocol asks for an order and waits.
LEMMA PrioAsks ==
    ASSUME TypeOK, WaitersAreAnswered, NEW c \in Orders, AskNfa(c),
           NEW from \in {"begin", "disable", "enable", "start"},
           NEW to \in {"stopW", "disableW", "enableW", "startW"}, prio[from] > 0, prio' = PrioTo(from, to),
           nm' \in Flags, UNCHANGED <<field, tag, svc, t3t, count>>
    PROVE  Keeps
<1>1. nfa' \in Controllers /\ ToCome(nfa'.q) = ToCome(nfa.q) + 1
  BY OrdersComeBack
<1>2. prio' \in [PrioPcs -> Nat] /\ PrioWaiting' = PrioWaiting + 1
  BY PrioWaitsOneMore
<1>3. TypeOK'
  BY <1>1, <1>2 DEF TypeOK
<1>4. SvcWaits' = SvcWaits
  BY DEF SvcWaits
<1>5. WaitersAreAnswered'
  BY <1>1, <1>2, <1>4, WaitersAreANumber DEF WaitersAreAnswered, Waiters, PrioWaiting
<1> QED
  BY <1>3, <1>5 DEF Keeps

\* A step that leaves the queue alone and after which no more threads wait.
LEMMA NobodyWaitsMore ==
    ASSUME TypeOK, WaitersAreAnswered, UNCHANGED <<nfa, field, tag, svc, count>>,
           prio' \in [PrioPcs -> Nat], nm' \in Flags, t3t' \in T3ts,
           \A pc \in {"stopW", "disableW", "enableW", "startW"} : prio'[pc] = prio[pc]
    PROVE  Keeps
<1>1. TypeOK'
  BY DEF TypeOK
<1>2. PrioWaiting' = PrioWaiting /\ SvcWaits' = SvcWaits
  BY DEF PrioWaiting, SvcWaits
<1>3. WaitersAreAnswered'
  BY <1>2 DEF WaitersAreAnswered, Waiters, PrioWaiting
<1> QED
  BY <1>1, <1>3 DEF Keeps

LEMMA PrioKeeps ==
    ASSUME TypeOK, WaitersAreAnswered, PrioSteps
    PROVE  Keeps
<1>1. nm \in Flags /\ t3t \in T3ts
  BY DEF TypeOK
<1>2. CASE PrioBegins
  BY <1>1, <1>2, PrioAsks, OrdersOfThreads DEF PrioBegins
<1>3. CASE PrioStopped
  <2>1. [nm EXCEPT !.rfEnabled = FALSE] \in Flags
    BY <1>1 DEF Flags
  <2> QED
    BY <1>3, <2>1, PrioAsks, OrdersOfThreads DEF PrioStopped
<1>4. CASE PrioDisabled
  <2>1. Enable(IF nm.detected THEN "F" ELSE "all") \in Orders
    BY OrdersOfThreads
  <2> QED
    BY <1>1, <1>4, <2>1, PrioAsks DEF PrioDisabled
<1>5. CASE PrioEnabled
  <2>1. CASE nm.rfEnabled
    <3>1. prio["start"] > 0 /\ prio' = PrioEnds("start") /\ UNCHANGED <<nfa, field, tag, nm, svc, t3t, count>>
      BY <1>5, <2>1 DEF PrioEnabled
    <3>2. /\ prio' \in [PrioPcs -> Nat]
          /\ \A pc \in {"stopW", "disableW", "enableW", "startW"} : prio'[pc] = prio[pc]
      BY <3>1, PrioLeaves DEF PrioPcs
    <3> QED
      BY <1>1, <3>1, <3>2, NobodyWaitsMore
  <2>2. CASE ~nm.rfEnabled
    BY <1>1, <1>5, <2>2, PrioAsks, OrdersOfThreads DEF PrioEnabled
  <2> QED
    BY <2>1, <2>2
<1>6. CASE PrioStarted
  <2>1. prio["end"] > 0 /\ prio' = PrioEnds("end") /\ UNCHANGED <<nfa, field, tag, svc, t3t, count>>
    BY <1>6 DEF PrioStarted
  <2>2. /\ prio' \in [PrioPcs -> Nat]
        /\ \A pc \in {"stopW", "disableW", "enableW", "startW"} : prio'[pc] = prio[pc]
    BY <2>1, PrioLeaves DEF PrioPcs
  <2>3. nm' \in Flags
    BY <1>1, <1>6 DEF PrioStarted, Flags
  <2> QED
    BY <1>1, <2>1, <2>2, <2>3, NobodyWaitsMore
<1> QED
  BY <1>2, <1>3, <1>4, <1>5, <1>6 DEF PrioSteps

LEMMA TimerKeeps ==
    ASSUME TypeOK, WaitersAreAnswered, TimerFires
    PROVE  Keeps
<1>1. nm \in Flags /\ t3t \in T3ts /\ prio \in [PrioPcs -> Nat]
  BY DEF TypeOK
<1>2. nm' \in Flags
  BY <1>1 DEF TimerFires, Flags
<1>3. /\ prio' \in [PrioPcs -> Nat]
      /\ \A pc \in {"stopW", "disableW", "enableW", "startW"} : prio'[pc] = prio[pc]
  BY <1>1 DEF TimerFires, PrioPcs
<1> QED
  BY <1>1, <1>2, <1>3, NobodyWaitsMore DEF TimerFires

LEMMA T3tKeeps ==
    ASSUME TypeOK, WaitersAreAnswered, T3tSteps
    PROVE  Keeps
<1>1. nm \in Flags /\ t3t \in T3ts /\ prio \in [PrioPcs -> Nat]
  BY DEF TypeOK
<1>2. t3t' \in T3ts
  BY <1>1 DEF T3tSteps, T3tBegins, T3tSelects, T3tTimesOut, T3ts
<1>3. UNCHANGED <<field, tag, nm, svc, prio, count>>
  BY DEF T3tSteps, T3tBegins, T3tSelects, T3tTimesOut
<1>4. CASE UNCHANGED nfa
  BY <1>1, <1>2, <1>3, <1>4, NobodyWaitsMore
<1>5. ASSUME NEW c \in Requests, AskNfa(c)
      PROVE  Keeps
  <2>1. nfa' \in Controllers /\ ToCome(nfa'.q) = ToCome(nfa.q)
    BY <1>5, RequestsDoNot
  <2>2. TypeOK'
    BY <1>2, <1>3, <2>1 DEF TypeOK
  <2>3. SvcWaits' = SvcWaits
    BY <1>3 DEF SvcWaits
  <2>4. WaitersAreAnswered'
    BY <1>3, <2>1, <2>3 DEF WaitersAreAnswered, Waiters
  <2> QED
    BY <2>2, <2>4 DEF Keeps
<1>6. CASE T3tBegins
  <2>1. Cmd("sleep") \in Requests
    BY DEF Cmd, Requests
  <2> QED
    BY <1>4, <1>5, <1>6, <2>1 DEF T3tBegins
<1>7. CASE T3tSelects
  <2>1. SelectOf([h |-> t3t.h, p |-> "T3T"]) \in Requests
    BY <1>1 DEF SelectOf, Requests, T3ts, Protocols
  <2> QED
    BY <1>5, <1>7, <2>1 DEF T3tSelects
<1>8. CASE T3tTimesOut
  BY <1>4, <1>8 DEF T3tTimesOut
<1> QED
  BY <1>6, <1>7, <1>8 DEF T3tSteps

\* The service's thread asks for an order and waits.
LEMMA SvcAsks ==
    ASSUME TypeOK, WaitersAreAnswered, NEW c \in Orders, AskNfa(c), ~SvcWaits,
           svc' \in [pc : SvcPcs, mode : Modes], svc'.pc \in {"enableW", "mode"} => svc'.mode.tech # "none",
           nm' \in Flags, count' \in [calls : Nat, changes : Nat], UNCHANGED <<field, tag, prio, t3t>>
    PROVE  Keeps
<1>1. nfa' \in Controllers /\ ToCome(nfa'.q) = ToCome(nfa.q) + 1
  BY OrdersComeBack
<1>2. TypeOK'
  BY <1>1 DEF TypeOK
<1>3. PrioWaiting' = PrioWaiting
  BY DEF PrioWaiting
<1>4. WaitersAreAnswered'
  BY <1>1, <1>3, WaitersAreANumber DEF WaitersAreAnswered, Waiters, PrioWaiting
<1> QED
  BY <1>2, <1>4 DEF Keeps

\* The service's thread goes on, or back, without an order.
LEMMA SvcGoesOn ==
    ASSUME TypeOK, WaitersAreAnswered, ~SvcWaits, ~SvcWaits',
           svc' \in [pc : SvcPcs, mode : Modes], svc'.pc \in {"enableW", "mode"} => svc'.mode.tech # "none",
           nm' \in Flags, UNCHANGED <<nfa, field, tag, prio, t3t, count>>
    PROVE  Keeps
<1>1. TypeOK'
  BY DEF TypeOK
<1>2. WaitersAreAnswered'
  BY DEF WaitersAreAnswered, Waiters
<1> QED
  BY <1>1, <1>2 DEF Keeps

LEMMA CallsKeep ==
    ASSUME TypeOK, WaitersAreAnswered,
           DisableDiscovery \/ \E m \in Modes : EnableDiscovery(m)
    PROVE  Keeps
<1>1. nm \in Flags /\ svc \in [pc : SvcPcs, mode : Modes] /\ count \in [calls : Nat, changes : Nat]
  BY DEF TypeOK
<1>2. count' \in [calls : Nat, changes : Nat]
  BY <1>1 DEF DisableDiscovery, EnableDiscovery
<1>3. CASE DisableDiscovery
  <2>1. ~SvcWaits
    BY <1>3 DEF DisableDiscovery, SvcWaits
  <2>2. svc' \in [pc : SvcPcs, mode : Modes] /\ svc'.pc = "offW"
    BY <1>1, <1>3 DEF DisableDiscovery, SvcPcs
  <2> QED
    BY <1>1, <1>2, <1>3, <2>1, <2>2, SvcAsks, OrdersOfThreads DEF DisableDiscovery
<1>4. ASSUME NEW m \in Modes, EnableDiscovery(m)
      PROVE  Keeps
  <2>1. ~SvcWaits
    BY <1>4 DEF EnableDiscovery, SvcWaits
  <2>2. svc' \in [pc : SvcPcs, mode : Modes] /\ svc'.pc \notin {"enableW", "mode"}
    BY <1>1, <1>4 DEF EnableDiscovery, SvcPcs
  <2>3. nm' \in Flags
    <3>1. [nm EXCEPT !.polling = FALSE] \in Flags
      BY <1>1 DEF Flags
    <3> QED
      BY <1>1, <1>4, <3>1 DEF EnableDiscovery
  <2> QED
    BY <1>2, <1>4, <2>1, <2>2, <2>3, SvcAsks, OrdersOfThreads DEF EnableDiscovery
<1> QED
  BY <1>3, <1>4

LEMMA SvcKeeps ==
    ASSUME TypeOK, WaitersAreAnswered, SvcSteps
    PROVE  Keeps
<1>1. nm \in Flags /\ svc \in [pc : SvcPcs, mode : Modes] /\ count \in [calls : Nat, changes : Nat]
  BY DEF TypeOK
<1>2. svc.mode.tech # "none" => svc.mode.tech \in {"all", "F"}
  BY <1>1, TagDiscoveryAssumption
<1>3. svc.pc = "mode" => svc.mode.tech \in {"all", "F"}
  BY <1>2 DEF TypeOK
<1>4. svc.mode.reader \in BOOLEAN
  BY <1>1, TagDiscoveryAssumption
<1>5. CASE SvcStopped
  <2>1. ~SvcWaits /\ nm' \in Flags /\ svc' \in [pc : SvcPcs, mode : Modes] /\ svc'.pc = "disableW"
    BY <1>1, <1>5 DEF SvcStopped, SvcWaits, SvcPcs, Flags
  <2> QED
    BY <1>1, <1>5, <2>1, SvcAsks, OrdersOfThreads DEF SvcStopped
<1>6. CASE SvcDisabled
  <2>1. ~SvcWaits /\ nm' \in Flags /\ svc' \in [pc : SvcPcs, mode : Modes] /\ svc'.mode = svc.mode
    BY <1>1, <1>6 DEF SvcDisabled, SvcWaits, SvcPcs, Flags
  <2>2. Enable(svc.mode.tech) \in Orders /\ svc.mode.tech # "none"
    BY <1>2, <1>6 DEF SvcDisabled, Enable, Orders
  <2> QED
    BY <1>1, <1>6, <2>1, <2>2, SvcAsks DEF SvcDisabled
<1>7. CASE SvcListensOnly
  <2>1. ~SvcWaits /\ svc' \in [pc : SvcPcs, mode : Modes] /\ svc'.pc = "startW"
    BY <1>1, <1>7 DEF SvcListensOnly, SvcWaits, SvcPcs
  <2> QED
    BY <1>1, <1>7, <2>1, SvcAsks, OrdersOfThreads DEF SvcListensOnly
<1>8. CASE SvcEnabled
  <2>1. ~SvcWaits /\ svc' \in [pc : SvcPcs, mode : Modes] /\ svc'.pc = "startW"
    BY <1>1, <1>8 DEF SvcEnabled, SvcWaits, SvcPcs
  <2>2. nm' \in Flags
    BY <1>1, <1>3, <1>4, <1>8 DEF SvcEnabled, Flags
  <2> QED
    BY <1>1, <1>8, <2>1, <2>2, SvcAsks, OrdersOfThreads DEF SvcEnabled
<1>9. CASE SvcStarted
  <2>1. ~SvcWaits /\ nm' \in Flags /\ svc' \in [pc : SvcPcs, mode : Modes] /\ svc'.pc = "idle"
    BY <1>1, <1>9 DEF SvcStarted, SvcWaits, SvcPcs, Flags
  <2>2. ~SvcWaits'
    BY <2>1 DEF SvcWaits
  <2> QED
    BY <1>9, <2>1, <2>2, SvcGoesOn DEF SvcStarted
<1>10. CASE SvcOff
  <2>1. ~SvcWaits /\ nm' \in Flags
    <3>1. [nm EXCEPT !.rfEnabled = FALSE, !.polling = FALSE] \in Flags /\ [nm EXCEPT !.rfEnabled = FALSE] \in Flags
      BY <1>1 DEF Flags
    <3> QED
      BY <1>10, <3>1 DEF SvcOff, SvcWaits
  <2>2. CASE nm.polling
    <3>1. svc' \in [pc : SvcPcs, mode : Modes] /\ svc'.pc = "offDisableW"
      BY <1>1, <1>10, <2>2 DEF SvcOff, SvcPcs
    <3> QED
      BY <1>1, <1>10, <2>1, <2>2, <3>1, SvcAsks, OrdersOfThreads DEF SvcOff
  <2>3. CASE ~nm.polling
    <3>1. svc' \in [pc : SvcPcs, mode : Modes] /\ svc'.pc = "offEnd"
      BY <1>1, <1>10, <2>3 DEF SvcOff, SvcPcs
    <3>2. ~SvcWaits'
      BY <3>1 DEF SvcWaits
    <3> QED
      BY <1>10, <2>1, <2>3, <3>1, <3>2, SvcGoesOn DEF SvcOff
  <2> QED
    BY <2>2, <2>3
<1>11. CASE SvcOffEnd
  <2>1. ~SvcWaits /\ nm' \in Flags /\ svc' \in [pc : SvcPcs, mode : Modes] /\ svc'.pc = "idle"
    BY <1>1, <1>11 DEF SvcOffEnd, SvcWaits, SvcPcs, Flags
  <2>2. ~SvcWaits'
    BY <2>1 DEF SvcWaits
  <2> QED
    BY <1>11, <2>1, <2>2, SvcGoesOn DEF SvcOffEnd
<1> QED
  BY <1>5, <1>6, <1>7, <1>8, <1>9, <1>10, <1>11 DEF SvcSteps
-----------------------------------------------------------------------------
(* NFA and the controller: a request is worked off and its events reported. *)

LEMMA QueueIsOfItems ==
    ASSUME TypeOK, Working
    PROVE  /\ nfa \in Controllers /\ nfa.q \in Seq(Items) /\ nfa.q # <<>>
           /\ Head(nfa.q) \in Items /\ Rest \in Seq(Items) /\ ToCome(Rest) \in Nat
           /\ ToCome(nfa.q) = ToCome(Rest) + IF Job \in Answered THEN 1 ELSE 0
<1>1. nfa \in Controllers /\ nfa.q \in Seq(Items) /\ nfa.q # <<>>
  BY DEF TypeOK, Controllers, Items, Working
<1>2. /\ Head(nfa.q) \in Items /\ Rest \in Seq(Items)
      /\ ToCome(nfa.q) = ToCome(Rest) + IF Job \in Answered THEN 1 ELSE 0
  BY <1>1, ToComeShrinks DEF Rest, Job
<1>3. ToCome(Rest) \in Nat
  BY <1>2, ToComeIsANumber
<1> QED
  BY <1>1, <1>2, <1>3

\* What NFA reports for a request goes before the rest; an order is answered.
LEMMA NfaWorks ==
    ASSUME TypeOK, WaitersAreAnswered, Working, External, NEW events \in Seq(Items),
           nfa' \in Controllers, nfa'.q = events \o Rest,
           Job \in Answered => ToCome(events) # 0
    PROVE  Keeps
<1>1. TypeOK'
  BY DEF TypeOK, External
<1>2. /\ Rest \in Seq(Items) /\ ToCome(Rest) \in Nat
      /\ ToCome(nfa.q) = ToCome(Rest) + IF Job \in Answered THEN 1 ELSE 0
  BY QueueIsOfItems
<1>3. ToCome(events) \in Nat
  BY ToComeIsANumber
<1>4. ToCome(nfa'.q) = ToCome(events) + ToCome(Rest)
  BY <1>2, ToComeOfTwo
<1>5. ToCome(nfa'.q) >= ToCome(nfa.q) /\ ToCome(nfa'.q) \in Nat /\ ToCome(nfa.q) \in Nat
  BY <1>2, <1>3, <1>4
<1>6. Waiters' = Waiters /\ Waiters \in Nat
  <2>1. SvcWaits' = SvcWaits /\ prio' = prio
    BY DEF External, SvcWaits
  <2>2. Waiters' = Waiters
    BY <2>1 DEF Waiters
  <2> QED
    BY <2>2, WaitersAreANumber
<1>7. WaitersAreAnswered'
  BY <1>5, <1>6 DEF WaitersAreAnswered
<1> QED
  BY <1>1, <1>7 DEF Keeps

\* An event that is reported alone.
LEMMA OneEvent ==
    ASSUME NEW e \in Events
    PROVE  <<e>> \in Seq(Items) /\ (e.c \in Answered => ToCome(<<e>>) # 0)
<1>1. e \in Items
  BY DEF Items
<1> QED
  BY <1>1, ToComeOfOne

LEMMA EventsAreTyped ==
    /\ Ev("STOPPED") \in Events /\ Ev("STARTED") \in Events /\ Ev("POLL") \in Events
    /\ Ev("SELECT_OK") \in Events /\ Ev("SELECT_FAIL") \in Events /\ Ev("DEACTIVATE_FAIL") \in Events
    /\ \A type \in {"idle", "sleep", "discovery"} : Down(type) \in Events
    /\ \A e \in Entries, k \in Kinds : e.h # 0 => Up(e, k) \in Events
BY DEF Ev, Down, Up, Events, Entries

LEMMA LeftIsReported ==
    ASSUME NEW d \in Left
    PROVE  d \in Seq(Items) /\ Append(d, Ev("STOPPED")) \in Seq(Items) /\ ToCome(Append(d, Ev("STOPPED"))) # 0
<1>1. Ev("STOPPED") \in Items /\ Ev("STOPPED").c \in Answered
  BY EventsAreTyped DEF Items, Ev, Answered
<1>2. Down("idle") \in Items
  BY EventsAreTyped DEF Items
<1>3. d \in {<<>>, <<Down("idle")>>}
  BY DEF Left
<1>4. d \in Seq(Items)
  <2>1. <<>> \in Seq(Items) /\ <<Down("idle")>> \in Seq(Items)
    BY <1>2
  <2> QED
    BY <1>3, <2>1
<1>5. ToCome(d) \in Nat
  BY <1>4, ToComeIsANumber
<1> QED
  BY <1>1, <1>4, <1>5, ToComeGrows

\* NFA goes to another state, and reports events.
LEMMA Goes ==
    ASSUME TypeOK, Working, NEW rf \in {"idle", "poll", "results", "select", "active", "sleep"},
           NEW events \in Seq(Items), To(rf, events)
    PROVE  nfa' \in Controllers /\ nfa'.q = events \o Rest
<1>1. nfa \in Controllers /\ events \o Rest \in Seq(Items)
  BY QueueIsOfItems
<1>2. Zero \in Entries
  BY DEF Zero, Entries, Handles, Protocols
<1>3. {} \in SUBSET Results
  OBVIOUS
<1>4. nfa' = [nfa EXCEPT !.rf = rf, !.todo = {}, !.q = events \o Rest,
                         !.on = IF rf = "active" THEN nfa.on ELSE Zero]
  BY DEF To
<1> QED
  BY <1>1, <1>2, <1>3, <1>4 DEF Controllers, Items

LEMMA StopsKeep ==
    ASSUME TypeOK, WaitersAreAnswered, NfaStops
    PROVE  Keeps
<1>1. Working /\ External
  BY DEF NfaStops
<1>2. PICK d \in Left : To("idle", Append(d, Ev("STOPPED")))
  BY DEF NfaStops
<1>3. Append(d, Ev("STOPPED")) \in Seq(Items) /\ ToCome(Append(d, Ev("STOPPED"))) # 0
  BY LeftIsReported
<1>4. nfa' \in Controllers /\ nfa'.q = Append(d, Ev("STOPPED")) \o Rest
  BY <1>1, <1>2, <1>3, Goes
<1> QED
  BY <1>1, <1>3, <1>4, NfaWorks

\* NFA stays where it is, and reports one event; it may change what it polls for.
LEMMA AnswersAtOnce ==
    ASSUME TypeOK, WaitersAreAnswered, Working, External, NEW e \in Events,
           NEW mask \in {"none", "all", "F"}, nfa' = [nfa EXCEPT !.q = <<e>> \o Rest, !.mask = mask],
           Job \in Answered => e.c \in Answered
    PROVE  Keeps
<1>1. nfa \in Controllers /\ Rest \in Seq(Items)
  BY QueueIsOfItems
<1>2. <<e>> \in Seq(Items) /\ (e.c \in Answered => ToCome(<<e>>) # 0)
  BY OneEvent
<1>3. <<e>> \o Rest \in Seq(Items)
  BY <1>1, <1>2
<1>4. nfa' \in Controllers /\ nfa'.q = <<e>> \o Rest
  BY <1>1, <1>3 DEF Controllers, Items
<1> QED
  BY <1>2, <1>4, NfaWorks

LEMMA StartsKeep ==
    ASSUME TypeOK, WaitersAreAnswered, NfaStarts
    PROVE  Keeps
<1>1. Working /\ External /\ nfa \in Controllers
  BY DEF NfaStarts, TypeOK
<1>2. Ev("STARTED") \in Events /\ Ev("STARTED").c \in Answered
  BY EventsAreTyped DEF Ev, Answered
<1>3. CASE nfa.rf = "idle"
  <2>1. To("poll", <<Ev("STARTED")>>)
    BY <1>3 DEF NfaStarts
  <2>2. <<Ev("STARTED")>> \in Seq(Items) /\ ToCome(<<Ev("STARTED")>>) # 0
    BY <1>2, OneEvent
  <2>3. nfa' \in Controllers /\ nfa'.q = <<Ev("STARTED")>> \o Rest
    BY <1>1, <2>1, <2>2, Goes
  <2> QED
    BY <1>1, <2>2, <2>3, NfaWorks
<1>4. CASE nfa.rf # "idle"
  <2>1. nfa' = [nfa EXCEPT !.q = <<Ev("STARTED")>> \o Rest]
    BY <1>4 DEF NfaStarts
  <2>2. nfa' = [nfa EXCEPT !.q = <<Ev("STARTED")>> \o Rest, !.mask = nfa.mask] /\ nfa.mask \in {"none", "all", "F"}
    BY <1>1, <2>1 DEF Controllers
  <2> QED
    BY <1>1, <1>2, <2>2, AnswersAtOnce
<1> QED
  BY <1>3, <1>4

LEMMA PollingKeeps ==
    ASSUME TypeOK, WaitersAreAnswered, NfaPolling
    PROVE  Keeps
<1> DEFINE mask == IF nfa.rf # "idle" THEN nfa.mask ELSE IF Job = "disable" THEN "none"
                   ELSE IF nfa.mask = "none" THEN Head(nfa.q).m ELSE nfa.mask
<1>1. Working /\ External /\ Job \in {"disable", "enable"}
  BY DEF NfaPolling
<1>2. nfa \in Controllers /\ Head(nfa.q) \in Items
  BY <1>1, QueueIsOfItems
<1>3. Job = "enable" => Head(nfa.q).m \in {"all", "F"}
  BY <1>2 DEF Job, Items, Requests, Orders, Events
<1>4. mask \in {"none", "all", "F"}
  BY <1>1, <1>2, <1>3 DEF Controllers
<1>5. nfa' = [nfa EXCEPT !.q = <<Ev("POLL")>> \o Rest, !.mask = mask]
  BY DEF NfaPolling
<1>6. Ev("POLL") \in Events /\ Ev("POLL").c \in Answered
  BY EventsAreTyped DEF Ev, Answered
<1> HIDE DEF mask
<1> QED
  BY <1>1, <1>4, <1>5, <1>6, AnswersAtOnce

\* Targets of the field, and what they answer as.
LEMMA AnswersAreOfTheField ==
    ASSUME TypeOK, NEW e \in Entries, Answers(e)
    PROVE  KindAs(e) \in Kinds
<1>1. field \in Seq(Kinds)
  BY TagDiscoveryAssumption DEF TypeOK
<1>2. field[e.h] \in Kinds
  BY <1>1 DEF Answers
<1> QED
  BY <1>2 DEF KindAs, Kinds

LEMMA SelectKeeps ==
    ASSUME TypeOK, WaitersAreAnswered, NfaSelects
    PROVE  Keeps
<1> DEFINE e == [h |-> Head(nfa.q).h, p |-> Head(nfa.q).p]
<1>1. Working /\ External /\ Job = "select" /\ Job \notin Answered
  BY DEF NfaSelects, Answered
<1>2. nfa \in Controllers /\ Head(nfa.q) \in Items /\ Rest \in Seq(Items)
  BY <1>1, QueueIsOfItems
<1>3. e \in Entries
  BY <1>1, <1>2 DEF Job, Items, Requests, Orders, Events, Entries
<1>4. CASE nfa.rf \in {"select", "sleep"} /\ Answers(e)
  <2>1. nfa' = [nfa EXCEPT !.rf = "active", !.on = e, !.q = <<Ev("SELECT_OK"), Up(e, KindAs(e))>> \o Rest]
    BY <1>4 DEF NfaSelects
  <2>2. Ev("SELECT_OK") \in Items /\ Up(e, KindAs(e)) \in Items
    <3>1. e.h # 0
      BY <1>4 DEF Answers
    <3> QED
      BY <1>3, <1>4, <3>1, AnswersAreOfTheField, EventsAreTyped DEF Items
  <2> HIDE DEF e
  <2>3. <<Ev("SELECT_OK"), Up(e, KindAs(e))>> \in Seq(Items)
    BY <2>2
  <2>4. <<Ev("SELECT_OK"), Up(e, KindAs(e))>> \o Rest \in Seq(Items)
    BY <1>2, <2>3
  <2>5. nfa' \in Controllers /\ nfa'.q = <<Ev("SELECT_OK"), Up(e, KindAs(e))>> \o Rest
    BY <1>2, <1>3, <2>1, <2>4 DEF Controllers, Items
  <2> QED
    BY <1>1, <2>3, <2>5, NfaWorks
<1>5. CASE ~(nfa.rf \in {"select", "sleep"} /\ Answers(e))
  <2>1. nfa' = [nfa EXCEPT !.q = <<Ev("SELECT_FAIL")>> \o Rest]
    BY <1>5 DEF NfaSelects
  <2>2. nfa' = [nfa EXCEPT !.q = <<Ev("SELECT_FAIL")>> \o Rest, !.mask = nfa.mask]
        /\ nfa.mask \in {"none", "all", "F"}
    BY <1>2, <2>1 DEF Controllers
  <2> QED
    BY <1>1, <2>2, EventsAreTyped, AnswersAtOnce
<1> QED
  BY <1>4, <1>5

LEMMA DeactivateKeeps ==
    ASSUME TypeOK, WaitersAreAnswered, NfaDeactivates
    PROVE  Keeps
<1>1. Working /\ External /\ Job \in {"sleep", "idle"} /\ Job \notin Answered
  BY DEF NfaDeactivates, Answered
<1>2. nfa \in Controllers
  BY <1>1, QueueIsOfItems
<1>3. ASSUME NEW rf \in {"poll", "sleep"}, NEW events \in Seq(Items), To(rf, events)
      PROVE  Keeps
  <2>1. nfa' \in Controllers /\ nfa'.q = events \o Rest
    BY <1>1, <1>3, Goes
  <2> QED
    BY <1>1, <2>1, NfaWorks
<1>4. CASE nfa' = [nfa EXCEPT !.q = <<Ev("DEACTIVATE_FAIL")>> \o Rest]
  <2>1. nfa' = [nfa EXCEPT !.q = <<Ev("DEACTIVATE_FAIL")>> \o Rest, !.mask = nfa.mask]
        /\ nfa.mask \in {"none", "all", "F"}
    BY <1>2, <1>4 DEF Controllers
  <2> QED
    BY <1>1, <2>1, EventsAreTyped, AnswersAtOnce
<1>5. <<Down("sleep")>> \in Seq(Items) /\ <<Down("discovery")>> \in Seq(Items)
  BY EventsAreTyped, OneEvent
<1>6. CASE nfa.rf = "idle"
  BY <1>4, <1>6 DEF NfaDeactivates
<1>7. CASE nfa.rf = "active" /\ Job = "sleep"
  BY <1>3, <1>5, <1>7 DEF NfaDeactivates
<1>8. CASE nfa.rf # "idle" /\ nfa.rf # "active" /\ Job = "sleep"
  BY <1>4, <1>8 DEF NfaDeactivates
<1>9. CASE nfa.rf # "idle" /\ Job = "idle"
  <2>1. PICK d \in Left : To("poll", d)
    BY <1>9 DEF NfaDeactivates
  <2> QED
    BY <1>3, <2>1, LeftIsReported
<1> QED
  BY <1>1, <1>6, <1>7, <1>8, <1>9

LEMMA TargetsKeep ==
    ASSUME TypeOK, WaitersAreAnswered, TargetsAnswer
    PROVE  Keeps
<1>1. External /\ nfa \in Controllers /\ nfa.q = <<>>
  BY DEF TargetsAnswer, TypeOK, Working
<1>2. Found \subseteq Results
  <2>1. field \in Seq(Kinds)
    BY TagDiscoveryAssumption DEF TypeOK
  <2>2. \A i \in 1..Len(field) : field[i] \in Kinds /\ i \in Handles
    BY <2>1 DEF Handles
  <2> QED
    BY <2>2 DEF Found, Results
<1>3. nfa' \in Controllers
  <2>1. CASE \E r \in Found : LET e == [h |-> r.h, p |-> Protocol(r.k)] IN
               Found = {r} /\ nfa' = [nfa EXCEPT !.rf = "active", !.on = e, !.q = <<Up(e, r.k)>>]
    <3>1. PICK r \in Found : nfa' = [nfa EXCEPT !.rf = "active", !.on = [h |-> r.h, p |-> Protocol(r.k)],
                                             !.q = <<Up([h |-> r.h, p |-> Protocol(r.k)], r.k)>>]
      BY <2>1
    <3>2. r.k \in Kinds /\ [h |-> r.h, p |-> Protocol(r.k)] \in Entries
      BY <1>2, ProtocolsOfKinds DEF Results, Entries
    <3>3. <<Up([h |-> r.h, p |-> Protocol(r.k)], r.k)>> \in Seq(Items)
      <4>1. r.h # 0
        BY DEF Found
      <4> QED
        BY <3>2, <4>1, EventsAreTyped, OneEvent
    <3> QED
      BY <1>1, <3>1, <3>2, <3>3 DEF Controllers, Items
  <2>2. CASE nfa' = [nfa EXCEPT !.rf = "results", !.todo = Found]
    BY <1>1, <1>2, <2>2 DEF Controllers
  <2> QED
    BY <2>1, <2>2 DEF TargetsAnswer
<1>4. TypeOK'
  BY <1>1, <1>3 DEF TypeOK, External
<1>5. Waiters' = Waiters /\ Waiters \in Nat
  <2>1. SvcWaits' = SvcWaits /\ prio' = prio
    BY <1>1 DEF External, SvcWaits
  <2>2. Waiters' = Waiters
    BY <2>1 DEF Waiters
  <2> QED
    BY <2>2, WaitersAreANumber
<1>6. ToCome(nfa.q) = 0
  BY <1>1, ToComeOfNone
<1>7. nfa'.q \in Seq(Items)
  BY <1>3 DEF Controllers, Items
<1>8. ToCome(nfa'.q) \in Nat
  BY <1>7, ToComeIsANumber
<1>9. WaitersAreAnswered'
  BY <1>5, <1>6, <1>8 DEF WaitersAreAnswered
<1> QED
  BY <1>4, <1>9 DEF Keeps

LEMMA LossKeeps ==
    ASSUME TypeOK, WaitersAreAnswered, TargetLost
    PROVE  Keeps
<1>1. Cmd("idle") \in Requests /\ AskNfa(Cmd("idle")) /\ External
  BY DEF TargetLost, Cmd, Requests
<1>2. nfa' \in Controllers /\ ToCome(nfa'.q) = ToCome(nfa.q)
  BY <1>1, RequestsDoNot
<1>3. TypeOK'
  BY <1>1, <1>2 DEF TypeOK, External
<1>4. Waiters' = Waiters
  BY <1>1 DEF External, Waiters, SvcWaits
<1> QED
  BY <1>2, <1>3, <1>4 DEF Keeps, WaitersAreAnswered

LEMMA ChangeKeeps ==
    ASSUME TypeOK, WaitersAreAnswered, NEW f \in Fields, FieldChanges(f)
    PROVE  Keeps
<1>1. TypeOK'
  BY DEF TypeOK, FieldChanges
<1>2. Waiters' = Waiters /\ nfa' = nfa
  BY DEF FieldChanges, Waiters, SvcWaits
<1> QED
  BY <1>1, <1>2 DEF Keeps, WaitersAreAnswered

-----------------------------------------------------------------------------
(* The callback: a handler's requests go behind the queue.                 *)

LEMMA HereIsTyped ==
    ASSUME TypeOK, tag \in OwnTags
    PROVE  Here \in Natives
BY DEF TypeOK, Here, Natives

LEMMA CallbackKeeps ==
    ASSUME TypeOK, WaitersAreAnswered, NEW x \in Natives, NEW n \in Controllers, Callback(x, n),
           ToCome(n.q) = ToCome(nfa.q)
    PROVE  Keeps /\ tag' \in OwnTags
<1>1. x.t \in OwnTags /\ x.t \in Tags /\ x.m \in Flags /\ x.new \in Nat /\ x.t3t \in T3ts
  BY HandsOver, OwnStays
<1>2. n.q \in Seq(Items) /\ x.t.out \in Seq(Requests) /\ x.t.out \in Seq(Items)
  <2>1. x.t.out \in Seq(Requests) /\ n.q \in Seq(Items)
    BY <1>1 DEF Tags, Controllers, Items
  <2>2. Requests \subseteq Items
    BY DEF Items
  <2>3. \A i \in 1..Len(x.t.out) : x.t.out[i] \in Items
    BY <2>1, <2>2
  <2>4. x.t.out \in [1..Len(x.t.out) -> Items] /\ Len(x.t.out) \in Nat
    BY <2>1, <2>3
  <2> QED
    BY <2>1, <2>4, FunctionsAreSequences
<1>3. nfa' = [n EXCEPT !.q = n.q \o x.t.out] /\ n.q \o x.t.out \in Seq(Items)
  BY <1>2 DEF Callback
<1>4. nfa' \in Controllers /\ nfa'.q = n.q \o x.t.out
  BY <1>3 DEF Controllers, Items
<1>5. ToCome(nfa'.q) = ToCome(nfa.q)
  <2>1. ToCome(nfa'.q) = ToCome(n.q) + ToCome(x.t.out)
    BY <1>2, <1>4, ToComeOfTwo
  <2>2. ToCome(x.t.out) = 0
    BY <1>2, RequestsAnswerNobody
  <2> QED
    BY <2>1, <2>2, WaitersAreANumber
<1>6. tag' \in Tags /\ tag'.out = <<>>
  <2>1. tag' = [x.t EXCEPT !.out = <<>>] /\ <<>> \in Seq(Requests)
    BY DEF Callback
  <2> QED
    BY <1>1, <2>1 DEF Tags
<1>7. prio' \in [PrioPcs -> Nat] /\ \A pc \in PrioPcs \ {"begin"} : prio'[pc] = prio[pc]
  <2>1. prio \in [PrioPcs -> Nat] /\ "begin" \in PrioPcs
    BY DEF TypeOK, PrioPcs
  <2>2. prio["begin"] + x.new \in Nat
    BY <1>1, <2>1
  <2>3. prio' = [prio EXCEPT !["begin"] = prio["begin"] + x.new]
    BY DEF Callback
  <2> QED
    BY <2>1, <2>2, <2>3
<1>8. nm' = x.m /\ t3t' = x.t3t /\ UNCHANGED <<field, svc, count>>
  BY DEF Callback
<1>9. TypeOK'
  BY <1>1, <1>4, <1>6, <1>7, <1>8 DEF TypeOK
<1>10. Waiters' = Waiters
  <2>1. SvcWaits' = SvcWaits
    BY <1>8 DEF SvcWaits
  <2>2. \A pc \in {"stopW", "disableW", "enableW", "startW"} : prio'[pc] = prio[pc]
    BY <1>7 DEF PrioPcs
  <2> QED
    BY <2>1, <2>2 DEF Waiters
<1>11. tag' \in OwnTags
  <2>1. tag' = [x.t EXCEPT !.out = <<>>]
    BY DEF Callback
  <2>2. /\ tag'.arr = x.t.arr /\ tag'.num = x.t.num /\ tag'.saved = x.t.saved /\ tag'.told = x.t.told
        /\ tag'.idx = x.t.idx
    BY <1>1, <2>1 DEF Tags
  <2> QED
    BY <1>1, <1>6, <2>2, SameEntries
<1> QED
  BY <1>5, <1>9, <1>10, <1>11 DEF Keeps, WaitersAreAnswered

\* Its first event has been taken from the queue, and no thread waits for it.
LEMMA PoppedIsTyped ==
    ASSUME TypeOK, Working, Job \notin Answered
    PROVE  Popped \in Controllers /\ ToCome(Popped.q) = ToCome(nfa.q)
<1>1. /\ nfa \in Controllers /\ Rest \in Seq(Items) /\ ToCome(Rest) \in Nat
      /\ ToCome(nfa.q) = ToCome(Rest) + IF Job \in Answered THEN 1 ELSE 0
  BY QueueIsOfItems
<1>2. Popped = [nfa EXCEPT !.q = Rest]
  BY DEF Popped
<1>3. Popped \in Controllers /\ Popped.q = Rest
  BY <1>1, <1>2 DEF Controllers, Items
<1> QED
  BY <1>1, <1>3

LEMMA ReportKeeps ==
    ASSUME TypeOK, WaitersAreAnswered, tag \in OwnTags, Reported
    PROVE  Keeps /\ tag' \in OwnTags
<1>1. Here \in Natives
  BY HereIsTyped
<1>2. ASSUME NEW x \in Natives, Working, Job \notin Answered, Callback(x, Popped)
      PROVE  Keeps /\ tag' \in OwnTags
  BY <1>2, PoppedIsTyped, CallbackKeeps
<1>3. CASE ResultIsReported
  <2>1. PICK r \in nfa.todo : \E more \in IF nfa.todo = {r} THEN {0, 1} ELSE {2} :
          Callback(OnDiscResult(Here, r, more),
                   [nfa EXCEPT !.todo = @ \ {r}, !.rf = IF nfa.todo = {r} THEN "select" ELSE @])
    BY <1>3 DEF ResultIsReported
  <2>2. PICK more \in 0..2 :
          Callback(OnDiscResult(Here, r, more),
                   [nfa EXCEPT !.todo = @ \ {r}, !.rf = IF nfa.todo = {r} THEN "select" ELSE @])
    BY <2>1
  <2> DEFINE n == [nfa EXCEPT !.todo = @ \ {r}, !.rf = IF nfa.todo = {r} THEN "select" ELSE @]
  <2>3. nfa \in Controllers
    BY DEF TypeOK
  <2>4. n \in Controllers /\ n.q = nfa.q
    BY <2>3 DEF Controllers
  <2>5. r \in Results
    BY <2>3 DEF Controllers
  <2> HIDE DEF n
  <2> QED
    BY <1>1, <2>2, <2>4, <2>5, DiscResultKeeps, CallbackKeeps DEF n
<1>4. CASE ActivationIsReported
  <2>1. Working /\ Job = "ACTIVATED" /\ Job \notin Answered
    BY <1>4 DEF ActivationIsReported, Reports, Answered
  <2>2. Head(nfa.q) \in Items
    BY <2>1, QueueIsOfItems
  <2>3. [h |-> Head(nfa.q).h, p |-> Head(nfa.q).p] \in Entries /\ Head(nfa.q).k \in Kinds
    BY <2>1, <2>2 DEF Job, Items, Requests, Orders, Events, Entries
  <2>4. OnActivated(Here, [h |-> Head(nfa.q).h, p |-> Head(nfa.q).p], Head(nfa.q).k) \in Natives
    BY <1>1, <2>3, ActivationKeeps
  <2> QED
    BY <1>2, <1>4, <2>1, <2>4 DEF ActivationIsReported
<1>5. CASE DeactivationIsReported
  <2>1. Working /\ Job \notin Answered
    BY <1>5 DEF DeactivationIsReported, Reports, Answered
  <2>2. OnDeactivated(Here, Head(nfa.q).type) \in Natives
    BY <1>1, DeactivationKeeps
  <2> QED
    BY <1>2, <1>5, <2>1, <2>2 DEF DeactivationIsReported
<1>6. CASE SelectResultIsReported
  <2>1. PICK ok \in BOOLEAN : /\ Reports(IF ok THEN "SELECT_OK" ELSE "SELECT_FAIL")
                              /\ Callback(OnSelectResult(Here, ok), Popped)
    BY <1>6 DEF SelectResultIsReported
  <2>2. Working /\ Job \notin Answered
    BY <2>1 DEF Reports, Answered
  <2>3. OnSelectResult(Here, ok) \in Natives
    BY <1>1, SelectResultKeeps
  <2> QED
    BY <1>2, <2>1, <2>2, <2>3
<1>7. CASE AnswerIsReported
  <2>1. Working /\ NotifyOne /\ nfa' = Popped /\ UNCHANGED <<field, tag, nm, t3t, count>>
    BY <1>7 DEF AnswerIsReported
  <2>2. /\ nfa \in Controllers /\ Rest \in Seq(Items) /\ ToCome(Rest) \in Nat
        /\ ToCome(nfa.q) <= ToCome(Rest) + 1
    BY <2>1, QueueIsOfItems
  <2>3. nfa' \in Controllers /\ nfa'.q = Rest
    BY <2>1, <2>2 DEF Popped, Controllers, Items
  <2>4. \A pc \in {"stopW", "disableW", "enableW", "startW"} : prio[pc] \in Nat /\ pc \in PrioPcs
    BY DEF TypeOK, PrioPcs
  <2>5. svc \in [pc : SvcPcs, mode : Modes]
    BY DEF TypeOK
  <2>6. CASE \E pc \in PrioWaits : prio' = PrioTo(pc, AfterWait(pc)) /\ UNCHANGED svc
    <3>1. PICK pc \in {"stopW", "disableW", "enableW", "startW"} :
            prio[pc] > 0 /\ prio' = PrioTo(pc, AfterWait(pc)) /\ UNCHANGED svc
      BY <2>6 DEF PrioWaits
    <3>2. AfterWait(pc) \in PrioPcs \ {"stopW", "disableW", "enableW", "startW"} /\ pc \in PrioPcs
      BY DEF AfterWait, PrioPcs
    <3>3. /\ prio' \in [PrioPcs -> Nat] /\ prio'[pc] = prio[pc] - 1
          /\ \A u \in PrioPcs \ {pc, AfterWait(pc)} : prio'[u] = prio[u]
      BY <3>1, <3>2, PrioMoves
    <3>4. \A u \in {"stopW", "disableW", "enableW", "startW"} :
            prio'[u] = IF u = pc THEN prio[u] - 1 ELSE prio[u]
      BY <2>4, <3>2, <3>3
    <3>5. PrioWaiting' = PrioWaiting - 1 /\ PrioWaiting \in Nat
      BY <2>4, <3>4 DEF PrioWaiting
    <3>6. SvcWaits' = SvcWaits
      BY <3>1 DEF SvcWaits
    <3>7. WaitersAreAnswered'
      BY <2>2, <2>3, <3>5, <3>6, WaitersAreANumber DEF WaitersAreAnswered, Waiters, PrioWaiting
    <3>8. TypeOK'
      BY <2>1, <2>3, <3>1, <3>3 DEF TypeOK
    <3> QED
      BY <2>1, <3>7, <3>8 DEF Keeps
  <2>7. CASE SvcWaits /\ svc' = [svc EXCEPT !.pc = SvcAfterWait(@)] /\ UNCHANGED prio
    <3>1. svc' = [svc EXCEPT !.pc = SvcAfterWait(svc.pc)]
      BY <2>7
    <3>2. SvcAfterWait(svc.pc) \in SvcPcs /\ (SvcAfterWait(svc.pc) = "mode" => svc.pc = "enableW")
          /\ SvcAfterWait(svc.pc) \notin {"stopW", "disableW", "enableW", "startW", "offW", "offDisableW"}
      BY <2>7 DEF SvcAfterWait, SvcWaits, SvcPcs
    <3>3. svc' \in [pc : SvcPcs, mode : Modes] /\ svc'.pc = SvcAfterWait(svc.pc) /\ svc'.mode = svc.mode
      BY <2>5, <3>1, <3>2
    <3>4. svc'.pc \in {"enableW", "mode"} => svc'.mode.tech # "none"
      BY <3>2, <3>3 DEF TypeOK
    <3>5. TypeOK'
      BY <2>1, <2>3, <2>7, <3>3, <3>4 DEF TypeOK
    <3>6. ~SvcWaits' /\ PrioWaiting' = PrioWaiting
      BY <2>7, <3>2, <3>3 DEF SvcWaits, PrioWaiting
    <3>7. WaitersAreAnswered'
      BY <2>2, <2>3, <2>7, <3>6, WaitersAreANumber DEF WaitersAreAnswered, Waiters, PrioWaiting
    <3> QED
      BY <2>1, <3>5, <3>7 DEF Keeps
  <2>8. CASE PrioWaits = {} /\ ~SvcWaits /\ UNCHANGED <<svc, prio>>
    <3>1. TypeOK'
      BY <2>1, <2>3, <2>8 DEF TypeOK
    <3>2. \A pc \in {"stopW", "disableW", "enableW", "startW"} : prio[pc] = 0
      BY <2>4, <2>8 DEF PrioWaits
    <3>3. ~SvcWaits' /\ PrioWaiting' = 0
      BY <2>8, <3>2 DEF SvcWaits, PrioWaiting
    <3>4. WaitersAreAnswered'
      BY <2>2, <2>3, <3>3 DEF WaitersAreAnswered, Waiters, PrioWaiting
    <3> QED
      BY <2>1, <3>1, <3>4 DEF Keeps
  <2> QED
    BY <2>1, <2>6, <2>7, <2>8 DEF NotifyOne
<1> QED
  BY <1>3, <1>4, <1>5, <1>6, <1>7 DEF Reported
-----------------------------------------------------------------------------
(* The queue of NFA as the set of what is in it and the order of its events. *)
EventKinds == {"ACTIVATED", "DEACTIVATED", "SELECT_OK"}
In(q) == {q[i] : i \in 1..Len(q)}
None(q, c) == \A e \in In(q) : e.c # c
OnlyOne(q, c) == \A i, j \in 1..Len(q) : q[i].c = c /\ q[j].c = c => i = j
\* Nothing is reported of the link, or only at the front.
Quiet(q) == \A e \in In(q) : e.c \notin EventKinds
First(q) ==
    \A i \in 1..Len(q) :
        /\ q[i].c = "DEACTIVATED" => i = 1
        /\ q[i].c = "ACTIVATED" => i = 1 \/ (i = 2 /\ q[1].c = "SELECT_OK")
        /\ q[i].c = "SELECT_OK" => i = 1 /\ Len(q) > 1 /\ q[2].c = "ACTIVATED"

LEMMA InOfAppended ==
    ASSUME NEW S, NEW q \in Seq(S), NEW e \in S
    PROVE  In(Append(q, e)) = In(q) \cup {e}
<1>1. Len(q) \in Nat /\ Len(Append(q, e)) = Len(q) + 1
  OBVIOUS
<1>2. \A i \in 1..Len(q) : Append(q, e)[i] = q[i]
  OBVIOUS
<1>3. Append(q, e)[Len(q) + 1] = e
  OBVIOUS
<1>4. 1..(Len(q) + 1) = (1..Len(q)) \cup {Len(q) + 1}
  BY <1>1
<1> QED
  BY <1>1, <1>2, <1>3, <1>4 DEF In

LEMMA InOfHeadAndTail ==
    ASSUME NEW S, NEW q \in Seq(S), q # <<>>
    PROVE  In(q) = {Head(q)} \cup In(Tail(q)) /\ Head(q) = q[1] /\ Tail(q) \in Seq(S)
<1>1. Len(q) \in Nat /\ Len(q) >= 1 /\ Len(Tail(q)) = Len(q) - 1 /\ Tail(q) \in Seq(S) /\ Head(q) = q[1]
  OBVIOUS
<1>2. \A i \in 1..(Len(q) - 1) : Tail(q)[i] = q[i + 1]
  BY <1>1
<1>3. ASSUME NEW i \in 1..Len(q)
      PROVE  q[i] \in {Head(q)} \cup In(Tail(q))
  <2>1. CASE i = 1
    BY <1>1, <2>1
  <2>2. CASE i # 1
    <3>1. i - 1 \in 1..Len(Tail(q)) /\ Tail(q)[i - 1] = q[i]
      BY <1>1, <1>2, <2>2
    <3> QED
      BY <3>1 DEF In
  <2> QED
    BY <2>1, <2>2
<1>4. ASSUME NEW i \in 1..Len(Tail(q))
      PROVE  Tail(q)[i] \in In(q)
  <2>1. i + 1 \in 1..Len(q) /\ Tail(q)[i] = q[i + 1]
    BY <1>1, <1>2
  <2> QED
    BY <2>1 DEF In
<1>5. Head(q) \in In(q)
  BY <1>1 DEF In
<1> QED
  BY <1>1, <1>3, <1>4, <1>5 DEF In

LEMMA InOfPrepended ==
    ASSUME NEW S, NEW r \in Seq(S), NEW e \in S
    PROVE  /\ In(<<e>> \o r) = {e} \cup In(r)
           /\ <<e>> \o r \in Seq(S) /\ <<e>> \o r # <<>> /\ (<<e>> \o r)[1] = e
           /\ Tail(<<e>> \o r) = r /\ Head(<<e>> \o r) = e
<1> DEFINE q == <<e>> \o r
<1>1. q \in Seq(S) /\ q # <<>> /\ q[1] = e /\ Head(q) = e
  OBVIOUS
<1>2. Tail(q) = r
  OBVIOUS
<1> HIDE DEF q
<1>3. In(q) = {Head(q)} \cup In(Tail(q))
  BY <1>1, InOfHeadAndTail
<1> QED
  BY <1>1, <1>2, <1>3 DEF q

LEMMA InOfNothing == In(<<>>) = {}
BY DEF In

LEMMA QuietIsFirst ==
    ASSUME NEW q, Quiet(q)
    PROVE  First(q)
BY DEF Quiet, First, In, EventKinds

LEMMA FirstAppended ==
    ASSUME NEW S, NEW q \in Seq(S), NEW e \in S, First(q), e.c \notin EventKinds
    PROVE  First(Append(q, e))
<1> DEFINE r == Append(q, e)
<1>1. /\ Len(q) \in Nat /\ Len(r) = Len(q) + 1 /\ r[Len(q) + 1] = e
      /\ \A i \in 1..Len(q) : r[i] = q[i]
  OBVIOUS
<1> HIDE DEF r
<1>2. \A i \in 1..Len(r) : r[i].c \in EventKinds => i \in 1..Len(q)
  BY <1>1
<1>3. First(r)
  BY <1>1, <1>2 DEF First, EventKinds
<1> QED
  BY <1>3 DEF r

LEMMA QuietAfterTheFirst ==
    ASSUME NEW S, NEW q \in Seq(S), q # <<>>, First(q)
    PROVE  /\ First(Tail(q))
           /\ Head(q).c # "SELECT_OK" => Quiet(Tail(q))
           /\ Head(q).c = "SELECT_OK" => ~None(q, "ACTIVATED")
<1>1. Len(q) \in Nat /\ Len(q) >= 1 /\ Len(Tail(q)) = Len(q) - 1 /\ Head(q) = q[1]
  OBVIOUS
<1>2. \A i \in 1..Len(Tail(q)) : Tail(q)[i] = q[i + 1] /\ i + 1 \in 1..Len(q)
  BY <1>1
<1>3. \A i \in 1..Len(Tail(q)) :
        /\ Tail(q)[i].c # "DEACTIVATED" /\ Tail(q)[i].c # "SELECT_OK"
        /\ Tail(q)[i].c = "ACTIVATED" => i = 1 /\ q[1].c = "SELECT_OK"
  <2> SUFFICES ASSUME NEW i \in 1..Len(Tail(q))
               PROVE  /\ Tail(q)[i].c # "DEACTIVATED" /\ Tail(q)[i].c # "SELECT_OK"
                      /\ Tail(q)[i].c = "ACTIVATED" => i = 1 /\ q[1].c = "SELECT_OK"
    OBVIOUS
  <2>1. i \in Nat /\ i >= 1 /\ i + 1 # 1 /\ (i + 1 = 2 => i = 1)
    BY <1>1
  <2> QED
    BY <1>2, <2>1 DEF First
<1>4. First(Tail(q))
  BY <1>3 DEF First
<1>5. Head(q).c # "SELECT_OK" => Quiet(Tail(q))
  BY <1>1, <1>3 DEF Quiet, In, EventKinds
<1>6. Head(q).c = "SELECT_OK" => ~None(q, "ACTIVATED")
  BY <1>1 DEF None, In, First
<1> QED
  BY <1>4, <1>5, <1>6

LEMMA FirstPrepended ==
    ASSUME NEW S, NEW r \in Seq(S), NEW e \in S, Quiet(r), e.c # "SELECT_OK"
    PROVE  First(<<e>> \o r)
<1> DEFINE q == <<e>> \o r
<1>1. /\ Len(r) \in Nat /\ Len(q) = Len(r) + 1 /\ q[1] = e
      /\ \A i \in 1..Len(r) : q[i + 1] = r[i]
  OBVIOUS
<1> HIDE DEF q
<1>2. ASSUME NEW i \in 1..Len(q), i # 1
      PROVE  q[i].c \notin EventKinds
  <2>1. i - 1 \in 1..Len(r) /\ q[i] = r[i - 1]
    BY <1>1, <1>2
  <2> QED
    BY <2>1 DEF Quiet, In
<1>3. First(q)
  BY <1>1, <1>2 DEF First, EventKinds
<1> QED
  BY <1>3 DEF q

LEMMA OnlyOneAppended ==
    ASSUME NEW S, NEW q \in Seq(S), NEW e \in S, NEW c
    PROVE  /\ OnlyOne(q, c) /\ e.c # c => OnlyOne(Append(q, e), c)
           /\ None(q, c) => OnlyOne(Append(q, e), c)
<1> DEFINE r == Append(q, e)
<1>1. /\ Len(q) \in Nat /\ Len(r) = Len(q) + 1 /\ r[Len(q) + 1] = e
      /\ \A i \in 1..Len(q) : r[i] = q[i]
  OBVIOUS
<1> HIDE DEF r
<1>2. \A i \in 1..Len(r) : i \in 1..Len(q) \/ i = Len(q) + 1
  BY <1>1
<1>3. OnlyOne(q, c) /\ e.c # c => OnlyOne(r, c)
  BY <1>1, <1>2 DEF OnlyOne
<1>4. None(q, c) => OnlyOne(r, c)
  BY <1>1, <1>2 DEF OnlyOne, None, In
<1> QED
  BY <1>3, <1>4 DEF r

LEMMA OnlyOneInTail ==
    ASSUME NEW S, NEW q \in Seq(S), q # <<>>, NEW c, OnlyOne(q, c)
    PROVE  OnlyOne(Tail(q), c) /\ (Head(q).c = c => None(Tail(q), c))
<1>1. Len(q) \in Nat /\ Len(q) >= 1 /\ Len(Tail(q)) = Len(q) - 1 /\ Head(q) = q[1]
  OBVIOUS
<1>2. \A i \in 1..Len(Tail(q)) : Tail(q)[i] = q[i + 1] /\ i + 1 \in 1..Len(q) /\ i + 1 # 1
  BY <1>1
<1>3. \A i, j \in 1..Len(Tail(q)) : i + 1 = j + 1 => i = j
  BY <1>1
<1>4. OnlyOne(Tail(q), c)
  BY <1>2, <1>3 DEF OnlyOne
<1>5. Head(q).c = c => None(Tail(q), c)
  <2> SUFFICES ASSUME q[1].c = c, NEW i \in 1..Len(Tail(q)), Tail(q)[i].c = c
               PROVE  FALSE
    BY <1>1 DEF None, In
  <2> QED
    BY <1>1, <1>2 DEF OnlyOne
<1> QED
  BY <1>4, <1>5

LEMMA OnlyOnePrepended ==
    ASSUME NEW S, NEW r \in Seq(S), NEW e \in S, NEW c, OnlyOne(r, c), e.c # c
    PROVE  OnlyOne(<<e>> \o r, c)
<1> DEFINE q == <<e>> \o r
<1>1. /\ Len(r) \in Nat /\ Len(q) = Len(r) + 1 /\ q[1] = e
  OBVIOUS
<1>2. \A i \in 1..Len(q) : i # 1 => i - 1 \in 1..Len(r) /\ q[i] = r[i - 1]
  BY <1>1
<1> HIDE DEF q
<1>3. \A i, j \in 1..Len(q) : i - 1 = j - 1 => i = j
  BY <1>1
<1>4. OnlyOne(q, c)
  BY <1>1, <1>2, <1>3 DEF OnlyOne
<1> QED
  BY <1>4 DEF q

LEMMA NoneIsOnlyOne ==
    ASSUME NEW q, NEW c, None(q, c)
    PROVE  OnlyOne(q, c)
BY DEF None, OnlyOne, In

-----------------------------------------------------------------------------
(* The link, the queue, the service's tag and pollT3TThread.               *)

\* What WalkInv, ToldTagIsLeftAlone and ToldOfTheActiveTag say of the link, the queue and pollT3TThread.
Link(rf, h, q, told, ntf, pc, peer) ==
    /\ First(q)
    /\ rf = "active" => h # 0
    /\ \A e \in In(q) :
        /\ e.c = "ACTIVATED" => rf = "active" /\ e.h = h /\ told = <<>>
        /\ e.c = "DEACTIVATED" => rf \in IF e.type = "sleep" THEN {"sleep"} ELSE {"idle", "poll"}
    /\ told # <<>> =>
        /\ ntf = 0
        /\ rf = "active" \/ (q # <<>> /\ q[1].c = "DEACTIVATED" /\ q[1].type # "sleep")
    /\ told # <<>> /\ rf = "active" =>
        /\ None(q, "sleep")
        /\ told[Len(told)].h = h \/ Len(told) >= MaxTech
    /\ rf \in {"results", "select", "sleep"} \/ ~None(q, "ACTIVATED") => None(q, "sleep")
    /\ rf = "active" => OnlyOne(q, "sleep")
    /\ pc = "begin" => /\ rf \in {"idle", "poll", "active"} /\ None(q, "ACTIVATED")
                       /\ rf = "active" => None(q, "sleep") /\ told = <<>>
    /\ peer = 0 =>
        /\ pc = "idle"
        /\ rf \in {"results", "active"} \/ (rf = "sleep" /\ ~None(q, "DEACTIVATED")) => None(q, "select")
        /\ rf \in {"select", "sleep"} => OnlyOne(q, "select")

Plain(e) == e.c \notin EventKinds \cup {"sleep", "select"}

LEMMA FirstOfAppended ==
    ASSUME NEW S, NEW q \in Seq(S), NEW e \in S, q # <<>>
    PROVE  Append(q, e) # <<>> /\ Append(q, e)[1] = q[1]
OBVIOUS

LEMMA LinkAppends ==
    ASSUME NEW S, NEW q \in Seq(S), NEW e \in S, NEW rf, NEW h, NEW told, NEW ntf, NEW pc, NEW peer,
           Link(rf, h, q, told, ntf, pc, peer), Plain(e)
    PROVE  Link(rf, h, Append(q, e), told, ntf, pc, peer)
<1> DEFINE r == Append(q, e)
<1>1. In(r) = In(q) \cup {e} /\ First(r) /\ (q # <<>> => r # <<>> /\ r[1] = q[1])
  BY InOfAppended, FirstAppended, FirstOfAppended DEF Link, Plain
<1>2. \A c : OnlyOne(q, c) /\ e.c # c => OnlyOne(r, c)
  BY OnlyOneAppended
<1> HIDE DEF r
<1>3. Link(rf, h, r, told, ntf, pc, peer)
  BY <1>1, <1>2 DEF Link, None, Plain, EventKinds
<1> QED
  BY <1>3 DEF r

LEMMA LinkAppendsSleep ==
    ASSUME NEW S, NEW q \in Seq(S), NEW e \in S, NEW rf, NEW h, NEW told, NEW ntf, NEW pc, NEW peer,
           Link(rf, h, q, told, ntf, pc, peer), e.c = "sleep", rf \notin {"results", "select", "sleep"},
           None(q, "ACTIVATED"), rf = "active" => None(q, "sleep") /\ told = <<>>, pc # "begin"
    PROVE  Link(rf, h, Append(q, e), told, ntf, pc, peer)
<1> DEFINE r == Append(q, e)
<1>1. In(r) = In(q) \cup {e} /\ First(r) /\ (q # <<>> => r # <<>> /\ r[1] = q[1])
  BY InOfAppended, FirstAppended, FirstOfAppended DEF Link, EventKinds
<1>2. (None(q, "sleep") => OnlyOne(r, "sleep")) /\ (OnlyOne(q, "select") => OnlyOne(r, "select"))
  BY OnlyOneAppended
<1> HIDE DEF r
<1>3. Link(rf, h, r, told, ntf, pc, peer)
  BY <1>1, <1>2 DEF Link, None
<1> QED
  BY <1>3 DEF r

LEMMA LinkAppendsSelect ==
    ASSUME NEW S, NEW q \in Seq(S), NEW e \in S, NEW rf, NEW h, NEW told, NEW ntf, NEW pc, NEW peer,
           Link(rf, h, q, told, ntf, pc, peer), e.c = "select",
           peer = 0 => /\ rf \notin {"results", "active"} /\ (rf = "sleep" => None(q, "DEACTIVATED"))
                       /\ rf \in {"select", "sleep"} => None(q, "select")
    PROVE  Link(rf, h, Append(q, e), told, ntf, pc, peer)
<1> DEFINE r == Append(q, e)
<1>1. In(r) = In(q) \cup {e} /\ First(r) /\ (q # <<>> => r # <<>> /\ r[1] = q[1])
  BY InOfAppended, FirstAppended, FirstOfAppended DEF Link, EventKinds
<1>2. (None(q, "select") => OnlyOne(r, "select")) /\ (OnlyOne(q, "sleep") => OnlyOne(r, "sleep"))
  BY OnlyOneAppended
<1> HIDE DEF r
<1>3. Link(rf, h, r, told, ntf, pc, peer)
  BY <1>1, <1>2 DEF Link, None
<1> QED
  BY <1>3 DEF r

\* An event other than a deactivation has been reported, or a request is carried out.
LEMMA LinkPops ==
    ASSUME NEW S, NEW q \in Seq(S), q # <<>>, NEW rf, NEW h, NEW told, NEW ntf, NEW pc, NEW peer,
           Link(rf, h, q, told, ntf, pc, peer), Head(q).c # "DEACTIVATED"
    PROVE  Link(rf, h, Tail(q), told, ntf, pc, peer)
<1> DEFINE r == Tail(q)
<1>1. In(q) = {q[1]} \cup In(r) /\ First(r) /\ q[1].c # "DEACTIVATED"
  BY InOfHeadAndTail, QuietAfterTheFirst DEF Link
<1>2. \A c : OnlyOne(q, c) => OnlyOne(r, c)
  BY OnlyOneInTail
<1> HIDE DEF r
<1>3. Link(rf, h, r, told, ntf, pc, peer)
  BY <1>1, <1>2 DEF Link, None
<1> QED
  BY <1>3 DEF r

\* A request is answered, and the target stays as it is.
LEMMA LinkAnswers ==
    ASSUME NEW S, NEW q \in Seq(S), q # <<>>, NEW e \in S,
           NEW rf, NEW h, NEW told, NEW ntf, NEW pc, NEW peer,
           Link(rf, h, q, told, ntf, pc, peer), Head(q).c \notin EventKinds, Plain(e)
    PROVE  Link(rf, h, <<e>> \o Tail(q), told, ntf, pc, peer)
<1> DEFINE r == <<e>> \o Tail(q)
<1>1. Tail(q) \in Seq(S) /\ Quiet(Tail(q)) /\ Link(rf, h, Tail(q), told, ntf, pc, peer)
  <2>1. Head(q).c # "SELECT_OK" /\ Head(q).c # "DEACTIVATED"
    BY DEF EventKinds
  <2>2. First(q)
    BY DEF Link
  <2>3. Link(rf, h, Tail(q), told, ntf, pc, peer)
    BY <2>1, LinkPops
  <2> QED
    BY <2>1, <2>2, <2>3, InOfHeadAndTail, QuietAfterTheFirst
<1>2. In(r) = {e} \cup In(Tail(q)) /\ First(r)
  <2>1. e.c # "SELECT_OK"
    BY DEF Plain, EventKinds
  <2> QED
    BY <1>1, <2>1, InOfPrepended, FirstPrepended
<1>3. \A c : OnlyOne(Tail(q), c) /\ e.c # c => OnlyOne(r, c)
  BY <1>1, OnlyOnePrepended
<1>4. Tail(q) # <<>> => Tail(q)[1] \in In(Tail(q))
  BY <1>1, InOfHeadAndTail
<1> HIDE DEF r
<1>5. Link(rf, h, r, told, ntf, pc, peer)
  BY <1>1, <1>2, <1>3, <1>4 DEF Link, None, Plain, EventKinds, Quiet
<1> QED
  BY <1>5 DEF r

\* Nothing is active: the service knows no tag, or will be told next that it is gone.
LEMMA LinkIsDown ==
    ASSUME NEW S, NEW r \in Seq(S), NEW e \in S, NEW rf \in {"idle", "poll"},
           NEW h, NEW told, NEW ntf, NEW pc, NEW peer, Quiet(r), told # <<>> => ntf = 0, peer = 0 => pc = "idle"
    PROVE  /\ told = <<>> => Link(rf, h, r, told, ntf, pc, peer)
           /\ e.c = "DEACTIVATED" /\ e.type # "sleep" => Link(rf, h, <<e>> \o r, told, ntf, pc, peer)
<1>1. First(r)
  BY QuietIsFirst
<1>2. told = <<>> => Link(rf, h, r, told, ntf, pc, peer)
  BY <1>1 DEF Link, None, Quiet, EventKinds
<1> DEFINE q == <<e>> \o r
<1>3. In(q) = {e} \cup In(r) /\ q # <<>> /\ q[1] = e /\ (e.c = "DEACTIVATED" => First(q))
  BY InOfPrepended, FirstPrepended
<1> HIDE DEF q
<1>4. e.c = "DEACTIVATED" /\ e.type # "sleep" => Link(rf, h, q, told, ntf, pc, peer)
  BY <1>3 DEF Link, None, Quiet, EventKinds
<1> QED
  BY <1>2, <1>4 DEF q

\* The target sleeps, which is reported, or has been.
LEMMA LinkIsAsleep ==
    ASSUME NEW S, NEW r \in Seq(S), NEW e \in S, NEW h, NEW ntf, NEW pc, NEW peer,
           Quiet(r), None(r, "sleep"), pc # "begin", peer = 0 => pc = "idle" /\ None(r, "select"),
           e.c = "DEACTIVATED", e.type = "sleep"
    PROVE  Link("sleep", h, r, <<>>, ntf, pc, peer) /\ Link("sleep", h, <<e>> \o r, <<>>, ntf, pc, peer)
<1>1. First(r) /\ (None(r, "select") => OnlyOne(r, "select"))
  BY QuietIsFirst, NoneIsOnlyOne
<1>2. Link("sleep", h, r, <<>>, ntf, pc, peer)
  BY <1>1 DEF Link, None, Quiet, EventKinds
<1> DEFINE q == <<e>> \o r
<1>3. In(q) = {e} \cup In(r) /\ First(q) /\ (OnlyOne(r, "select") => OnlyOne(q, "select"))
  BY InOfPrepended, FirstPrepended, OnlyOnePrepended
<1> HIDE DEF q
<1>4. Link("sleep", h, q, <<>>, ntf, pc, peer)
  BY <1>1, <1>3 DEF Link, None, Quiet, EventKinds
<1> QED
  BY <1>2, <1>4 DEF q

\* A target is active, and its activation has been reported.
LEMMA LinkIsUp ==
    ASSUME NEW r, NEW h, NEW told, NEW ntf, NEW pc, NEW peer, Quiet(r), None(r, "sleep"), h # 0,
           told # <<>> => /\ ntf = 0 /\ pc # "begin"
                          /\ told[Len(told)].h = h \/ Len(told) >= MaxTech,
           peer = 0 => pc = "idle" /\ None(r, "select")
    PROVE  Link("active", h, r, told, ntf, pc, peer)
<1>1. First(r) /\ OnlyOne(r, "sleep")
  BY QuietIsFirst, NoneIsOnlyOne
<1> QED
  BY <1>1 DEF Link, None, Quiet, EventKinds

\* A target has become active: its activation is reported next, or after the answer to its selection.
LEMMA LinkComesUp ==
    ASSUME NEW S, NEW r \in Seq(S), NEW e \in S, NEW ok \in S, NEW h, NEW ntf, NEW pc, NEW peer,
           Quiet(r), None(r, "sleep"), h # 0, pc # "begin", peer = 0 => pc = "idle" /\ None(r, "select"),
           e.c = "ACTIVATED", e.h = h, ok.c = "SELECT_OK"
    PROVE  /\ Link("active", h, <<e>> \o r, <<>>, ntf, pc, peer)
           /\ Link("active", h, <<ok>> \o (<<e>> \o r), <<>>, ntf, pc, peer)
<1> DEFINE q == <<e>> \o r
           o == <<ok>> \o q
<1>1. In(q) = {e} \cup In(r) /\ First(q) /\ q \in Seq(S) /\ q # <<>> /\ q[1] = e
  BY InOfPrepended, FirstPrepended
<1>2. OnlyOne(q, "sleep")
  BY NoneIsOnlyOne, OnlyOnePrepended
<1>3. Len(q) = Len(r) + 1 /\ Len(r) \in Nat /\ \A i \in 1..Len(r) : q[i + 1] = r[i]
  OBVIOUS
<1>4. \A i \in 1..Len(q) : i # 1 => q[i].c \notin EventKinds
  <2> SUFFICES ASSUME NEW i \in 1..Len(q), i # 1
               PROVE  q[i].c \notin EventKinds
    OBVIOUS
  <2>1. i - 1 \in 1..Len(r) /\ q[i] = r[i - 1]
    BY <1>3
  <2> QED
    BY <2>1 DEF Quiet, In
<1> HIDE DEF q
<1>5. Link("active", h, q, <<>>, ntf, pc, peer)
  BY <1>1, <1>2 DEF Link, None, Quiet, EventKinds
<1>6. In(o) = {ok} \cup In(q) /\ OnlyOne(o, "sleep")
  BY <1>1, <1>2, InOfPrepended, OnlyOnePrepended
<1>7. First(o)
  <2>1. /\ Len(q) \in Nat /\ Len(q) >= 1 /\ Len(o) = Len(q) + 1 /\ o[1] = ok /\ o[2] = e
        /\ \A i \in 1..Len(q) : o[i + 1] = q[i]
    BY <1>1, <1>3
  <2> HIDE DEF o
  <2>2. ASSUME NEW i \in 1..Len(o), i # 1, i # 2
        PROVE  o[i].c \notin EventKinds
    <3>1. i - 1 \in 1..Len(q) /\ i - 1 # 1 /\ o[i] = q[i - 1]
      BY <2>1, <2>2
    <3> QED
      BY <1>4, <3>1
  <2> QED
    BY <2>1, <2>2 DEF First, EventKinds
<1> HIDE DEF o
<1>8. Link("active", h, o, <<>>, ntf, pc, peer)
  BY <1>1, <1>6, <1>7 DEF Link, None, Quiet, EventKinds
<1> QED
  BY <1>5, <1>8 DEF o, q

\* While the results of discovery are reported the service knows no tag.
LEMMA LinkOfResults ==
    ASSUME NEW S, NEW q \in Seq(S), NEW h, NEW told, NEW ntf, NEW n, NEW pc, NEW peer,
           Link("results", h, q, told, ntf, pc, peer)
    PROVE  /\ told = <<>> /\ (peer = 0 => None(q, "select"))
           /\ Link("results", h, q, told, n, pc, peer) /\ Link("select", h, q, told, n, pc, peer)
<1>1. q # <<>> => q[1] \in In(q)
  BY InOfHeadAndTail
<1>2. told = <<>>
  BY <1>1 DEF Link
<1>3. None(q, "select") => OnlyOne(q, "select")
  BY NoneIsOnlyOne
<1> QED
  BY <1>2, <1>3 DEF Link

\* pollT3TThread goes on.
LEMMA LinkOfThread ==
    ASSUME NEW q, NEW rf, NEW h, NEW told, NEW ntf, NEW pc, NEW u, NEW peer,
           Link(rf, h, q, told, ntf, pc, peer), u # "begin", peer = 0 => u = "idle"
    PROVE  Link(rf, h, q, told, ntf, u, peer)
BY DEF Link

-----------------------------------------------------------------------------
(* The steps of the threads and of NFA.                                    *)

LinkHolds == Link(nfa.rf, nfa.on.h, nfa.q, tag.told, tag.ntf, t3t.pc, t3t.h)

LEMMA OrdersArePlain ==
    /\ \A c \in Orders : c \in Items /\ Plain(c)
    /\ Cmd("idle") \in Items /\ Plain(Cmd("idle"))
    /\ \A c \in {"STOPPED", "STARTED", "POLL", "DEACTIVATE_FAIL", "SELECT_FAIL"} : Ev(c) \in Items /\ Plain(Ev(c))
BY DEF Orders, Requests, Events, Items, Plain, EventKinds, Cmd, Ev

\* Who asks for an order, or to deactivate what is lost, leaves the rest alone.
LEMMA OrdersKeepTheLink ==
    ASSUME TypeOK, LinkHolds, NEW c \in Items, Plain(c), AskNfa(c), UNCHANGED <<tag, t3t>>
    PROVE  LinkHolds'
<1>1. nfa \in Controllers /\ nfa.q \in Seq(Items)
  BY DEF TypeOK, Controllers, Items
<1>2. nfa' = [nfa EXCEPT !.q = Append(nfa.q, c)]
  BY DEF AskNfa, Queue
<1>3. nfa'.rf = nfa.rf /\ nfa'.on = nfa.on /\ nfa'.q = Append(nfa.q, c)
  BY <1>1, <1>2 DEF Controllers
<1>4. Link(nfa.rf, nfa.on.h, Append(nfa.q, c), tag.told, tag.ntf, t3t.pc, t3t.h)
  BY <1>1, LinkAppends DEF LinkHolds
<1> QED
  BY <1>3, <1>4 DEF LinkHolds

LEMMA OthersKeepTheLink ==
    ASSUME LinkHolds, UNCHANGED <<nfa, tag, t3t>>
    PROVE  LinkHolds'
BY DEF LinkHolds

LEMMA ThreadsKeepTheLink ==
    ASSUME TypeOK, LinkHolds, PrioSteps \/ SvcSteps \/ DisableDiscovery \/ \E m \in Modes : EnableDiscovery(m)
    PROVE  LinkHolds'
<1>1. \A c \in {"stop", "start", "disable"} : Cmd(c) \in Orders
  BY DEF Cmd, Orders
<1>2. Enable(IF nm.detected THEN "F" ELSE "all") \in Orders
  BY DEF Enable, Orders
<1>3. svc.mode.tech # "none" => Enable(svc.mode.tech) \in Orders
  <2>1. svc.mode \in Modes
    BY DEF TypeOK
  <2>2. svc.mode.tech \in {"all", "F", "none"}
    BY <2>1, TagDiscoveryAssumption
  <2> QED
    BY <2>2 DEF Enable, Orders
<1>4. UNCHANGED <<tag, t3t>> /\ (UNCHANGED nfa \/ \E c \in Orders : AskNfa(c))
  <2>1. CASE PrioSteps
    BY <1>1, <1>2, <2>1 DEF PrioSteps, PrioBegins, PrioStopped, PrioDisabled, PrioEnabled, PrioStarted
  <2>2. CASE SvcSteps
    BY <1>1, <1>3, <2>2 DEF SvcSteps, SvcStopped, SvcDisabled, SvcListensOnly, SvcEnabled, SvcStarted, SvcOff, SvcOffEnd
  <2>3. CASE DisableDiscovery \/ \E m \in Modes : EnableDiscovery(m)
    BY <1>1, <2>3 DEF DisableDiscovery, EnableDiscovery
  <2> QED
    BY <2>1, <2>2, <2>3
<1>5. CASE UNCHANGED nfa
  BY <1>4, <1>5, OthersKeepTheLink
<1>6. CASE \E c \in Orders : AskNfa(c)
  BY <1>4, <1>6, OrdersArePlain, OrdersKeepTheLink
<1> QED
  BY <1>4, <1>5, <1>6

LEMMA T3tKeepsTheLink ==
    ASSUME TypeOK, LinkHolds, T3tSteps
    PROVE  LinkHolds'
<1>1. nfa \in Controllers /\ nfa.q \in Seq(Items) /\ t3t \in T3ts /\ UNCHANGED tag
  BY DEF TypeOK, Controllers, Items, T3tSteps, T3tBegins, T3tSelects, T3tTimesOut
<1>2. \A c : AskNfa(c) => nfa'.rf = nfa.rf /\ nfa'.on = nfa.on /\ nfa'.q = Append(nfa.q, c)
  BY <1>1 DEF AskNfa, Queue, Controllers
<1>3. t3t.h = 0 => t3t.pc = "idle"
  BY DEF LinkHolds, Link
<1>4. CASE T3tBegins /\ nm.reader /\ nm.tech = "F"
  <2>1. AskNfa(Cmd("sleep")) /\ t3t.pc = "begin" /\ t3t'.pc = "sleepW" /\ t3t'.h = t3t.h
    BY <1>1, <1>4 DEF T3tBegins, T3ts
  <2>2. Cmd("sleep") \in Items /\ Cmd("sleep").c = "sleep"
    BY DEF Cmd, Items, Requests
  <2>3. /\ nfa.rf \notin {"results", "select", "sleep"} /\ None(nfa.q, "ACTIVATED")
        /\ nfa.rf = "active" => None(nfa.q, "sleep") /\ tag.told = <<>>
    BY <2>1 DEF LinkHolds, Link
  <2>4. Link(nfa.rf, nfa.on.h, nfa.q, tag.told, tag.ntf, "sleepW", t3t.h)
    BY <1>3, <2>1, LinkOfThread DEF LinkHolds
  <2>5. Link(nfa.rf, nfa.on.h, Append(nfa.q, Cmd("sleep")), tag.told, tag.ntf, "sleepW", t3t.h)
    BY <1>1, <2>2, <2>3, <2>4, LinkAppendsSleep
  <2> QED
    BY <1>1, <1>2, <2>1, <2>5 DEF LinkHolds
<1>5. CASE T3tBegins /\ ~(nm.reader /\ nm.tech = "F")
  <2>1. UNCHANGED nfa /\ t3t'.pc = "idle" /\ t3t'.h = t3t.h
    BY <1>1, <1>5 DEF T3tBegins, T3ts
  <2>2. Link(nfa.rf, nfa.on.h, nfa.q, tag.told, tag.ntf, "idle", t3t.h)
    BY LinkOfThread DEF LinkHolds
  <2> QED
    BY <1>1, <2>1, <2>2 DEF LinkHolds
<1>6. CASE T3tSelects
  <2> DEFINE c == SelectOf([h |-> t3t.h, p |-> "T3T"])
  <2>1. AskNfa(c) /\ t3t.pc = "select" /\ t3t'.pc = "selectW" /\ t3t'.h = t3t.h
    BY <1>1, <1>6 DEF T3tSelects, T3ts
  <2>2. c \in Items /\ c.c = "select"
    BY <1>1 DEF SelectOf, Items, Requests, T3ts, Protocols
  <2> HIDE DEF c
  <2>3. t3t.h # 0
    BY <1>3, <2>1
  <2>4. Link(nfa.rf, nfa.on.h, nfa.q, tag.told, tag.ntf, "selectW", t3t.h)
    BY <2>3, LinkOfThread DEF LinkHolds
  <2>5. Link(nfa.rf, nfa.on.h, Append(nfa.q, c), tag.told, tag.ntf, "selectW", t3t.h)
    BY <1>1, <2>2, <2>3, <2>4, LinkAppendsSelect
  <2> QED
    BY <1>1, <1>2, <2>1, <2>5 DEF LinkHolds
<1>7. CASE T3tTimesOut
  <2>1. UNCHANGED nfa /\ t3t'.pc \in {"select", "idle"} /\ t3t'.h = t3t.h /\ t3t.pc # "idle"
    BY <1>1, <1>7 DEF T3tTimesOut, T3ts
  <2>2. Link(nfa.rf, nfa.on.h, nfa.q, tag.told, tag.ntf, t3t'.pc, t3t.h)
    BY <1>3, <2>1, LinkOfThread DEF LinkHolds
  <2> QED
    BY <1>1, <2>1, <2>2 DEF LinkHolds
<1> QED
  BY <1>4, <1>5, <1>6, <1>7 DEF T3tSteps

\* What a step of NFA meets: the request at the head, behind which nothing is reported.
LEMMA TheRequest ==
    ASSUME TypeOK, LinkHolds, Working, Job \in Commands
    PROVE  /\ nfa \in Controllers /\ nfa.q \in Seq(Items) /\ nfa.q # <<>> /\ Head(nfa.q) = nfa.q[1]
           /\ Rest = Tail(nfa.q) /\ Rest \in Seq(Items) /\ Head(nfa.q) \in In(nfa.q)
           /\ Job = Head(nfa.q).c /\ Job \notin EventKinds /\ Quiet(Rest)
           /\ tag.told # <<>> => tag.ntf = 0 /\ nfa.rf = "active"
           /\ t3t.h = 0 => t3t.pc = "idle"
           /\ \A c : None(nfa.q, c) => None(Rest, c)
<1>1. /\ nfa \in Controllers /\ nfa.q \in Seq(Items) /\ nfa.q # <<>> /\ Head(nfa.q) = nfa.q[1]
      /\ Rest = Tail(nfa.q) /\ Rest \in Seq(Items) /\ In(nfa.q) = {Head(nfa.q)} \cup In(Rest)
  BY QueueIsOfItems, InOfHeadAndTail DEF Rest
<1>2. Job = Head(nfa.q).c /\ Job \notin EventKinds
  BY DEF Job, Commands, EventKinds
<1>3. Head(nfa.q).c # "SELECT_OK" /\ Head(nfa.q).c # "DEACTIVATED" /\ First(nfa.q)
  BY <1>2 DEF EventKinds, LinkHolds, Link
<1>4. Quiet(Rest)
  BY <1>1, <1>3, QuietAfterTheFirst
<1>5. tag.told # <<>> => tag.ntf = 0 /\ nfa.rf = "active"
  BY <1>1, <1>3 DEF LinkHolds, Link
<1>6. t3t.h = 0 => t3t.pc = "idle"
  BY DEF LinkHolds, Link
<1> QED
  BY <1>1, <1>2, <1>4, <1>5, <1>6 DEF None

\* A request is answered and nothing else changes of the link.
LEMMA AnswersKeepTheLink ==
    ASSUME TypeOK, LinkHolds, Working, Job \in Commands, External, NEW e \in Items, Plain(e),
           nfa'.rf = nfa.rf, nfa'.on = nfa.on, nfa'.q = <<e>> \o Rest
    PROVE  LinkHolds'
<1>1. Link(nfa.rf, nfa.on.h, <<e>> \o Tail(nfa.q), tag.told, tag.ntf, t3t.pc, t3t.h)
  BY TheRequest, LinkAnswers DEF LinkHolds
<1> QED
  BY <1>1, TheRequest DEF LinkHolds, External

\* The link goes down: of an active target this is reported, of a sleeping one it may be.
LEMMA LeavesKeepTheLink ==
    ASSUME TypeOK, LinkHolds, Working, Job \in Commands, External, NEW d \in Left, NEW rf \in {"idle", "poll"},
           NEW r \in Seq(Items), Quiet(r), nfa'.rf = rf, nfa'.q = d \o r
    PROVE  LinkHolds'
<1>1. d \in {<<>>, <<Down("idle")>>} /\ (nfa.rf = "active" => d = <<Down("idle")>>)
  BY DEF Left
<1>2. Down("idle") \in Items /\ Down("idle").c = "DEACTIVATED" /\ Down("idle").type # "sleep"
  BY EventsAreTyped DEF Items, Down
<1>3. /\ tag.told # <<>> => tag.ntf = 0 /\ nfa.rf = "active"
      /\ t3t.h = 0 => t3t.pc = "idle"
  BY TheRequest
<1>4. CASE d = <<>>
  <2>1. tag.told = <<>> /\ nfa'.q = r
    BY <1>1, <1>3, <1>4
  <2>2. Link(rf, nfa'.on.h, r, tag.told, tag.ntf, t3t.pc, t3t.h)
    BY <1>2, <1>3, <2>1, LinkIsDown
  <2> QED
    BY <2>1, <2>2 DEF LinkHolds, External
<1>5. CASE d = <<Down("idle")>>
  <2>1. Link(rf, nfa'.on.h, <<Down("idle")>> \o r, tag.told, tag.ntf, t3t.pc, t3t.h)
    BY <1>2, <1>3, LinkIsDown
  <2> QED
    BY <1>5, <2>1 DEF LinkHolds, External
<1> QED
  BY <1>1, <1>4, <1>5

LEMMA ToMeans ==
    ASSUME TypeOK, NEW rf, NEW events, To(rf, events)
    PROVE  nfa'.rf = rf /\ nfa'.q = events \o Rest /\ nfa'.on = IF rf = "active" THEN nfa.on ELSE Zero
<1>1. nfa \in Controllers
  BY DEF TypeOK
<1> QED
  BY <1>1 DEF To, Controllers

LEMMA StopsKeepTheLink ==
    ASSUME TypeOK, LinkHolds, NfaStops
    PROVE  LinkHolds'
<1>1. Working /\ Job \in Commands /\ External
  BY DEF NfaStops, Commands
<1>2. PICK d \in Left : To("idle", Append(d, Ev("STOPPED")))
  BY DEF NfaStops
<1> DEFINE r == <<Ev("STOPPED")>> \o Rest
<1>3. Rest \in Seq(Items) /\ Quiet(Rest) /\ Ev("STOPPED") \in Items /\ Plain(Ev("STOPPED"))
  BY <1>1, TheRequest, OrdersArePlain
<1>4. r \in Seq(Items) /\ Quiet(r)
  BY <1>3, InOfPrepended DEF Quiet, Plain
<1>5. Append(d, Ev("STOPPED")) \o Rest = d \o r
  <2>1. d \in Seq(Items)
    BY LeftIsReported
  <2> QED
    BY <1>3, <2>1
<1>6. nfa'.rf = "idle" /\ nfa'.q = d \o r
  BY <1>2, <1>5, ToMeans
<1> HIDE DEF r
<1> QED
  BY <1>1, <1>4, <1>6, LeavesKeepTheLink

LEMMA StartsKeepTheLink ==
    ASSUME TypeOK, LinkHolds, NfaStarts
    PROVE  LinkHolds'
<1>1. Working /\ Job \in Commands /\ External /\ Ev("STARTED") \in Items /\ Plain(Ev("STARTED"))
  BY OrdersArePlain DEF NfaStarts, Commands
<1>2. /\ nfa \in Controllers /\ Rest \in Seq(Items) /\ Quiet(Rest)
      /\ tag.told # <<>> => tag.ntf = 0 /\ nfa.rf = "active"
      /\ t3t.h = 0 => t3t.pc = "idle"
  BY <1>1, TheRequest
<1>3. CASE nfa.rf = "idle"
  <2> DEFINE r == <<Ev("STARTED")>> \o Rest
  <2>1. nfa'.rf = "poll" /\ nfa'.q = r
    BY <1>3, ToMeans DEF NfaStarts
  <2>2. r \in Seq(Items) /\ Quiet(r)
    BY <1>1, <1>2, InOfPrepended DEF Quiet, Plain
  <2> HIDE DEF r
  <2>3. tag.told = <<>>
    BY <1>2, <1>3
  <2>4. Link("poll", nfa'.on.h, r, tag.told, tag.ntf, t3t.pc, t3t.h)
    BY <1>1, <1>2, <2>2, <2>3, LinkIsDown
  <2> QED
    BY <1>1, <2>1, <2>4 DEF LinkHolds, External
<1>4. CASE nfa.rf # "idle"
  <2>1. nfa' = [nfa EXCEPT !.q = <<Ev("STARTED")>> \o Rest]
    BY <1>4 DEF NfaStarts
  <2>2. nfa'.rf = nfa.rf /\ nfa'.on = nfa.on /\ nfa'.q = <<Ev("STARTED")>> \o Rest
    BY <1>2, <2>1 DEF Controllers
  <2> QED
    BY <1>1, <2>2, AnswersKeepTheLink
<1> QED
  BY <1>3, <1>4

LEMMA PollingKeepsTheLink ==
    ASSUME TypeOK, LinkHolds, NfaPolling
    PROVE  LinkHolds'
<1>1. Working /\ Job \in Commands /\ External /\ Ev("POLL") \in Items /\ Plain(Ev("POLL"))
  BY OrdersArePlain DEF NfaPolling, Commands
<1>2. nfa'.rf = nfa.rf /\ nfa'.on = nfa.on /\ nfa'.q = <<Ev("POLL")>> \o Rest
  BY DEF NfaPolling, TypeOK, Controllers
<1> QED
  BY <1>1, <1>2, AnswersKeepTheLink

LEMMA SelectKeepsTheLink ==
    ASSUME TypeOK, LinkHolds, NfaSelects
    PROVE  LinkHolds'
<1> DEFINE e == [h |-> Head(nfa.q).h, p |-> Head(nfa.q).p]
           up == Up(e, KindAs(e))
<1>1. Working /\ Job = "select" /\ Job \in Commands /\ External
  BY DEF NfaSelects, Commands
<1>2. /\ nfa \in Controllers /\ Rest = Tail(nfa.q) /\ Rest \in Seq(Items) /\ Quiet(Rest) /\ Head(nfa.q) \in Items
      /\ nfa.q \in Seq(Items) /\ nfa.q # <<>> /\ Head(nfa.q).c = "select"
      /\ tag.told # <<>> => nfa.rf = "active"
      /\ t3t.h = 0 => t3t.pc = "idle"
      /\ \A c : None(nfa.q, c) => None(Rest, c)
  BY <1>1, TheRequest, QueueIsOfItems
<1>3. CASE nfa.rf \in {"select", "sleep"} /\ Answers(e)
  <2>1. nfa' = [nfa EXCEPT !.rf = "active", !.on = e, !.q = <<Ev("SELECT_OK"), up>> \o Rest]
    BY <1>3 DEF NfaSelects
  <2>2. e \in Entries /\ e.h # 0 /\ KindAs(e) \in Kinds
    <3>1. e \in Entries
      BY <1>1, <1>2 DEF Job, Items, Requests, Orders, Events, Entries
    <3>2. e.h \in 1..Len(field) /\ field \in Seq(Kinds)
      BY <1>3, TagDiscoveryAssumption DEF Answers, TypeOK
    <3>3. e.h # 0 /\ field[e.h] \in Kinds
      BY <3>2
    <3> QED
      BY <3>1, <3>3 DEF KindAs, Kinds
  <2>3. up \in Items /\ up.c = "ACTIVATED" /\ up.h = e.h /\ Ev("SELECT_OK") \in Items /\ Ev("SELECT_OK").c = "SELECT_OK"
    <3>1. up \in Events /\ Ev("SELECT_OK") \in Events
      BY <2>2, EventsAreTyped
    <3> QED
      BY <3>1 DEF Items, Up, Ev
  <2> HIDE DEF up, e
  <2>4. nfa'.rf = "active" /\ nfa'.on.h = e.h /\ nfa'.q = <<Ev("SELECT_OK")>> \o (<<up>> \o Rest)
    <3>1. <<Ev("SELECT_OK"), up>> \o Rest = <<Ev("SELECT_OK")>> \o (<<up>> \o Rest)
      BY <1>2, <2>3
    <3>2. nfa'.rf = "active" /\ nfa'.on = e /\ nfa'.q = <<Ev("SELECT_OK"), up>> \o Rest
      BY <1>2, <2>1 DEF Controllers
    <3> QED
      BY <3>1, <3>2
  <2>5. /\ tag.told = <<>> /\ t3t.pc # "begin" /\ None(Rest, "sleep")
        /\ t3t.h = 0 => t3t.pc = "idle" /\ OnlyOne(nfa.q, "select")
    BY <1>2, <1>3 DEF LinkHolds, Link
  <2>6. t3t.h = 0 => None(Rest, "select")
    BY <1>2, <2>5, OnlyOneInTail
  <2>7. Link("active", e.h, <<Ev("SELECT_OK")>> \o (<<up>> \o Rest), <<>>, tag.ntf, t3t.pc, t3t.h)
    BY <1>2, <2>2, <2>3, <2>5, <2>6, LinkComesUp
  <2> QED
    BY <1>1, <2>4, <2>5, <2>7 DEF LinkHolds, External
<1>4. CASE ~(nfa.rf \in {"select", "sleep"} /\ Answers(e))
  <2>1. nfa' = [nfa EXCEPT !.q = <<Ev("SELECT_FAIL")>> \o Rest]
    BY <1>4 DEF NfaSelects
  <2>2. nfa'.rf = nfa.rf /\ nfa'.on = nfa.on /\ nfa'.q = <<Ev("SELECT_FAIL")>> \o Rest
    BY <1>2, <2>1 DEF Controllers
  <2> QED
    BY <1>1, <2>2, OrdersArePlain, AnswersKeepTheLink
<1> QED
  BY <1>3, <1>4

LEMMA DeactivateKeepsTheLink ==
    ASSUME TypeOK, LinkHolds, NfaDeactivates
    PROVE  LinkHolds'
<1>1. Working /\ Job \in Commands /\ Job \in {"sleep", "idle"} /\ External
  BY DEF NfaDeactivates, Commands
<1>2. /\ nfa \in Controllers /\ Rest = Tail(nfa.q) /\ Rest \in Seq(Items) /\ Quiet(Rest)
      /\ nfa.q \in Seq(Items) /\ nfa.q # <<>> /\ Head(nfa.q) \in In(nfa.q) /\ Job = Head(nfa.q).c
      /\ tag.told # <<>> => tag.ntf = 0 /\ nfa.rf = "active"
      /\ t3t.h = 0 => t3t.pc = "idle"
      /\ \A c : None(nfa.q, c) => None(Rest, c)
  BY <1>1, TheRequest
<1>3. CASE nfa' = [nfa EXCEPT !.q = <<Ev("DEACTIVATE_FAIL")>> \o Rest]
  <2>1. nfa'.rf = nfa.rf /\ nfa'.on = nfa.on /\ nfa'.q = <<Ev("DEACTIVATE_FAIL")>> \o Rest
    BY <1>2, <1>3 DEF Controllers
  <2> QED
    BY <1>1, <2>1, OrdersArePlain, AnswersKeepTheLink
<1>4. CASE nfa.rf = "active" /\ Job = "sleep"
  <2>1. \A type \in {"sleep", "discovery"} : Down(type) \in Items /\ Down(type).c = "DEACTIVATED" /\ Down(type).type = type
    BY EventsAreTyped DEF Items, Down
  <2>2. ~None(nfa.q, "sleep") /\ OnlyOne(nfa.q, "sleep")
    BY <1>2, <1>4 DEF None, LinkHolds, Link
  <2>3. None(Rest, "sleep")
    BY <1>2, <1>4, <2>2, OnlyOneInTail
  <2>4. tag.told = <<>> /\ t3t.pc # "begin" /\ (t3t.h = 0 => None(Rest, "select"))
    BY <1>2, <1>4, <2>2 DEF LinkHolds, Link
  <2>5. CASE To("sleep", <<Down("sleep")>>)
    <3>1. nfa'.rf = "sleep" /\ nfa'.q = <<Down("sleep")>> \o Rest
      BY <2>5, ToMeans
    <3>2. Link("sleep", nfa'.on.h, <<Down("sleep")>> \o Rest, <<>>, tag.ntf, t3t.pc, t3t.h)
      BY <1>2, <2>1, <2>3, <2>4, LinkIsAsleep
    <3> QED
      BY <1>1, <2>4, <3>1, <3>2 DEF LinkHolds, External
  <2>6. CASE To("poll", <<Down("discovery")>>)
    <3>1. nfa'.rf = "poll" /\ nfa'.q = <<Down("discovery")>> \o Rest
      BY <2>6, ToMeans
    <3>2. Link("poll", nfa'.on.h, <<Down("discovery")>> \o Rest, tag.told, tag.ntf, t3t.pc, t3t.h)
      BY <1>2, <2>1, <2>4, LinkIsDown
    <3> QED
      BY <1>1, <3>1, <3>2 DEF LinkHolds, External
  <2> QED
    BY <1>4, <2>5, <2>6 DEF NfaDeactivates
<1>5. CASE nfa.rf # "idle" /\ Job = "idle"
  <2>1. PICK d \in Left : To("poll", d)
    BY <1>5 DEF NfaDeactivates
  <2>2. nfa'.rf = "poll" /\ nfa'.q = d \o Rest
    BY <2>1, ToMeans
  <2> QED
    BY <1>1, <1>2, <2>2, LeavesKeepTheLink
<1>6. CASE nfa.rf = "idle"
  <2>1. nfa' = [nfa EXCEPT !.q = <<Ev("DEACTIVATE_FAIL")>> \o Rest]
    BY <1>6 DEF NfaDeactivates
  <2> QED
    BY <1>3, <2>1
<1>7. CASE nfa.rf # "idle" /\ nfa.rf # "active" /\ Job = "sleep"
  <2>1. nfa' = [nfa EXCEPT !.q = <<Ev("DEACTIVATE_FAIL")>> \o Rest]
    BY <1>7 DEF NfaDeactivates
  <2> QED
    BY <1>3, <2>1
<1> QED
  BY <1>1, <1>4, <1>5, <1>6, <1>7

LEMMA TargetsKeepTheLink ==
    ASSUME TypeOK, LinkHolds, TargetsAnswer, Prompt \/ t3t.h = 0
    PROVE  LinkHolds'
<1>1. /\ External /\ nfa \in Controllers /\ nfa.q = <<>> /\ nfa.rf = "poll"
      /\ t3t.pc # "begin"
  BY DEF TargetsAnswer, TypeOK, Working, Resting, LinkHolds, Link
<1>2. tag.told = <<>> /\ (t3t.h = 0 => t3t.pc = "idle")
  BY <1>1 DEF LinkHolds, Link
<1>3. Quiet(<<>>) /\ (\A c : None(<<>>, c)) /\ <<>> \in Seq(Items)
  BY InOfNothing DEF Quiet, None
<1>4. CASE \E r \in Found : LET e == [h |-> r.h, p |-> Protocol(r.k)] IN
               Found = {r} /\ nfa' = [nfa EXCEPT !.rf = "active", !.on = e, !.q = <<Up(e, r.k)>>]
  <2>1. PICK r \in Found : nfa' = [nfa EXCEPT !.rf = "active", !.on = [h |-> r.h, p |-> Protocol(r.k)],
                                           !.q = <<Up([h |-> r.h, p |-> Protocol(r.k)], r.k)>>]
    BY <1>4
  <2> DEFINE e == [h |-> r.h, p |-> Protocol(r.k)]
             up == Up(e, r.k)
  <2>2. r.h \in Handles /\ r.h # 0 /\ r.k \in Kinds
    <3>1. field \in Seq(Kinds)
      BY TagDiscoveryAssumption DEF TypeOK
    <3>2. \A i \in 1..Len(field) : field[i] \in Kinds /\ i \in Handles /\ i # 0
      BY <3>1 DEF Handles
    <3> QED
      BY <3>2 DEF Found
  <2>3. e \in Entries /\ e.h = r.h
    BY <2>2, ProtocolsOfKinds DEF Entries
  <2>4. up \in Items /\ up.c = "ACTIVATED" /\ up.h = r.h
    <3>1. up \in Events
      BY <2>2, <2>3, EventsAreTyped
    <3> QED
      BY <2>3, <3>1 DEF Items, Up
  <2>5. nfa'.rf = "active" /\ nfa'.on.h = r.h /\ nfa'.q = <<up>>
    BY <1>1, <2>1 DEF Controllers
  <2> HIDE DEF up, e
  <2>6. <<up>> \o <<>> = <<up>>
    BY <2>4
  <2>7. Ev("SELECT_OK") \in Items /\ Ev("SELECT_OK").c = "SELECT_OK"
    BY EventsAreTyped DEF Items, Ev
  <2>8. Link("active", r.h, <<up>> \o <<>>, <<>>, tag.ntf, t3t.pc, t3t.h)
    BY <1>1, <1>2, <1>3, <2>2, <2>4, <2>7, LinkComesUp
  <2> QED
    BY <1>1, <1>2, <2>5, <2>6, <2>8 DEF LinkHolds, External
<1>5. CASE nfa' = [nfa EXCEPT !.rf = "results", !.todo = Found]
  <2>1. nfa'.rf = "results" /\ nfa'.on = nfa.on /\ nfa'.q = <<>>
    BY <1>1, <1>5 DEF Controllers
  <2>2. First(<<>>) /\ In(<<>>) = {}
    BY <1>3, QuietIsFirst, InOfNothing
  <2>3. Link("results", nfa.on.h, <<>>, <<>>, tag.ntf, t3t.pc, t3t.h)
    BY <1>1, <1>2, <2>2 DEF Link, None
  <2> QED
    BY <1>1, <1>2, <2>1, <2>3 DEF LinkHolds, External
<1> QED
  BY <1>4, <1>5 DEF TargetsAnswer

LEMMA NfaKeepsTheLink ==
    ASSUME TypeOK, LinkHolds, NfaSteps, Prompt \/ t3t.h = 0
    PROVE  LinkHolds'
<1>1. CASE TargetLost
  <2>1. AskNfa(Cmd("idle")) /\ UNCHANGED <<tag, t3t>>
    BY <1>1 DEF TargetLost, External
  <2> QED
    BY <2>1, OrdersArePlain, OrdersKeepTheLink
<1> QED
  BY <1>1, StopsKeepTheLink, StartsKeepTheLink, PollingKeepsTheLink, SelectKeepsTheLink, DeactivateKeepsTheLink,
     TargetsKeepTheLink DEF NfaSteps

-----------------------------------------------------------------------------
(* What the handlers leave of the saved array and what they ask for.       *)

\* What was told and what was saved, and the entries to be filled from it, or none.
Leaves(t, u) == u.told = t.told /\ u.live = t.live /\ u.stale = t.stale /\ u.idx \in {t.idx, 0}
Selecting(u) == u.out = <<>> \/ \E e \in Entries : u.out = <<SelectOf(e)>>
Saved(t) == ~t.stale /\ (t.idx # 0 /\ t.told = <<>> => t.live)

LEMMA LeavesSaved ==
    ASSUME NEW t, NEW u, Saved(t), Leaves(t, u)
    PROVE  Saved(u)
BY DEF Saved, Leaves

LEMMA AskingLeaves ==
    ASSUME NEW t \in Tags, t.out = <<>>, NEW c
    PROVE  Leaves(t, Ask(t, c)) /\ Ask(t, c).out = <<c>> /\ Ask(t, c).ntf = t.ntf
<1>1. Ask(t, c) = [t EXCEPT !.out = Append(t.out, c)]
  BY DEF Ask
<1>2. Append(t.out, c) = <<c>>
  OBVIOUS
<1> QED
  BY <1>1, <1>2 DEF Leaves, Tags

LEMMA SelectingLeaves ==
    ASSUME NEW t \in Tags, t.out = <<>>, NEW i \in 0..MaxTech
    PROVE  LET u == Ask([t EXCEPT !.sel = i], SelectOf(t.arr[i])) IN Leaves(t, u) /\ Selecting(u)
<1> DEFINE v == [t EXCEPT !.sel = i]
           u == Ask(v, SelectOf(t.arr[i]))
<1>1. v \in Tags /\ v.out = <<>> /\ Leaves(t, v) /\ t.arr[i] \in Entries
  BY DEF Tags, Leaves
<1> HIDE DEF v
<1>2. Leaves(v, u) /\ u.out = <<SelectOf(t.arr[i])>>
  BY <1>1, AskingLeaves
<1>3. Leaves(t, u)
  BY <1>1, <1>2 DEF Leaves
<1> QED
  BY <1>1, <1>2, <1>3 DEF Selecting, v

LEMMA PeerSelectionLeaves ==
    ASSUME NEW t \in OwnTags, t.out = <<>>, isP2pDiscovered(t)
    PROVE  Leaves(t, selectP2p(t)) /\ Selecting(selectP2p(t))
<1> DEFINE peers == {i \in 0..(t.num - 1) : t.arr[i].p \in Dep}
           peersF == {i \in peers : t.arr[i].p = "DEPF"}
           first == IF peersF # {} THEN Least(peersF) ELSE Least(peers)
<1>1. peers # {} /\ peers \in SUBSET (0..MaxTech) /\ peersF \subseteq peers /\ t \in Tags
  BY Entry DEF isP2pDiscovered, OwnTags
<1>2. first \in 0..MaxTech
  <2>1. MaxTech \in Nat
    BY TagDiscoveryAssumption
  <2> HIDE DEF peers, peersF
  <2> QED
    BY <1>1, <2>1, LeastIsOneOf
<1>3. t.arr[first] \in Entries
  BY <1>1, <1>2 DEF Tags
<1> DEFINE asked == IF t.arr[first].h > 0 THEN Ask(t, SelectOf(t.arr[first])) ELSE t
<1>4. selectP2p(t) = resetTechnologies(asked)
  BY DEF selectP2p
<1> HIDE DEF first
<1>5. asked \in Tags
  BY <1>3, SelectsEntries DEF OwnTags
<1>6. Leaves(t, asked) /\ Selecting(asked)
  <2>1. LET u == Ask(t, SelectOf(t.arr[first])) IN Leaves(t, u) /\ u.out = <<SelectOf(t.arr[first])>>
    BY <1>1, AskingLeaves
  <2>2. Leaves(t, t)
    BY DEF Leaves
  <2> QED
    BY <1>3, <2>1, <2>2 DEF Selecting
<1> HIDE DEF asked
<1>7. /\ resetTechnologies(asked).told = asked.told /\ resetTechnologies(asked).live = asked.live
      /\ resetTechnologies(asked).stale = asked.stale /\ resetTechnologies(asked).idx = 0
      /\ resetTechnologies(asked).out = asked.out
  BY <1>5 DEF resetTechnologies, Tags
<1> QED
  BY <1>4, <1>6, <1>7 DEF Leaves, Selecting

LEMMA FirstSelectionLeaves ==
    ASSUME NEW t \in OwnTags, t.out = <<>>
    PROVE  Leaves(t, selectFirstTag(t)) /\ Selecting(selectFirstTag(t))
<1> DEFINE T == {i \in 0..(t.num - 1) : t.arr[i].p \notin Dep}
<1>1. T \in SUBSET (0..MaxTech) /\ t \in Tags /\ MaxTech \in Nat
  BY Entry, TagDiscoveryAssumption DEF OwnTags
<1>2. selectFirstTag(t) = IF T = {} THEN t ELSE Ask([t EXCEPT !.sel = Least(T)], SelectOf(t.arr[Least(T)]))
  BY DEF selectFirstTag
<1> HIDE DEF T
<1>3. CASE T = {}
  BY <1>2, <1>3 DEF Leaves, Selecting
<1>4. CASE T # {}
  BY <1>1, <1>2, <1>4, LeastIsOneOf, SelectingLeaves
<1> QED
  BY <1>3, <1>4

LEMMA NextSelectionLeaves ==
    ASSUME NEW t \in OwnTags, t.out = <<>>
    PROVE  Leaves(t, selectNextTag(t)) /\ Selecting(selectNextTag(t))
<1>1. MaxTech \in Nat /\ t.disc \in 0..(MaxTech + 1) /\ t \in Tags
  BY TagDiscoveryAssumption DEF Tags, OwnTags
<1>2. Others(t) \in SUBSET (0..MaxTech)
  BY <1>1 DEF Others
<1>3. CASE Others(t) = {}
  BY <1>3 DEF selectNextTag, Leaves, Selecting
<1>4. CASE Others(t) # {}
  BY <1>1, <1>2, <1>4, LeastIsOneOf, SelectingLeaves DEF selectNextTag
<1> QED
  BY <1>3, <1>4

LEMMA EventLeaves ==
    ASSUME NEW x \in Natives, x.t.out = <<>>, NEW more \in 0..2, x.t.ntf # 0
    PROVE  LET y == handleRfDiscoveryEvent(x, more) IN
           /\ Leaves(x.t, y.t) /\ Selecting(y.t) /\ (more = 2 => y.t.out = <<>>) /\ y.t3t = x.t3t
<1> DEFINE y == handleRfDiscoveryEvent(x, more)
<1>1. x.t \in OwnTags /\ x.t \in Tags /\ Leaves(x.t, x.t)
  BY HandsOver, OwnStays DEF Leaves
<1>2. CASE more = 2 \/ (~x.m.reader /\ ~isP2pDiscovered(x.t) /\ x.m.flag)
  <2>1. y.t = x.t /\ y.t3t = x.t3t
    BY <1>2 DEF handleRfDiscoveryEvent, Natives
  <2> QED
    BY <1>1, <2>1 DEF Selecting
<1>3. CASE more # 2 /\ ~x.m.reader /\ isP2pDiscovered(x.t)
  <2>1. y.t = selectP2p(x.t) /\ y.t3t = x.t3t
    BY <1>3 DEF handleRfDiscoveryEvent, Natives
  <2> QED
    BY <1>1, <1>3, <2>1, PeerSelectionLeaves
<1>4. CASE more # 2 /\ ~(~x.m.reader /\ isP2pDiscovered(x.t)) /\ ~(~x.m.reader /\ x.m.flag)
  <2> DEFINE n == IF x.m.reader THEN 0 ELSE x.t.ntf - 1
             t == [x.t EXCEPT !.ntf = n]
  <2>1. y.t = selectFirstTag(t) /\ y.t3t = x.t3t
    BY <1>4 DEF handleRfDiscoveryEvent, Natives
  <2>2. x.t.ntf \in Nat
    BY <1>1 DEF Tags
  <2>3. n \in Nat
    BY <2>2
  <2> HIDE DEF n
  <2>4. t \in OwnTags /\ t.out = <<>> /\ Leaves(x.t, t)
    BY <1>1, <2>3, OwnStays DEF Leaves, Tags
  <2> HIDE DEF t
  <2>5. Leaves(t, selectFirstTag(t)) /\ Selecting(selectFirstTag(t))
    BY <2>4, FirstSelectionLeaves
  <2> QED
    BY <1>4, <2>1, <2>4, <2>5 DEF Leaves
<1> QED
  BY <1>2, <1>3, <1>4

LEMMA DiscResultLeaves ==
    ASSUME NEW x \in Natives, x.t.out = <<>>, NEW r \in Results, NEW more \in 0..2
    PROVE  LET y == OnDiscResult(x, r, more) IN
           /\ Leaves(x.t, y.t) /\ Selecting(y.t) /\ (more = 2 => y.t.out = <<>>) /\ y.t3t = x.t3t
<1>1. x.t \in OwnTags /\ x.t \in Tags
  BY HandsOver, OwnStays
<1>2. CASE more = 1 /\ x.t.prev # 2
  <2>1. OnDiscResult(x, r, more) = [x EXCEPT !.t = [x.t EXCEPT !.ntf = 0]]
    BY <1>2 DEF OnDiscResult, Natives
  <2>2. LET y == OnDiscResult(x, r, more) IN y.t = [x.t EXCEPT !.ntf = 0] /\ y.t3t = x.t3t
    BY <2>1 DEF Natives
  <2>3. Leaves(x.t, [x.t EXCEPT !.ntf = 0]) /\ [x.t EXCEPT !.ntf = 0].out = <<>>
    BY <1>1 DEF Leaves, Tags
  <2> QED
    BY <2>2, <2>3 DEF Selecting
<1>3. CASE ~(more = 1 /\ x.t.prev # 2)
  <2> DEFINE t == Discovered(x.t, r)
             u == Counted(t, more)
             y == [x EXCEPT !.t = u]
  <2>1. t \in OwnTags /\ t \in Tags
    BY <1>1, DiscoversBehind, OwnStays
  <2>2. Leaves(x.t, t) /\ t.out = <<>>
    BY <1>1 DEF Discovered, Leaves, Tags
  <2> HIDE DEF t
  <2>3. t.ntf + 1 \in Nat /\ t.ntf + 1 # 0
    BY <2>1 DEF Tags
  <2>4. u = [t EXCEPT !.prev = more, !.ntf = t.ntf + 1]
    BY DEF Counted
  <2>5. u \in OwnTags /\ u.ntf # 0 /\ u.out = <<>> /\ Leaves(t, u)
    <3>1. [t EXCEPT !.prev = more, !.ntf = t.ntf + 1] \in OwnTags
      BY <2>1, <2>3, OwnStays
    <3>2. /\ u.ntf = t.ntf + 1 /\ u.out = t.out /\ u.told = t.told /\ u.live = t.live
          /\ u.stale = t.stale /\ u.idx = t.idx
      BY <2>1, <2>4 DEF Tags
    <3> QED
      BY <2>2, <2>3, <2>4, <3>1, <3>2 DEF Leaves
  <2> HIDE DEF u
  <2>6. y \in Natives /\ y.t = u /\ y.t3t = x.t3t
    BY <2>5, HandsOver DEF Natives
  <2>7. OnDiscResult(x, r, more) = handleRfDiscoveryEvent(y, more)
    BY <1>3 DEF OnDiscResult, t, u
  <2> HIDE DEF y
  <2>8. LET z == handleRfDiscoveryEvent(y, more) IN
        /\ Leaves(y.t, z.t) /\ Selecting(z.t) /\ (more = 2 => z.t.out = <<>>) /\ z.t3t = y.t3t
    BY <2>5, <2>6, EventLeaves
  <2> QED
    BY <2>2, <2>5, <2>6, <2>7, <2>8 DEF Leaves
<1> QED
  BY <1>2, <1>3

\* An activated target's entry is the last of the list, unless that was full before.
LEMMA ActivatedIsLast ==
    ASSUME NEW t \in Tags, NEW e \in Entries, NEW k \in Kinds
    PROVE  LET u == Activated(t, e, k) IN
           /\ u.num >= MaxTech \/ (u.num >= 1 /\ u.arr[u.num - 1].h = e.h)
           /\ Leaves(t, u) /\ u.ntf = t.ntf /\ u.out = t.out
<1> DEFINE n == IF k \in {"UL", "TNP", "ISO", "MFC"} THEN Places(t.idx, 2) ELSE 1
           entry == IF k = "TNP" THEN [e EXCEPT !.p = "MIFARE"] ELSE e
           u == Activated(t, e, k)
<1>1. MaxTech \in Nat /\ t.idx \in 0..MaxTech
  BY TagDiscoveryAssumption DEF Tags
<1>2. n \in {1, 2} /\ entry.h = e.h
  BY DEF Places, Entries
<1>3. u = IF t.idx >= MaxTech THEN [t EXCEPT !.num = t.idx]
          ELSE [t EXCEPT !.num = t.idx + n, !.arr = Fill(t.arr, t.idx, n, entry)]
  BY DEF Activated, Tags
<1>4. t.idx < MaxTech => t.idx + n \in 0..MaxTech
  BY <1>1 DEF Places
<1> HIDE DEF n, entry, u
<1>5. Leaves(t, u) /\ u.ntf = t.ntf /\ u.out = t.out
  BY <1>3 DEF Leaves, Tags
<1>6. CASE t.idx >= MaxTech
  <2>1. u.num = t.idx
    BY <1>3, <1>6 DEF Tags
  <2> QED
    BY <1>5, <1>6, <2>1 DEF u
<1>7. CASE ~(t.idx >= MaxTech)
  <2>1. u.num = t.idx + n /\ u.arr = Fill(t.arr, t.idx, n, entry)
    BY <1>3, <1>7 DEF Tags
  <2>2. u.num >= 1 /\ u.num - 1 \in 0..MaxTech /\ u.num - 1 \in t.idx..(t.idx + n - 1)
    BY <1>1, <1>2, <1>4, <1>7, <2>1
  <2>3. u.num - 1 \in DOMAIN t.arr
    BY <2>2 DEF Tags
  <2>4. u.arr[u.num - 1] = entry
    BY <2>1, <2>2, <2>3 DEF Fill
  <2> QED
    BY <1>2, <1>5, <2>2, <2>4 DEF u
<1> QED
  BY <1>6, <1>7

\* The service is told of the list, or the saved array stays for the next of its tags.
LEMMA CreatedIsSaved ==
    ASSUME NEW t \in OwnTags, t.out = <<>>, t.told = <<>>, Saved(t), t.num \in 0..MaxTech, NEW h,
           t.num >= MaxTech \/ (t.num >= 1 /\ t.arr[t.num - 1].h = h)
    PROVE  LET v == createNativeNfcTag(t) IN
           /\ Saved(v) /\ v.out = <<>>
           /\ v.told # <<>> => v.ntf = 0 /\ (v.told[Len(v.told)].h = h \/ Len(v.told) >= MaxTech)
<1> DEFINE u == FillMembers(t)
           v == createNativeNfcTag(t)
<1>1. t \in Tags /\ MaxTech \in Nat /\ t.num \in Nat
  BY TagDiscoveryAssumption DEF OwnTags
<1>2. ~(t.idx # 0 /\ (~t.live \/ t.idx > Len(t.saved))) /\ ~t.stale
  <2>1. t.idx <= Len(t.saved) /\ t.idx \in Nat /\ Len(t.saved) \in Nat
    BY <1>1 DEF OwnTags, Tags
  <2> QED
    BY <2>1 DEF Saved
<1>3. /\ ~u.stale /\ u.live /\ u.told = <<>> /\ u.num = t.num /\ u.arr = t.arr /\ u.out = <<>> /\ u.saved = Bytes(t)
      /\ u.idx \in {0, t.num}
  BY <1>1, <1>2 DEF FillMembers, Tags
<1>4. u = v \/ v = Notify(u)
  BY DEF createNativeNfcTag, NotifyOrNext
<1>5. u = [t EXCEPT !.stale = u.stale, !.saved = u.saved, !.live = u.live, !.idx = u.idx]
  BY <1>1 DEF FillMembers, Tags
<1> HIDE DEF u, v
<1>6. CASE u = v
  BY <1>3, <1>6 DEF Saved, v
<1>7. CASE v = Notify(u)
  <2> DEFINE told == [i \in 1..u.num |-> [h |-> u.arr[i - 1].h, b |-> u.saved[i]]]
  <2>1. v.told = told /\ v.ntf = 0 /\ v.stale = u.stale /\ v.idx = u.idx /\ v.out = u.out
    <3> HIDE DEF told
    <3>1. Notify(u) = [u EXCEPT !.ntf = 0, !.live = FALSE, !.told = told]
      BY DEF Notify, told
    <3> QED
      BY <1>1, <1>5, <1>7, <3>1 DEF Tags
  <2>2. Len(told) = t.num
    BY <1>1, <1>3
  <2>3. t.num >= 1 => told[t.num].h = t.arr[t.num - 1].h
    BY <1>1, <1>3
  <2> HIDE DEF told
  <2>4. told = <<>> => t.num = 0
    BY <2>2
  <2>5. Saved(v)
    BY <1>3, <2>1, <2>4 DEF Saved
  <2> QED
    BY <1>3, <2>1, <2>2, <2>3, <2>5 DEF v
<1> QED
  BY <1>4, <1>6, <1>7

LEMMA RestoringLeaves ==
    ASSUME NEW x \in Natives, NEW p
    PROVE  Restored(x, p).t = x.t /\ Restored(x, p).t3t = x.t3t
BY DEF Restored, ClearMultiprotocol, Natives

LEMMA ActivationLeaves ==
    ASSUME NEW y \in Natives, y.t.out = <<>>, y.t.told = <<>>, Saved(y.t), NEW e \in Entries, NEW k \in Kinds
    PROVE  LET z == OnActivated(y, e, k) IN
           /\ Saved(z.t)
           /\ \/ /\ z.t.told = <<>> /\ z.t.out \in {<<>>, <<[c |-> "idle"]>>}
                 /\ z.t3t \in {y.t3t, [pc |-> "begin", h |-> e.h]}
              \/ z.t.told = <<>> /\ z.t.out = <<[c |-> "sleep"]>> /\ z.t3t = y.t3t
              \/ /\ z.t.ntf = 0 /\ (z.t.told[Len(z.t.told)].h = e.h \/ Len(z.t.told) >= MaxTech)
                 /\ z.t.out = <<>> /\ z.t3t = y.t3t
<1> DEFINE x == Restored(Arrived(y), e.p)
           active == [x.t EXCEPT !.active = TRUE]
           z == OnActivated(y, e, k)
<1>1. x \in Natives /\ x.t = y.t /\ x.t3t = y.t3t /\ x.t \in OwnTags /\ x.t \in Tags /\ x.m \in Flags
  BY ArrivalKeeps, RestoresKeep, RestoringLeaves, HandsOver, OwnStays
<1>2. z = ActivatedTag(x, e, k)
  BY DEF OnActivated, Arrived
<1> HIDE DEF x, z
<1>3. active \in OwnTags /\ active.out = <<>> /\ active.told = <<>> /\ Saved(active)
  <2>1. active \in OwnTags
    BY <1>1, OwnStays
  <2> QED
    BY <1>1, <2>1 DEF Saved, Tags
<1>4. CASE e.p \notin Dep
  <2> DEFINE listed == Activated(active, e, k)
             v == createNativeNfcTag(listed)
  <2>1. z.t = SleepForNext(v) /\ z.t3t = x.t3t
    BY <1>1, <1>2, <1>4 DEF ActivatedTag, Natives
  <2> HIDE DEF active
  <2>2. listed \in OwnTags /\ listed.num \in 0..MaxTech /\ active \in Tags
    BY <1>3, ActivatedIsListedBehind DEF OwnTags
  <2>3. /\ listed.num >= MaxTech \/ (listed.num >= 1 /\ listed.arr[listed.num - 1].h = e.h)
        /\ Leaves(active, listed) /\ listed.out = active.out
    BY <2>2, ActivatedIsLast
  <2> HIDE DEF listed
  <2>4. listed.told = <<>> /\ listed.out = <<>> /\ Saved(listed)
    BY <1>3, <2>3, LeavesSaved DEF Leaves
  <2>5. /\ Saved(v) /\ v.out = <<>>
        /\ v.told # <<>> => v.ntf = 0 /\ (v.told[Len(v.told)].h = e.h \/ Len(v.told) >= MaxTech)
    BY <2>2, <2>3, <2>4, CreatedIsSaved
  <2>6. v \in Tags
    BY <2>2, CreatesOwn DEF OwnTags
  <2> HIDE DEF v
  <2>7. CASE v.ntf = 0
    <3>1. z.t = v
      BY <2>1, <2>7 DEF SleepForNext
    <3>2. v.told = <<>> \/ (v.told[Len(v.told)].h = e.h \/ Len(v.told) >= MaxTech)
      BY <2>5
    <3> QED
      BY <1>1, <2>1, <2>5, <2>7, <3>1, <3>2 DEF z
  <2>8. CASE v.ntf # 0
    <3>1. z.t = Ask(v, [c |-> "sleep"])
      BY <2>1, <2>8 DEF SleepForNext
    <3>2. Leaves(v, z.t) /\ z.t.out = <<[c |-> "sleep"]>>
      BY <2>5, <2>6, <3>1, AskingLeaves
    <3>3. Saved(z.t) /\ z.t.told = <<>>
      BY <2>5, <2>8, <3>2, LeavesSaved DEF Leaves
    <3> QED
      BY <1>1, <2>1, <3>2, <3>3 DEF z
  <2> QED
    BY <2>7, <2>8
<1>5. CASE e.p \in Dep /\ x.m.reader
  <2> DEFINE w == [x EXCEPT !.t = active]
  <2>1. z = PeerInReaderMode(w, e.h)
    BY <1>1, <1>2, <1>5 DEF ActivatedTag, Natives
  <2> HIDE DEF active
  <2>2. w \in Natives /\ w.t = active /\ w.t3t = y.t3t
    BY <1>1, <1>3 DEF Natives
  <2> HIDE DEF w
  <2>3. CASE w.m.felica \in {"idle", "selected"}
    <3>1. z.t = active /\ z.t3t = [pc |-> "begin", h |-> e.h]
      BY <2>1, <2>2, <2>3 DEF PeerInReaderMode, Natives
    <3> QED
      BY <1>3, <3>1 DEF z
  <2>4. CASE w.m.felica \notin {"idle", "selected"}
    <3>1. z.t = Ask(active, [c |-> "idle"]) /\ z.t3t = y.t3t
      BY <2>1, <2>2, <2>4 DEF PeerInReaderMode, Natives
    <3>2. Leaves(active, z.t) /\ z.t.out = <<[c |-> "idle"]>>
      BY <1>3, <3>1, AskingLeaves DEF OwnTags
    <3>3. Saved(z.t) /\ z.t.told = <<>>
      BY <1>3, <3>2, LeavesSaved DEF Leaves
    <3> QED
      BY <3>1, <3>2, <3>3 DEF z
  <2> QED
    BY <2>3, <2>4
<1>6. CASE e.p \in Dep /\ ~x.m.reader
  <2>1. z.t = active /\ z.t3t = x.t3t
    BY <1>1, <1>2, <1>6 DEF ActivatedTag, Natives
  <2> HIDE DEF active
  <2> QED
    BY <1>1, <1>3, <2>1 DEF z
<1> QED
  BY <1>4, <1>5, <1>6

LEMMA NextLeaves ==
    ASSUME NEW t \in OwnTags, t.out = <<>>, Saved(t), NEW type
    PROVE  LET u == Gone(NextTag(t), type) IN
           /\ Saved(u) /\ Selecting(u)
           /\ u.told = IF type = "sleep" THEN t.told ELSE <<>>
<1> DEFINE v == NextTag(t)
           w == [t EXCEPT !.ntf = t.ntf - 1]
           u == Gone(v, type)
<1>1. t \in Tags /\ t.ntf \in Nat
  BY DEF OwnTags, Tags
<1>2. v \in OwnTags
  BY NextTagKeeps
<1>3. Leaves(t, v) /\ Selecting(v)
  <2>1. CASE t.ntf = 0
    BY <2>1 DEF NextTag, Leaves, Selecting
  <2>2. CASE t.ntf # 0
    <3>1. t.ntf - 1 \in Nat
      BY <1>1, <2>2
    <3>2. w \in OwnTags /\ w.out = <<>> /\ Leaves(t, w)
      <4>1. w \in OwnTags
        BY <3>1, OwnStays
      <4> QED
        BY <1>1, <4>1 DEF Leaves, Tags
    <3>3. v = selectNextTag(w)
      BY <2>2 DEF NextTag
    <3> HIDE DEF w, v
    <3>4. Leaves(w, v) /\ Selecting(v)
      BY <3>2, <3>3, NextSelectionLeaves
    <3> QED
      BY <3>2, <3>4 DEF Leaves, v
  <2> QED
    BY <2>1, <2>2
<1> HIDE DEF v
<1>4. CASE type = "sleep"
  <2>1. u = v
    BY <1>4 DEF Gone
  <2> QED
    BY <1>3, <1>4, <2>1, LeavesSaved DEF Leaves, v
<1>5. CASE type # "sleep"
  <2> DEFINE y == [v EXCEPT !.ntf = 0, !.active = FALSE, !.told = <<>>]
  <2>1. u = resetTechnologies(y)
    BY <1>5 DEF Gone
  <2>2. v \in Tags
    BY <1>2 DEF OwnTags
  <2>3. y \in Tags /\ y.told = <<>> /\ y.out = v.out /\ y.stale = v.stale
    <3>1. y \in OwnTags
      BY <1>2, OwnStays
    <3> QED
      BY <2>2, <3>1 DEF OwnTags, Tags
  <2> HIDE DEF y
  <2>4. u.told = <<>> /\ u.out = v.out /\ u.stale = v.stale /\ u.idx = 0
    BY <2>1, <2>3 DEF resetTechnologies, Tags
  <2> HIDE DEF u
  <2>5. Saved(u) /\ Selecting(u)
    BY <1>3, <2>4 DEF Saved, Leaves, Selecting
  <2> QED
    BY <1>5, <2>4, <2>5 DEF u, v
<1> QED
  BY <1>4, <1>5

\* pollT3TThread goes on where it waited, or stays where it is.
GoesOn(s, u) == u.h = s.h /\ (u.pc = s.pc \/ (s.pc = "sleepW" /\ u.pc = "select") \/ (s.pc = "selectW" /\ u.pc = "idle"))

LEMMA DeactivationLeaves ==
    ASSUME NEW x \in Natives, x.t.out = <<>>, Saved(x.t), NEW type
    PROVE  LET z == OnDeactivated(x, type) IN
           /\ Saved(z.t) /\ Selecting(z.t) /\ GoesOn(x.t3t, z.t3t)
           /\ z.t.told = IF type = "sleep" THEN x.t.told ELSE <<>>
<1> DEFINE y == AfterPeer(x)
           w == [y EXCEPT !.t = Gone(NextTag(y.t), type), !.m.p2p = y.m.p2p /\ type = "sleep"]
           z == OnDeactivated(x, type)
<1>1. y \in [t : {x.t}, m : Flags, new : Nat, t3t : {x.t3t}]
  <2>1. x.m \in Flags /\ x.new \in Nat
    BY HandsOver
  <2>2. [x.m EXCEPT !.flag = TRUE, !.detected = FALSE] \in Flags
    BY <2>1 DEF Flags
  <2>3. y = IF x.m.detected /\ x.m.p2p
            THEN [x EXCEPT !.m = [x.m EXCEPT !.flag = TRUE, !.detected = FALSE], !.new = x.new + 1] ELSE x
    BY <2>1 DEF AfterPeer, ClearMultiprotocol, Natives, Flags
  <2> QED
    <3>1. CASE x.m.detected /\ x.m.p2p
      <4>1. y = [x EXCEPT !.m = [x.m EXCEPT !.flag = TRUE, !.detected = FALSE], !.new = x.new + 1]
        BY <2>3, <3>1
      <4>2. x.new + 1 \in Nat
        BY <2>1
      <4> HIDE DEF y
      <4> QED
        BY <2>2, <4>1, <4>2 DEF Natives
    <3>2. CASE ~(x.m.detected /\ x.m.p2p)
      <4>1. y = x
        BY <2>3, <3>2
      <4> HIDE DEF y
      <4> QED
        BY <4>1 DEF Natives
    <3> QED
      BY <3>1, <3>2
<1>2. z = FelicaAsleep(w, type)
  BY DEF OnDeactivated
<1> HIDE DEF y
<1>3. w.t = Gone(NextTag(x.t), type) /\ w.t3t = x.t3t
  BY <1>1
<1>4. w \in [t : {w.t}, m : Flags, new : Nat, t3t : {x.t3t}]
  <2>1. (y.m.p2p /\ type = "sleep") \in BOOLEAN /\ y.m \in Flags
    BY <1>1
  <2>2. [y.m EXCEPT !.p2p = y.m.p2p /\ type = "sleep"] \in Flags
    BY <2>1 DEF Flags
  <2> QED
    BY <1>1, <2>2
<1>5. x.t3t \in T3ts
  BY HandsOver
<1> HIDE DEF w, z
<1>6. z.t = w.t /\ GoesOn(x.t3t, z.t3t)
  BY <1>2, <1>4, <1>5 DEF FelicaAsleep, GoesOn, T3ts
<1>7. LET u == Gone(NextTag(x.t), type) IN
      /\ Saved(u) /\ Selecting(u)
      /\ u.told = IF type = "sleep" THEN x.t.told ELSE <<>>
  BY NextLeaves, HandsOver
<1> QED
  BY <1>3, <1>6, <1>7 DEF z

LEMMA SelectResultLeaves ==
    ASSUME NEW x \in Natives, x.t.out = <<>>, Saved(x.t), NEW ok \in BOOLEAN
    PROVE  LET z == OnSelectResult(x, ok) IN
           /\ Saved(z.t) /\ z.t.told = x.t.told /\ z.t.ntf = x.t.ntf /\ GoesOn(x.t3t, z.t3t)
           /\ z.t.out \in {<<>>, <<[c |-> "idle"]>>}
<1> DEFINE t == [x.t EXCEPT !.idx = 0]
           z == OnSelectResult(x, ok)
<1>1. x.t \in OwnTags /\ x.t \in Tags /\ x.t3t \in T3ts
  BY HandsOver, OwnStays
<1>2. CASE ~ok
  <2>1. z.t = Ask(t, [c |-> "idle"]) /\ z.t3t = x.t3t
    BY <1>2 DEF OnSelectResult, Natives
  <2>2. t \in Tags /\ t.out = <<>> /\ t.ntf = x.t.ntf /\ Leaves(x.t, t)
    <3>1. t \in OwnTags
      BY <1>1, OwnStays
    <3> QED
      BY <1>1, <3>1 DEF OwnTags, Leaves, Tags
  <2> HIDE DEF t, z
  <2>3. Leaves(t, z.t) /\ z.t.out = <<[c |-> "idle"]>> /\ z.t.ntf = t.ntf
    BY <2>1, <2>2, AskingLeaves
  <2>4. Saved(z.t)
    BY <2>2, <2>3, LeavesSaved
  <2> QED
    BY <2>1, <2>2, <2>3, <2>4 DEF Leaves, GoesOn, z
<1>3. CASE ok
  <2>1. z.t = x.t /\ GoesOn(x.t3t, z.t3t)
    BY <1>1, <1>3 DEF OnSelectResult, Natives, GoesOn, T3ts
  <2> QED
    BY <2>1
<1> QED
  BY <1>2, <1>3

LEMMA GoingOnKeepsTheLink ==
    ASSUME NEW q, NEW rf, NEW h, NEW told, NEW ntf, NEW s, NEW u, GoesOn(s, u),
           Link(rf, h, q, told, ntf, s.pc, s.h)
    PROVE  Link(rf, h, q, told, ntf, u.pc, u.h)
BY DEF GoesOn, Link

\* What the handler leaves is the state after it, with what it asks for behind the queue.
LEMMA CallbackLeaves ==
    ASSUME NEW x \in Natives, NEW n \in Controllers, Callback(x, n)
    PROVE  /\ nfa'.rf = n.rf /\ nfa'.on = n.on /\ nfa'.q = n.q \o x.t.out /\ n.q \in Seq(Items)
           /\ tag'.told = x.t.told /\ tag'.ntf = x.t.ntf /\ t3t' = x.t3t /\ Saved(tag') = Saved(x.t)
           /\ x.t.out = <<>> => nfa'.q = n.q
           /\ \A c \in Items : x.t.out = <<c>> => nfa'.q = Append(n.q, c)
<1>1. x.t \in Tags
  BY HandsOver, OwnStays
<1>2. nfa'.rf = n.rf /\ nfa'.on = n.on /\ nfa'.q = n.q \o x.t.out /\ n.q \in Seq(Items)
  BY DEF Callback, Controllers, Items
<1>3. /\ tag'.told = x.t.told /\ tag'.ntf = x.t.ntf /\ t3t' = x.t3t
      /\ tag'.idx = x.t.idx /\ tag'.live = x.t.live /\ tag'.stale = x.t.stale
  BY <1>1 DEF Callback, Tags
<1>4. Saved(tag') = Saved(x.t)
  BY <1>3 DEF Saved
<1>5. x.t.out = <<>> => nfa'.q = n.q
  BY <1>2
<1>6. ASSUME NEW c \in Items, x.t.out = <<c>>
      PROVE  nfa'.q = Append(n.q, c)
  <2>1. n.q \o <<c>> = Append(n.q, c)
    BY <1>2
  <2> QED
    BY <1>2, <1>6, <2>1
<1> QED
  BY <1>2, <1>3, <1>4, <1>5, <1>6

-----------------------------------------------------------------------------
(* The callback's reports.                                                 *)

LEMMA RequestsAreItems ==
    /\ [c |-> "sleep"] \in Items /\ [c |-> "idle"] \in Items /\ Plain([c |-> "idle"])
    /\ \A e \in Entries : SelectOf(e) \in Items /\ SelectOf(e).c = "select"
BY DEF Requests, Items, Plain, EventKinds, SelectOf, Entries

LEMMA ResultKeepsTheLink ==
    ASSUME TypeOK, tag \in OwnTags, LinkHolds, Saved(tag), ResultIsReported
    PROVE  LinkHolds' /\ Saved(tag')
<1>1. PICK r \in nfa.todo : \E more \in IF nfa.todo = {r} THEN {0, 1} ELSE {2} :
        Callback(OnDiscResult(Here, r, more),
                 [nfa EXCEPT !.todo = @ \ {r}, !.rf = IF nfa.todo = {r} THEN "select" ELSE @])
  BY DEF ResultIsReported
<1>2. PICK more \in 0..2 :
        /\ more # 2 => nfa.todo = {r}
        /\ Callback(OnDiscResult(Here, r, more),
                    [nfa EXCEPT !.todo = @ \ {r}, !.rf = IF nfa.todo = {r} THEN "select" ELSE @])
  BY <1>1
<1> DEFINE n == [nfa EXCEPT !.todo = @ \ {r}, !.rf = IF nfa.todo = {r} THEN "select" ELSE @]
           x == OnDiscResult(Here, r, more)
<1>3. nfa \in Controllers /\ nfa.rf = "results" /\ r \in Results
  BY DEF TypeOK, Controllers, ResultIsReported
<1>4. /\ n \in Controllers /\ n.q = nfa.q /\ n.on = nfa.on /\ n.rf \in {"results", "select"}
      /\ more # 2 => n.rf = "select"
  BY <1>2, <1>3 DEF Controllers
<1>5. Here \in Natives /\ Here.t = tag /\ Here.t3t = t3t /\ tag.out = <<>>
  BY HereIsTyped DEF Here, TypeOK
<1>6. /\ x \in Natives /\ Leaves(tag, x.t) /\ Selecting(x.t) /\ x.t3t = t3t
      /\ more = 2 => x.t.out = <<>>
  BY <1>3, <1>5, DiscResultKeeps, DiscResultLeaves
<1>7. Callback(x, n)
  BY <1>2
<1> HIDE DEF n, x
<1>8. /\ nfa'.rf = n.rf /\ nfa'.on = n.on /\ n.q \in Seq(Items)
      /\ tag'.told = x.t.told /\ t3t' = x.t3t /\ Saved(tag') = Saved(x.t)
      /\ x.t.out = <<>> => nfa'.q = n.q
      /\ \A c \in Items : x.t.out = <<c>> => nfa'.q = Append(n.q, c)
  BY <1>4, <1>6, <1>7, CallbackLeaves
<1>9. Saved(tag')
  BY <1>6, <1>8, LeavesSaved
<1>10. /\ tag.told = <<>> /\ (t3t.h = 0 => None(nfa.q, "select"))
       /\ Link("results", nfa.on.h, nfa.q, tag.told, tag'.ntf, t3t.pc, t3t.h)
       /\ Link("select", nfa.on.h, nfa.q, tag.told, tag'.ntf, t3t.pc, t3t.h)
  BY <1>3, <1>4, <1>8, LinkOfResults DEF LinkHolds
<1>11. CASE x.t.out = <<>>
  BY <1>4, <1>6, <1>8, <1>9, <1>10, <1>11 DEF LinkHolds, Leaves
<1>12. CASE x.t.out # <<>>
  <2>1. PICK e \in Entries : x.t.out = <<SelectOf(e)>>
    BY <1>6, <1>12 DEF Selecting
  <2>2. nfa'.q = Append(nfa.q, SelectOf(e)) /\ nfa'.rf = "select"
    BY <1>4, <1>6, <1>8, <1>12, <2>1, RequestsAreItems
  <2>3. Link("select", nfa.on.h, Append(nfa.q, SelectOf(e)), tag.told, tag'.ntf, t3t.pc, t3t.h)
    BY <1>4, <1>8, <1>10, RequestsAreItems, LinkAppendsSelect
  <2> QED
    BY <1>4, <1>6, <1>8, <1>9, <2>2, <2>3 DEF LinkHolds, Leaves
<1> QED
  BY <1>9, <1>11, <1>12

\* The head of the queue is reported: the callback's state comes of what was there before.
LEMMA ThePopped ==
    ASSUME TypeOK, Working, Job \notin Answered
    PROVE  /\ Popped \in Controllers /\ Popped.q = Rest /\ Popped.rf = nfa.rf /\ Popped.on = nfa.on
           /\ Rest = Tail(nfa.q) /\ nfa.q \in Seq(Items) /\ nfa.q # <<>> /\ Head(nfa.q) = nfa.q[1] /\ Rest \in Seq(Items)
           /\ Job = Head(nfa.q).c /\ Head(nfa.q) \in Items
           /\ In(nfa.q) = {Head(nfa.q)} \cup In(Rest)
<1>1. Popped \in Controllers
  BY PoppedIsTyped
<1>2. Popped.q = Rest /\ Popped.rf = nfa.rf /\ Popped.on = nfa.on
  BY DEF Popped, TypeOK, Controllers
<1> QED
  BY <1>1, <1>2, QueueIsOfItems, InOfHeadAndTail DEF Rest, Job

LEMMA ActivationKeepsTheLink ==
    ASSUME TypeOK, tag \in OwnTags, LinkHolds, Saved(tag), ActivationIsReported
    PROVE  LinkHolds' /\ Saved(tag')
<1> DEFINE e == [h |-> Head(nfa.q).h, p |-> Head(nfa.q).p]
           x == OnActivated(Here, e, Head(nfa.q).k)
<1>1. Working /\ Job = "ACTIVATED" /\ Job \notin Answered /\ Callback(x, Popped)
  BY DEF ActivationIsReported, Reports, Answered
<1>2. /\ Popped \in Controllers /\ Popped.q = Rest /\ Popped.rf = nfa.rf /\ Popped.on = nfa.on
      /\ Rest = Tail(nfa.q) /\ nfa.q \in Seq(Items) /\ nfa.q # <<>> /\ Rest \in Seq(Items)
      /\ Head(nfa.q).c = "ACTIVATED" /\ Head(nfa.q) \in Items /\ In(nfa.q) = {Head(nfa.q)} \cup In(Rest)
  BY <1>1, ThePopped
<1>3. e \in Entries /\ e.h = Head(nfa.q).h /\ Head(nfa.q).k \in Kinds
  BY <1>2 DEF Items, Requests, Orders, Events, Entries
<1>4. Here \in Natives /\ Here.t = tag /\ Here.t3t = t3t /\ tag.out = <<>>
  BY HereIsTyped DEF Here, TypeOK
<1>5. /\ nfa.rf = "active" /\ e.h = nfa.on.h /\ nfa.on.h # 0 /\ tag.told = <<>> /\ t3t.pc # "begin"
      /\ None(nfa.q, "sleep") /\ First(nfa.q)
      /\ t3t.h = 0 => t3t.pc = "idle" /\ None(nfa.q, "select")
  BY <1>2, <1>3 DEF LinkHolds, Link, None
<1> HIDE DEF e
<1>6. Quiet(Rest) /\ (\A c : None(nfa.q, c) => None(Rest, c)) /\ None(Rest, "ACTIVATED")
  <2>1. Head(nfa.q).c # "SELECT_OK"
    BY <1>2
  <2>2. Quiet(Rest)
    BY <1>2, <1>5, <2>1, QuietAfterTheFirst
  <2> QED
    BY <1>2, <2>2 DEF None, Quiet, EventKinds
<1>7. /\ x \in Natives
      /\ Saved(x.t)
      /\ \/ /\ x.t.told = <<>> /\ x.t.out \in {<<>>, <<[c |-> "idle"]>>}
            /\ x.t3t \in {t3t, [pc |-> "begin", h |-> e.h]}
         \/ x.t.told = <<>> /\ x.t.out = <<[c |-> "sleep"]>> /\ x.t3t = t3t
         \/ /\ x.t.ntf = 0 /\ (x.t.told[Len(x.t.told)].h = e.h \/ Len(x.t.told) >= MaxTech)
            /\ x.t.out = <<>> /\ x.t3t = t3t
  BY <1>3, <1>4, <1>5, ActivationKeeps, ActivationLeaves
<1> HIDE DEF x
<1>8. /\ nfa'.rf = "active" /\ nfa'.on = nfa.on
      /\ tag'.told = x.t.told /\ tag'.ntf = x.t.ntf /\ t3t' = x.t3t /\ Saved(tag') = Saved(x.t)
      /\ x.t.out = <<>> => nfa'.q = Rest
      /\ \A c \in Items : x.t.out = <<c>> => nfa'.q = Append(Rest, c)
  BY <1>1, <1>2, <1>5, <1>7, CallbackLeaves
<1>9. Link("active", nfa.on.h, Rest, tag'.told, tag'.ntf, t3t'.pc, t3t'.h)
  <2>1. tag'.told # <<>> => /\ tag'.ntf = 0 /\ t3t'.pc # "begin"
                            /\ tag'.told[Len(tag'.told)].h = nfa.on.h \/ Len(tag'.told) >= MaxTech
    BY <1>5, <1>7, <1>8
  <2>2. t3t'.h = 0 => t3t'.pc = "idle" /\ None(Rest, "select")
    BY <1>5, <1>6, <1>7, <1>8
  <2> QED
    BY <1>5, <1>6, <2>1, <2>2, LinkIsUp
<1>10. CASE x.t.out = <<>>
  BY <1>7, <1>8, <1>9, <1>10 DEF LinkHolds
<1>11. CASE x.t.out = <<[c |-> "idle"]>>
  <2>1. Link("active", nfa.on.h, Append(Rest, [c |-> "idle"]), tag'.told, tag'.ntf, t3t'.pc, t3t'.h)
    BY <1>2, <1>9, RequestsAreItems, LinkAppends
  <2> QED
    BY <1>7, <1>8, <1>11, <2>1, RequestsAreItems DEF LinkHolds
<1>12. CASE x.t.told = <<>> /\ x.t.out = <<[c |-> "sleep"]>> /\ x.t3t = t3t
  <2>1. Link("active", nfa.on.h, Append(Rest, [c |-> "sleep"]), tag'.told, tag'.ntf, t3t'.pc, t3t'.h)
    BY <1>2, <1>5, <1>6, <1>8, <1>9, <1>12, RequestsAreItems, LinkAppendsSleep
  <2> QED
    BY <1>7, <1>8, <1>12, <2>1, RequestsAreItems DEF LinkHolds
<1> QED
  BY <1>7, <1>8, <1>10, <1>11, <1>12

LEMMA DeactivationKeepsTheLink ==
    ASSUME TypeOK, tag \in OwnTags, LinkHolds, Saved(tag), DeactivationIsReported
    PROVE  LinkHolds' /\ Saved(tag')
<1> DEFINE type == Head(nfa.q).type
           x == OnDeactivated(Here, type)
<1>1. Working /\ Job = "DEACTIVATED" /\ Job \notin Answered /\ Callback(x, Popped)
  BY DEF DeactivationIsReported, Reports, Answered
<1>2. /\ Popped \in Controllers /\ Popped.q = Rest /\ Popped.rf = nfa.rf /\ Popped.on = nfa.on
      /\ Rest = Tail(nfa.q) /\ nfa.q \in Seq(Items) /\ nfa.q # <<>> /\ Head(nfa.q) = nfa.q[1] /\ Rest \in Seq(Items)
      /\ Head(nfa.q).c = "DEACTIVATED" /\ Head(nfa.q) \in Items /\ In(nfa.q) = {Head(nfa.q)} \cup In(Rest)
  BY <1>1, ThePopped
<1>3. Here \in Natives /\ Here.t = tag /\ Here.t3t = t3t /\ tag.out = <<>>
  BY HereIsTyped DEF Here, TypeOK
<1>4. /\ First(nfa.q) /\ ~None(nfa.q, "DEACTIVATED")
      /\ nfa.rf \in IF type = "sleep" THEN {"sleep"} ELSE {"idle", "poll"}
      /\ t3t.h = 0 => t3t.pc = "idle"
  BY <1>2 DEF LinkHolds, Link, None
<1>5. Quiet(Rest) /\ (\A c : None(nfa.q, c) => None(Rest, c))
  <2>1. Head(nfa.q).c # "SELECT_OK"
    BY <1>2
  <2>2. Quiet(Rest)
    BY <1>2, <1>4, <2>1, QuietAfterTheFirst
  <2> QED
    BY <1>2, <2>2 DEF None
<1>6. /\ x \in Natives /\ Saved(x.t) /\ Selecting(x.t) /\ GoesOn(t3t, x.t3t)
      /\ x.t.told = IF type = "sleep" THEN tag.told ELSE <<>>
  BY <1>3, DeactivationKeeps, DeactivationLeaves
<1> HIDE DEF x
<1>7. /\ nfa'.rf = nfa.rf /\ nfa'.on = nfa.on
      /\ tag'.told = x.t.told /\ tag'.ntf = x.t.ntf /\ t3t' = x.t3t /\ Saved(tag') = Saved(x.t)
      /\ x.t.out = <<>> => nfa'.q = Rest
      /\ \A c \in Items : x.t.out = <<c>> => nfa'.q = Append(Rest, c)
  BY <1>1, <1>2, <1>6, CallbackLeaves
<1>8. /\ Link(nfa.rf, nfa.on.h, Rest, tag'.told, tag'.ntf, t3t.pc, t3t.h) /\ nfa.rf \in {"idle", "poll", "sleep"}
      /\ t3t.h = 0 /\ nfa.rf = "sleep" => None(Rest, "select")
  <2>1. CASE type # "sleep"
    <3>1. tag'.told = <<>> /\ nfa.rf \in {"idle", "poll"}
      BY <1>4, <1>6, <1>7, <2>1
    <3>2. Link(nfa.rf, nfa.on.h, Rest, tag'.told, tag'.ntf, t3t.pc, t3t.h)
      BY <1>2, <1>4, <1>5, <3>1, LinkIsDown
    <3> QED
      BY <3>1, <3>2
  <2>2. CASE type = "sleep"
    <3>1. nfa.rf = "sleep" /\ tag'.told = tag.told
      BY <1>4, <1>6, <1>7, <2>2
    <3>2. /\ tag.told = <<>> /\ t3t.pc # "begin" /\ None(nfa.q, "sleep")
          /\ t3t.h = 0 => None(nfa.q, "select")
      BY <1>2, <1>4, <2>2, <3>1 DEF LinkHolds, Link
    <3>3. Link("sleep", nfa.on.h, Rest, <<>>, tag'.ntf, t3t.pc, t3t.h)
      BY <1>2, <1>4, <1>5, <2>2, <3>2, LinkIsAsleep
    <3> QED
      BY <1>5, <3>1, <3>2, <3>3
  <2> QED
    BY <2>1, <2>2
<1>9. Link(nfa.rf, nfa.on.h, Rest, tag'.told, tag'.ntf, t3t'.pc, t3t'.h) /\ t3t'.h = t3t.h
  BY <1>6, <1>7, <1>8, GoingOnKeepsTheLink DEF GoesOn
<1>10. CASE x.t.out = <<>>
  BY <1>6, <1>7, <1>9, <1>10 DEF LinkHolds
<1>11. CASE x.t.out # <<>>
  <2>1. PICK e \in Entries : x.t.out = <<SelectOf(e)>>
    BY <1>6, <1>11 DEF Selecting
  <2>2. None(Rest, "DEACTIVATED")
    BY <1>5 DEF None, Quiet, EventKinds
  <2>3. Link(nfa.rf, nfa.on.h, Append(Rest, SelectOf(e)), tag'.told, tag'.ntf, t3t'.pc, t3t'.h)
    BY <1>2, <1>8, <1>9, <2>2, RequestsAreItems, LinkAppendsSelect
  <2> QED
    BY <1>6, <1>7, <2>1, <2>3, RequestsAreItems DEF LinkHolds
<1> QED
  BY <1>10, <1>11

LEMMA SelectResultKeepsTheLink ==
    ASSUME TypeOK, tag \in OwnTags, LinkHolds, Saved(tag), SelectResultIsReported
    PROVE  LinkHolds' /\ Saved(tag')
<1>1. PICK ok \in BOOLEAN : /\ Reports(IF ok THEN "SELECT_OK" ELSE "SELECT_FAIL")
                            /\ Callback(OnSelectResult(Here, ok), Popped)
  BY DEF SelectResultIsReported
<1> DEFINE x == OnSelectResult(Here, ok)
<1>2. Working /\ Job \in {"SELECT_OK", "SELECT_FAIL"} /\ Job \notin Answered
  BY <1>1 DEF Reports, Answered
<1>3. /\ Popped \in Controllers /\ Popped.q = Rest /\ Popped.rf = nfa.rf /\ Popped.on = nfa.on
      /\ Rest = Tail(nfa.q) /\ nfa.q \in Seq(Items) /\ nfa.q # <<>> /\ Rest \in Seq(Items)
      /\ Head(nfa.q).c # "DEACTIVATED"
  BY <1>2, ThePopped
<1>4. Here \in Natives /\ Here.t = tag /\ Here.t3t = t3t /\ tag.out = <<>>
  BY HereIsTyped DEF Here, TypeOK
<1>5. /\ x \in Natives /\ Saved(x.t) /\ x.t.told = tag.told /\ x.t.ntf = tag.ntf /\ GoesOn(t3t, x.t3t)
      /\ x.t.out \in {<<>>, <<[c |-> "idle"]>>}
  BY <1>4, SelectResultKeeps, SelectResultLeaves
<1>6. Callback(x, Popped)
  BY <1>1
<1> HIDE DEF x
<1>7. /\ nfa'.rf = nfa.rf /\ nfa'.on = nfa.on
      /\ tag'.told = x.t.told /\ tag'.ntf = x.t.ntf /\ t3t' = x.t3t /\ Saved(tag') = Saved(x.t)
      /\ x.t.out = <<>> => nfa'.q = Rest
      /\ \A c \in Items : x.t.out = <<c>> => nfa'.q = Append(Rest, c)
  BY <1>3, <1>5, <1>6, CallbackLeaves
<1>8. Link(nfa.rf, nfa.on.h, Rest, tag.told, tag.ntf, t3t.pc, t3t.h)
  BY <1>3, LinkPops DEF LinkHolds
<1>9. Link(nfa.rf, nfa.on.h, Rest, tag'.told, tag'.ntf, t3t'.pc, t3t'.h)
  BY <1>5, <1>7, <1>8, GoingOnKeepsTheLink
<1>10. CASE x.t.out = <<>>
  BY <1>5, <1>7, <1>9, <1>10 DEF LinkHolds
<1>11. CASE x.t.out = <<[c |-> "idle"]>>
  <2>1. Link(nfa.rf, nfa.on.h, Append(Rest, [c |-> "idle"]), tag'.told, tag'.ntf, t3t'.pc, t3t'.h)
    BY <1>3, <1>9, RequestsAreItems, LinkAppends
  <2> QED
    BY <1>5, <1>7, <1>11, <2>1, RequestsAreItems DEF LinkHolds
<1> QED
  BY <1>5, <1>10, <1>11

LEMMA AnswerKeepsTheLink ==
    ASSUME TypeOK, LinkHolds, AnswerIsReported
    PROVE  LinkHolds'
<1>1. Working /\ Job \in {"STOPPED", "STARTED", "POLL", "DEACTIVATE_FAIL"} /\ nfa' = Popped /\ UNCHANGED <<tag, t3t>>
  BY DEF AnswerIsReported
<1>2. nfa'.q = Tail(nfa.q) /\ nfa'.rf = nfa.rf /\ nfa'.on = nfa.on
  BY <1>1 DEF Popped, Rest, TypeOK, Controllers
<1>3. nfa.q \in Seq(Items) /\ nfa.q # <<>> /\ Head(nfa.q).c # "DEACTIVATED"
  BY <1>1, QueueIsOfItems DEF Job
<1>4. Link(nfa.rf, nfa.on.h, Tail(nfa.q), tag.told, tag.ntf, t3t.pc, t3t.h)
  BY <1>3, LinkPops DEF LinkHolds
<1> QED
  BY <1>1, <1>2, <1>4 DEF LinkHolds
-----------------------------------------------------------------------------
(* The inductive invariants.                                               *)

IndInv == TypeOK /\ WaitersAreAnswered /\ EntriesAreSaved /\ BytesAreTheirs

LEMMA OwnInTheState ==
    ASSUME TypeOK
    PROVE  EntriesAreSaved /\ BytesAreTheirs <=> tag \in OwnTags
BY DEF TypeOK, EntriesAreSaved, BytesAreTheirs, OwnTags

LEMMA Initially == Init => IndInv
<1> SUFFICES ASSUME Init
             PROVE  IndInv
  OBVIOUS
<1>1. MaxTech \in Nat /\ 0 \in 0..MaxTech /\ 0 \in 0..(MaxTech + 1)
  BY TagDiscoveryAssumption
<1>2. Zero \in Entries
  BY DEF Zero, Entries, Handles, Protocols
<1>3. nfa \in Controllers
  <2>1. <<>> \in Seq(Requests \cup Orders \cup Events)
    OBVIOUS
  <2> QED
    BY <1>2, <2>1 DEF Init, Controllers
<1>4. tag \in Tags /\ tag.out = <<>>
  <2>1. <<>> \in Seq(Handles) /\ <<>> \in Seq([h : Handles, b : Handles]) /\ <<>> \in Seq(Requests)
    OBVIOUS
  <2> DEFINE empty == [i \in 0..MaxTech |-> IF i = MaxTech THEN Behind ELSE Zero]
  <2>2. empty \in [0..MaxTech -> Entries]
    BY EmptyArray
  <2>3. tag = [arr |-> empty, num |-> 0, disc |-> 0, idx |-> 0, sel |-> 0, ntf |-> 0, prev |-> 0,
               active |-> FALSE, saved |-> <<>>, live |-> FALSE, stale |-> FALSE, told |-> <<>>, out |-> <<>>]
    BY DEF Init
  <2> HIDE DEF Init, empty
  <2>4. tag.out = <<>>
    BY <2>3
  <2>5. tag \in Tags
    BY <1>1, <2>1, <2>2, <2>3 DEF Tags
  <2> QED
    BY <2>4, <2>5
<1>5. nm \in Flags
  BY DEF Init, Flags
<1>6. prio \in [PrioPcs -> Nat] /\ count \in [calls : Nat, changes : Nat] /\ field \in Fields
  BY DEF Init
<1>7. t3t \in T3ts
  BY DEF Init, T3ts, Handles
<1>8. svc \in [pc : SvcPcs, mode : Modes] /\ svc.pc = "idle"
  <2>1. (CHOOSE m \in Modes : TRUE) \in Modes
    BY TagDiscoveryAssumption
  <2> QED
    BY <2>1 DEF Init, SvcPcs
<1>9. TypeOK
  BY <1>3, <1>4, <1>5, <1>6, <1>7, <1>8 DEF TypeOK
<1>10. PrioWaiting = 0 /\ ~SvcWaits /\ nfa.q = <<>>
  BY <1>8 DEF Init, PrioWaiting, PrioPcs, SvcWaits
<1>11. WaitersAreAnswered
  BY <1>10, ToComeOfNone DEF WaitersAreAnswered, Waiters, PrioWaiting
<1>12. EntriesAreSaved /\ BytesAreTheirs
  BY DEF Init, EntriesAreSaved, BytesAreTheirs
<1> QED
  BY <1>9, <1>11, <1>12 DEF IndInv

LEMMA Steps == IndInv /\ [Next]_vars => IndInv'
<1> SUFFICES ASSUME IndInv, [Next]_vars
             PROVE  IndInv'
  OBVIOUS
<1>1. TypeOK /\ WaitersAreAnswered /\ tag \in OwnTags
  BY OwnInTheState DEF IndInv
<1>2. CASE Reported
  <2>1. Keeps /\ tag' \in OwnTags
    BY <1>1, <1>2, ReportKeeps
  <2>2. EntriesAreSaved' /\ BytesAreTheirs'
    BY <2>1 DEF OwnTags, EntriesAreSaved, BytesAreTheirs
  <2> QED
    BY <2>1, <2>2 DEF IndInv, Keeps
<1>3. CASE Keeps /\ UNCHANGED tag
  BY <1>3 DEF IndInv, Keeps, EntriesAreSaved, BytesAreTheirs
<1>4. CASE UNCHANGED vars
  <2>1. TypeOK'
    BY <1>1, <1>4 DEF TypeOK, vars
  <2>2. Waiters' = Waiters /\ nfa' = nfa
    BY <1>4 DEF vars, Waiters, SvcWaits
  <2>3. Keeps /\ UNCHANGED tag
    BY <1>1, <1>4, <2>1, <2>2 DEF Keeps, WaitersAreAnswered, vars
  <2> QED
    BY <1>3, <2>3
<1>5. CASE DisableDiscovery \/ \E m \in Modes : EnableDiscovery(m)
  <2>1. UNCHANGED tag
    BY <1>5 DEF DisableDiscovery, EnableDiscovery
  <2> QED
    BY <1>1, <1>3, <1>5, <2>1, CallsKeep
<1>6. CASE \E f \in Fields : FieldChanges(f)
  <2>1. UNCHANGED tag
    BY <1>6 DEF FieldChanges
  <2> QED
    BY <1>1, <1>3, <1>6, <2>1, ChangeKeeps
<1>7. CASE SvcSteps
  <2>1. UNCHANGED tag
    BY <1>7 DEF SvcSteps, SvcStopped, SvcDisabled, SvcListensOnly, SvcEnabled, SvcStarted, SvcOff, SvcOffEnd
  <2> QED
    BY <1>1, <1>3, <1>7, <2>1, SvcKeeps
<1>8. CASE PrioSteps
  <2>1. UNCHANGED tag
    BY <1>8 DEF PrioSteps, PrioBegins, PrioStopped, PrioDisabled, PrioEnabled, PrioStarted
  <2> QED
    BY <1>1, <1>3, <1>8, <2>1, PrioKeeps
<1>9. CASE T3tSteps
  <2>1. UNCHANGED tag
    BY <1>9 DEF T3tSteps, T3tBegins, T3tSelects, T3tTimesOut
  <2> QED
    BY <1>1, <1>3, <1>9, <2>1, T3tKeeps
<1>10. CASE TimerFires
  <2>1. UNCHANGED tag
    BY <1>10 DEF TimerFires
  <2> QED
    BY <1>1, <1>3, <1>10, <2>1, TimerKeeps
<1>11. CASE NfaSteps
  <2>1. UNCHANGED tag
    BY <1>11 DEF NfaSteps, NfaStops, NfaStarts, NfaPolling, NfaSelects, NfaDeactivates, TargetsAnswer,
                 TargetLost, External
  <2>2. Keeps
    BY <1>1, <1>11, StopsKeep, StartsKeep, PollingKeeps, SelectKeeps, DeactivateKeeps, TargetsKeep, LossKeeps
       DEF NfaSteps
  <2> QED
    BY <1>3, <2>1, <2>2
<1> QED
  BY <1>2, <1>4, <1>5, <1>6, <1>7, <1>8, <1>9, <1>10, <1>11 DEF Next


\* The second invariant, as long as pollT3TThread has not run or under Prompt: what is under way
\* for the link, and the saved array.
WalkIndInv == LinkHolds /\ Saved(tag)
Walking == Prompt \/ t3t.h = 0

\* The handlers leave pollT3TThread its target, or give it one that was activated.
LEMMA HandlersKeepTheHandle ==
    ASSUME NEW x \in Natives, x.t.out = <<>>
    PROVE  /\ \A r \in Results, more \in 0..2 : OnDiscResult(x, r, more).t3t = x.t3t
           /\ \A e \in Entries : \A k : OnActivated(x, e, k).t3t.h \in {x.t3t.h, e.h}
           /\ \A type : OnDeactivated(x, type).t3t.h = x.t3t.h
           /\ \A ok : OnSelectResult(x, ok).t3t.h = x.t3t.h
<1>1. x.t3t \in T3ts
  BY HandsOver
<1>2. \A r \in Results, more \in 0..2 : OnDiscResult(x, r, more).t3t = x.t3t
  BY DiscResultLeaves
<1>3. ASSUME NEW e \in Entries, NEW k
      PROVE  OnActivated(x, e, k).t3t.h \in {x.t3t.h, e.h}
  <2> DEFINE y == Restored(Arrived(x), e.p)
  <2>1. y \in Natives /\ y.t3t = x.t3t
    BY ArrivalKeeps, RestoresKeep, RestoringLeaves
  <2>2. OnActivated(x, e, k) = ActivatedTag(y, e, k)
    BY DEF OnActivated, Arrived
  <2> HIDE DEF y
  <2>3. ActivatedTag(y, e, k).t3t \in {y.t3t, [pc |-> "begin", h |-> e.h]}
    BY <2>1 DEF ActivatedTag, PeerInReaderMode, Natives
  <2> QED
    BY <2>1, <2>2, <2>3
<1>4. ASSUME NEW type
      PROVE  OnDeactivated(x, type).t3t.h = x.t3t.h
  BY <1>1 DEF OnDeactivated, FelicaAsleep, AfterPeer, ClearMultiprotocol, Natives, T3ts
<1>5. ASSUME NEW ok
      PROVE  OnSelectResult(x, ok).t3t.h = x.t3t.h
  BY <1>1 DEF OnSelectResult, Natives, T3ts
<1> QED
  BY <1>2, <1>3, <1>4, <1>5

\* Once pollT3TThread has been given a target it always has one.
LEMMA WalkedBefore ==
    ASSUME IndInv, [Next]_vars, t3t'.h = 0
    PROVE  t3t.h = 0
<1>1. TypeOK /\ Here \in Natives /\ Here.t = tag /\ Here.t3t = t3t /\ tag.out = <<>> /\ t3t \in T3ts
  BY OwnInTheState, HereIsTyped DEF IndInv, Here, TypeOK
<1>2. CASE ResultIsReported
  <2>1. PICK r \in nfa.todo : \E more \in 0..2 : t3t' = OnDiscResult(Here, r, more).t3t
    BY <1>2 DEF ResultIsReported, Callback
  <2>2. r \in Results
    BY <1>1 DEF TypeOK, Controllers
  <2> QED
    BY <1>1, <2>1, <2>2, HandlersKeepTheHandle
<1>3. CASE ActivationIsReported
  <2> DEFINE e == [h |-> Head(nfa.q).h, p |-> Head(nfa.q).p]
             z == OnActivated(Here, e, Head(nfa.q).k)
  <2>1. Head(nfa.q) \in Items /\ Head(nfa.q).c = "ACTIVATED" /\ Callback(z, Popped)
    BY <1>1, <1>3, QueueIsOfItems DEF ActivationIsReported, Reports, Job
  <2>2. e \in Entries /\ e.h # 0
    BY <2>1 DEF Items, Requests, Orders, Events, Entries
  <2>3. t3t' = z.t3t
    BY <2>1 DEF Callback
  <2> HIDE DEF e
  <2>4. z.t3t.h \in {t3t.h, e.h}
    BY <1>1, <2>2, HandlersKeepTheHandle
  <2> QED
    BY <2>2, <2>3, <2>4
<1>4. CASE DeactivationIsReported
  BY <1>1, <1>4, HandlersKeepTheHandle DEF DeactivationIsReported, Callback
<1>5. CASE SelectResultIsReported
  BY <1>1, <1>5, HandlersKeepTheHandle DEF SelectResultIsReported, Callback
<1>6. CASE T3tSteps
  BY <1>1, <1>6 DEF T3tSteps, T3tBegins, T3tSelects, T3tTimesOut, T3ts
<1>7. CASE AnswerIsReported \/ ~(Reported \/ T3tSteps)
  <2>1. UNCHANGED t3t
    BY <1>7 DEF Next, vars, Reported, AnswerIsReported, PrioSteps, PrioBegins, PrioStopped, PrioDisabled, PrioEnabled,
                PrioStarted, DisableDiscovery, EnableDiscovery, FieldChanges, TimerFires,
                SvcSteps, SvcStopped, SvcDisabled, SvcListensOnly, SvcEnabled, SvcStarted, SvcOff, SvcOffEnd,
                NfaSteps, NfaStops, NfaStarts, NfaPolling, NfaSelects, NfaDeactivates, TargetsAnswer, TargetLost,
                External
  <2> QED
    BY <2>1
<1> QED
  BY <1>2, <1>3, <1>4, <1>5, <1>6, <1>7 DEF Reported

LEMMA WalkBegins == Init => WalkIndInv
<1> SUFFICES ASSUME Init
             PROVE  WalkIndInv
  OBVIOUS
<1>1. nfa.rf = "idle" /\ nfa.q = <<>> /\ tag.told = <<>> /\ tag.idx = 0 /\ tag.stale = FALSE /\ t3t.pc = "idle"
  BY DEF Init
<1>2. First(<<>>) /\ In(<<>>) = {}
  BY QuietIsFirst, InOfNothing DEF Quiet
<1> QED
  BY <1>1, <1>2 DEF WalkIndInv, LinkHolds, Link, Saved, None

LEMMA WalkGoesOn == Walking /\ IndInv /\ WalkIndInv /\ [Next]_vars => WalkIndInv'
<1> SUFFICES ASSUME Walking, IndInv, WalkIndInv, [Next]_vars
             PROVE  WalkIndInv'
  OBVIOUS
<1>1. TypeOK /\ tag \in OwnTags /\ LinkHolds /\ Saved(tag)
  BY OwnInTheState DEF IndInv, WalkIndInv
<1>2. CASE Reported
  <2>1. CASE AnswerIsReported
    BY <1>1, <2>1, AnswerKeepsTheLink DEF WalkIndInv, AnswerIsReported
  <2> QED
    BY <1>1, <1>2, <2>1, ResultKeepsTheLink, ActivationKeepsTheLink, DeactivationKeepsTheLink,
       SelectResultKeepsTheLink DEF WalkIndInv, Reported
<1>3. CASE ~Reported
  <2>1. UNCHANGED tag
    BY <1>3 DEF Next, vars, PrioSteps, PrioBegins, PrioStopped, PrioDisabled, PrioEnabled, PrioStarted,
                DisableDiscovery, EnableDiscovery, FieldChanges, TimerFires,
                SvcSteps, SvcStopped, SvcDisabled, SvcListensOnly, SvcEnabled, SvcStarted, SvcOff, SvcOffEnd,
                T3tSteps, T3tBegins, T3tSelects, T3tTimesOut, NfaSteps, NfaStops, NfaStarts, NfaPolling, NfaSelects,
                NfaDeactivates, TargetsAnswer, TargetLost, External
  <2> SUFFICES LinkHolds'
    BY <1>1, <2>1 DEF WalkIndInv
  <2>2. CASE PrioSteps \/ SvcSteps \/ DisableDiscovery \/ \E m \in Modes : EnableDiscovery(m)
    BY <1>1, <2>2, ThreadsKeepTheLink
  <2>3. CASE T3tSteps
    BY <1>1, <2>3, T3tKeepsTheLink
  <2>4. CASE NfaSteps
    BY <1>1, <2>4, NfaKeepsTheLink DEF Walking
  <2>5. CASE TimerFires \/ (\E f \in Fields : FieldChanges(f)) \/ UNCHANGED vars
    <3>1. UNCHANGED <<nfa, tag, t3t>>
      BY <2>5 DEF TimerFires, FieldChanges, vars
    <3> QED
      BY <1>1, <3>1, OthersKeepTheLink
  <2> QED
    BY <1>3, <2>2, <2>3, <2>4, <2>5 DEF Next
<1> QED
  BY <1>2, <1>3

\* Link says of the queue what WalkInv says of its places.
LEMMA WalkMeans == TypeOK /\ WalkIndInv => WalkInv /\ ToldTagIsLeftAlone
<1> SUFFICES ASSUME TypeOK, WalkIndInv
             PROVE  WalkInv /\ ToldTagIsLeftAlone
  OBVIOUS
<1>1. DOMAIN nfa.q = 1..Len(nfa.q)
  BY DEF TypeOK, Controllers
<1>2. LinkHolds /\ Saved(tag)
  BY DEF WalkIndInv
<1>3. \A c : Asked(c) <=> ~None(nfa.q, c)
  BY <1>1 DEF Asked, None, In
<1>4. \A i \in DOMAIN nfa.q : nfa.q[i] \in In(nfa.q)
  BY <1>1 DEF In
<1>5. EventsComeFirst
  BY <1>1, <1>2 DEF EventsComeFirst, LinkHolds, Link, First
<1>6. EventsAreOfTheLink
  BY <1>2, <1>4 DEF EventsAreOfTheLink, LinkHolds, Link
<1>7. ToldUntilGone
  <2>1. ~None(nfa.q, "ACTIVATED") => tag.told = <<>>
    BY <1>2 DEF None, LinkHolds, Link
  <2> QED
    BY <1>2, <1>3, <2>1 DEF ToldUntilGone, LinkHolds, Link
<1>8. OneSleep
  BY <1>1, <1>2, <1>3 DEF OneSleep, LinkHolds, Link, OnlyOne
<1>9. OneSelect
  BY <1>1, <1>2, <1>3 DEF OneSelect, LinkHolds, Link, OnlyOne
<1>10. SavedIsThere
  BY <1>2 DEF SavedIsThere, Saved
<1>11. ToldTagIsLeftAlone
  BY <1>2, <1>3 DEF ToldTagIsLeftAlone, LinkHolds, Link
<1> QED
  BY <1>5, <1>6, <1>7, <1>8, <1>9, <1>10, <1>11 DEF WalkInv
-----------------------------------------------------------------------------
(* The theorems.                                                           *)

\* IndInv holds in every state: what is typed stays typed, whatever is near the reader.
THEOREM Invariance == Spec => []IndInv
BY Initially, Steps, PTL DEF Spec

\* Every variable keeps its type, for every length of the technology arrays: the entries that
\* discoverTechnologies writes, and those that selectP2p, selectFirstTag and selectNextTag read,
\* are inside the arrays or the one behind them.
THEOREM TypeCorrect == Spec => []TypeOK
<1>1. IndInv => TypeOK
  BY DEF IndInv
<1> QED
  BY <1>1, Invariance, PTL

\* For every thread that waits on sNfaEnableDisablePollingEvent an order or an answer is under
\* way, however many threads the multiprotocol logic has started.
THEOREM ThreadsAreAnswered == Spec => []WaitersAreAnswered
<1>1. IndInv => WaitersAreAnswered
  BY DEF IndInv
<1> QED
  BY <1>1, Invariance, PTL

\* What the service is told of an entry is that entry's: the bytes that fillNativeNfcTagMembers
\* kept from earlier activations are never those of another target, whatever was discovered,
\* activated, refused or lost in between, however long the arrays are.
THEOREM BytesAreOfTheirEntries == Spec => []BytesAreTheirs
<1>1. IndInv => BytesAreTheirs
  BY DEF IndInv
<1> QED
  BY <1>1, Invariance, PTL

\* Until pollT3TThread has first been started, whatever the order of threads, targets and timers,
\* both invariants hold; under Prompt they hold with that thread at work too.
THEOREM WalkInvariance == Spec => [](IndInv /\ (Walking => WalkIndInv))
<1>1. Init => IndInv /\ (Walking => WalkIndInv)
  BY Initially, WalkBegins
<1>2. IndInv /\ (Walking => WalkIndInv) /\ [Next]_vars => (IndInv /\ (Walking => WalkIndInv))'
  <2> SUFFICES ASSUME IndInv, Walking => WalkIndInv, [Next]_vars
               PROVE  IndInv' /\ (Walking' => WalkIndInv')
    OBVIOUS
  <2>1. Walking' => Walking
    BY WalkedBefore DEF Walking
  <2> QED
    BY <2>1, Steps, WalkGoesOn
<1> QED
  BY <1>1, <1>2, PTL DEF Spec

\* However many targets are discovered, lost and found again: the types, the threads and the
\* saved array (EntriesAreSaved) in every state, and where pollT3TThread has not run (or under
\* Prompt) the walk over the discovered targets (SleepForNext, selectNextTag) is over before the
\* service is told of a tag: no request of it is under way while that tag is active, and no
\* report is taken for another target's.
THEOREM DiscoveryIsSound == Spec => []DiscoveryInv
<1>1. IndInv /\ (Walking => WalkIndInv) => DiscoveryInv
  BY WalkMeans DEF IndInv, DiscoveryInv, Walking
<1> QED
  BY <1>1, WalkInvariance, PTL

\* Where pollT3TThread has not run, or under Prompt, the active target is the last the service was
\* told of, for every length of the technology arrays (unless they were full before its activation),
\* and what createNativeNfcTag takes from the saved array has not been given back
\* (fillNativeNfcTagMembers3 and 4, deleteglobaldata).
THEOREM ToldOfTheActive == Spec => [](Prompt \/ t3t.h = 0 => ToldOfTheActiveTag)
<1>1. IndInv /\ (Walking => WalkIndInv) => (Prompt \/ t3t.h = 0 => ToldOfTheActiveTag)
  BY DEF IndInv, Walking, WalkIndInv, Saved, LinkHolds, Link, ToldOfTheActiveTag
<1> QED
  BY <1>1, WalkInvariance, PTL
=============================================================================
