--------------------------- MODULE Pairing_proofs ---------------------------
(***************************************************************************)
(* Proofs about the connect form, the lists it shares with the other pages *)
(* of a browser and the route, for any pages, relays and devices and any   *)
(* limits of the lists.                                                    *)
(***************************************************************************)
EXTENDS Pairing, SequenceTheorems, FiniteSetTheorems, WellFoundedInduction, TLAPS

-----------------------------------------------------------------------------
(* Induction over the naturals, for a set of them.                         *)

LEMMA Least ==
  ASSUME NEW T, T \in SUBSET Nat, T # {}
  PROVE  \E x \in T : \A y \in T : x <= y
<1> DEFINE Below == {p \in Nat \X Nat : p[1] < p[2]}
<1>1. IsWellFoundedOn(Below, Nat)
  BY NatLessThanWellFounded, Zenon DEF OpToRel
<1>2. PICK x \in T : \A y \in T : ~(<<y, x>> \in Below)
  <2> HIDE DEF Below
  <2> QED BY <1>1, WFMin, Zenon
<1>3. ASSUME NEW y \in T PROVE x <= y
  <2>1. ~(<<y, x>> \in Below)
    BY <1>2
  <2>2. x \in Nat /\ y \in Nat
    OBVIOUS
  <2> QED BY <2>1, <2>2
<1> QED BY <1>3

LEMMA Induction ==
  ASSUME NEW T, 0 \in T, \A n \in Nat : n \in T => n + 1 \in T
  PROVE  Nat \subseteq T
<1> SUFFICES ASSUME NEW k \in Nat, k \notin T PROVE FALSE
  OBVIOUS
<1> DEFINE U == {n \in Nat : n \notin T}
<1>1. U \in SUBSET Nat /\ U # {}
  OBVIOUS
<1>2. PICK x \in U : \A y \in U : x <= y
  BY <1>1, Least
<1>3. x # 0 /\ x - 1 \in Nat /\ x - 1 \in T
  BY <1>2
<1>4. x \in T
  BY <1>3
<1> QED BY <1>4

-----------------------------------------------------------------------------
(* Filtering a list, as far as its first n elements.                       *)

Keeps(g, n, s, X) ==
  g = [i \in 0..n |-> IF i = 0 THEN << >> ELSE IF s[i] \in X THEN g[i - 1] ELSE Append(g[i - 1], s[i])]

LEMMA KeepsExist ==
  ASSUME NEW s, NEW X, NEW n \in Nat
  PROVE  \E g : Keeps(g, n, s, X)
<1> DEFINE T == {k \in Nat : \E g : Keeps(g, k, s, X)}
<1>1. 0 \in T
  <2> DEFINE g == [i \in 0..0 |-> << >>]
  <2>1. g = [i \in 0..0 |-> IF i = 0 THEN << >> ELSE IF s[i] \in X THEN g[i - 1] ELSE Append(g[i - 1], s[i])]
    <3>1. \A i \in 0..0 : i = 0
      OBVIOUS
    <3> QED BY <3>1
  <2>2. Keeps(g, 0, s, X)
    BY <2>1 DEF Keeps
  <2> QED BY <2>2
<1>2. ASSUME NEW k \in Nat, k \in T PROVE k + 1 \in T
  <2>1. PICK g : Keeps(g, k, s, X)
    BY <1>2
  <2> DEFINE top == IF s[k + 1] \in X THEN g[k] ELSE Append(g[k], s[k + 1])
             h == [i \in 0..k + 1 |-> IF i = k + 1 THEN top ELSE g[i]]
  <2>2. ASSUME NEW i \in 0..k + 1
        PROVE  h[i] = IF i = 0 THEN << >> ELSE IF s[i] \in X THEN h[i - 1] ELSE Append(h[i - 1], s[i])
    <3>1. CASE i = k + 1
      <4>1. h[i] = top /\ h[k] = g[k] /\ i - 1 = k /\ i # 0
        BY <3>1
      <4> QED BY <3>1, <4>1
    <3>2. CASE i # k + 1
      <4>1. i \in 0..k /\ h[i] = g[i]
        BY <3>2
      <4>2. g[i] = IF i = 0 THEN << >> ELSE IF s[i] \in X THEN g[i - 1] ELSE Append(g[i - 1], s[i])
        BY <2>1, <4>1 DEF Keeps
      <4>3. i # 0 => i - 1 \in 0..k + 1 /\ i - 1 # k + 1
        BY <4>1
      <4>4. i # 0 => h[i - 1] = g[i - 1]
        BY <4>3
      <4> QED BY <4>1, <4>2, <4>4
    <3> QED BY <3>1, <3>2
  <2>3. h = [i \in 0..k + 1 |-> h[i]]
    OBVIOUS
  <2> HIDE DEF h
  <2>4. Keeps(h, k + 1, s, X)
    BY <2>2, <2>3 DEF Keeps
  <2> QED BY <2>4
<1>3. Nat \subseteq T
  <2> HIDE DEF T
  <2> QED BY <1>1, <1>2, Induction
<1> QED BY <1>3

LEMMA DropKeeps ==
  ASSUME NEW s, NEW X, Len(s) \in Nat
  PROVE  \E g : Keeps(g, Len(s), s, X) /\ Drop(s, X) = g[Len(s)]
<1> DEFINE c == CHOOSE g : Keeps(g, Len(s), s, X)
<1>1. Keeps(c, Len(s), s, X)
  BY KeepsExist
<1>2. Drop(s, X) = c[Len(s)]
  BY DEF Drop, Keeps
<1> QED BY <1>1, <1>2

\* z is what is left of the first k elements of s: all but those in X, in their order.
LeftOf(z, k, s, X, S) ==
  /\ z \in Seq(S) /\ Len(z) <= k
  /\ \A i \in 1..Len(z) : \E a \in 1..k : z[i] = s[a] /\ s[a] \notin X
  /\ \A i, j \in 1..Len(z) : i < j => \E a, b \in 1..k : a < b /\ z[i] = s[a] /\ z[j] = s[b]
  /\ \A a \in 1..k : s[a] \notin X => \E i \in 1..Len(z) : z[i] = s[a]
  /\ (\E a \in 1..k : s[a] \in X) => Len(z) < k
  /\ (\A a \in 1..k : s[a] \notin X) => Len(z) = k /\ \A i \in 1..k : z[i] = s[i]

LEMMA LeftNext ==
  ASSUME NEW S, NEW s, NEW X, NEW k \in Nat, NEW z, LeftOf(z, k, s, X, S), s[k + 1] \in S
  PROVE  LeftOf(IF s[k + 1] \in X THEN z ELSE Append(z, s[k + 1]), k + 1, s, X, S)
<1> DEFINE d == s[k + 1]
<1>1. Len(z) \in Nat /\ k + 1 \in 1..k + 1 /\ \A a \in 1..k + 1 : a \in 1..k \/ a = k + 1
  BY LenProperties DEF LeftOf
<1>2. \A a \in 1..k : a \in 1..k + 1
  OBVIOUS
<1>3. CASE d \in X
  BY <1>1, <1>2, <1>3 DEF LeftOf
<1>4. CASE d \notin X
  <2> DEFINE y == Append(z, d)
             n == Len(z) + 1
  <2>1. /\ y \in Seq(S) /\ Len(y) = n /\ y[n] = d /\ \A i \in 1..Len(z) : y[i] = z[i]
        /\ \A i \in 1..n : i \in 1..Len(z) \/ i = n
        /\ n \in 1..n /\ \A i \in 1..Len(z) : i \in 1..n
    BY <1>1, AppendProperties DEF LeftOf
  <2> HIDE DEF y, d
  <2>0. /\ \A i \in 1..Len(z) : \E a \in 1..k : z[i] = s[a] /\ s[a] \notin X
        /\ \A i, j \in 1..Len(z) : i < j => \E a, b \in 1..k : a < b /\ z[i] = s[a] /\ z[j] = s[b]
    BY DEF LeftOf
  <2>2. ASSUME NEW i \in 1..n
        PROVE  \E a \in 1..k + 1 : y[i] = s[a] /\ s[a] \notin X
    <3>1. CASE i \in 1..Len(z)
      <4>1. PICK a \in 1..k : z[i] = s[a] /\ s[a] \notin X
        BY <2>0, <3>1
      <4> QED BY <1>2, <2>1, <3>1, <4>1
    <3>2. CASE i = n
      BY <1>1, <1>4, <2>1, <3>2 DEF d
    <3> QED BY <2>1, <3>1, <3>2
  <2>3. ASSUME NEW i \in 1..n, NEW j \in 1..n, i < j
        PROVE  \E a, b \in 1..k + 1 : a < b /\ y[i] = s[a] /\ y[j] = s[b]
    <3>1. CASE j \in 1..Len(z)
      <4>1. i \in 1..Len(z)
        BY <1>1, <2>3, <3>1
      <4>2. PICK a \in 1..k, b \in 1..k : a < b /\ z[i] = s[a] /\ z[j] = s[b]
        BY <2>0, <2>3, <3>1, <4>1
      <4>3. a \in 1..k + 1 /\ b \in 1..k + 1 /\ y[i] = s[a] /\ y[j] = s[b]
        BY <1>2, <2>1, <3>1, <4>1, <4>2
      <4> QED BY <4>2, <4>3
    <3>2. CASE j = n
      <4>1. i \in 1..Len(z)
        BY <1>1, <2>3, <3>2
      <4>2. PICK a \in 1..k : z[i] = s[a]
        BY <4>1 DEF LeftOf
      <4>3. a < k + 1
        OBVIOUS
      <4> QED BY <1>1, <1>2, <2>1, <3>2, <4>1, <4>2, <4>3 DEF d
    <3> QED BY <2>1, <3>1, <3>2
  <2>4. \A a \in 1..k + 1 : s[a] \notin X => \E i \in 1..n : y[i] = s[a]
    BY <1>1, <2>1 DEF LeftOf, d
  <2>5. Len(y) <= k + 1 /\ ((\E a \in 1..k + 1 : s[a] \in X) => Len(y) < k + 1)
    BY <1>1, <1>4, <2>1 DEF LeftOf, d
  <2>6. (\A a \in 1..k + 1 : s[a] \notin X) => Len(y) = k + 1 /\ \A i \in 1..k + 1 : y[i] = s[i]
    BY <1>1, <1>2, <2>1 DEF LeftOf, d
  <2>7. LeftOf(y, k + 1, s, X, S)
    BY <2>1, <2>2, <2>3, <2>4, <2>5, <2>6 DEF LeftOf
  <2> QED BY <1>4, <2>7 DEF y, d
<1> QED BY <1>3, <1>4

LEMMA DropFacts ==
  ASSUME NEW S, NEW s \in Seq(S), NEW X
  PROVE  LeftOf(Drop(s, X), Len(s), s, X, S)
<1>1. Len(s) \in Nat /\ \A i \in 1..Len(s) : s[i] \in S
  BY LenProperties, ElementOfSeq
<1>2. PICK g : Keeps(g, Len(s), s, X) /\ Drop(s, X) = g[Len(s)]
  BY <1>1, DropKeeps
<1> DEFINE T == {k \in Nat : k <= Len(s) => LeftOf(g[k], k, s, X, S)}
<1>3. 0 \in T
  <2>1. g[0] = << >>
    BY <1>1, <1>2 DEF Keeps
  <2>2. << >> \in Seq(S) /\ Len(<< >>) = 0 /\ \A i \in 1..0 : FALSE
    BY EmptySeq
  <2>3. LeftOf(<< >>, 0, s, X, S)
    BY <2>2 DEF LeftOf
  <2> QED BY <2>1, <2>3
<1>4. ASSUME NEW k \in Nat, k \in T PROVE k + 1 \in T
  <2> SUFFICES ASSUME k + 1 <= Len(s) PROVE LeftOf(g[k + 1], k + 1, s, X, S)
    OBVIOUS
  <2>1. LeftOf(g[k], k, s, X, S) /\ k + 1 \in 0..Len(s) /\ k + 1 \in 1..Len(s) /\ k + 1 # 0 /\ (k + 1) - 1 = k
    BY <1>1, <1>4
  <2>2. g[k + 1] = IF s[k + 1] \in X THEN g[k] ELSE Append(g[k], s[k + 1])
    BY <1>2, <2>1 DEF Keeps
  <2> QED BY <1>1, <2>1, <2>2, LeftNext
<1>5. Nat \subseteq T
  <2> HIDE DEF T
  <2> QED BY <1>3, <1>4, Induction
<1> QED BY <1>1, <1>2, <1>5

-----------------------------------------------------------------------------
(* Putting an element in front of a list of at most n.                     *)

LEMMA ClipFacts ==
  ASSUME NEW S, NEW s \in Seq(S), NEW n \in Nat
  PROVE  /\ Clip(s, n) \in Seq(S) /\ Len(Clip(s, n)) = IF Len(s) < n THEN Len(s) ELSE n
         /\ \A i \in 1..Len(Clip(s, n)) : Clip(s, n)[i] = s[i] /\ i \in 1..Len(s)
<1> DEFINE k == IF Len(s) < n THEN Len(s) ELSE n
<1>1. Len(s) \in Nat /\ k \in Nat /\ k <= Len(s) /\ \A i \in 1..Len(s) : s[i] \in S
  BY LenProperties, ElementOfSeq
<1>2. 1 \in Int /\ k \in Int /\ \A i \in 1..k : s[i] \in S /\ i \in 1..Len(s)
  BY <1>1
<1>3. Clip(s, n) = SubSeq(s, 1, k)
  BY DEF Clip
<1> HIDE DEF k
<1>4. /\ SubSeq(s, 1, k) \in Seq(S) /\ Len(SubSeq(s, 1, k)) = (IF 1 <= k THEN k - 1 + 1 ELSE 0)
      /\ \A i \in 1..k - 1 + 1 : SubSeq(s, 1, k)[i] = s[1 + i - 1]
  BY <1>2, SubSeqProperties
<1>5. Len(SubSeq(s, 1, k)) = k /\ \A i \in 1..k : i \in 1..k - 1 + 1 /\ 1 + i - 1 = i
  BY <1>1, <1>4
<1>6. \A i \in 1..k : SubSeq(s, 1, k)[i] = s[i]
  BY <1>4, <1>5
<1> QED BY <1>2, <1>3, <1>4, <1>5, <1>6 DEF k

\* y is c and then s without what is in X; only the last of a full list may be pushed out.
Renewed(y, s, c, X, n, S) ==
  /\ y \in Seq(S) /\ Len(y) <= n /\ y[1] = c /\ 1 \in 1..Len(y)
  /\ \A i \in 2..Len(y) : \E a \in 1..Len(s) : y[i] = s[a] /\ s[a] \notin X
  /\ \A i, j \in 2..Len(y) : i < j => \E a, b \in 1..Len(s) : a < b /\ y[i] = s[a] /\ y[j] = s[b]
  /\ \A a \in 1..Len(s) : s[a] \notin X =>
       \/ \E i \in 1..Len(y) : y[i] = s[a]
       \/ a = Len(s) /\ Len(s) = n /\ Len(y) = n /\ \A b \in 1..Len(s) : s[b] \notin X
  /\ (\A b \in 1..Len(s) : s[b] \notin X) =>
       Len(y) = (IF Len(s) + 1 < n THEN Len(s) + 1 ELSE n) /\ \A i \in 2..Len(y) : y[i] = s[i - 1]

LEMMA RenewFacts ==
  ASSUME NEW S, NEW s \in Seq(S), NEW c \in S, NEW X, NEW n \in Nat \ {0}, Len(s) <= n
  PROVE  Renewed(Clip(<<c>> \o Drop(s, X), n), s, c, X, n, S)
<1> DEFINE z == Drop(s, X)
           y == Clip(<<c>> \o z, n)
<1>1. LeftOf(z, Len(s), s, X, S) /\ Len(s) \in Nat
  BY DropFacts, LenProperties
<1> HIDE DEF z
<1>2. z \in Seq(S) /\ Len(z) <= Len(s) /\ Len(z) \in Nat
  BY <1>1, LenProperties DEF LeftOf
<1>3. /\ y \in Seq(S) /\ Len(y) = (IF Len(z) + 1 < n THEN Len(z) + 1 ELSE n)
      /\ y[1] = c /\ 1 \in 1..Len(y)
      /\ \A i \in 2..Len(y) : i - 1 \in 1..Len(z) /\ y[i] = z[i - 1]
  <2> DEFINE w == <<c>> \o z
  <2>1. <<c>> \in Seq(S) /\ Len(<<c>>) = 1 /\ <<c>>[1] = c
    OBVIOUS
  <2>2. /\ w \in Seq(S) /\ Len(w) = 1 + Len(z) /\ Len(z) \in Nat
        /\ \A i \in 1..1 + Len(z) : w[i] = IF i <= 1 THEN <<c>>[i] ELSE z[i - 1]
    BY <1>2, <2>1, ConcatProperties, LenProperties
  <2> HIDE DEF w
  <2>3. y = Clip(w, n)
    BY DEF w
  <2> HIDE DEF y
  <2>4. /\ y \in Seq(S) /\ Len(y) = (IF Len(w) < n THEN Len(w) ELSE n)
        /\ \A i \in 1..Len(y) : y[i] = w[i] /\ i \in 1..Len(w)
    BY <2>3, <2>2, ClipFacts
  <2>5. Len(y) = (IF Len(z) + 1 < n THEN Len(z) + 1 ELSE n) /\ 1 \in 1..Len(y)
    BY <2>2, <2>4
  <2>6. y[1] = c
    BY <2>1, <2>2, <2>4, <2>5
  <2>7. ASSUME NEW i \in 2..Len(y)
        PROVE  i - 1 \in 1..Len(z) /\ y[i] = z[i - 1]
    <3>1. i \in 1..Len(y) /\ ~(i <= 1)
      BY <2>5
    <3>2. y[i] = w[i] /\ i \in 1..1 + Len(z)
      BY <2>2, <2>4, <3>1
    <3> QED BY <2>2, <3>1, <3>2
  <2> QED BY <2>4, <2>5, <2>6, <2>7
<1> HIDE DEF y
<1>4. \A i \in 2..Len(y) : \E a \in 1..Len(s) : y[i] = s[a] /\ s[a] \notin X
  <2> SUFFICES ASSUME NEW i \in 2..Len(y) PROVE \E a \in 1..Len(s) : y[i] = s[a] /\ s[a] \notin X
    OBVIOUS
  <2>1. i - 1 \in 1..Len(z) /\ y[i] = z[i - 1]
    BY <1>3
  <2>2. PICK a \in 1..Len(s) : z[i - 1] = s[a] /\ s[a] \notin X
    BY <1>1, <2>1 DEF LeftOf
  <2> QED BY <2>1, <2>2
<1>5. \A i, j \in 2..Len(y) : i < j => \E a, b \in 1..Len(s) : a < b /\ y[i] = s[a] /\ y[j] = s[b]
  <2> SUFFICES ASSUME NEW i \in 2..Len(y), NEW j \in 2..Len(y), i < j
               PROVE  \E a, b \in 1..Len(s) : a < b /\ y[i] = s[a] /\ y[j] = s[b]
    OBVIOUS
  <2>1. /\ i - 1 \in 1..Len(z) /\ y[i] = z[i - 1] /\ j - 1 \in 1..Len(z) /\ y[j] = z[j - 1]
        /\ i - 1 < j - 1
    BY SMTT(30), <1>3
  <2>2. PICK a \in 1..Len(s), b \in 1..Len(s) : a < b /\ z[i - 1] = s[a] /\ z[j - 1] = s[b]
    BY <1>1, <2>1 DEF LeftOf
  <2> QED BY <2>1, <2>2
<1>6. ASSUME NEW a \in 1..Len(s), s[a] \notin X, ~\E i \in 1..Len(y) : y[i] = s[a]
      PROVE  a = Len(s) /\ Len(s) = n /\ Len(y) = n /\ \A b \in 1..Len(s) : s[b] \notin X
  <2>1. PICK k \in 1..Len(z) : z[k] = s[a]
    BY <1>1, <1>6 DEF LeftOf
  <2>2. ~(k + 1 \in 2..Len(y))
    <3>1. ASSUME k + 1 \in 2..Len(y) PROVE FALSE
      <4>1. y[k + 1] = z[(k + 1) - 1] /\ (k + 1) - 1 = k /\ k + 1 \in 1..Len(y)
        BY <1>3, <3>1
      <4> QED BY <1>6, <2>1, <4>1
    <3> QED BY <3>1
  <2>3. k = n /\ Len(z) = n /\ Len(s) = n /\ Len(y) = n
    BY <1>1, <1>2, <1>3, <2>2
  <2>4. \A b \in 1..Len(s) : s[b] \notin X
    BY <1>1, <2>3 DEF LeftOf
  <2>5. \A i \in 1..Len(s) : z[i] = s[i]
    BY <1>1, <2>4 DEF LeftOf
  <2>6. a = n
    <3>1. ASSUME a # n PROVE FALSE
      <4>1. a + 1 \in 2..Len(y) /\ (a + 1) - 1 = a /\ a + 1 \in 1..Len(y)
        BY <2>3, <3>1
      <4>2. y[a + 1] = z[a]
        BY <1>3, <4>1
      <4> QED BY <1>6, <2>5, <4>1, <4>2
    <3> QED BY <3>1
  <2> QED BY <2>3, <2>4, <2>6
<1>7. ASSUME \A b \in 1..Len(s) : s[b] \notin X
      PROVE  Len(y) = (IF Len(s) + 1 < n THEN Len(s) + 1 ELSE n) /\ \A i \in 2..Len(y) : y[i] = s[i - 1]
  <2>1. Len(z) = Len(s) /\ \A i \in 1..Len(s) : z[i] = s[i]
    BY <1>1, <1>7 DEF LeftOf
  <2> QED BY <1>3, <2>1
<1>8. Len(y) <= n
  BY <1>2, <1>3
<1>9. Renewed(y, s, c, X, n, S)
  BY <1>3, <1>4, <1>5, <1>6, <1>7, <1>8 DEF Renewed
<1> QED BY <1>9 DEF y, z

-----------------------------------------------------------------------------
(* The lists of relays and of paired devices.                              *)

RelayList(s) == s \in Seq(Relay) /\ Len(s) <= MaxRelays /\ Distinct(s, Itself)
ConnList(s)  == s \in Seq(Conn) /\ Len(s) <= MaxSaved /\ Distinct(s, Url)

\* How a list loses r to a newcomer c: it was the last of a full list.
PushedOut(s, y, r, c, n) ==
  /\ c \in Listed(y) /\ c \notin Listed(s) /\ Len(s) = n /\ Len(y) = n
  /\ s # << >> /\ r = s[Len(s)]

LEMMA AddedFacts ==
  ASSUME NEW s, RelayList(s), NEW r \in Relay
  PROVE  /\ RelayList(Added(s, r)) /\ r \in Listed(Added(s, r))
         /\ \A q \in Listed(s) \ Listed(Added(s, r)) : PushedOut(s, Added(s, r), q, r, MaxRelays)
         /\ r \notin Listed(s) =>
              /\ Added(s, r)[1] = r /\ 1 \in 1..Len(Added(s, r))
              /\ Len(Added(s, r)) = (IF Len(s) + 1 < MaxRelays THEN Len(s) + 1 ELSE MaxRelays)
              /\ \A i \in 2..Len(Added(s, r)) : Added(s, r)[i] = s[i - 1]
<1> DEFINE y == Added(s, r)
<1>1. Renewed(y, s, r, {r}, MaxRelays, Relay) /\ MaxRelays \in Nat \ {0} /\ Len(s) \in Nat
  BY RenewFacts, LimitsAssumption, LenProperties DEF RelayList, Added, Without
<1> HIDE DEF y
<1>2. Len(y) \in Nat
  BY <1>1, LenProperties DEF Renewed
<1>3. RelayList(y)
  <2>1. ASSUME NEW i \in 1..Len(y), NEW j \in 1..Len(y), y[i] = y[j], i < j
        PROVE  FALSE
    <3>1. CASE i = 1
      <4>1. j \in 2..Len(y) /\ y[i] = r
        BY <1>1, <1>2, <2>1, <3>1 DEF Renewed
      <4>2. PICK a \in 1..Len(s) : y[j] = s[a] /\ s[a] \notin {r}
        BY <1>1, <4>1 DEF Renewed
      <4> QED BY <2>1, <4>1, <4>2
    <3>2. CASE i # 1
      <4>1. i \in 2..Len(y) /\ j \in 2..Len(y)
        BY <1>2, <2>1, <3>2
      <4>2. PICK a \in 1..Len(s), b \in 1..Len(s) : a < b /\ y[i] = s[a] /\ y[j] = s[b]
        BY <1>1, <2>1, <4>1 DEF Renewed
      <4>3. a = b
        BY <2>1, <4>2 DEF RelayList, Distinct, Itself
      <4> QED BY <4>2, <4>3
    <3> QED BY <3>1, <3>2
  <2>2. \A i, j \in 1..Len(y) : y[i] = y[j] => i = j
    BY <1>2, <2>1
  <2> QED BY <1>1, <2>2 DEF Renewed, RelayList, Distinct, Itself
<1>4. r \in Listed(y)
  BY <1>1 DEF Renewed, Listed
<1>5. ASSUME NEW q \in Listed(s), q \notin Listed(y)
      PROVE  PushedOut(s, y, q, r, MaxRelays)
  <2>1. PICK a \in 1..Len(s) : q = s[a]
    BY <1>5 DEF Listed
  <2>2. s[a] \notin {r} /\ ~\E i \in 1..Len(y) : y[i] = s[a]
    BY <1>4, <1>5, <2>1 DEF Listed
  <2>3. a = Len(s) /\ Len(s) = MaxRelays /\ Len(y) = MaxRelays /\ \A b \in 1..Len(s) : s[b] \notin {r}
    BY <1>1, <2>2 DEF Renewed
  <2>4. r \notin Listed(s) /\ s # << >>
    BY <1>1, <2>3 DEF Listed
  <2> QED BY <1>4, <2>1, <2>3, <2>4 DEF PushedOut
<1>6. ASSUME r \notin Listed(s)
      PROVE  /\ y[1] = r /\ 1 \in 1..Len(y)
             /\ Len(y) = (IF Len(s) + 1 < MaxRelays THEN Len(s) + 1 ELSE MaxRelays)
             /\ \A i \in 2..Len(y) : y[i] = s[i - 1]
  <2>1. \A b \in 1..Len(s) : s[b] \notin {r}
    BY <1>6 DEF Listed
  <2> QED BY <1>1, <2>1 DEF Renewed
<1> QED BY <1>3, <1>4, <1>5, <1>6 DEF y

LEMMA WithoutFacts ==
  ASSUME NEW s, RelayList(s), NEW r
  PROVE  RelayList(Without(s, r)) /\ Listed(Without(s, r)) = Listed(s) \ {r}
<1> DEFINE z == Without(s, r)
<1>1. LeftOf(z, Len(s), s, {r}, Relay) /\ Len(s) \in Nat
  BY DropFacts, LenProperties DEF RelayList, Without
<1> HIDE DEF z
<1>2. Len(z) \in Nat
  BY <1>1, LenProperties DEF LeftOf
<1>3. ASSUME NEW i \in 1..Len(z), NEW j \in 1..Len(z), z[i] = z[j], i < j
      PROVE  FALSE
  <2>1. PICK a \in 1..Len(s), b \in 1..Len(s) : a < b /\ z[i] = s[a] /\ z[j] = s[b]
    BY <1>1, <1>3 DEF LeftOf
  <2>2. a = b
    BY <1>3, <2>1 DEF RelayList, Distinct, Itself
  <2> QED BY <2>1, <2>2
<1>4. \A i, j \in 1..Len(z) : z[i] = z[j] => i = j
  BY <1>2, <1>3
<1>5. RelayList(z)
  <2>1. z \in Seq(Relay) /\ Len(z) <= Len(s) /\ Len(s) <= MaxRelays
    BY <1>1 DEF LeftOf, RelayList
  <2> QED BY <1>1, <1>2, <1>4, <2>1, LimitsAssumption DEF RelayList, Distinct, Itself
<1>6. Listed(z) = Listed(s) \ {r}
  <2>1. ASSUME NEW i \in 1..Len(z) PROVE z[i] \in Listed(s) \ {r}
    <3>1. PICK a \in 1..Len(s) : z[i] = s[a] /\ s[a] \notin {r}
      BY <1>1 DEF LeftOf
    <3> QED BY <3>1 DEF Listed
  <2>2. ASSUME NEW a \in 1..Len(s), s[a] # r PROVE s[a] \in Listed(z)
    <3>1. \A b \in 1..Len(s) : s[b] \notin {r} => \E i \in 1..Len(z) : z[i] = s[b]
      BY <1>1 DEF LeftOf
    <3>2. PICK i \in 1..Len(z) : z[i] = s[a]
      BY <2>2, <3>1
    <3> QED BY <3>2 DEF Listed
  <2> QED BY <2>1, <2>2 DEF Listed
<1> QED BY <1>5, <1>6 DEF z

LEMMA UrlOf == \A c : Url(c) = c.url
BY DEF Url

LEMMA SavedFacts ==
  ASSUME NEW s, ConnList(s), NEW c \in Conn
  PROVE  /\ ConnList(SavedWith(s, c)) /\ Listed(SavedWith(s, c)) \subseteq Listed(s) \cup {c}
         /\ \A d \in Listed(s) \ Listed(SavedWith(s, c)) :
              \/ PushedOut(s, SavedWith(s, c), d, c, MaxSaved)
              \/ c \in Listed(SavedWith(s, c)) \ Listed(s) /\ c.url = d.url
<1> DEFINE y == SavedWith(s, c)
           X == SameUrl(s, c)
<1>1. Renewed(y, s, c, X, MaxSaved, Conn) /\ MaxSaved \in Nat \ {0} /\ Len(s) \in Nat
  BY RenewFacts, LimitsAssumption, LenProperties DEF ConnList, SavedWith
<1>2. \A a \in 1..Len(s) : s[a] \in X <=> s[a].url = c.url
  BY DEF SameUrl, Listed
<1> HIDE DEF y, X
<1>3. Len(y) \in Nat
  BY <1>1, LenProperties DEF Renewed
<1>4. \A a, b \in 1..Len(s) : s[a].url = s[b].url => a = b
  BY UrlOf DEF ConnList, Distinct
<1>5. ConnList(y)
  <2>1. ASSUME NEW i \in 1..Len(y), NEW j \in 1..Len(y), y[i].url = y[j].url, i < j
        PROVE  FALSE
    <3>1. CASE i = 1
      <4>1. j \in 2..Len(y) /\ y[i] = c
        BY <1>1, <1>3, <2>1, <3>1 DEF Renewed
      <4>2. PICK a \in 1..Len(s) : y[j] = s[a] /\ s[a] \notin X
        BY <1>1, <4>1 DEF Renewed
      <4> QED BY <1>2, <2>1, <4>1, <4>2
    <3>2. CASE i # 1
      <4>1. i \in 2..Len(y) /\ j \in 2..Len(y)
        BY <1>3, <2>1, <3>2
      <4>2. PICK a \in 1..Len(s), b \in 1..Len(s) : a < b /\ y[i] = s[a] /\ y[j] = s[b]
        BY <1>1, <2>1, <4>1 DEF Renewed
      <4>3. a = b
        BY <1>4, <2>1, <4>2
      <4> QED BY <4>2, <4>3
    <3> QED BY <3>1, <3>2
  <2>2. \A i, j \in 1..Len(y) : y[i].url = y[j].url => i = j
    BY <1>3, <2>1
  <2>3. Distinct(y, Url)
    BY <2>2, UrlOf DEF Distinct
  <2> QED BY <1>1, <2>3 DEF Renewed, ConnList
<1>6. Listed(y) \subseteq Listed(s) \cup {c}
  <2>1. ASSUME NEW i \in 1..Len(y) PROVE y[i] \in Listed(s) \cup {c}
    <3>1. CASE i = 1
      BY <1>1, <3>1 DEF Renewed
    <3>2. CASE i # 1
      <4>1. i \in 2..Len(y)
        BY <1>3, <3>2
      <4> QED BY <1>1, <4>1 DEF Renewed, Listed
    <3> QED BY <3>1, <3>2
  <2> QED BY <2>1 DEF Listed
<1>7. c \in Listed(y)
  BY <1>1 DEF Renewed, Listed
<1>8. ASSUME NEW d \in Listed(s), d \notin Listed(y)
      PROVE  PushedOut(s, y, d, c, MaxSaved) \/ (c \in Listed(y) \ Listed(s) /\ c.url = d.url)
  <2>1. PICK a \in 1..Len(s) : d = s[a]
    BY <1>8 DEF Listed
  <2>2. CASE s[a] \in X
    <3>1. c.url = d.url
      BY <1>2, <2>1, <2>2
    <3>2. c \notin Listed(s)
      <4>1. ASSUME NEW b \in 1..Len(s), c = s[b] PROVE FALSE
        <5>1. a = b
          BY <1>4, <2>1, <3>1, <4>1
        <5> QED BY <1>7, <1>8, <2>1, <4>1, <5>1
      <4> QED BY <4>1 DEF Listed
    <3> QED BY <1>7, <3>1, <3>2
  <2>3. CASE s[a] \notin X
    <3>1. ~\E i \in 1..Len(y) : y[i] = s[a]
      BY <1>8, <2>1 DEF Listed
    <3>2. a = Len(s) /\ Len(s) = MaxSaved /\ Len(y) = MaxSaved /\ \A b \in 1..Len(s) : s[b] \notin X
      BY <1>1, <2>3, <3>1 DEF Renewed
    <3>3. c \notin Listed(s) /\ s # << >>
      BY <1>1, <1>2, <3>2 DEF Listed
    <3> QED BY <1>7, <2>1, <3>2, <3>3 DEF PushedOut
  <2> QED BY <2>2, <2>3
<1> QED BY <1>5, <1>6, <1>8 DEF y

LEMMA ForgetFacts ==
  ASSUME NEW s, ConnList(s), NEW c
  PROVE  /\ ConnList(Drop(s, SameUrl(s, c)))
         /\ Listed(Drop(s, SameUrl(s, c))) = {d \in Listed(s) : d.url # c.url}
<1> DEFINE X == SameUrl(s, c)
           z == Drop(s, X)
<1>1. LeftOf(z, Len(s), s, X, Conn) /\ Len(s) \in Nat
  BY DropFacts, LenProperties DEF ConnList
<1>2. \A a \in 1..Len(s) : s[a] \in X <=> s[a].url = c.url
  BY DEF SameUrl, Listed
<1> HIDE DEF X, z
<1>3. Len(z) \in Nat
  BY <1>1, LenProperties DEF LeftOf
<1>4. \A a, b \in 1..Len(s) : s[a].url = s[b].url => a = b
  BY UrlOf DEF ConnList, Distinct
<1>5. ASSUME NEW i \in 1..Len(z), NEW j \in 1..Len(z), z[i].url = z[j].url, i < j
      PROVE  FALSE
  <2>1. PICK a \in 1..Len(s), b \in 1..Len(s) : a < b /\ z[i] = s[a] /\ z[j] = s[b]
    BY <1>1, <1>5 DEF LeftOf
  <2>2. a = b
    BY <1>4, <1>5, <2>1
  <2> QED BY <2>1, <2>2
<1>6. ConnList(z)
  <2>1. \A i, j \in 1..Len(z) : z[i].url = z[j].url => i = j
    BY <1>3, <1>5
  <2>2. Distinct(z, Url)
    BY <2>1, UrlOf DEF Distinct
  <2>3. z \in Seq(Conn) /\ Len(z) <= Len(s) /\ Len(s) <= MaxSaved
    BY <1>1 DEF LeftOf, ConnList
  <2> QED BY <1>1, <1>3, <2>2, <2>3, LimitsAssumption DEF ConnList
<1>7. Listed(z) = {d \in Listed(s) : d.url # c.url}
  <2>1. ASSUME NEW i \in 1..Len(z) PROVE z[i] \in Listed(s) /\ z[i].url # c.url
    <3>1. PICK a \in 1..Len(s) : z[i] = s[a] /\ s[a] \notin X
      BY <1>1 DEF LeftOf
    <3> QED BY <1>2, <3>1 DEF Listed
  <2>2. ASSUME NEW a \in 1..Len(s), s[a].url # c.url PROVE s[a] \in Listed(z)
    <3>1. s[a] \notin X
      BY <1>2, <2>2
    <3>2. PICK i \in 1..Len(z) : z[i] = s[a]
      BY <1>1, <3>1 DEF LeftOf
    <3> QED BY <3>2 DEF Listed
  <2> QED BY <2>1, <2>2 DEF Listed
<1> QED BY <1>6, <1>7 DEF z, X

-----------------------------------------------------------------------------
(* Importing the relays of the daemon, one by one: what was imported stands *)
(* in front, and behind it the oldest ones are missing.                     *)

Imports(g, n, m, seeds) == g = [i \in 0..n |-> IF i = 0 THEN m ELSE Import(g[i - 1], seeds[i])]

LEMMA ImportsExist ==
  ASSUME NEW m, NEW seeds, NEW n \in Nat
  PROVE  \E g : Imports(g, n, m, seeds)
<1> DEFINE T == {k \in Nat : \E g : Imports(g, k, m, seeds)}
<1>1. 0 \in T
  <2> DEFINE g == [i \in 0..0 |-> m]
  <2>1. g = [i \in 0..0 |-> IF i = 0 THEN m ELSE Import(g[i - 1], seeds[i])]
    <3>1. \A i \in 0..0 : i = 0
      OBVIOUS
    <3> QED BY <3>1
  <2>2. Imports(g, 0, m, seeds)
    BY <2>1 DEF Imports
  <2> QED BY <2>2
<1>2. ASSUME NEW k \in Nat, k \in T PROVE k + 1 \in T
  <2>1. PICK g : Imports(g, k, m, seeds)
    BY <1>2
  <2> DEFINE h == [i \in 0..k + 1 |-> IF i = k + 1 THEN Import(g[k], seeds[k + 1]) ELSE g[i]]
  <2>2. ASSUME NEW i \in 0..k + 1
        PROVE  h[i] = IF i = 0 THEN m ELSE Import(h[i - 1], seeds[i])
    <3>1. CASE i = k + 1
      <4>1. h[i] = Import(g[k], seeds[k + 1]) /\ h[k] = g[k] /\ i - 1 = k /\ i # 0
        BY <3>1
      <4> QED BY <3>1, <4>1
    <3>2. CASE i # k + 1
      <4>1. i \in 0..k /\ h[i] = g[i]
        BY <3>2
      <4>2. g[i] = IF i = 0 THEN m ELSE Import(g[i - 1], seeds[i])
        BY <2>1, <4>1 DEF Imports
      <4>3. i # 0 => i - 1 \in 0..k + 1 /\ i - 1 # k + 1
        BY <4>1
      <4>4. i # 0 => h[i - 1] = g[i - 1]
        BY <4>3
      <4> QED BY <4>1, <4>2, <4>4
    <3> QED BY <3>1, <3>2
  <2>3. h = [i \in 0..k + 1 |-> h[i]]
    OBVIOUS
  <2> HIDE DEF h
  <2>4. Imports(h, k + 1, m, seeds)
    BY <2>2, <2>3 DEF Imports
  <2> QED BY <2>4
<1>3. Nat \subseteq T
  <2> HIDE DEF T
  <2> QED BY <1>1, <1>2, Induction
<1> QED BY <1>3

LEMMA ImportedImports ==
  ASSUME NEW m, NEW seeds, Len(seeds) \in Nat
  PROVE  \E g : Imports(g, Len(seeds), m, seeds) /\ Imported(m, seeds) = g[Len(seeds)]
<1> DEFINE c == CHOOSE g : Imports(g, Len(seeds), m, seeds)
<1>1. Imports(c, Len(seeds), m, seeds)
  BY ImportsExist
<1>2. Imported(m, seeds) = c[Len(seeds)]
  BY DEF Imported, Imports
<1> QED BY <1>1, <1>2

\* The list y holds the first p elements of s behind imported ones, and is full if p is short.
Behind(y, s, p, I) ==
  /\ p \in 0..Len(s) /\ p <= Len(y)
  /\ \A i \in 1..p : y[Len(y) - p + i] = s[i]
  /\ \A i \in 1..Len(y) - p : y[i] \in I
  /\ p < Len(s) => Len(y) = MaxRelays

ImportOK(m, s, I) ==
  /\ RelayList(m.list) /\ m.last \in Relay \cup {None}
  /\ \E p \in 0..Len(s) : Behind(m.list, s, p, I)

LEMMA ImportNext ==
  ASSUME NEW s, RelayList(s), NEW I, NEW m, ImportOK(m, s, I), NEW r \in Relay, r \in I
  PROVE  ImportOK(Import(m, r), s, I)
<1> DEFINE L == m.list
           y == Added(L, r)
<1>1. RelayList(L) /\ Len(L) \in Nat /\ Len(s) \in Nat /\ Len(L) <= MaxRelays /\ MaxRelays \in Nat \ {0}
  BY LenProperties, LimitsAssumption DEF ImportOK, RelayList
<1>2. CASE r \in Listed(L)
  BY <1>2 DEF Import
<1>3. CASE r \notin Listed(L)
  <2>1. Import(m, r) = [list |-> y, last |-> r]
    BY <1>3 DEF Import
  <2>2. /\ RelayList(y) /\ y[1] = r /\ 1 \in 1..Len(y)
        /\ Len(y) = (IF Len(L) + 1 < MaxRelays THEN Len(L) + 1 ELSE MaxRelays)
        /\ \A i \in 2..Len(y) : y[i] = L[i - 1]
    BY <1>1, <1>3, AddedFacts
  <2>3. PICK p \in 0..Len(s) : Behind(L, s, p, I)
    BY DEF ImportOK
  <2> HIDE DEF y, L
  <2> DEFINE q == IF Len(L) < MaxRelays THEN p ELSE IF p = 0 THEN 0 ELSE p - 1
  <2>4. /\ q \in 0..Len(s) /\ q <= Len(y) /\ q <= p /\ Len(y) \in Nat
        /\ p <= Len(L) /\ p \in Nat /\ Len(y) - q >= 1
        /\ q > 0 => Len(y) - q = Len(L) - p + 1
        /\ Len(y) - q <= Len(L) - p + 1
    <3>1. p \in Nat /\ p <= Len(s) /\ p <= Len(L)
      BY <1>1, <2>3 DEF Behind
    <3>2. CASE Len(L) < MaxRelays
      <4>1. q = p
        BY <3>2
      <4>2. Len(y) = Len(L) + 1
        BY <1>1, <2>2, <3>2
      <4> HIDE DEF q
      <4> QED BY <1>1, <3>1, <4>1, <4>2
    <3>3. CASE ~(Len(L) < MaxRelays) /\ p = 0
      BY <1>1, <2>2, <3>1, <3>3
    <3>4. CASE ~(Len(L) < MaxRelays) /\ p # 0
      BY <1>1, <2>2, <3>1, <3>4
    <3> QED BY <3>2, <3>3, <3>4
  <2>5. q < Len(s) => Len(y) = MaxRelays
    BY <1>1, <2>2, <2>3 DEF Behind
  <2> HIDE DEF q
  <2>6. ASSUME NEW i \in 1..q PROVE y[Len(y) - q + i] = s[i]
    <3>1. i \in 1..p /\ q > 0
      BY <1>1, <2>4
    <3>2. y[Len(y) - q + i] = L[Len(L) - p + i]
      <4> DEFINE k == Len(y) - q + i
      <4>1. k \in 2..Len(y) /\ k - 1 = Len(L) - p + i
        BY <1>1, <2>4, <3>1
      <4> HIDE DEF k
      <4>2. y[k] = L[k - 1]
        BY <2>2, <4>1
      <4> QED BY <4>1, <4>2 DEF k
    <3> QED BY <2>3, <3>1, <3>2 DEF Behind
  <2>7. ASSUME NEW i \in 1..Len(y) - q PROVE y[i] \in I
    <3>1. CASE i = 1
      BY <2>2, <3>1
    <3>2. CASE i # 1
      <4>1. i \in 2..Len(y) /\ i - 1 \in 1..Len(L) - p
        BY <1>1, <2>4, <3>2
      <4> QED BY <2>2, <2>3, <4>1 DEF Behind
    <3> QED BY <3>1, <3>2
  <2>8. Behind(y, s, q, I)
    BY <2>4, <2>5, <2>6, <2>7 DEF Behind
  <2> QED BY <2>1, <2>2, <2>4, <2>8 DEF ImportOK
<1> QED BY <1>2, <1>3

LEMMA ImportedFacts ==
  ASSUME NEW s, RelayList(s), NEW l \in Relay \cup {None}, NEW seeds \in Seq(Relay)
  PROVE  ImportOK(Imported([list |-> s, last |-> l], seeds), s, Listed(seeds))
<1> DEFINE m == [list |-> s, last |-> l]
           I == Listed(seeds)
<1>1. Len(seeds) \in Nat /\ Len(s) \in Nat /\ \A i \in 1..Len(seeds) : seeds[i] \in Relay /\ seeds[i] \in I
  BY LenProperties, ElementOfSeq DEF RelayList, Listed
<1>2. ImportOK(m, s, I)
  <2>1. Len(s) \in 0..Len(s) /\ Len(s) - Len(s) = 0 /\ \A i \in 1..Len(s) : Len(s) - Len(s) + i = i
    BY <1>1
  <2>2. Behind(s, s, Len(s), I)
    BY <1>1, <2>1 DEF Behind
  <2>3. m.list = s /\ m.last = l
    OBVIOUS
  <2> HIDE DEF m
  <2> QED BY <2>1, <2>2, <2>3 DEF ImportOK
<1> HIDE DEF m, I
<1>3. PICK g : Imports(g, Len(seeds), m, seeds) /\ Imported(m, seeds) = g[Len(seeds)]
  BY <1>1, ImportedImports
<1> DEFINE T == {k \in Nat : k <= Len(seeds) => ImportOK(g[k], s, I)}
<1>4. 0 \in T
  <2>1. g[0] = m
    BY <1>1, <1>3 DEF Imports
  <2> QED BY <1>2, <2>1
<1>5. ASSUME NEW k \in Nat, k \in T PROVE k + 1 \in T
  <2> SUFFICES ASSUME k + 1 <= Len(seeds) PROVE ImportOK(g[k + 1], s, I)
    OBVIOUS
  <2>1. ImportOK(g[k], s, I) /\ k + 1 \in 0..Len(seeds) /\ k + 1 \in 1..Len(seeds) /\ k + 1 # 0 /\ (k + 1) - 1 = k
    BY <1>1, <1>5
  <2>2. g[k + 1] = Import(g[k], seeds[k + 1])
    BY <1>3, <2>1 DEF Imports
  <2>3. seeds[k + 1] \in Relay /\ seeds[k + 1] \in I
    BY <1>1, <2>1
  <2>4. ImportOK(Import(g[k], seeds[k + 1]), s, I)
    BY <2>1, <2>3, ImportNext
  <2> QED BY <2>2, <2>4
<1>6. Nat \subseteq T
  <2> HIDE DEF T
  <2> QED BY <1>4, <1>5, Induction
<1> QED BY <1>1, <1>3, <1>6 DEF m, I

-----------------------------------------------------------------------------
(* Types.                                                                  *)

LEMMA Types ==
  TypeOK <=> /\ ConnList(conns) /\ RelayList(relays) /\ last \in Relay \cup {None}
             /\ loc \in [Tab -> Link \cup {None}] /\ routed \in [Tab -> BOOLEAN]
             /\ term \in [Tab -> Link \cup {None}] /\ saved \in [Tab -> BOOLEAN]
             /\ form \in [Tab -> Form \cup {None}] /\ acts \in 0..MaxActs
BY DEF TypeOK, ConnList, RelayList

LEMMA InLists ==
  ASSUME NEW S, NEW n \in Nat, NEW Of(_), NEW s \in Lists(S, n, Of)
  PROVE  s \in Seq(S) /\ Len(s) <= n /\ Distinct(s, Of)
<1>1. PICK k \in 0..n : s \in [1..k -> S]
  BY DEF Lists
<1>2. s \in Seq(S) /\ Len(s) = k
  BY <1>1
<1> QED BY <1>2 DEF Lists

LEMMA InList ==
  ASSUME NEW S, NEW s \in Seq(S), NEW x \in Listed(s)
  PROVE  x \in S
BY LenProperties, ElementOfSeq DEF Listed

LEMMA FirstPicked ==
  ASSUME NEW s \in Seq(Relay), NEW l \in Relay \cup {None}, NEW seeds
  PROVE  FirstPick(s, l, seeds) \in Relay \cup {None}
<1>1. CASE l \in Listed(s)
  BY <1>1 DEF FirstPick
<1>2. CASE l \notin Listed(s) /\ seeds # << >> /\ seeds[1] \in Listed(s)
  BY <1>2, InList DEF FirstPick
<1>3. CASE l \notin Listed(s) /\ ~(seeds # << >> /\ seeds[1] \in Listed(s))
  <2>1. s # << >> => s[1] \in Relay
    OBVIOUS
  <2> QED BY <1>3, <2>1 DEF FirstPick
<1> QED BY <1>1, <1>2, <1>3

LEMMA InitTypes == Init => TypeOK
<1> SUFFICES ASSUME Init PROVE TypeOK
  OBVIOUS
<1>1. {[url |-> l, dev |-> l.dev] : l \in Works} \subseteq Conn
  BY WorksAssumption DEF Link, Conn
<1>2. /\ conns \in Seq({[url |-> l, dev |-> l.dev] : l \in Works}) /\ Len(conns) <= MaxSaved
      /\ Distinct(conns, Url)
  BY InLists, LimitsAssumption DEF Init
<1>3. conns \in Seq(Conn)
  BY <1>1, <1>2
<1>4. RelayList(relays)
  BY InLists, LimitsAssumption DEF Init, RelayList
<1>5. last \in Relay \cup {None}
  BY <1>4 DEF Init, RelayList
<1> QED BY <1>2, <1>3, <1>4, <1>5, Types, LimitsAssumption DEF Init, ConnList

LEMMA FormOf ==
  ASSUME TypeOK, NEW t \in Tab, form[t] # None
  PROVE  /\ form[t] \in Form /\ form[t].shown \in Seq(Relay) /\ form[t].recents \in Seq(Conn)
         /\ form[t].dev \in Device \cup {None} /\ form[t].tok \in Token \cup {None}
         /\ form[t].relay \in Relay \cup {None} /\ form[t].selected \in Relay \cup {None}
<1>1. form[t] \in Form
  BY DEF TypeOK
<1> QED BY <1>1 DEF Form

LEMMA RecentOf ==
  ASSUME TypeOK, NEW t \in Tab, NEW c \in Recents(t)
  PROVE  c \in Conn /\ c.url \in Link /\ form[t] # None
<1>1. form[t] # None /\ c \in Listed(form[t].recents)
  BY DEF Recents
<1>2. c \in Conn
  BY <1>1, FormOf, InList
<1> QED BY <1>1, <1>2 DEF Conn

\* What a handler of the form, and one that changes the address, leave well-typed.
LEMMA EditTypes ==
  ASSUME TypeOK, NEW t \in Tab, NEW f \in Form \cup {None}, Edit(t, f),
         ConnList(conns'), RelayList(relays'), last' \in Relay \cup {None}, acts' \in 0..MaxActs
  PROVE  TypeOK'
BY DEF TypeOK, Edit, pages, ConnList, RelayList

LEMMA GotoTypes ==
  ASSUME TypeOK, NEW t \in Tab, NEW l \in Link \cup {None}, Goto(t, l), UNCHANGED conns,
         form' \in [Tab -> Form \cup {None}],
         RelayList(relays'), last' \in Relay \cup {None}, acts' \in 0..MaxActs
  PROVE  TypeOK'
<1>1. loc' \in [Tab -> Link \cup {None}] /\ routed' \in [Tab -> BOOLEAN]
  BY DEF TypeOK, Goto
<1> QED BY <1>1 DEF TypeOK, Goto, RelayList

LEMMA ActTypes == TypeOK /\ Act => acts' \in 0..MaxActs
BY LimitsAssumption DEF TypeOK, Act

LEMMA StepTypes ==
  ASSUME TypeOK, [Next]_vars
  PROVE  TypeOK'
<1>0. CASE UNCHANGED vars
  BY <1>0 DEF TypeOK, vars, storage, pages
<1> SUFFICES ASSUME NEW t \in Tab, Page(t) PROVE TypeOK'
  BY <1>0 DEF Next
<1> USE Types, ActTypes
<1>1. CASE OpenForm(t)
  <2>1. PICK seeds \in Offered :
          LET m == Imported([list |-> relays, last |-> last], seeds) IN
          /\ relays' = m.list /\ last' = m.last
          /\ form' = [form EXCEPT ![t] =
               [dev |-> None, tok |-> None, relay |-> None,
                selected |-> FirstPick(m.list, m.last, seeds), shown |-> m.list, recents |-> conns,
                adding |-> (m.list = << >>)]]
    BY <1>1 DEF OpenForm
  <2> DEFINE m == Imported([list |-> relays, last |-> last], seeds)
             f == [dev |-> None, tok |-> None, relay |-> None,
                   selected |-> FirstPick(m.list, m.last, seeds), shown |-> m.list, recents |-> conns,
                   adding |-> (m.list = << >>)]
  <2>2. seeds \in Seq(Relay)
    <3>1. << >> \in Seq(Relay) /\ (seeds = << >> \/ seeds = Seeds)
      BY EmptySeq DEF Offered
    <3> QED BY <3>1, RelaysAssumption
  <2>3. RelayList(m.list) /\ m.last \in Relay \cup {None}
    BY <2>2, ImportedFacts DEF ImportOK
  <2>4. relays' = m.list /\ last' = m.last /\ form' = [form EXCEPT ![t] = f]
    BY <2>1
  <2> HIDE DEF m
  <2>5. f \in Form
    BY <2>3, FirstPicked DEF Form, RelayList, ConnList
  <2> HIDE DEF f
  <2>6. UNCHANGED <<conns, pages>> /\ acts' \in 0..MaxActs
    BY <1>1 DEF OpenForm
  <2> QED BY <2>3, <2>4, <2>5, <2>6 DEF TypeOK, pages, RelayList
<1>2. CASE CloseForm(t)
  BY <1>2, EditTypes DEF CloseForm, storage
<1>3. CASE CancelInput(t)
  <2>1. [form[t] EXCEPT !.adding = FALSE, !.relay = None] \in Form
    BY <1>3, FormOf DEF CancelInput, Form
  <2> QED BY <1>3, <2>1, EditTypes DEF CancelInput, storage
<1>4. CASE PickRelay(t)
  <2>1. PICK r \in Listed(form[t].shown) : Edit(t, [form[t] EXCEPT !.selected = r, !.relay = None])
    BY <1>4 DEF PickRelay
  <2>2. r \in Relay
    BY <1>4, FormOf, InList DEF PickRelay
  <2>3. [form[t] EXCEPT !.selected = r, !.relay = None] \in Form
    BY <1>4, <2>2, FormOf DEF PickRelay, Form
  <2> QED BY <1>4, <2>1, <2>3, EditTypes DEF PickRelay, storage
<1>5. CASE AddAnother(t)
  <2>1. [form[t] EXCEPT !.adding = TRUE, !.relay = None] \in Form
    BY <1>5, FormOf DEF AddAnother, Form
  <2> QED BY <1>5, <2>1, EditTypes DEF AddAnother, storage
<1>6. CASE RemoveRelay(t)
  <2> DEFINE f == IF relays' # << >> THEN [form[t] EXCEPT !.shown = relays', !.selected = relays'[1]]
                  ELSE [form[t] EXCEPT !.shown = << >>, !.selected = None, !.adding = TRUE]
  <2>1. RelayList(relays') /\ relays' \in Seq(Relay)
    BY <1>6, WithoutFacts DEF RemoveRelay, Remaining, RelayList
  <2>2. relays' # << >> => relays'[1] \in Relay
    BY <2>1
  <2>3. f \in Form
    <3>1. << >> \in Seq(Relay)
      OBVIOUS
    <3>2. form[t] \in Form
      BY <1>6, FormOf DEF RemoveRelay
    <3> QED BY <2>1, <2>2, <3>1, <3>2 DEF Form
  <2>4. Edit(t, f) /\ UNCHANGED <<conns, last>> /\ acts' \in 0..MaxActs
    BY <1>6 DEF RemoveRelay
  <2> HIDE DEF f
  <2> QED BY <2>1, <2>3, <2>4, EditTypes
<1>7. CASE Connect(t)
  <2> DEFINE f == form[t]
             l == [relay |-> Via(f), dev |-> f.dev, tok |-> f.tok]
  <2>1. /\ f # None /\ f.dev # None /\ f.tok # None /\ Via(f) # None
        /\ relays' = (IF f.relay # None THEN Added(relays, f.relay) ELSE relays)
        /\ form' = (IF f.relay # None
                    THEN [form EXCEPT ![t].shown = relays', ![t].adding = FALSE] ELSE form)
        /\ last' = Via(f) /\ UNCHANGED conns /\ Goto(t, l) /\ acts' \in 0..MaxActs
    BY <1>7 DEF Connect
  <2>2. l \in Link
    BY <2>1, FormOf DEF Link, Via
  <2>3. Via(f) \in Relay
    BY <2>1, FormOf DEF Via
  <2>4. RelayList(relays')
    BY <2>1, FormOf, AddedFacts
  <2>5. form' \in [Tab -> Form \cup {None}]
    <3>1. [f EXCEPT !.shown = relays', !.adding = FALSE] \in Form
      BY <2>1, <2>4, FormOf DEF Form, RelayList
    <3>2. f.relay # None => form' = [form EXCEPT ![t] = [f EXCEPT !.shown = relays', !.adding = FALSE]]
      BY <2>1
    <3> QED BY <2>1, <3>1, <3>2
  <2> HIDE DEF f, l
  <2> QED BY <2>1, <2>2, <2>3, <2>4, <2>5, GotoTypes
<1>8. CASE GoRecent(t)
  <2>1. PICK c \in Recents(t) : Goto(t, c.url) /\ UNCHANGED <<storage, form>>
    BY <1>8 DEF GoRecent
  <2>2. c.url \in Link
    BY RecentOf
  <2> QED BY <1>8, <2>1, <2>2, GotoTypes DEF GoRecent, storage
<1>9. ASSUME NEW c \in Recents(t), RemoveRecent(t, c) PROVE TypeOK'
  <2>1. conns' = Drop(conns, SameUrl(conns, c)) /\ UNCHANGED <<relays, last>> /\ acts' \in 0..MaxActs
    BY <1>9 DEF RemoveRecent, ConnsWithout
  <2>2. ConnList(conns')
    BY <2>1, ForgetFacts
  <2>3. [form[t] EXCEPT !.recents = conns'] \in Form
    BY ZenonT(30), <1>9, <2>2, RecentOf, FormOf DEF Form, ConnList
  <2> QED BY <1>9, <2>1, <2>2, <2>3, EditTypes DEF RemoveRecent
<1>10. ASSUME NEW l \in Link, Paste(t, l) PROVE TypeOK'
  <2>1. form[t] \in Form /\ acts' \in 0..MaxActs /\ l.relay \in Relay /\ l.dev \in Device /\ l.tok \in Token
    BY <1>10, FormOf DEF Paste, Link
  <2>2. CASE RelayOf(l) = None
    <3>1. [form[t] EXCEPT !.dev = l.dev, !.tok = l.tok] \in Form
      BY <2>1 DEF Form
    <3> QED BY <1>10, <2>1, <2>2, <3>1, EditTypes DEF Paste, storage
  <2>3. CASE RelayOf(l) # None
    <3> DEFINE f == [form[t] EXCEPT !.dev = l.dev, !.tok = l.tok, !.relay = RelayOf(l),
                                    !.shown = relays', !.adding = FALSE]
    <3>1. RelayOf(l) \in Relay
      BY <2>1, <2>3 DEF RelayOf
    <3>2. relays' = Added(relays, RelayOf(l)) /\ last' = RelayOf(l) /\ UNCHANGED conns /\ Edit(t, f)
      BY <1>10, <2>3 DEF Paste
    <3>3. RelayList(relays')
      BY <3>1, <3>2, AddedFacts
    <3>4. f \in Form
      BY <2>1, <3>1, <3>3 DEF Form, RelayList
    <3> HIDE DEF f
    <3> QED BY <2>1, <3>1, <3>2, <3>3, <3>4, EditTypes
  <2> QED BY <2>2, <2>3
<1>11. ASSUME NEW d \in Device, NEW k \in Token, FillIn(t, d, k) PROVE TypeOK'
  <2>1. [form[t] EXCEPT !.dev = d, !.tok = k] \in Form
    BY <1>11, FormOf DEF FillIn, Form
  <2> QED BY <1>11, <2>1, EditTypes DEF FillIn, storage
<1>12. ASSUME NEW r \in Relay \cup {None}, TypeRelay(t, r) PROVE TypeOK'
  <2>1. [form[t] EXCEPT !.relay = r] \in Form
    BY <1>12, FormOf DEF TypeRelay, Form
  <2> QED BY <1>12, <2>1, EditTypes DEF TypeRelay, storage
<1>13. ASSUME NEW r \in Relay, ManagerAdd(t, r) PROVE TypeOK'
  <2>1. RelayList(Added(relays, r))
    BY AddedFacts
  <2> QED BY <1>13, <2>1 DEF ManagerAdd, TypeOK, pages, RelayList
<1>14. ASSUME NEW r \in Relay, ManagerRemove(t, r) PROVE TypeOK'
  <2>1. RelayList(Without(relays, r))
    BY WithoutFacts
  <2> QED BY <1>14, <2>1 DEF ManagerRemove, TypeOK, pages, RelayList
<1>15. CASE Route(t)
  BY <1>15 DEF Route, TypeOK, storage
<1>16. CASE Leave(t)
  BY <1>16, GotoTypes DEF Leave, storage
<1>17. CASE Ready(t)
  <2>1. ConnList(conns')
    <3>1. CASE loc[t] = None
      BY <1>17, <3>1 DEF Ready
    <3>2. CASE loc[t] # None
      <4> DEFINE c == [url |-> loc[t], dev |-> term[t].dev]
      <4>1. c \in Conn
        BY <1>17, <3>2, WorksAssumption DEF Ready, Conn, Link
      <4>2. conns' = SavedWith(conns, c)
        BY <1>17, <3>2 DEF Ready
      <4> HIDE DEF c
      <4> QED BY <4>1, <4>2, SavedFacts
    <3> QED BY <3>1, <3>2
  <2> QED BY <1>17, <2>1 DEF Ready, TypeOK, ConnList
<1> QED BY <1>1, <1>2, <1>3, <1>4, <1>5, <1>6, <1>7, <1>8, <1>9, <1>10, <1>11, <1>12, <1>13, <1>14,
           <1>15, <1>16, <1>17 DEF Page

\* No address is ever listed twice and the lists keep their limits; the form, the address
\* and the terminal hold values of their kinds (TypeOK).
THEOREM TypeCorrect == Spec => []TypeOK
<1>1. TypeOK /\ [Next]_vars => TypeOK'
  BY StepTypes
<1> QED BY <1>1, InitTypes, PTL DEF Spec

-----------------------------------------------------------------------------
(* The route.                                                              *)

\* Once the route has been rendered for an address, the terminal has the key of it.
Rendered == \A t \in Tab : routed[t] => KeyOf(loc[t]) = KeyOf(term[t])

LEMMA InitRendered == Init => Rendered
BY DEF Init, Rendered

LEMMA GotoRendered ==
  ASSUME TypeOK, Rendered, NEW t \in Tab, NEW l, Goto(t, l)
  PROVE  Rendered'
<1> SUFFICES ASSUME NEW u \in Tab, routed'[u] PROVE KeyOf(loc'[u]) = KeyOf(term'[u])
  BY DEF Rendered
<1>1. routed[u] /\ loc'[u] = loc[u] /\ term'[u] = term[u]
  <2>1. CASE u = t
    <3>1. routed'[t] = (loc[t] = l /\ routed[t]) /\ loc'[t] = l
      BY DEF Goto, TypeOK
    <3> QED BY <2>1, <3>1 DEF Goto
  <2>2. CASE u # t
    BY <2>2 DEF Goto, TypeOK
  <2> QED BY <2>1, <2>2
<1> QED BY <1>1 DEF Rendered

LEMMA StepRendered ==
  ASSUME TypeOK, Rendered, [Next]_vars
  PROVE  Rendered'
<1>1. CASE UNCHANGED <<loc, routed, term>>
  BY <1>1 DEF Rendered
<1>2. ASSUME NEW t \in Tab, Route(t) PROVE Rendered'
  <2> SUFFICES ASSUME NEW u \in Tab, routed'[u] PROVE KeyOf(loc[u]) = KeyOf(term'[u])
    BY <1>2 DEF Rendered, Route
  <2>1. CASE KeyOf(loc[t]) = KeyOf(term[t])
    BY <1>2, <2>1 DEF Route, Rendered, TypeOK
  <2>2. CASE KeyOf(loc[t]) # KeyOf(term[t])
    BY <1>2, <2>2 DEF Route, Rendered, TypeOK
  <2> QED BY <2>1, <2>2
<1>3. CASE UNCHANGED vars
  BY <1>1, <1>3 DEF vars, pages
<1> SUFFICES ASSUME NEW t \in Tab, Page(t) PROVE Rendered'
  BY <1>3 DEF Next
<1>4. CASE OpenForm(t) \/ CloseForm(t) \/ CancelInput(t) \/ PickRelay(t) \/ AddAnother(t) \/ RemoveRelay(t)
  BY <1>1, <1>4 DEF OpenForm, CloseForm, CancelInput, PickRelay, AddAnother, RemoveRelay, Edit, pages
<1>5. CASE Connect(t)
  BY <1>5, GotoRendered DEF Connect
<1>6. CASE GoRecent(t)
  BY <1>6, GotoRendered DEF GoRecent
<1>7. CASE \E c \in Recents(t) : RemoveRecent(t, c)
  BY <1>1, <1>7 DEF RemoveRecent, Edit, pages
<1>8. CASE \E l \in Link : Paste(t, l)
  BY <1>1, <1>8 DEF Paste, Edit, pages
<1>9. CASE \/ \E d \in Device, k \in Token : FillIn(t, d, k)
           \/ \E r \in Relay \cup {None} : TypeRelay(t, r)
  BY <1>1, <1>9 DEF FillIn, TypeRelay, Edit, pages
<1>10. CASE \E r \in Relay : ManagerAdd(t, r) \/ ManagerRemove(t, r)
  BY <1>1, <1>10 DEF ManagerAdd, ManagerRemove, pages
<1>11. CASE Leave(t)
  BY <1>11, GotoRendered DEF Leave
<1>12. CASE Ready(t)
  BY <1>1, <1>12 DEF Ready
<1> QED BY <1>2, <1>4, <1>5, <1>6, <1>7, <1>8, <1>9, <1>10, <1>11, <1>12 DEF Page

\* A page whose hashchange events have been handled shows the device its address names,
\* through whichever of the ways to it the user took and in whatever order the events of
\* several came (RoutedRight; App.tsx:55-64).
THEOREM RouteIsRight == Spec => []RoutedRight
<1>1. TypeOK /\ Rendered /\ [Next]_vars => TypeOK' /\ Rendered'
  BY StepTypes, StepRendered
<1>2. Rendered => RoutedRight
  BY DEF Rendered, RoutedRight, KeyOf
<1> QED BY <1>1, <1>2, InitTypes, InitRendered, PTL DEF Spec

-----------------------------------------------------------------------------
(* What the lists lose and gain.                                           *)

\* Steps that change the paired devices, and the relays.
LEMMA ConnsChange ==
  ASSUME NEW t \in Tab, Page(t), conns' # conns
  PROVE  (\E c \in Recents(t) : RemoveRecent(t, c)) \/ Ready(t)
BY DEF Page, OpenForm, CloseForm, CancelInput, PickRelay, AddAnother, RemoveRelay, Connect, GoRecent,
       Paste, FillIn, TypeRelay, ManagerAdd, ManagerRemove, Route, Leave, storage

LEMMA RelaysChange ==
  ASSUME TypeOK, NEW t \in Tab, Page(t), relays' # relays
  PROVE  \/ OpenForm(t)
         \/ \E r \in Relay : relays' = Added(relays, r)
         \/ RemoveRelay(t)
         \/ \E r \in Relay : ManagerRemove(t, r)
<1>1. CASE Connect(t)
  BY <1>1, FormOf DEF Connect
<1>2. ASSUME NEW l \in Link, Paste(t, l) PROVE \E r \in Relay : relays' = Added(relays, r)
  <2>1. RelayOf(l) # None /\ relays' = Added(relays, RelayOf(l))
    BY <1>2 DEF Paste, storage
  <2>2. RelayOf(l) \in Relay
    BY <2>1 DEF RelayOf, Link
  <2> QED BY <2>1, <2>2
<1>3. CASE \E r \in Relay : ManagerAdd(t, r)
  BY <1>3 DEF ManagerAdd
<1>4. ~(\/ CloseForm(t) \/ CancelInput(t) \/ PickRelay(t) \/ AddAnother(t) \/ GoRecent(t)
        \/ \E c \in Recents(t) : RemoveRecent(t, c)
        \/ \E d \in Device, k \in Token : FillIn(t, d, k)
        \/ \E r \in Relay \cup {None} : TypeRelay(t, r)
        \/ Route(t) \/ Leave(t) \/ Ready(t))
  BY DEF CloseForm, CancelInput, PickRelay, AddAnother, GoRecent, RemoveRecent, FillIn, TypeRelay,
         Route, Leave, Ready, storage
<1> QED BY <1>1, <1>2, <1>3, <1>4 DEF Page

LEMMA ConnsLost ==
  ASSUME TypeOK, NEW t \in Tab, Page(t), NEW c \in Lost(conns)
  PROVE  \/ \E d \in Recents(t) : RemoveRecent(t, d) /\ d.url = c.url
         \/ c = conns[Len(conns)] /\ Len(conns) = MaxSaved /\ Gained(conns) # {}
         \/ \E d \in Gained(conns) : d.url = c.url
<1>1. c \in Listed(conns) /\ c \notin Listed(conns') /\ ConnList(conns)
  BY Types DEF Lost
<1>2. ASSUME NEW d \in Recents(t), RemoveRecent(t, d) PROVE d.url = c.url
  <2>1. Listed(conns') = {x \in Listed(conns) : x.url # d.url}
    BY <1>1, <1>2, ForgetFacts DEF RemoveRecent, ConnsWithout
  <2> QED BY <1>1, <2>1
<1>3. CASE Ready(t)
  <2> DEFINE d == [url |-> loc[t], dev |-> term[t].dev]
  <2>1. loc[t] # None /\ conns' = SavedWith(conns, d)
    BY <1>1, <1>3 DEF Ready
  <2>2. d \in Conn
    BY <1>3, <2>1, WorksAssumption DEF Ready, Conn, Link, TypeOK
  <2> HIDE DEF d
  <2>3. \/ PushedOut(conns, conns', c, d, MaxSaved)
        \/ d \in Listed(conns') \ Listed(conns) /\ d.url = c.url
    BY <1>1, <2>1, <2>2, SavedFacts
  <2> QED BY <2>3 DEF PushedOut, Gained
<1> QED BY <1>1, <1>2, <1>3, ConnsChange

LEMMA ConnsGained ==
  ASSUME TypeOK, NEW t \in Tab, Page(t), NEW c \in Gained(conns)
  PROVE  c.url = loc[t] /\ saved'[t] /\ ~saved[t]
<1>1. c \in Listed(conns') /\ c \notin Listed(conns) /\ ConnList(conns)
  BY Types DEF Gained
<1>2. ASSUME NEW d \in Recents(t), RemoveRecent(t, d) PROVE FALSE
  <2>1. Listed(conns') = {x \in Listed(conns) : x.url # d.url}
    BY <1>1, <1>2, ForgetFacts DEF RemoveRecent, ConnsWithout
  <2> QED BY <1>1, <2>1
<1>3. Ready(t)
  BY <1>1, <1>2, ConnsChange
<1> DEFINE d == [url |-> loc[t], dev |-> term[t].dev]
<1>4. loc[t] # None /\ conns' = SavedWith(conns, d) /\ saved'[t] /\ ~saved[t]
  BY <1>1, <1>3 DEF Ready, TypeOK
<1>5. d \in Conn /\ d.url = loc[t]
  BY <1>3, <1>4, WorksAssumption DEF Ready, Conn, Link, TypeOK
<1> HIDE DEF d
<1>6. Listed(conns') \subseteq Listed(conns) \cup {d}
  BY <1>1, <1>4, <1>5, SavedFacts
<1> QED BY <1>1, <1>4, <1>5, <1>6

LEMMA Places ==
  ASSUME NEW n \in Nat
  PROVE  IsFiniteSet(1..n) /\ Cardinality(1..n) = n
<1>1. 1 \in Int /\ n \in Int
  OBVIOUS
<1>2. IsFiniteSet(1..n) /\ Cardinality(1..n) = (IF 1 > n THEN 0 ELSE n - 1 + 1)
  BY <1>1, FS_Interval
<1> QED BY <1>2

\* A list that imports push an element out of has room for one that was not in it: its
\* elements differ, and without a newcomer they would be fewer places than it has.
LEMMA SomeNew ==
  ASSUME NEW s, RelayList(s), NEW y, RelayList(y), Len(y) = MaxRelays, NEW r \in Listed(s) \ Listed(y)
  PROVE  Listed(y) \ Listed(s) # {}
<1> SUFFICES ASSUME Listed(y) \subseteq Listed(s) PROVE FALSE
  OBVIOUS
<1>1. Len(s) \in Nat /\ Len(y) \in Nat /\ Len(s) <= Len(y)
  BY LenProperties DEF RelayList
<1>2. PICK j \in 1..Len(s) : s[j] = r
  BY DEF Listed
<1> DEFINE S == 1..Len(y)
           T == (1..Len(s)) \ {j}
           f == [k \in S |-> CHOOSE i \in T : s[i] = y[k]]
<1>3. \A k \in S : \E i \in T : s[i] = y[k]
  <2> SUFFICES ASSUME NEW k \in S PROVE \E i \in T : s[i] = y[k]
    OBVIOUS
  <2>1. y[k] \in Listed(y)
    BY DEF Listed
  <2>2. PICK i \in 1..Len(s) : s[i] = y[k]
    BY <2>1 DEF Listed
  <2>3. i # j
    BY <1>2, <2>1, <2>2
  <2> QED BY <2>2, <2>3
<1>4. f \in [S -> T] /\ \A k \in S : s[f[k]] = y[k]
  BY <1>3
<1>5. IsFiniteSet(S) /\ Cardinality(S) = Len(y)
  BY <1>1, Places
<1>6. IsFiniteSet(1..Len(s)) /\ Cardinality(1..Len(s)) = Len(s)
  BY <1>1, Places
<1>7. IsFiniteSet(T) /\ Cardinality(T) = Len(s) - 1
  BY <1>2, <1>6, FS_RemoveElement
<1>8. Cardinality(T) < Cardinality(S)
  BY <1>1, <1>5, <1>7
<1> HIDE DEF f, T
<1>9. PICK a, b \in S : a # b /\ f[a] = f[b]
  BY <1>4, <1>5, <1>7, <1>8, FS_PigeonHole
<1>10. y[a] = y[b]
  BY <1>4, <1>9
<1> QED BY <1>9, <1>10 DEF RelayList, Distinct, Itself

LEMMA ImportLoses ==
  ASSUME NEW s, RelayList(s), NEW y, RelayList(y), NEW p \in 0..Len(s), NEW I, Behind(y, s, p, I),
         NEW r \in Listed(s) \ Listed(y)
  PROVE  /\ Len(y) = MaxRelays
         /\ \A q \in Listed(s) \cap Listed(y) :
              \/ \E i, j \in 1..Len(s) : i < j /\ s[i] = q /\ s[j] = r
              \/ q \in I
<1>1. Len(s) \in Nat /\ Len(y) \in Nat /\ p <= Len(s) /\ p <= Len(y) /\ p \in Nat
  BY LenProperties DEF RelayList, Behind
<1>2. PICK j \in 1..Len(s) : s[j] = r
  BY DEF Listed
<1>3. p < j
  <2> SUFFICES ASSUME j \in 1..p PROVE FALSE
    BY <1>1
  <2>1. y[Len(y) - p + j] = r /\ Len(y) - p + j \in 1..Len(y)
    BY <1>1, <1>2 DEF Behind
  <2> QED BY <2>1 DEF Listed
<1>4. Len(y) = MaxRelays
  BY <1>1, <1>3 DEF Behind
<1>5. ASSUME NEW q \in Listed(s) \cap Listed(y), q \notin I
      PROVE  \E i \in 1..Len(s) : i < j /\ s[i] = q
  <2>1. PICK k \in 1..Len(y) : y[k] = q
    BY DEF Listed
  <2>2. ~(k \in 1..Len(y) - p)
    BY <1>5, <2>1 DEF Behind
  <2> DEFINE i == k - (Len(y) - p)
  <2>3. i \in 1..p /\ k = Len(y) - p + i
    BY <1>1, <2>2
  <2> HIDE DEF i
  <2>4. y[k] = s[i]
    BY <2>3 DEF Behind
  <2>5. i \in 1..Len(s) /\ i < j
    BY <1>1, <1>3, <2>3
  <2> QED BY <2>1, <2>4, <2>5
<1> QED BY <1>2, <1>4, <1>5

LEMMA RelaysLost ==
  ASSUME TypeOK, NEW t \in Tab, Page(t), NEW r \in Lost(relays)
  PROVE  \/ ManagerRemove(t, r) \/ (RemoveRelay(t) /\ form[t].selected = r)
         \/ Len(relays') = MaxRelays /\ Gained(relays) # {} /\ \A q \in Listed(relays) \cap Listed(relays') :
              \/ \E i, j \in 1..Len(relays) : i < j /\ relays[i] = q /\ relays[j] = r
              \/ q \in Listed(Seeds) /\ OpenForm(t)
<1>1. r \in Listed(relays) /\ r \notin Listed(relays') /\ RelayList(relays) /\ Len(relays) \in Nat
  BY Types, LenProperties DEF Lost, RelayList
<1>2. CASE OpenForm(t)
  <2> DEFINE mem == [list |-> relays, last |-> last]
  <2>1. PICK seeds \in Offered : relays' = Imported(mem, seeds).list
    BY <1>2 DEF OpenForm
  <2>2. seeds \in Seq(Relay) /\ Listed(seeds) \subseteq Listed(Seeds)
    <3>1. << >> \in Seq(Relay) /\ Listed(<< >>) = {} /\ (seeds = << >> \/ seeds = Seeds)
      BY EmptySeq DEF Offered, Listed
    <3> QED BY <3>1, RelaysAssumption
  <2>3. ImportOK(Imported(mem, seeds), relays, Listed(seeds))
    BY <1>1, <2>2, ImportedFacts DEF TypeOK
  <2> HIDE DEF mem
  <2>4. RelayList(relays') /\ \E p \in 0..Len(relays) : Behind(relays', relays, p, Listed(seeds))
    BY <2>1, <2>3 DEF ImportOK
  <2>5. PICK p \in 0..Len(relays) : Behind(relays', relays, p, Listed(seeds))
    BY <2>4
  <2>6. /\ Len(relays') = MaxRelays
        /\ \A q \in Listed(relays) \cap Listed(relays') :
             \/ \E i, j \in 1..Len(relays) : i < j /\ relays[i] = q /\ relays[j] = r
             \/ q \in Listed(seeds)
    BY <1>1, <2>4, <2>5, ImportLoses
  <2>7. Gained(relays) # {}
    BY <1>1, <2>4, <2>6, SomeNew DEF Gained
  <2> QED BY <1>2, <2>2, <2>6, <2>7
<1>3. ASSUME NEW n \in Relay, relays' = Added(relays, n)
      PROVE  /\ Len(relays') = MaxRelays /\ Gained(relays) # {}
             /\ \A q \in Listed(relays) \cap Listed(relays') :
                  \E i, j \in 1..Len(relays) : i < j /\ relays[i] = q /\ relays[j] = r
  <2>1. PushedOut(relays, relays', r, n, MaxRelays)
    BY <1>1, <1>3, AddedFacts
  <2>2. Len(relays) \in 1..Len(relays) /\ relays[Len(relays)] = r
    BY <1>1, <2>1 DEF PushedOut, Listed
  <2>3. ASSUME NEW q \in Listed(relays) \cap Listed(relays')
        PROVE  \E i, j \in 1..Len(relays) : i < j /\ relays[i] = q /\ relays[j] = r
    <3>1. PICK i \in 1..Len(relays) : relays[i] = q
      BY DEF Listed
    <3>2. i < Len(relays)
      BY <1>1, <2>2, <3>1
    <3> QED BY <2>2, <3>1, <3>2
  <2> QED BY <2>1, <2>3 DEF PushedOut, Gained
<1>4. CASE RemoveRelay(t)
  <2>1. Listed(relays') = Listed(relays) \ {form[t].selected}
    BY <1>1, <1>4, WithoutFacts DEF RemoveRelay, Remaining
  <2> QED BY <1>1, <1>4, <2>1
<1>5. ASSUME NEW n \in Relay, ManagerRemove(t, n) PROVE ManagerRemove(t, r)
  <2>1. Listed(relays') = Listed(relays) \ {n}
    BY <1>1, <1>5, WithoutFacts DEF ManagerRemove
  <2> QED BY <1>1, <1>5, <2>1
<1> QED BY <1>1, <1>2, <1>3, <1>4, <1>5, RelaysChange

\* The lists of a browser, which all its pages change and each shows as it last read them,
\* lose an entry only to the user who removes it or, the oldest of a full list, to a
\* newcomer; and a paired device comes, or comes back, only by a connection (ListsChange).
THEOREM ListsDoChange == Spec => ListsChange
<1>1. ASSUME TypeOK, Next
      PROVE  /\ \A c \in Lost(conns) :
                  \/ \E t \in Tab : \E d \in Recents(t) : RemoveRecent(t, d) /\ d.url = c.url
                  \/ c = conns[Len(conns)] /\ Len(conns) = MaxSaved /\ Gained(conns) # {}
                  \/ \E d \in Gained(conns) : d.url = c.url
             /\ \A c \in Gained(conns) : \E t \in Tab : c.url = loc[t] /\ saved'[t] /\ ~saved[t]
             /\ \A r \in Lost(relays) :
                  \/ \E t \in Tab : ManagerRemove(t, r) \/ (RemoveRelay(t) /\ form[t].selected = r)
                  \/ Len(relays') = MaxRelays /\ Gained(relays) # {} /\ \A q \in Listed(relays) \cap Listed(relays') :
                       \/ \E i, j \in 1..Len(relays) : i < j /\ relays[i] = q /\ relays[j] = r
                       \/ q \in Listed(Seeds) /\ \E t \in Tab : OpenForm(t)
  <2>1. PICK t \in Tab : Page(t)
    BY <1>1 DEF Next
  <2>2. ASSUME NEW c \in Lost(conns)
        PROVE  \/ \E u \in Tab : \E d \in Recents(u) : RemoveRecent(u, d) /\ d.url = c.url
               \/ c = conns[Len(conns)] /\ Len(conns) = MaxSaved /\ Gained(conns) # {}
               \/ \E d \in Gained(conns) : d.url = c.url
    BY <1>1, <2>1, ConnsLost
  <2>3. ASSUME NEW c \in Gained(conns)
        PROVE  \E u \in Tab : c.url = loc[u] /\ saved'[u] /\ ~saved[u]
    BY <1>1, <2>1, ConnsGained
  <2>4. ASSUME NEW r \in Lost(relays)
        PROVE  \/ \E u \in Tab : ManagerRemove(u, r) \/ (RemoveRelay(u) /\ form[u].selected = r)
               \/ Len(relays') = MaxRelays /\ Gained(relays) # {} /\ \A q \in Listed(relays) \cap Listed(relays') :
                    \/ \E i, j \in 1..Len(relays) : i < j /\ relays[i] = q /\ relays[j] = r
                    \/ q \in Listed(Seeds) /\ \E u \in Tab : OpenForm(u)
    BY <1>1, <2>1, RelaysLost
  <2> QED BY <2>2, <2>3, <2>4
<1> QED BY <1>1, TypeCorrect, PTL DEF Spec, ListsChange

=============================================================================
