-------------------------- MODULE DummyServerProofs ---------------------------
(***************************************************************************)
(* Theorems about DummyServer, for any names, chunk sizes, limits and any   *)
(* room in the streams: whatever the order of callbacks, and whenever the   *)
(* connection breaks or the server is killed, a call implements a Transfer. *)
(***************************************************************************)
EXTENDS DummyServer, SequenceTheorems, WellFoundedInduction, TLAPS

-----------------------------------------------------------------------------
(* Facts about numbers. *)

\* Numbers have a least one.
LEMMA NatSetHasMin ==
    ASSUME NEW S \in SUBSET Nat, S # {}
    PROVE  \E m \in S : \A k \in S : m <= k
  <1> DEFINE R == {ss \in Nat \X Nat : ss[1] < ss[2]}
  <1>1. IsWellFoundedOn(R, Nat)
    BY NatLessThanWellFounded DEF OpToRel
  <1> HIDE DEF R
  <1>2. PICK m \in S : \A k \in S : ~(<<k, m>> \in R)
    BY <1>1, WFMin
  <1>3. \A k \in S : ~(k < m)
    BY <1>2 DEF R
  <1>4. QED
    BY <1>3

\* Induction, for a property given as the set of the numbers up to n that have it.
LEMMA InductionUpTo ==
    ASSUME NEW n \in Nat, NEW S, 0 \in S,
           \A k \in 0 .. n - 1 : k \in S => k + 1 \in S
    PROVE  0 .. n \subseteq S
  <1> DEFINE Missing == {k \in 0 .. n : k \notin S}
  <1>1. SUFFICES ASSUME Missing # {} PROVE FALSE
    OBVIOUS
  <1>2. PICK m \in Missing : \A k \in Missing : m <= k
    <2>1. Missing \in SUBSET Nat
      OBVIOUS
    <2> HIDE DEF Missing
    <2>2. QED
      BY <1>1, <2>1, NatSetHasMin
  <1>3. m \in 1 .. n /\ m \notin S /\ m - 1 \in 0 .. n - 1
    BY <1>2
  <1>4. m - 1 \in S
    <2>1. m - 1 \notin Missing
      BY <1>2, <1>3
    <2>2. QED
      BY <1>3, <2>1
  <1>5. m - 1 + 1 = m
    BY <1>3
  <1>6. QED
    BY <1>3, <1>4, <1>5

\* A bounded set of numbers has a greatest one.
LEMMA BoundedSetHasMax ==
    ASSUME NEW n \in Nat, NEW S \in SUBSET (1 .. n), S # {}
    PROVE  /\ Max(S) \in S
           /\ \A k \in S : Max(S) >= k
  <1> DEFINE Below == {n - k : k \in S}
  <1>1. Below \in SUBSET Nat /\ Below # {} /\ \A k \in S : k \in Int
    <2>1. \A k \in S : k \in 1 .. n
      OBVIOUS
    <2>2. \A k \in S : k \in Int /\ n - k \in Nat
      BY <2>1
    <2>3. QED
      BY <2>2
  <1>2. PICK b \in Below : \A c \in Below : b <= c
    <2> HIDE DEF Below
    <2>1. QED
      BY <1>1, NatSetHasMin
  <1>3. PICK x \in S : b = n - x
    BY <1>2
  <1>4. \A k \in S : x >= k
    <2> TAKE k \in S
    <2>1. n - x <= n - k
      BY <1>2, <1>3
    <2>2. k \in Int /\ x \in Int
      BY <1>1
    <2>3. QED
      BY <2>1, <2>2
  <1>5. QED
    BY <1>4 DEF Max

-----------------------------------------------------------------------------
(* The bytes in a sequence of items. *)

\* The partial sums of a sequence are what the recursion in Total says.
LEMMA PartialSums ==
    ASSUME NEW s \in Seq(Items)
    PROVE  \E upto \in [0 .. Len(s) -> Nat] :
              /\ upto[0] = 0
              /\ \A k \in 1 .. Len(s) : upto[k] = upto[k - 1] + s[k].size
              /\ Total(s) = upto[Len(s)]
  <1> DEFINE n == Len(s)
             Rec(m, g) == g = [k \in 0 .. m |-> IF k = 0 THEN 0 ELSE g[k - 1] + s[k].size]
             S == {m \in 0 .. n : \E g \in [0 .. m -> Nat] : Rec(m, g)}
  <1>1. n \in Nat /\ \A k \in 1 .. n : s[k].size \in Nat
    <2>1. n \in Nat /\ \A k \in 1 .. n : s[k] \in Items
      BY ElementOfSeq
    <2>2. QED
      BY <2>1 DEF Items
  <1>2. 0 \in S
    <2> DEFINE z == [k \in 0 .. 0 |-> 0]
    <2>1. z \in [0 .. 0 -> Nat] /\ Rec(0, z) /\ 0 \in 0 .. n
      BY <1>1
    <2> HIDE DEF z
    <2>2. QED
      BY <2>1
  <1>3. ASSUME NEW m \in 0 .. n - 1, m \in S
        PROVE  m + 1 \in S
    <2>1. PICK g \in [0 .. m -> Nat] : Rec(m, g)
      BY <1>3
    <2> DEFINE h == [k \in 0 .. m + 1 |-> IF k = m + 1 THEN g[m] + s[m + 1].size ELSE g[k]]
    <2>2. s[m + 1].size \in Nat /\ m \in 0 .. m /\ m + 1 \in 0 .. n
      BY <1>1
    <2>3. h \in [0 .. m + 1 -> Nat]
      BY <2>2
    <2>4. \A k \in 0 .. m + 1 : h[k] = IF k = 0 THEN 0 ELSE h[k - 1] + s[k].size
      <3> TAKE k \in 0 .. m + 1
      <3>1. CASE k = m + 1
        <4>1. h[k] = g[m] + s[m + 1].size /\ h[k - 1] = g[m] /\ k # 0
          BY <3>1, <2>2
        <4>2. QED
          BY <3>1, <4>1
      <3>2. CASE k \in 0 .. m
        <4>1. h[k] = g[k] /\ (k # 0 => h[k - 1] = g[k - 1])
          BY <3>2
        <4>2. g[k] = IF k = 0 THEN 0 ELSE g[k - 1] + s[k].size
          BY <2>1, <3>2
        <4>3. QED
          BY <4>1, <4>2
      <3>3. QED
        BY <1>1, <3>1, <3>2
    <2>5. Rec(m + 1, h)
      BY <2>3, <2>4
    <2>6. QED
      BY <2>2, <2>3, <2>5
  <1>4. n \in S
    <2> HIDE DEF S
    <2>1. 0 .. n \subseteq S
      BY <1>1, <1>2, <1>3, InductionUpTo
    <2>2. QED
      BY <1>1, <2>1
  <1>5. PICK g \in [0 .. n -> Nat] : Rec(n, g)
    BY <1>4
  <1> DEFINE upto == CHOOSE f : Rec(n, f)
  <1>6. Rec(n, upto)
    BY <1>5
  <1>7. Total(s) = upto[n]
    BY DEF Total
  <1> HIDE DEF upto
  <1>8. /\ upto[0] = 0
        /\ \A k \in 1 .. n : upto[k] = upto[k - 1] + s[k].size
    BY <1>1, <1>6
  <1>9. upto \in [0 .. n -> Nat]
    <2> DEFINE T == {k \in 0 .. n : upto[k] \in Nat}
    <2>1. 0 \in T
      BY <1>1, <1>8
    <2>2. ASSUME NEW k \in 0 .. n - 1, k \in T PROVE k + 1 \in T
      <3>1. k + 1 \in 1 .. n /\ k + 1 - 1 = k
        BY <1>1
      <3>2. upto[k + 1] = upto[k] + s[k + 1].size /\ s[k + 1].size \in Nat
        BY <1>1, <1>8, <3>1
      <3>3. QED
        BY <2>2, <3>1, <3>2
    <2>3. 0 .. n \subseteq T
      <3> HIDE DEF T
      <3>1. QED
        BY <1>1, <2>1, <2>2, InductionUpTo
    <2>4. QED
      BY <1>6, <2>3
  <1>10. QED
    BY <1>7, <1>8, <1>9

\* Two sums with the same summands grow by the same.
SameSummands(n, g, h) == \A k \in 1 .. n : g[k] - g[k - 1] = h[k] - h[k - 1]

\* Two running sums with the same summands grow by the same amount.
LEMMA SumsGrowAlike ==
    ASSUME NEW n \in Nat, NEW g \in [0 .. n -> Int], NEW h \in [0 .. n -> Int],
           SameSummands(n, g, h)
    PROVE  g[n] - g[0] = h[n] - h[0]
  <1> DEFINE S == {k \in 0 .. n : g[k] - g[0] = h[k] - h[0]}
  <1>1. 0 \in S
    OBVIOUS
  <1>2. ASSUME NEW k \in 0 .. n - 1, k \in S PROVE k + 1 \in S
    <2>1. k \in 0 .. n /\ k + 1 \in 1 .. n /\ k + 1 \in 0 .. n /\ k + 1 - 1 = k /\ 0 \in 0 .. n
      OBVIOUS
    <2>2. /\ g[k] \in Int /\ h[k] \in Int /\ g[k + 1] \in Int /\ h[k + 1] \in Int
          /\ g[0] \in Int /\ h[0] \in Int
          /\ g[k] - g[0] = h[k] - h[0]
      BY <1>2, <2>1
    <2>3. g[k + 1] - g[k] = h[k + 1] - h[k]
      BY <2>1 DEF SameSummands
    <2>4. g[k + 1] - g[0] = h[k + 1] - h[0]
      <3>1. PICK a \in Int, b \in Int, c \in Int : a = g[0] /\ b = h[0] /\ c = g[k]
        BY <2>2
      <3>2. h[k] = c - a + b
        <4>1. PICK l \in Int : l = h[k]
          BY <2>2
        <4>2. c - a = l - b
          BY <2>2, <3>1, <4>1
        <4>3. l = c - a + b
          BY <4>2
        <4>4. QED
          BY <4>1, <4>3
      <3>3. PICK d \in Int, e \in Int : d = g[k + 1] /\ e = h[k + 1]
        BY <2>2
      <3>4. d - c = e - (c - a + b)
        BY <2>3, <3>1, <3>2, <3>3
      <3>5. d - a = e - b
        BY <3>4
      <3>6. QED
        BY <3>1, <3>3, <3>5
    <2>5. QED
      BY <2>1, <2>4
  <1>3. 0 .. n \subseteq S
    <2> HIDE DEF S
    <2>1. QED
      BY <1>1, <1>2, InductionUpTo
  <1>4. QED
    BY <1>3

\* No messages have no bytes.
LEMMA TotalOfNothing == Total(<< >>) = 0
  <1>1. << >> \in Seq(Items) /\ Len(<< >>) = 0
    OBVIOUS
  <1>2. QED
    BY <1>1, PartialSums

\* Messages have a natural number of bytes.
LEMMA TotalType ==
    ASSUME NEW s \in Seq(Items)
    PROVE  Total(s) \in Nat
  BY PartialSums, LenProperties

\* An item more.
LEMMA TotalOfAppend ==
    ASSUME NEW s \in Seq(Items), NEW item \in Items
    PROVE  Total(Append(s, item)) = Total(s) + item.size
  <1> DEFINE r == Append(s, item)
             n == Len(s)
  <1>1. /\ n \in Nat /\ r \in Seq(Items) /\ Len(r) = n + 1
        /\ r[n + 1] = item /\ \A k \in 1 .. n : r[k] = s[k]
    OBVIOUS
  <1>2. item.size \in Nat /\ \A k \in 1 .. n : s[k].size \in Nat
    <2>1. \A k \in 1 .. n : s[k] \in Items
      BY ElementOfSeq
    <2>2. QED
      BY <2>1 DEF Items
  <1> HIDE DEF r
  <1>3. PICK g \in [0 .. n -> Nat] : /\ g[0] = 0
                                     /\ \A k \in 1 .. n : g[k] = g[k - 1] + s[k].size
                                     /\ Total(s) = g[n]
    BY PartialSums
  <1>4. PICK h \in [0 .. n + 1 -> Nat] : /\ h[0] = 0
                                         /\ \A k \in 1 .. n + 1 : h[k] = h[k - 1] + r[k].size
                                         /\ Total(r) = h[n + 1]
    BY <1>1, PartialSums
  <1>5. h[n] = g[n]
    <2> DEFINE f == [k \in 0 .. n |-> h[k]]
    <2>1. f \in [0 .. n -> Int] /\ g \in [0 .. n -> Int]
      BY <1>1
    <2>2. SameSummands(n, f, g)
      <3> USE DEF SameSummands
      <3> TAKE k \in 1 .. n
      <3>1. k \in 1 .. n + 1 /\ k \in 0 .. n /\ k - 1 \in 0 .. n
        BY <1>1
      <3>2. h[k] = h[k - 1] + s[k].size /\ g[k] = g[k - 1] + s[k].size
        BY <1>1, <1>3, <1>4, <3>1
      <3>3. f[k] = h[k] /\ f[k - 1] = h[k - 1] /\ s[k].size \in Nat
        BY <1>2, <3>1
      <3>4. f[k - 1] \in Int /\ g[k - 1] \in Int
        BY <2>1, <3>1
      <3>5. QED
        BY <3>2, <3>3, <3>4
    <2>3. f[n] = h[n] /\ f[0] = 0 /\ g[0] = 0
      BY <1>1, <1>3, <1>4
    <2>4. f[n] - f[0] = g[n] - g[0]
      <3> HIDE DEF f, n
      <3>1. QED
        BY <1>1, <2>1, <2>2, SumsGrowAlike
    <2>5. f[n] \in Int /\ g[n] \in Int
      BY <1>1, <2>1
    <2>6. QED
      BY <2>3, <2>4, <2>5
  <1>6. h[n + 1] = h[n] + r[n + 1].size
    <2>1. n + 1 \in 1 .. n + 1 /\ n + 1 - 1 = n
      BY <1>1
    <2>2. QED
      BY <1>4, <2>1
  <1>7. QED
    BY <1>1, <1>3, <1>4, <1>5, <1>6 DEF r

\* An item less, the first.
LEMMA TotalOfTail ==
    ASSUME NEW s \in Seq(Items), s # << >>
    PROVE  /\ Tail(s) \in Seq(Items) /\ Head(s) \in Items /\ Head(s).size \in Nat
           /\ Total(s) = Head(s).size + Total(Tail(s))
  <1> DEFINE r == Tail(s)
             n == Len(r)
  <1>1. /\ n \in Nat /\ r \in Seq(Items) /\ Len(s) = n + 1
        /\ Head(s) = s[1] /\ \A k \in 1 .. n : r[k] = s[k + 1]
    BY HeadTailProperties, EmptySeq
  <1>2. /\ s[1] \in Items /\ s[1].size \in Nat
        /\ \A k \in 1 .. n : r[k].size \in Nat
    <2>1. \A k \in 1 .. n : r[k] \in Items
      BY <1>1, ElementOfSeq
    <2>2. s[1] \in Items
      BY <1>1, ElementOfSeq
    <2>3. QED
      BY <2>1, <2>2 DEF Items
  <1> HIDE DEF r
  <1>3. PICK g \in [0 .. n + 1 -> Nat] : /\ g[0] = 0
                                         /\ \A k \in 1 .. n + 1 : g[k] = g[k - 1] + s[k].size
                                         /\ Total(s) = g[n + 1]
    BY <1>1, PartialSums
  <1>4. PICK h \in [0 .. n -> Nat] : /\ h[0] = 0
                                     /\ \A k \in 1 .. n : h[k] = h[k - 1] + r[k].size
                                     /\ Total(r) = h[n]
    BY <1>1, PartialSums
  <1>5. g[1] = s[1].size
    <2>1. 1 \in 1 .. n + 1 /\ 1 - 1 = 0
      BY <1>1
    <2>2. g[1] = g[0] + s[1].size
      BY <1>3, <2>1
    <2>3. QED
      BY <1>2, <1>3, <2>2
  <1> DEFINE f == [k \in 0 .. n |-> g[k + 1]]
  <1>6. f[n] = h[n] + s[1].size
    <2>1. f \in [0 .. n -> Int] /\ h \in [0 .. n -> Int]
      <3>1. \A k \in 0 .. n : k + 1 \in 0 .. n + 1
        BY <1>1
      <3>2. QED
        BY <3>1
    <2>2. SameSummands(n, f, h)
      <3> USE DEF SameSummands
      <3> TAKE k \in 1 .. n
      <3>1. /\ k \in 0 .. n /\ k - 1 \in 0 .. n /\ k - 1 + 1 = k /\ k + 1 - 1 = k
            /\ k + 1 \in 1 .. n + 1
        BY <1>1
      <3>2. f[k] = g[k + 1] /\ f[k - 1] = g[k]
        <4>1. \A j \in 0 .. n : f[j] = g[j + 1]
          OBVIOUS
        <4> HIDE DEF f, n
        <4>2. f[k] = g[k + 1] /\ f[k - 1] = g[k - 1 + 1]
          BY <3>1, <4>1
        <4>3. QED
          BY <3>1, <4>2
      <3>3. g[k + 1] = g[k] + s[k + 1].size /\ h[k] = h[k - 1] + s[k + 1].size
        <4>1. g[k + 1] = g[k + 1 - 1] + s[k + 1].size
          BY <1>3, <3>1
        <4>2. h[k] = h[k - 1] + r[k].size /\ r[k] = s[k + 1]
          BY <1>1, <1>4
        <4>3. QED
          BY <3>1, <4>1, <4>2
      <3>4. f[k - 1] \in Int /\ h[k - 1] \in Int
        BY <2>1, <3>1
      <3>5. s[k + 1].size \in Nat
        BY <1>1, <1>2
      <3>6. QED
        BY <3>2, <3>3, <3>4, <3>5
    <2>3. f[0] = s[1].size /\ h[0] = 0
      BY <1>1, <1>4, <1>5
    <2>4. f[n] - f[0] = h[n] - h[0]
      <3> HIDE DEF f, n
      <3>1. QED
        BY <1>1, <2>1, <2>2, SumsGrowAlike
    <2>5. f[n] \in Int /\ h[n] \in Int
      BY <1>1, <2>1
    <2>6. QED
      BY <1>2, <2>3, <2>4, <2>5
  <1>7. f[n] = g[n + 1] /\ h[n] \in Nat
    BY <1>1
  <1>8. QED
    BY <1>1, <1>2, <1>3, <1>4, <1>6, <1>7 DEF r

\* A single item.
LEMMA TotalOfOne ==
    ASSUME NEW item \in Items
    PROVE  Total(<<item>>) = item.size
  <1>1. << >> \in Seq(Items) /\ Append(<< >>, item) = <<item>> /\ item.size \in Nat
    BY DEF Items
  <1>2. Total(Append(<< >>, item)) = 0 + item.size
    BY <1>1, TotalOfAppend, TotalOfNothing
  <1>3. QED
    BY <1>1, <1>2

-----------------------------------------------------------------------------
(* The size that a name stands for. *)

\* An int64 results from wrapping, and one is left alone by it.
LEMMA WrapProperties ==
    ASSUME NEW n \in Nat
    PROVE  /\ Wrap(n) \in -(IntMax + 1) .. IntMax
           /\ n <= IntMax => Wrap(n) = n
  BY GcsUtilAssumption DEF Wrap

\* FindLastOf finds the last token of a kind, or 0.
LEMMA FindLastOfProperties ==
    ASSUME NEW name \in Seq(Tokens), NEW kind
    PROVE  LET p == FindLastOf(name, kind)
           IN /\ p \in 0 .. Len(name)
              /\ p # 0 => name[p].kind = kind
              /\ \A k \in p + 1 .. Len(name) : name[k].kind # kind
  <1> DEFINE p == FindLastOf(name, kind)
             I == {k \in 1 .. Len(name) : name[k].kind = kind}
  <1>1. p = IF I # {} THEN Max(I) ELSE 0
    BY DEF FindLastOf, SelectLastInSeq
  <1>2. Len(name) \in Nat
    OBVIOUS
  <1>3. CASE I = {}
    BY <1>1, <1>2, <1>3
  <1>4. CASE I # {}
    <2>1. Max(I) \in I /\ \A k \in I : Max(I) >= k
      BY <1>2, <1>4, BoundedSetHasMax
    <2>2. p = Max(I)
      BY <1>1, <1>4
    <2>3. p \in 1 .. Len(name) /\ name[p].kind = kind
      BY <2>1, <2>2
    <2>4. \A k \in p + 1 .. Len(name) : k \notin I
      BY <2>1, <2>2, <2>3
    <2>5. QED
      BY <2>3, <2>4
  <1>5. QED
    BY <1>3, <1>4

\* What a word is in lower case is settled letter by letter, as far as units need it.
LEMMA LowerCase ==
    ASSUME NEW word \in Seq(Letters), NEW a, NEW b, NEW c
    PROVE  /\ AsciiStrToLower(word) = << >> <=> Len(word) = 0
           /\ AsciiStrToLower(word) = <<a>> <=> Len(word) = 1 /\ word[1].letter = a
           /\ AsciiStrToLower(word) = <<a, b, c>> <=>
                 /\ Len(word) = 3 /\ word[1].letter = a
                 /\ word[2].letter = b /\ word[3].letter = c
  <1> DEFINE n == Len(word)
             low == [i \in 1 .. n |-> word[i].letter]
  <1>1. n \in Nat /\ DOMAIN word = 1 .. n
    OBVIOUS
  <1>2. AsciiStrToLower(word) = low /\ DOMAIN low = 1 .. n
    BY <1>1 DEF AsciiStrToLower
  <1>3. \A i \in 1 .. n : low[i] = word[i].letter
    OBVIOUS
  <1>4. low = << >> <=> n = 0
    BY <1>1, <1>2
  <1>5. ASSUME NEW t \in Seq({a, b, c}), NEW m \in Nat, Len(t) = m
        PROVE  low = t <=> n = m /\ \A i \in 1 .. m : word[i].letter = t[i]
    <2>1. DOMAIN t = 1 .. m /\ t = [i \in 1 .. m |-> t[i]]
      BY <1>5
    <2>2. ASSUME low = t
          PROVE  n = m /\ \A i \in 1 .. m : word[i].letter = t[i]
      <3>1. 1 .. n = 1 .. m /\ \A i \in 1 .. n : low[i] = t[i]
        <4> HIDE DEF low
        <4>1. DOMAIN low = 1 .. m
          BY <2>1, <2>2
        <4>2. \A i \in 1 .. n : low[i] = t[i]
          BY <2>2
        <4>3. QED
          BY <1>2, <4>1, <4>2
      <3> HIDE DEF low
      <3>2. n = m
        <4> HIDE DEF n
        <4>1. /\ n >= 1 => n \in 1 .. n
              /\ m >= 1 => m \in 1 .. m
          BY <1>1
        <4>2. /\ n >= 1 => n <= m
              /\ m >= 1 => m <= n
          BY <1>1, <3>1, <4>1
        <4>3. QED
          BY <1>1, <4>2
      <3>3. QED
        BY <1>3, <3>1, <3>2
    <2>3. ASSUME n = m, \A i \in 1 .. m : word[i].letter = t[i]
          PROVE  low = t
      <3>1. low = [i \in 1 .. m |-> t[i]]
        BY <2>3
      <3>2. QED
        BY <2>1, <3>1
    <2>4. QED
      BY <2>2, <2>3
  <1>6. /\ <<a>> \in Seq({a, b, c}) /\ Len(<<a>>) = 1 /\ <<a>>[1] = a
        /\ <<a, b, c>> \in Seq({a, b, c}) /\ Len(<<a, b, c>>) = 3
        /\ <<a, b, c>>[1] = a /\ <<a, b, c>>[2] = b /\ <<a, b, c>>[3] = c
        /\ \A i \in 1 .. 1 : i = 1
        /\ \A i \in 1 .. 3 : i \in {1, 2, 3}
    OBVIOUS
  <1> HIDE DEF low
  <1>7. low = <<a>> <=> n = 1 /\ word[1].letter = a
    <2>1. low = <<a>> <=> n = 1 /\ \A i \in 1 .. 1 : word[i].letter = <<a>>[i]
      BY <1>5, <1>6
    <2>2. QED
      BY <1>6, <2>1
  <1>8. low = <<a, b, c>> <=>
           n = 3 /\ word[1].letter = a /\ word[2].letter = b /\ word[3].letter = c
    <2>1. low = <<a, b, c>> <=>
             n = 3 /\ \A i \in 1 .. 3 : word[i].letter = <<a, b, c>>[i]
      BY <1>5, <1>6
    <2>2. QED
      BY <1>6, <2>1
  <1>9. QED
    BY <1>2, <1>4, <1>7, <1>8

\* A multiplier is a natural number, and 1 if there is no unit.
LEMMA UnitMultiplierType ==
    ASSUME NEW unit
    PROVE  GetUnitMultiplier(unit) \in Nat /\ GetUnitMultiplier(<< >>) = 1
  <1>1. K \in Nat /\ K * K \in Nat /\ K * K * K \in Nat /\ K * K * K * K \in Nat
    BY GcsUtilAssumption
  <1>2. GetUnitMultiplier(unit) \in Nat
    BY <1>1 DEF GetUnitMultiplier
  <1>3. AsciiStrToLower(<< >>) = << >>
    BY DEF AsciiStrToLower
  <1>4. QED
    BY <1>2, <1>3 DEF GetUnitMultiplier

\* The units that the code knows, in either case, are those that IsUnit says there are,
\* and they stand for the same powers of K.
LEMMA UnitsAgree ==
    ASSUME NEW word \in Seq(Letters), word # << >>
    PROVE  /\ \A power \in 1 .. 4 : IsUnit(word, power) =>
                 GetUnitMultiplier(word) = Powers[power] /\ GetUnitMultiplier(word) > 0
           /\ GetUnitMultiplier(word) > 0 => \E power \in 1 .. 4 : IsUnit(word, power)
  <1> DEFINE s == AsciiStrToLower(word)
             first == <<"k", "m", "g", "t">>
             Spelt(x) == s \in {<<x>>, <<x, "i", "b">>}
  <1>1. /\ Powers[1] = K /\ Powers[2] = K * K
        /\ Powers[3] = K * K * K /\ Powers[4] = K * K * K * K
    BY DEF Powers
  <1>2. K > 0 /\ K * K > 0 /\ K * K * K > 0 /\ K * K * K * K > 0
    BY GcsUtilAssumption
  <1>3. ASSUME NEW power \in 1 .. 4
        PROVE  IsUnit(word, power) <=> Spelt(first[power])
    <2> DEFINE x == first[power]
    <2>1. /\ s = <<x>> <=> Len(word) = 1 /\ word[1].letter = x
          /\ s = <<x, "i", "b">> <=>
                /\ Len(word) = 3 /\ word[1].letter = x
                /\ word[2].letter = "i" /\ word[3].letter = "b"
      <3> HIDE DEF x
      <3>1. QED
        BY LowerCase
    <2>2. IsUnit(word, power) <=>
             /\ Len(word) \in {1, 3} /\ word[1].letter = x
             /\ Len(word) = 3 => word[2].letter = "i" /\ word[3].letter = "b"
      BY DEF IsUnit
    <2> HIDE DEF x, s
    <2>3. Spelt(x) <=> s = <<x>> \/ s = <<x, "i", "b">>
      OBVIOUS
    <2>4. IsUnit(word, power) <=> Spelt(x)
      BY <2>1, <2>2, <2>3
    <2>5. QED
      BY <2>4 DEF x
  <1>4. s # << >>
    BY LowerCase, EmptySeq
  <1>5. /\ first[1] = "k" /\ first[2] = "m" /\ first[3] = "g" /\ first[4] = "t"
        /\ \A power \in 1 .. 4 : power \in {1, 2, 3, 4}
    OBVIOUS
  <1>6. GetUnitMultiplier(word) = CASE Spelt("k") -> K        [] Spelt("m") -> K * K
                                    [] Spelt("g") -> K * K * K [] Spelt("t") -> K * K * K * K
                                    [] OTHER -> 0
    BY <1>4 DEF GetUnitMultiplier
  <1>7. \A x, y : x # y => ~(Spelt(x) /\ Spelt(y))
    BY LowerCase
  <1> HIDE DEF s, first, Spelt
  <1>8. /\ IsUnit(word, 1) <=> Spelt("k")
        /\ IsUnit(word, 2) <=> Spelt("m")
        /\ IsUnit(word, 3) <=> Spelt("g")
        /\ IsUnit(word, 4) <=> Spelt("t")
    BY <1>3, <1>5
  <1>9. /\ Spelt("k") => ~Spelt("m") /\ ~Spelt("g") /\ ~Spelt("t")
        /\ Spelt("m") => ~Spelt("g") /\ ~Spelt("t")
        /\ Spelt("g") => ~Spelt("t")
    BY <1>7
  <1>10. QED
    BY <1>1, <1>2, <1>5, <1>6, <1>8, <1>9

\* Where the basename lies in the name: behind the last slash, which is at s, and
\* before the last dot behind that, which is at e, or else to the end.
BasenameIs(object, s, e) ==
    /\ s \in 0 .. Len(object) /\ e \in s + 1 .. Len(object) + 1
    /\ s # 0 => object[s].kind = "slash"
    /\ \A k \in s + 1 .. Len(object) : object[k].kind # "slash"
    /\ e # Len(object) + 1 => object[e].kind = "dot"
    /\ \A k \in e + 1 .. Len(object) : object[k].kind # "dot"
    /\ e = Len(object) + 1 => \A k \in s + 1 .. Len(object) : object[k].kind # "dot"
    /\ Len(GetBasenameWithoutExt(object)) = e - 1 - s
    /\ \A k \in 1 .. e - 1 - s : GetBasenameWithoutExt(object)[k] = object[s + k]

\* The basename is a part of the name, between a slash and a dot or their like.
LEMMA BasenameLies ==
    ASSUME NEW object \in Seq(Tokens)
    PROVE  \E s, e \in Nat : BasenameIs(object, s, e)
  <1> DEFINE n == Len(object)
             s == FindLastOf(object, "slash")
             name == SubSeq(object, s + 1, n)
             ext == FindLastOf(name, "dot")
             base == GetBasenameWithoutExt(object)
  <1>1. /\ n \in Nat /\ s \in 0 .. n
        /\ s # 0 => object[s].kind = "slash"
        /\ \A k \in s + 1 .. n : object[k].kind # "slash"
    BY FindLastOfProperties
  <1> HIDE DEF s
  <1>2. n \in Nat /\ s \in 0 .. n
    BY <1>1
  <1>3. /\ name \in Seq(Tokens) /\ Len(name) = n - s
        /\ \A k \in 1 .. n - s : name[k] = object[s + k]
    <2>1. \A k \in s + 1 .. n : object[k] \in Tokens
      BY <1>2, ElementOfSeq
    <2>2. name \in Seq(Tokens) /\ Len(name) = IF s + 1 <= n THEN n - (s + 1) + 1 ELSE 0
      BY <1>2, <2>1, SubSeqProperties
    <2>3. \A k \in 1 .. n - (s + 1) + 1 : name[k] = object[(s + 1) + k - 1]
      BY <1>2, <2>1, SubSeqProperties
    <2>4. \A k \in 1 .. n - s : (s + 1) + k - 1 = s + k
      BY <1>2
    <2>5. QED
      BY <1>2, <2>2, <2>3, <2>4
  <1> HIDE DEF name
  <1>4. /\ ext \in 0 .. n - s
        /\ ext # 0 => name[ext].kind = "dot"
        /\ \A k \in ext + 1 .. n - s : name[k].kind # "dot"
    BY <1>3, FindLastOfProperties
  <1>5. ext \in 0 .. n - s
    BY <1>4
  <1>6. base = IF ext = 0 THEN name ELSE SubSeq(name, 1, ext - 1)
    BY DEF GetBasenameWithoutExt, s, name
  <1> HIDE DEF ext
  <1>7. CASE ext = 0
    <2>1. base = name
      BY <1>6, <1>7
    <2>2. \A k \in s + 1 .. n : object[k].kind # "dot"
      <3> TAKE k \in s + 1 .. n
      <3>1. k - s \in 1 .. n - s /\ s + (k - s) = k /\ k - s \in ext + 1 .. n - s
        BY <1>2, <1>7
      <3>2. QED
        BY <1>3, <1>4, <3>1
    <2>3. BasenameIs(object, s, n + 1)
      BY <1>1, <1>2, <1>3, <2>1, <2>2 DEF BasenameIs
    <2>4. QED
      BY <1>2, <2>3
  <1>8. CASE ext # 0
    <2> DEFINE e == s + ext
    <2>1. e \in s + 1 .. n /\ e # n + 1 /\ e \in Nat /\ e - 1 - s = ext - 1 /\ ext \in 1 .. n - s
      BY <1>2, <1>5, <1>8
    <2>2. object[e].kind = "dot"
      BY <1>3, <1>4, <1>8, <2>1
    <2>3. \A k \in e + 1 .. n : object[k].kind # "dot"
      <3> TAKE k \in e + 1 .. n
      <3>1. k - s \in 1 .. n - s /\ s + (k - s) = k /\ k - s \in ext + 1 .. n - s
        BY <1>2, <2>1
      <3>2. QED
        BY <1>3, <1>4, <3>1
    <2>4. Len(base) = ext - 1 /\ \A k \in 1 .. ext - 1 : base[k] = object[s + k]
      <3>1. \A k \in 1 .. ext - 1 : name[k] \in Tokens /\ name[k] = object[s + k]
        <4> TAKE k \in 1 .. ext - 1
        <4>1. k \in 1 .. n - s /\ k \in 1 .. Len(name)
          BY <1>2, <1>3, <2>1
        <4>2. QED
          BY <1>3, <4>1, ElementOfSeq
      <3>2. Len(base) = IF 1 <= ext - 1 THEN ext - 1 - 1 + 1 ELSE 0
        BY <1>6, <1>8, <2>1, <3>1, SubSeqProperties
      <3>3. \A k \in 1 .. ext - 1 - 1 + 1 : base[k] = name[1 + k - 1]
        BY <1>6, <1>8, <2>1, <3>1, SubSeqProperties
      <3>4. \A k \in 1 .. ext - 1 : 1 + k - 1 = k
        BY <2>1
      <3>5. QED
        BY <2>1, <3>1, <3>2, <3>3, <3>4
    <2>5. BasenameIs(object, s, e)
      <3> HIDE DEF e, base
      <3>1. QED
        BY <1>1, <1>2, <2>1, <2>2, <2>3, <2>4 DEF BasenameIs, base
    <2>6. QED
      BY <1>2, <2>1, <2>5
  <1>9. QED
    BY <1>7, <1>8

\* An extension, by positions.
LEMMA ExtensionLies ==
    ASSUME NEW object \in Seq(Tokens), NEW j \in 1 .. Len(object) + 1
    PROVE  IsExtension(SubSeq(object, j, Len(object))) <=>
              \/ j = Len(object) + 1
              \/ /\ j # Len(object) + 1
                 /\ object[j].kind = "dot"
                 /\ \A k \in j + 1 .. Len(object) : object[k].kind \notin {"dot", "slash"}
  <1> DEFINE n == Len(object)
             rest == SubSeq(object, j, n)
  <1>1. /\ n \in Nat /\ rest \in Seq(Tokens) /\ Len(rest) = n - j + 1
        /\ \A k \in 1 .. n - j + 1 : rest[k] = object[j + k - 1]
    <2>1. n \in Nat /\ \A k \in j .. n : object[k] \in Tokens
      BY ElementOfSeq
    <2>2. /\ rest \in Seq(Tokens) /\ Len(rest) = IF j <= n THEN n - j + 1 ELSE 0
          /\ \A k \in 1 .. n - j + 1 : rest[k] = object[j + k - 1]
      BY <2>1, SubSeqProperties
    <2>3. QED
      BY <2>1, <2>2
  <1> HIDE DEF rest
  <1>2. CASE j = n + 1
    <2>1. rest = << >>
      BY <1>1, <1>2, EmptySeq
    <2>2. QED
      BY <1>2, <2>1 DEF IsExtension, rest
  <1>3. CASE j # n + 1
    <2>1. /\ rest # << >> /\ Head(rest) = object[j]
          /\ j \in 1 .. n
      <3>1. j \in 1 .. n /\ 1 \in 1 .. n - j + 1 /\ j + 1 - 1 = j
        BY <1>1, <1>3
      <3>2. rest # << >> /\ Head(rest) = rest[1]
        BY <1>1, <3>1
      <3>3. QED
        BY <1>1, <3>1, <3>2
    <2>2. (\A k \in 2 .. Len(rest) : rest[k].kind \notin {"dot", "slash"}) <=>
          (\A k \in j + 1 .. n : object[k].kind \notin {"dot", "slash"})
      <3>1. ASSUME \A k \in 2 .. Len(rest) : rest[k].kind \notin {"dot", "slash"},
                   NEW k \in j + 1 .. n
            PROVE  object[k].kind \notin {"dot", "slash"}
        <4>1. k - j + 1 \in 2 .. Len(rest) /\ k - j + 1 \in 1 .. n - j + 1
              /\ j + (k - j + 1) - 1 = k
          BY <1>1, <2>1
        <4>2. QED
          BY <1>1, <3>1, <4>1
      <3>2. ASSUME \A k \in j + 1 .. n : object[k].kind \notin {"dot", "slash"},
                   NEW k \in 2 .. Len(rest)
            PROVE  rest[k].kind \notin {"dot", "slash"}
        <4>1. k \in 1 .. n - j + 1 /\ j + k - 1 \in j + 1 .. n
          BY <1>1, <2>1
        <4>2. QED
          BY <1>1, <3>2, <4>1
      <3>3. QED
        BY <3>1, <3>2
    <2>3. QED
      BY <1>3, <2>1, <2>2 DEF IsExtension, rest
  <1>4. QED
    BY <1>2, <1>3

\* A name that begins with a number, behind a directory if any: what SizesNamed looks
\* for, in the position i.
StartsAt(object, i) ==
    /\ i \in 1 .. Len(object)
    /\ object[i].kind = "digits" /\ object[i].number <= IntMax
    /\ i = 1 \/ object[i - 1].kind = "slash"

\* What is left of a name between such a start, at i, and an extension that begins
\* at j is its basename: and the other way round.
LEMMA BasenameBetween ==
    ASSUME NEW object \in Seq(Tokens), NEW s \in Nat, NEW e \in Nat,
           BasenameIs(object, s, e),
           NEW i \in Nat, NEW j \in i + 1 .. Len(object) + 1,
           \A k \in i .. j - 1 : k <= Len(object) => object[k].kind \notin {"dot", "slash"},
           StartsAt(object, i),
           IsExtension(SubSeq(object, j, Len(object)))
    PROVE  i = s + 1 /\ j = e
  <1> DEFINE n == Len(object)
  <1>1. /\ n \in Nat /\ i \in 1 .. n /\ j \in 1 .. n + 1
        /\ s \in 0 .. n /\ e \in s + 1 .. n + 1
    BY DEF StartsAt, BasenameIs
  <1>2. \/ j = n + 1
        \/ /\ j # n + 1 /\ object[j].kind = "dot"
           /\ \A k \in j + 1 .. n : object[k].kind \notin {"dot", "slash"}
    BY <1>1, ExtensionLies
  <1>3. \A k \in i .. n : object[k].kind # "slash"
    <2> TAKE k \in i .. n
    <2>1. CASE k < j
      <3>1. k \in i .. j - 1 /\ k <= n
        BY <1>1, <2>1
      <3>2. QED
        BY <3>1
    <2>2. CASE k = j
      <3>1. j # n + 1
        BY <1>1, <2>2
      <3>2. QED
        BY <1>2, <2>2, <3>1
    <2>3. CASE k > j
      <3>1. j # n + 1 /\ k \in j + 1 .. n
        BY <1>1, <2>3
      <3>2. QED
        BY <1>2, <3>1
    <2>4. QED
      BY <1>1, <2>1, <2>2, <2>3
  <1>4. i = s + 1
    <2>1. s < i
      <3>1. CASE s = 0
        BY <1>1, <3>1
      <3>2. CASE s # 0
        <4>1. object[s].kind = "slash"
          BY <3>2 DEF BasenameIs
        <4>2. s \notin i .. n
          BY <1>3, <4>1
        <4>3. QED
          BY <1>1, <4>2
      <3>3. QED
        BY <3>1, <3>2
    <2>2. i - 1 <= s
      <3>1. CASE i = 1
        BY <1>1, <3>1
      <3>2. CASE i # 1
        <4>1. object[i - 1].kind = "slash" /\ i - 1 \in 1 .. n
          BY <1>1, <3>2 DEF StartsAt
        <4>2. i - 1 \notin s + 1 .. n
          BY <4>1 DEF BasenameIs
        <4>3. QED
          BY <1>1, <4>1, <4>2
      <3>3. QED
        BY <3>1, <3>2
    <2>3. QED
      BY <1>1, <2>1, <2>2
  <1>5. \A k \in i .. j - 1 : k \in 1 .. n /\ object[k].kind # "dot"
    <2> TAKE k \in i .. j - 1
    <2>1. k \in 1 .. n /\ k <= n
      BY <1>1
    <2>2. QED
      BY <2>1
  <1>6. j = e
    <2>1. CASE j = n + 1
      <3>1. e \notin i .. n
        <4> SUFFICES ASSUME e \in i .. n PROVE FALSE
          OBVIOUS
        <4>1. e # n + 1 /\ e \in i .. j - 1
          BY <1>1, <2>1
        <4>2. object[e].kind = "dot"
          BY <4>1 DEF BasenameIs
        <4>3. QED
          BY <1>5, <4>1, <4>2
      <3>2. QED
        BY <1>1, <1>4, <2>1, <3>1
    <2>2. CASE j # n + 1
      <3>1. object[j].kind = "dot" /\ j \in s + 1 .. n
        BY <1>1, <1>2, <1>4, <2>2
      <3>2. e # n + 1
        <4>1. e = n + 1 => \A k \in s + 1 .. n : object[k].kind # "dot"
          BY DEF BasenameIs
        <4>2. QED
          BY <3>1, <4>1
      <3>3. object[e].kind = "dot" /\ e \in i .. n
        <4>1. object[e].kind = "dot"
          BY <3>2 DEF BasenameIs
        <4>2. QED
          BY <1>1, <1>4, <3>2, <4>1
      <3>4. j \notin e + 1 .. n
        <4>1. \A k \in e + 1 .. n : object[k].kind # "dot"
          BY DEF BasenameIs
        <4>2. QED
          BY <3>1, <4>1
      <3>5. e \notin i .. j - 1
        BY <1>5, <3>3
      <3>6. e \notin j + 1 .. n
        BY <1>2, <2>2, <3>3
      <3>7. QED
        BY <1>1, <3>1, <3>3, <3>5, <3>6
    <2>3. QED
      BY <2>1, <2>2
  <1>7. QED
    BY <1>4, <1>6

\* A basename that begins with a digits token is a start, followed by an extension.
LEMMA BasenameStarts ==
    ASSUME NEW object \in Seq(Tokens), NEW s \in Nat, NEW e \in Nat,
           BasenameIs(object, s, e), e # s + 1,
           object[s + 1].kind = "digits", object[s + 1].number <= IntMax
    PROVE  /\ StartsAt(object, s + 1)
           /\ IsExtension(SubSeq(object, e, Len(object)))
  <1> DEFINE n == Len(object)
  <1>1. /\ n \in Nat /\ s \in 0 .. n /\ e \in s + 1 .. n + 1 /\ s + 1 \in 1 .. n
        /\ s # 0 => object[s].kind = "slash"
        /\ s + 1 - 1 = s /\ e \in 1 .. n + 1
    BY DEF BasenameIs
  <1>2. StartsAt(object, s + 1)
    BY <1>1 DEF StartsAt
  <1>3. CASE e = n + 1
    BY <1>1, <1>2, <1>3, ExtensionLies
  <1>4. CASE e # n + 1
    <2>1. \A k \in e + 1 .. n : object[k].kind \notin {"dot", "slash"}
      <3> TAKE k \in e + 1 .. n
      <3>1. k \in s + 1 .. n
        BY <1>1
      <3>2. QED
        BY <3>1 DEF BasenameIs
    <2>2. object[e].kind = "dot"
      BY <1>4 DEF BasenameIs
    <2>3. QED
      BY <1>1, <1>2, <1>4, <2>1, <2>2, ExtensionLies
  <1>5. QED
    BY <1>3, <1>4

\* SizesNamed, by positions: a start and an extension with nothing between them, or
\* with a unit between them.
PlainAt(object, i) ==
    StartsAt(object, i) /\ IsExtension(SubSeq(object, i + 1, Len(object)))

UnitAt(object, i) ==
    /\ StartsAt(object, i)
    /\ i # Len(object)
    /\ object[i + 1].kind = "letters"
    /\ GetUnitMultiplier(object[i + 1].text) > 0
    /\ IsExtension(SubSeq(object, i + 2, Len(object)))

\* The splits of a name, place by place: digits, or digits and a unit.
LEMMA SizesNamedLie ==
    ASSUME NEW object \in Seq(Tokens), NEW m
    PROVE  m \in SizesNamed(object) <=>
              \/ \E i \in 1 .. Len(object) : PlainAt(object, i) /\ m = object[i].number
              \/ \E i \in 1 .. Len(object) :
                    /\ UnitAt(object, i)
                    /\ m = object[i].number * GetUnitMultiplier(object[i + 1].text)
  <1> DEFINE n == Len(object)
             After(i) == SubSeq(object, i + 1, n)
             Starts == {i \in 1 .. n : StartsAt(object, i)}
             HasUnit(i, power) == /\ After(i) # << >> /\ Head(After(i)).kind = "letters"
                                  /\ IsUnit(Head(After(i)).text, power)
                                  /\ IsExtension(Tail(After(i)))
             Plain == {object[i].number : i \in {k \in Starts : IsExtension(After(k))}}
             WithUnit == {object[u[1]].number * Powers[u[2]] :
                             u \in {v \in Starts \X (1 .. 4) : HasUnit(v[1], v[2])}}
  <1>1. SizesNamed(object) = Plain \cup WithUnit
    BY DEF SizesNamed, StartsAt
  <1>2. ASSUME NEW i \in 1 .. n
        PROVE  /\ i # n => /\ After(i) # << >> /\ Head(After(i)) = object[i + 1]
                           /\ Tail(After(i)) = SubSeq(object, i + 2, n)
               /\ i = n => After(i) = << >>
    <2>1. n \in Nat
      OBVIOUS
    <2>2. CASE i # n
      <3>1. i + 1 \in 1 .. n /\ n \in i + 1 .. n /\ i + 1 + 1 = i + 2
        BY <2>1, <2>2
      <3>2. Head(After(i)) = object[i + 1] /\ Tail(After(i)) = SubSeq(object, i + 2, n)
        BY <3>1, HeadTailOfSubSeq
      <3>3. Len(After(i)) = n - (i + 1) + 1
        <4>1. \A k \in i + 1 .. n : object[k] \in Tokens
          BY <3>1, ElementOfSeq
        <4>2. QED
          BY <2>1, <3>1, <4>1, SubSeqProperties
      <3>4. After(i) # << >>
        <4>1. n - (i + 1) + 1 # 0
          BY <2>1, <3>1
        <4> HIDE DEF After
        <4>2. Len(After(i)) # 0
          BY <3>3, <4>1
        <4>3. QED
          BY <4>2, EmptySeq
      <3>5. QED
        BY <2>2, <3>2, <3>4
    <2>3. CASE i = n
      <3>1. n < n + 1 /\ n + 1 \in Int
        BY <2>1
      <3>2. QED
        BY <2>1, <2>3, <3>1, SubSeqEmpty
    <2>4. QED
      BY <2>2, <2>3
  <1>3. \A i \in 1 .. n : PlainAt(object, i) <=> i \in Starts /\ IsExtension(After(i))
    <2> HIDE DEF After
    <2>1. QED
      BY DEF PlainAt, After
  <1>4. \A i \in 1 .. n : object[i].kind = "letters" =>
           object[i].text \in Seq(Letters) /\ object[i].text # << >>
    <2>1. \A i \in 1 .. n : object[i] \in Tokens
      BY ElementOfSeq
    <2>2. QED
      BY <2>1 DEF Tokens
  <1>5. ASSUME NEW i \in 1 .. n
        PROVE  /\ \A power \in 1 .. 4 : i \in Starts /\ HasUnit(i, power) =>
                     UnitAt(object, i) /\ Powers[power] = GetUnitMultiplier(object[i + 1].text)
               /\ UnitAt(object, i) => \E power \in 1 .. 4 : i \in Starts /\ HasUnit(i, power)
    <2>1. i # n => i + 1 \in 1 .. n
      BY <1>5
    <2> HIDE DEF After
    <2>2. i \in Starts <=> StartsAt(object, i)
      OBVIOUS
    <2>3. ASSUME NEW power \in 1 .. 4
          PROVE  HasUnit(i, power) <=>
                    /\ i # n /\ object[i + 1].kind = "letters"
                    /\ IsUnit(object[i + 1].text, power)
                    /\ IsExtension(SubSeq(object, i + 2, n))
      BY <1>2
    <2>4. UnitAt(object, i) <=>
             /\ i \in Starts /\ i # n /\ object[i + 1].kind = "letters"
             /\ GetUnitMultiplier(object[i + 1].text) > 0
             /\ IsExtension(SubSeq(object, i + 2, n))
      BY <2>2 DEF UnitAt
    <2> HIDE DEF HasUnit, Starts
    <2> DEFINE word == object[i + 1].text
    <2>5. i # n /\ object[i + 1].kind = "letters" =>
             /\ \A power \in 1 .. 4 : IsUnit(word, power) =>
                   GetUnitMultiplier(word) = Powers[power] /\ GetUnitMultiplier(word) > 0
             /\ GetUnitMultiplier(word) > 0 => \E power \in 1 .. 4 : IsUnit(word, power)
      <3>1. i # n /\ object[i + 1].kind = "letters" =>
               word \in Seq(Letters) /\ word # << >>
        BY <1>4, <2>1
      <3> HIDE DEF word
      <3>2. QED
        BY <3>1, UnitsAgree
    <2>6. QED
      BY <2>3, <2>4, <2>5
  <1>6. m \in Plain <=> \E i \in 1 .. n : PlainAt(object, i) /\ m = object[i].number
    <2> HIDE DEF After
    <2>1. QED
      BY <1>3
  <1>7. m \in WithUnit <=> \E i \in 1 .. n :
           UnitAt(object, i) /\ m = object[i].number * GetUnitMultiplier(object[i + 1].text)
    <2> HIDE DEF After, HasUnit
    <2>1. m \in WithUnit <=> \E i \in Starts, power \in 1 .. 4 :
             HasUnit(i, power) /\ m = object[i].number * Powers[power]
      <3> HIDE DEF Starts
      <3> DEFINE Pairs == {v \in Starts \X (1 .. 4) : HasUnit(v[1], v[2])}
                 scaled(u) == object[u[1]].number * Powers[u[2]]
      <3>1. m \in WithUnit <=> \E u \in Pairs : m = scaled(u)
        <4> HIDE DEF scaled, Pairs
        <4>1. WithUnit = {scaled(u) : u \in Pairs}
          BY DEF scaled, Pairs
        <4> HIDE DEF WithUnit
        <4>2. QED
          BY <4>1
      <3>2. ASSUME NEW u \in Pairs
            PROVE  /\ u[1] \in Starts /\ u[2] \in 1 .. 4 /\ HasUnit(u[1], u[2])
        BY <3>2
      <3>3. ASSUME NEW i \in Starts, NEW power \in 1 .. 4, HasUnit(i, power)
            PROVE  /\ <<i, power>> \in Pairs
                   /\ scaled(<<i, power>>) = object[i].number * Powers[power]
        <4>1. <<i, power>> \in Starts \X (1 .. 4)
          BY <3>3
        <4>2. <<i, power>>[1] = i /\ <<i, power>>[2] = power
          OBVIOUS
        <4>3. QED
          BY <3>3, <4>1, <4>2
      <3>4. QED
        <4> HIDE DEF Pairs, WithUnit
        <4>1. (\E u \in Pairs : m = scaled(u)) =>
                 \E i \in Starts, power \in 1 .. 4 :
                    HasUnit(i, power) /\ m = object[i].number * Powers[power]
          BY <3>2
        <4> HIDE DEF scaled
        <4>2. QED
          BY <3>1, <3>3, <4>1
    <2>2. QED
      BY <1>5, <2>1
  <1>8. QED
    BY <1>1, <1>6, <1>7

\* The size that the code reads off a name is the one that the name's parts stand for:
\* there is one at most, and GetObjectSize returns it, or what the overflow leaves of
\* it, or -1 if there is none.
THEOREM ObjectSizeIsNamed ==
    ASSUME NEW object \in Seq(Tokens)
    PROVE  \/ SizesNamed(object) = {} /\ GetObjectSize(object) = -1
           \/ \E m \in Nat : SizesNamed(object) = {m} /\ GetObjectSize(object) = Wrap(m)
  <1> DEFINE n == Len(object)
             base == GetBasenameWithoutExt(object)
             size(i) == object[i].number
             scaled(i) == object[i].number * GetUnitMultiplier(object[i + 1].text)
  <1>1. PICK s \in Nat, e \in Nat : BasenameIs(object, s, e)
    BY BasenameLies
  <1>2. /\ n \in Nat /\ s \in 0 .. n /\ e \in s + 1 .. n + 1
        /\ Len(base) = e - 1 - s
        /\ \A k \in 1 .. e - 1 - s : base[k] = object[s + k]
    <2>1. n \in Nat
      OBVIOUS
    <2>2. QED
      BY <1>1, <2>1 DEF BasenameIs
  <1> HIDE DEF base
  <1>3. \A k \in 1 .. n : /\ object[k].number \in Nat
                          /\ object[k].kind \in {"slash", "dot", "digits", "letters"}
    <2>1. \A k \in 1 .. n : object[k] \in Tokens
      BY ElementOfSeq
    <2>2. QED
      BY <2>1 DEF Tokens
  <1>4. ASSUME NEW i \in 1 .. n, PlainAt(object, i)
        PROVE  i = s + 1 /\ e = s + 2
    <2>1. /\ i \in Nat /\ i + 1 \in i + 1 .. n + 1
          /\ \A k \in i .. i + 1 - 1 : k = i
      BY <1>2
    <2>2. StartsAt(object, i) /\ IsExtension(SubSeq(object, i + 1, n))
      BY <1>4 DEF PlainAt
    <2>3. object[i].kind = "digits"
      BY <2>2 DEF StartsAt
    <2>4. i = s + 1 /\ i + 1 = e
      BY <1>1, <2>1, <2>2, <2>3, BasenameBetween
    <2>5. QED
      BY <2>4
  <1>5. ASSUME NEW i \in 1 .. n, UnitAt(object, i)
        PROVE  i = s + 1 /\ e = s + 3
    <2>1. /\ i \in Nat /\ i # n /\ i + 2 \in i + 1 .. n + 1 /\ i + 1 \in 1 .. n
          /\ \A k \in i .. i + 2 - 1 : k = i \/ k = i + 1
      BY <1>2, <1>5 DEF UnitAt
    <2>2. StartsAt(object, i) /\ IsExtension(SubSeq(object, i + 2, n))
      BY <1>5 DEF UnitAt
    <2>3. object[i].kind = "digits" /\ object[i + 1].kind = "letters"
      BY <1>5, <2>2 DEF StartsAt, UnitAt
    <2>4. \A k \in i .. i + 2 - 1 : k <= n => object[k].kind \notin {"dot", "slash"}
      BY <2>1, <2>3
    <2> DEFINE j == i + 2
    <2>5. j \in i + 1 .. n + 1
      BY <2>1
    <2>6. i = s + 1 /\ j = e
      <3> HIDE DEF j
      <3>1. (\A k \in i .. j - 1 : k <= n => object[k].kind \notin {"dot", "slash"})
            /\ IsExtension(SubSeq(object, j, n))
        BY <2>2, <2>4 DEF j
      <3>2. QED
        BY <1>1, <2>1, <2>2, <2>5, <3>1, BasenameBetween
    <2>7. QED
      BY <2>6
  <1>6. ASSUME e = s + 2, object[s + 1].kind = "digits", object[s + 1].number <= IntMax
        PROVE  s + 1 \in 1 .. n /\ PlainAt(object, s + 1)
    <2>1. e # s + 1 /\ s + 1 + 1 = e /\ s + 1 \in 1 .. n
      BY <1>2, <1>6
    <2>2. QED
      BY <1>1, <1>6, <2>1, BasenameStarts DEF PlainAt
  <1>7. ASSUME e = s + 3, object[s + 1].kind = "digits", object[s + 1].number <= IntMax,
               object[s + 2].kind = "letters",
               GetUnitMultiplier(object[s + 2].text) > 0
        PROVE  s + 1 \in 1 .. n /\ UnitAt(object, s + 1)
    <2>1. /\ e # s + 1 /\ s + 1 + 2 = e /\ s + 1 \in 1 .. n /\ s + 1 # n
          /\ s + 1 + 1 = s + 2
      BY <1>2, <1>7
    <2>2. QED
      BY <1>1, <1>7, <2>1, BasenameStarts DEF UnitAt
  <1> DEFINE plain == /\ e = s + 2 /\ object[s + 1].kind = "digits"
                      /\ object[s + 1].number <= IntMax
             scales == /\ e = s + 3 /\ object[s + 1].kind = "digits"
                       /\ object[s + 1].number <= IntMax
                       /\ object[s + 2].kind = "letters"
                       /\ GetUnitMultiplier(object[s + 2].text) > 0
  <1>8. CASE plain
    <2>1. s + 1 \in 1 .. n /\ PlainAt(object, s + 1) /\ size(s + 1) \in Nat
      BY <1>3, <1>6, <1>8
    <2>2. \A i \in 1 .. n : ~UnitAt(object, i) /\ (PlainAt(object, i) => i = s + 1)
      BY <1>2, <1>4, <1>5, <1>8
    <2>3. SizesNamed(object) = {size(s + 1)}
      <3>1. \A m : m \in SizesNamed(object) <=> m = size(s + 1)
        BY <2>1, <2>2, SizesNamedLie
      <3>2. QED
        BY <3>1
    <2>4. GetObjectSize(object) = Wrap(size(s + 1))
      <3>1. /\ Len(base) = 1 /\ 1 \in 1 .. e - 1 - s
            /\ base[1] = object[s + 1]
        BY <1>2, <1>8
      <3>2. MatchesSizeRegex(base) /\ Len(base) # 2
        BY <1>8, <3>1 DEF MatchesSizeRegex
      <3>3. GetUnitMultiplier(<< >>) = 1 /\ size(s + 1) * 1 = size(s + 1)
        <4>1. size(s + 1) * 1 = size(s + 1)
          BY <2>1
        <4>2. QED
          BY <4>1, UnitMultiplierType
      <3>4. ~(base[1].number > IntMax)
        BY <1>8, <2>1, <3>1, GcsUtilAssumption
      <3>5. GetObjectSize(object) = Wrap(base[1].number * 1)
        <4>1. (IF Len(base) = 2 THEN base[2].text ELSE << >>) = << >>
          BY <3>2
        <4>2. GetUnitMultiplier(IF Len(base) = 2 THEN base[2].text ELSE << >>) = 1
          BY <3>3, <4>1
        <4>3. 1 # 0
          OBVIOUS
        <4>4. QED
          BY <3>2, <3>4, <4>2, <4>3 DEF GetObjectSize, base
      <3>6. QED
        BY <3>1, <3>3, <3>5
    <2>5. QED
      BY <2>1, <2>3, <2>4
  <1>9. CASE scales
    <2>1. /\ s + 1 \in 1 .. n /\ UnitAt(object, s + 1) /\ s + 1 + 1 = s + 2
          /\ scaled(s + 1) \in Nat
      <3>1. s + 1 \in 1 .. n /\ UnitAt(object, s + 1) /\ s + 1 + 1 = s + 2
        BY <1>2, <1>7, <1>9
      <3>2. object[s + 1].number \in Nat /\ GetUnitMultiplier(object[s + 1 + 1].text) \in Nat
        BY <1>3, <3>1, UnitMultiplierType
      <3>3. QED
        BY <3>1, <3>2
    <2>2. \A i \in 1 .. n : ~PlainAt(object, i) /\ (UnitAt(object, i) => i = s + 1)
      BY <1>2, <1>4, <1>5, <1>9
    <2>3. SizesNamed(object) = {scaled(s + 1)}
      <3>1. \A m : m \in SizesNamed(object) <=> m = scaled(s + 1)
        BY <2>1, <2>2, SizesNamedLie
      <3>2. QED
        BY <3>1
    <2>4. GetObjectSize(object) = Wrap(scaled(s + 1))
      <3>1. /\ Len(base) = 2 /\ 1 \in 1 .. e - 1 - s /\ 2 \in 1 .. e - 1 - s
            /\ base[1] = object[s + 1] /\ base[2] = object[s + 2]
        BY <1>2, <1>9
      <3>2. MatchesSizeRegex(base)
        BY <1>9, <3>1 DEF MatchesSizeRegex
      <3>3. ~(base[1].number > IntMax) /\ GetUnitMultiplier(base[2].text) # 0
        BY <1>3, <1>9, <2>1, <3>1, GcsUtilAssumption
      <3>4. GetObjectSize(object) = Wrap(base[1].number * GetUnitMultiplier(base[2].text))
        BY <3>1, <3>2, <3>3 DEF GetObjectSize, base
      <3>5. QED
        BY <2>1, <3>1, <3>4
    <2>5. QED
      BY <2>1, <2>3, <2>4
  <1>10. CASE ~plain /\ ~scales
    <2>1. \A i \in 1 .. n : ~PlainAt(object, i)
      <3> SUFFICES ASSUME NEW i \in 1 .. n, PlainAt(object, i) PROVE FALSE
        OBVIOUS
      <3>1. i = s + 1 /\ e = s + 2
        BY <1>4
      <3>2. object[s + 1].kind = "digits" /\ object[s + 1].number <= IntMax
        BY <3>1 DEF PlainAt, StartsAt
      <3>3. QED
        BY <1>10, <3>1, <3>2
    <2>2. \A i \in 1 .. n : ~UnitAt(object, i)
      <3> SUFFICES ASSUME NEW i \in 1 .. n, UnitAt(object, i) PROVE FALSE
        OBVIOUS
      <3>1. i = s + 1 /\ e = s + 3 /\ i + 1 = s + 2
        BY <1>5
      <3>2. object[s + 1].kind = "digits" /\ object[s + 1].number <= IntMax
        BY <3>1 DEF UnitAt, StartsAt
      <3>3. object[s + 2].kind = "letters" /\ GetUnitMultiplier(object[s + 2].text) > 0
        BY <3>1 DEF UnitAt
      <3>4. QED
        BY <1>10, <3>1, <3>2, <3>3
    <2>3. SizesNamed(object) = {}
      BY <2>1, <2>2, SizesNamedLie
    <2>4. GetObjectSize(object) = -1
      <3> HIDE DEF n, size, scaled, plain, scales
      <3>1. SUFFICES ASSUME MatchesSizeRegex(base), ~(base[1].number > IntMax),
                            GetUnitMultiplier(IF Len(base) = 2 THEN base[2].text ELSE << >>) # 0
                     PROVE  FALSE
        BY DEF GetObjectSize, base
      <3>2. /\ Len(base) \in {1, 2} /\ base[1].kind = "digits"
            /\ Len(base) = 2 => base[2].kind = "letters"
        BY <3>1 DEF MatchesSizeRegex
      <3>3. /\ base[1] = object[s + 1] /\ s + 1 \in 1 .. n
            /\ object[s + 1].number <= IntMax
        <4>1. 1 \in 1 .. e - 1 - s /\ s + 1 \in 1 .. n
          BY <1>2, <3>2
        <4>2. base[1] = object[s + 1] /\ object[s + 1].number \in Nat
          BY <1>2, <1>3, <4>1
        <4>3. ~(object[s + 1].number > IntMax)
          BY <3>1, <4>2
        <4>4. object[s + 1].number <= IntMax
          BY <4>2, <4>3, GcsUtilAssumption
        <4>5. QED
          BY <4>1, <4>2, <4>4
      <3>4. CASE Len(base) = 1
        <4>1. e \in Int /\ s \in Int /\ e - 1 - s = 1
          <5>1. e \in Int /\ s \in Int
            OBVIOUS
          <5>2. e - 1 - s = Len(base)
            BY <1>2
          <5>3. Len(base) = 1
            BY <3>4
          <5>4. e - 1 - s = 1
            BY <5>2, <5>3, Zenon
          <5>5. QED
            BY <5>1, <5>4
        <4>2. e = s + 2
          BY <4>1
        <4>3. QED
          BY <1>10, <3>2, <3>3, <4>2 DEF plain
      <3>5. CASE Len(base) = 2
        <4>1. e = s + 3 /\ 2 \in 1 .. e - 1 - s
          <5>1. e \in Int /\ s \in Int /\ e - 1 - s = 2
            <6>1. e \in Int /\ s \in Int
              OBVIOUS
            <6>2. e - 1 - s = Len(base)
              BY <1>2
            <6>3. Len(base) = 2
              BY <3>5
            <6>4. e - 1 - s = 2
              BY <6>2, <6>3, Zenon
            <6>5. QED
              BY <6>1, <6>4
          <5>2. QED
            BY <5>1
        <4>2. base[2] = object[s + 2]
          BY <1>2, <4>1
        <4>3. GetUnitMultiplier(object[s + 2].text) > 0
          <5>1. GetUnitMultiplier(base[2].text) # 0
            BY <3>1, <3>5
          <5>2. GetUnitMultiplier(object[s + 2].text) \in Nat
            BY UnitMultiplierType
          <5>3. QED
            BY <4>2, <5>1, <5>2
        <4>4. QED
          BY <1>10, <3>2, <3>3, <3>5, <4>1, <4>2, <4>3 DEF scales
      <3>6. QED
        BY <3>2, <3>4, <3>5
    <2>5. QED
      BY <2>3, <2>4
  <1>11. QED
    BY <1>8, <1>9, <1>10

-----------------------------------------------------------------------------
(* The invariant.  TypeOK and OneAtATime are inductive by themselves; where the    *)
(* bytes are depends on what may be on its way and in which order, and what a      *)
(* status means on where the bytes are.                                            *)

\* The size that the name of the request's object stands for, or -1, and how many
\* bytes of it a read is to have.
Size == GetObjectSize(request.object)
Limit == Limited(Size)

\* What a reactor may send, and what it may start besides.
Chunks == {Write(size) : size \in Nat}
Sendable ==
    CASE request.method = "GetObject" ->
            {IF Size < 0 THEN Finish("NOT_FOUND") ELSE Reply(Size)}
      [] request.method = "ReadObject" ->
            IF Size < 0 THEN {Finish("NOT_FOUND")} ELSE Chunks \cup {Finish("OK")}
      [] request.method = "WriteObject" -> {Finish("OK")}
Startable ==
    CASE request.method = "GetObject"   -> Sendable
      [] request.method = "ReadObject"  ->
            IF Size < 0 THEN Sendable ELSE Sendable \cup {Finish("UNKNOWN")}
      [] request.method = "WriteObject" -> Sendable \cup {StartRead}

\* Nothing is sent after the finish.
FinishLast(items) == \A k \in 1 .. Len(items) - 1 : items[k].kind # "finish"
Ended(items) == \E k \in 1 .. Len(items) : items[k].kind = "finish"

KindsRight ==
    /\ to_client \in Seq(Sendable)
    /\ started \in Seq(Startable)
    /\ to_server \in Seq(Chunks \cup {Finish("none")})
    /\ client = "reading" => request.method = "ReadObject"
    /\ client = "writing" => request.method = "WriteObject"
    /\ client = "done" <=> status # "none"

InOrder ==
    /\ FinishLast(to_client) /\ FinishLast(to_server)
    /\ reactor = "alive" => ~Ended(to_client)
    /\ reactor = "none" /\ ~broken => to_client = << >>
    /\ Ended(to_server) => client \in {"finishing", "done"} /\ offset >= request.write_size

GetObjectInv ==
    request.method = "GetObject" =>
        /\ status # "OK" => moved = 0
        /\ status = "OK" => Size >= 0 /\ moved = Size
        /\ status = "NOT_FOUND" => Size < 0

\* Where the bytes of an object are that is read.
ReadParts ==
    /\ left_size + Total(started) + Total(to_client) + moved <= Limit
    /\ ~broken /\ reactor # "none" =>
          left_size + Total(started) + Total(to_client) + moved = Limit
    /\ ~broken /\ reactor = "none" => moved = 0
    /\ started = <<Finish("OK")>> => left_size = 0
    /\ started = <<Finish("UNKNOWN")>> => broken
    /\ Ended(to_client) => Total(to_client) + moved = Limit
    /\ status = "OK" => moved = Limit
    /\ status # "NOT_FOUND"

ReadObjectInv ==
    request.method = "ReadObject" =>
        /\ Size < 0 => moved = 0 /\ status # "OK"
        /\ Size >= 0 => ReadParts

Sent == IF offset < request.write_size THEN offset ELSE request.write_size
WriteObjectInv ==
    request.method = "WriteObject" =>
        /\ Total(to_server) + moved = Sent
        /\ started = <<Finish("OK")>> =>
              broken \/ (to_server # << >> /\ Head(to_server).kind = "finish")
        /\ to_client # << >> => to_server # << >> /\ Head(to_server).kind = "finish"
        /\ status = "OK" => moved = request.write_size
        /\ status # "NOT_FOUND"

DummyInv == /\ TypeOK /\ OneAtATime /\ KindsRight /\ InOrder
            /\ GetObjectInv /\ ReadObjectInv /\ WriteObjectInv

-----------------------------------------------------------------------------
(* Facts about the order of what is sent. *)

\* What is appended to a stream that has not ended keeps its finish last.
LEMMA OrderOfAppend ==
    ASSUME NEW items \in Seq(Items), NEW item \in Items
    PROVE  /\ Ended(Append(items, item)) <=> Ended(items) \/ item.kind = "finish"
           /\ ~Ended(items) => FinishLast(Append(items, item))
  <1> DEFINE more == Append(items, item)
             n == Len(items)
  <1>1. /\ n \in Nat /\ Len(more) = n + 1 /\ more[n + 1] = item
        /\ \A k \in 1 .. n : more[k] = items[k]
    OBVIOUS
  <1> HIDE DEF more, n
  <1>2. 1 .. n + 1 = 1 .. n \cup {n + 1} /\ n + 1 - 1 = n
    BY <1>1
  <1>3. Ended(more) <=> (\E k \in 1 .. n : items[k].kind = "finish") \/ item.kind = "finish"
    BY <1>1, <1>2 DEF Ended
  <1>4. Ended(items) <=> \E k \in 1 .. n : items[k].kind = "finish"
    BY DEF Ended, n
  <1>5. ~Ended(items) => FinishLast(more)
    BY <1>1, <1>2, <1>4 DEF FinishLast
  <1>6. QED
    BY <1>3, <1>4, <1>5 DEF more

\* What is left of a stream after its head is taken has its finish last.
LEMMA OrderOfTail ==
    ASSUME NEW items \in Seq(Items), items # << >>, FinishLast(items)
    PROVE  /\ FinishLast(Tail(items))
           /\ Ended(Tail(items)) => Ended(items)
           /\ Head(items).kind # "finish" /\ Ended(items) => Ended(Tail(items))
  <1> DEFINE rest == Tail(items)
             n == Len(rest)
  <1>1. /\ n \in Nat /\ Len(items) = n + 1 /\ Head(items) = items[1]
        /\ \A k \in 1 .. n : rest[k] = items[k + 1]
    BY HeadTailProperties, EmptySeq
  <1> HIDE DEF rest, n
  <1>2. FinishLast(rest)
    <2>1. \A k \in 1 .. n - 1 : k \in 1 .. n /\ k + 1 \in 1 .. n + 1 - 1
      BY <1>1
    <2>2. QED
      BY <1>1, <2>1 DEF FinishLast, n
  <1>3. Ended(rest) => Ended(items)
    <2>1. \A k \in 1 .. n : k + 1 \in 1 .. n + 1
      BY <1>1
    <2>2. QED
      BY <1>1, <2>1 DEF Ended, n
  <1>4. ASSUME Head(items).kind # "finish", Ended(items) PROVE Ended(rest)
    <2>1. PICK k \in 1 .. n + 1 : items[k].kind = "finish"
      BY <1>1, <1>4 DEF Ended
    <2>2. k # 1
      BY <1>1, <1>4, <2>1
    <2>3. k - 1 \in 1 .. n /\ k - 1 + 1 = k
      BY <1>1, <2>2
    <2>4. rest[k - 1] = items[k]
      BY <1>1, <2>3
    <2>5. QED
      BY <2>1, <2>3, <2>4 DEF Ended, n
  <1>5. QED
    BY <1>2, <1>3, <1>4 DEF rest

\* A finish that has come to the front is all there is.
LEMMA FinishAtHead ==
    ASSUME NEW items \in Seq(Items), items # << >>, FinishLast(items),
           Head(items).kind = "finish"
    PROVE  Ended(items) /\ Total(items) = Head(items).size
  <1>1. Len(items) \in Nat \ {0} /\ Head(items) = items[1]
    BY HeadTailProperties, EmptySeq
  <1>2. Len(items) = 1
    <2>1. ASSUME Len(items) # 1 PROVE FALSE
      <3>1. PICK n \in Nat \ {0} : n = Len(items)
        BY <1>1
      <3>2. n > 1
        BY <2>1, <3>1
      <3>3. 1 \in 1 .. n - 1
        BY <3>2
      <3>4. items[1].kind # "finish"
        BY <3>1, <3>3 DEF FinishLast
      <3>5. QED
        BY <1>1, <3>4
    <2>2. QED
      BY <2>1
  <1>3. Ended(items)
    BY <1>1, <1>2 DEF Ended
  <1>4. Tail(items) = << >>
    <2>1. Tail(items) \in Seq(Items) /\ Len(Tail(items)) = 0
      BY <1>2, HeadTailProperties
    <2>2. QED
      BY <2>1, EmptySeq
  <1>5. Total(items) = Head(items).size + 0 /\ Head(items).size \in Nat
    BY <1>4, TotalOfTail, TotalOfNothing
  <1>6. QED
    BY <1>3, <1>5

\* What the reactor has started is one operation.
LEMMA OneStarted ==
    ASSUME NEW S, NEW items \in Seq(S), items # << >>, Len(items) <= 1
    PROVE  /\ Tail(items) = << >> /\ Head(items) \in S /\ items = <<Head(items)>>
           /\ Len(items) = 1
  <1>1. Len(items) = 1 /\ Head(items) \in S /\ Head(items) = items[1]
    <2>1. Len(items) \in Nat /\ Len(items) # 0
      BY LenProperties, EmptySeq
    <2>2. Head(items) \in S /\ Head(items) = items[1]
      BY HeadTailProperties
    <2>3. Len(items) <= 1
      OBVIOUS
    <2>4. Len(items) = 1
      BY <2>1, <2>3
    <2>5. QED
      BY <2>2, <2>4
  <1>2. Tail(items) \in Seq(S) /\ Len(Tail(items)) = 0
    BY <1>1, HeadTailProperties
  <1>3. Tail(items) = << >>
    BY <1>2, EmptySeq
  <1>4. items = <<Head(items)>>
    BY <1>1
  <1>5. QED
    BY <1>1, <1>3, <1>4

-----------------------------------------------------------------------------
(* What the request asks for. *)

\* The size of the request's object is one the name stands for, or below 0.
LEMMA SizeIs ==
    ASSUME request \in Requests
    PROVE  /\ Size \in Int /\ Size <= IntMax
           /\ Exists <=> Size >= 0
           /\ Exists => Bytes = Size
  <1>1. request.object \in Seq(Tokens)
    BY DummyServerAssumption DEF RequestRecords
  <1>2. CASE SizesNamed(request.object) = {} /\ Size = -1
    BY <1>2, GcsUtilAssumption DEF Exists
  <1>3. ASSUME NEW m \in Nat, SizesNamed(request.object) = {m}, Size = Wrap(m)
        PROVE  /\ Size \in Int /\ Size <= IntMax
               /\ Exists <=> Size >= 0
               /\ Exists => Bytes = Size
    <2>1. Named = m
      BY <1>3, Zenon DEF Named
    <2>2. Overflows <=> m > IntMax
      BY <1>3 DEF Overflows
    <2>3. Wrap(m) \in -(IntMax + 1) .. IntMax /\ (m <= IntMax => Wrap(m) = m)
      BY WrapProperties
    <2>4. Bytes = Wrap(m)
      BY <2>1, <2>2, <2>3, GcsUtilAssumption DEF Bytes
    <2>5. QED
      BY <1>3, <2>3, <2>4, GcsUtilAssumption DEF Exists
  <1>4. QED
    BY <1>1, <1>2, <1>3, ObjectSizeIsNamed DEF Size

\* What a request is made of.
LEMMA RequestIs ==
    ASSUME request \in Requests
    PROVE  /\ request.method \in {"GetObject", "ReadObject", "WriteObject"}
           /\ request.read_limit \in Int /\ request.chunk_size \in Nat
           /\ request.write_size \in Nat \ {0}
  BY DummyServerAssumption DEF RequestRecords

\* Whole, which is said with the parts of the name, in terms of the size that the code
\* comes to.
LEMMA WholeIs ==
    ASSUME request \in Requests
    PROVE  /\ Whole \in Nat
           /\ Size >= 0 => Limit \in 0 .. Size
           /\ request.method = "WriteObject" => Whole = request.write_size
           /\ request.method = "GetObject" /\ Size >= 0 => Whole = Size
           /\ request.method = "ReadObject" /\ Size >= 0 => Whole = Limit
  <1> DEFINE limit == request.read_limit
             asked == {Bytes} \cup {n \in {limit} : request.method = "ReadObject" /\ n > 0}
  <1>1. Size \in Int /\ (Exists <=> Size >= 0) /\ (Exists => Bytes = Size)
        /\ limit \in Int /\ request.write_size \in Nat
        /\ request.method \in {"GetObject", "ReadObject", "WriteObject"}
    BY SizeIs, RequestIs
  <1>2. Limit = IF limit > 0 /\ limit < Size THEN limit ELSE Size
    BY DEF Limit, Limited
  <1>3. Size >= 0 => Limit \in 0 .. Size
    BY <1>1, <1>2
  <1>4. Whole = IF request.method = "WriteObject" THEN request.write_size
                ELSE IF ~Exists THEN 0 ELSE Min(asked)
    BY DEF Whole
  <1>5. ASSUME NEW m, m \in asked, \A n \in asked : m <= n, asked \subseteq Int
        PROVE  Min(asked) = m
    <2> HIDE DEF asked
    <2>1. \A x \in asked : (\A n \in asked : x <= n) => x = m
      BY <1>5
    <2>2. Min(asked) = m
      BY <1>5, <2>1, Zenon DEF Min
    <2>3. QED
      BY <2>2
  <1>6. ASSUME request.method # "WriteObject", Size >= 0
        PROVE  Min(asked) = IF request.method = "ReadObject" THEN Limit ELSE Size
    <2>1. asked = IF request.method = "ReadObject" /\ limit > 0 THEN {Size, limit} ELSE {Size}
      BY <1>1, <1>6
    <2>2. asked \subseteq Int
      BY <1>1, <2>1
    <2>3. CASE request.method = "ReadObject"
      BY <1>1, <1>2, <1>5, <2>1, <2>2, <2>3
    <2>4. CASE request.method # "ReadObject"
      BY <1>1, <1>5, <2>1, <2>2, <2>4
    <2>5. QED
      BY <2>3, <2>4
  <1> HIDE DEF asked
  <1>7. QED
    BY <1>1, <1>3, <1>4, <1>6

-----------------------------------------------------------------------------
(* Types, and one operation at a time. *)

\* What the reactor has in progress, when it is called back.
LEMMA CalledBack ==
    ASSUME TypeOK, OneAtATime, started # << >>
    PROVE  /\ reactor = "alive" /\ Tail(started) = << >>
           /\ Head(started) \in Items /\ Head(started).size \in Nat
           /\ started = <<Head(started)>>
  <1>1. started \in Seq(Items) /\ Len(started) <= 1
    BY DEF TypeOK, OneAtATime
  <1>2. Tail(started) = << >> /\ Head(started) \in Items /\ started = <<Head(started)>>
        /\ Len(started) = 1
    BY <1>1, OneStarted
  <1>3. QED
    BY <1>2 DEF OneAtATime, Items

\* Everything that is started or sent is an item.
LEMMA KindsOfItems ==
    /\ StartRead \in Items
    /\ \A size \in Nat : Write(size) \in Items /\ Reply(size) \in Items
    /\ \A code \in Codes : Finish(code) \in Items
    /\ {"none", "OK", "NOT_FOUND", "UNKNOWN", "UNAVAILABLE"} = Codes
  BY DEF StartRead, Write, Reply, Finish, Items, Codes

\* What is left of an object is a chunk less, or is finished with.
LEMMA NextChunk ==
    ASSUME NEW left \in Nat, MaybeWriteNext(left, << >>)
    PROVE  \/ left = 0 /\ started' = <<Finish("OK")>> /\ left_size' = 0
           \/ \E size \in 1 .. left : started' = <<Write(size)>> /\ left_size' = left - size
  <1> DEFINE chunk == GetObjectDataChunk(MaxReadChunkBytes)
             size == IF left < chunk THEN left ELSE chunk
  <1>1. chunk = MaxReadChunkBytes /\ chunk \in Nat \ {0}
    BY DummyServerAssumption DEF GetObjectDataChunk
  <1>2. \A item : Append(<< >>, item) = <<item>>
    OBVIOUS
  <1>3. \/ left = 0 /\ started' = <<Finish("OK")>> /\ left_size' = left
        \/ left # 0 /\ started' = <<Write(size)>> /\ left_size' = left - size
    <2>1. \/ left = 0 /\ started' = Append(<< >>, Finish("OK")) /\ left_size' = left
          \/ left # 0 /\ started' = Append(<< >>, Write(size)) /\ left_size' = left - size
      BY DEF MaybeWriteNext
    <2> HIDE DEF size
    <2>2. QED
      BY <1>2, <2>1
  <1> HIDE DEF chunk
  <1>4. left # 0 => size \in 1 .. left
    BY <1>1
  <1> HIDE DEF size
  <1>5. QED
    BY <1>3, <1>4

\* Before the call nothing is started, sent or received.
LEMMA InitHolds ==
    ASSUME Init
    PROVE  DummyInv
  <1>1. \A S : << >> \in Seq(S)
    OBVIOUS
  <1>2. TypeOK
    <2>1. << >> \in Seq(Items) /\ 0 \in 0 .. IntMax /\ "none" \in Codes
      BY GcsUtilAssumption DEF Codes
    <2>2. QED
      BY <2>1 DEF Init, TypeOK
  <1>3. OneAtATime
    BY DEF Init, OneAtATime
  <1>4. KindsRight
    BY <1>1 DEF Init, KindsRight
  <1>5. InOrder
    BY DEF Init, InOrder, FinishLast, Ended
  <1>6. GetObjectInv
    BY DEF Init, GetObjectInv
  <1>7. ReadObjectInv
    <2>1. Size >= 0 => Limit \in Nat
      BY WholeIs, SizeIs DEF Init
    <2>2. ~Ended(to_client)
      BY DEF Init, Ended
    <2>3. started # <<Finish("OK")>> /\ started # <<Finish("UNKNOWN")>>
      BY DEF Init
    <2>4. 0 + 0 + 0 + 0 = 0
      OBVIOUS
    <2>5. QED
      BY <2>1, <2>2, <2>3, <2>4, TotalOfNothing DEF Init, ReadObjectInv, ReadParts
  <1>8. WriteObjectInv
    <2>1. Sent = 0
      BY RequestIs DEF Init, Sent
    <2>2. started # <<Finish("OK")>>
      BY DEF Init
    <2>3. QED
      BY <2>1, <2>2, TotalOfNothing DEF Init, WriteObjectInv
  <1>9. QED
    BY <1>2, <1>3, <1>4, <1>5, <1>6, <1>7, <1>8 DEF DummyInv

\* Every step keeps the types, and one operation at a time.
LEMMA TypesStep ==
    ASSUME TypeOK, OneAtATime, [Next]_vars
    PROVE  TypeOK' /\ OneAtATime'
  <1>1. CASE RunServer
    BY <1>1 DEF TypeOK, OneAtATime, RunServer, fixed, clientVars
  <1>2. CASE Kill
    BY <1>2, GcsUtilAssumption DEF TypeOK, OneAtATime, Kill, fixed, clientVars
  <1>3. CASE Break
    BY <1>3 DEF TypeOK, OneAtATime, Break, fixed, serverVars, clientVars
  <1>4. CASE CallArrives
    <2>1. left_size' \in 0 .. IntMax /\ \E op \in Items : started' = <<op>>
      <3>1. CASE request.method = "GetObject" /\ GetObject
        <4>1. Size \in Int
          BY SizeIs DEF TypeOK
        <4>2. (IF Size < 0 THEN Finish("NOT_FOUND") ELSE Reply(Size)) \in Items
          BY <4>1, KindsOfItems
        <4>3. started' = << IF Size < 0 THEN Finish("NOT_FOUND") ELSE Reply(Size) >>
          BY <3>1 DEF GetObject, Size
        <4>4. left_size' = left_size
          BY <3>1 DEF GetObject
        <4>5. QED
          BY <4>2, <4>3, <4>4 DEF TypeOK
      <3>2. CASE request.method = "ReadObject" /\ ReadObject
        <4>1. /\ Size \in Int /\ Size <= IntMax
              /\ Size >= 0 => Limit \in 0 .. Size
          BY SizeIs, WholeIs DEF TypeOK
        <4>2. CASE Size < 0 /\ started' = <<Finish("NOT_FOUND")>> /\ left_size' = left_size
          BY <4>2, KindsOfItems DEF TypeOK
        <4>3. CASE Size >= 0 /\ MaybeWriteNext(Limit, << >>)
          <5>1. Limit \in Nat /\ Limit <= IntMax
            BY <4>1, <4>3, GcsUtilAssumption
          <5>2. \/ Limit = 0 /\ started' = <<Finish("OK")>> /\ left_size' = 0
                \/ \E size \in 1 .. Limit : /\ started' = <<Write(size)>>
                                            /\ left_size' = Limit - size
            BY <4>3, <5>1, NextChunk
          <5>3. QED
            BY <5>1, <5>2, KindsOfItems, GcsUtilAssumption
        <4>4. QED
          BY <3>2, <4>2, <4>3 DEF ReadObject, Size, Limit
      <3>3. CASE request.method = "WriteObject" /\ WriteObject
        BY <3>3, KindsOfItems DEF WriteObject, TypeOK
      <3>4. QED
        BY <1>4, <3>1, <3>2, <3>3 DEF CallArrives
    <2>2. started' \in Seq(Items) /\ Len(started') = 1
      BY <2>1
    <2>3. QED
      BY <1>4, <2>1, <2>2 DEF CallArrives, TypeOK, OneAtATime, fixed, clientVars
  <1>5. CASE OnDone
    <2>1. started # << >>
      BY <1>5 DEF OnDone, InProgress
    <2>2. Tail(started) = << >> /\ Head(started) \in Items
      BY <2>1, CalledBack
    <2>3. to_client' \in Seq(Items)
      BY <1>5, <2>2 DEF OnDone, Deliver, TypeOK
    <2>4. started' = << >> /\ << >> \in Seq(Items) /\ Len(<< >>) = 0 /\ reactor' = "deleted"
      BY <1>5, <2>2 DEF OnDone
    <2>5. OneAtATime'
      BY <2>4 DEF OneAtATime
    <2>6. TypeOK'
      BY <1>5, <2>3, <2>4 DEF OnDone, TypeOK, fixed, clientVars
    <2>7. QED
      BY <2>5, <2>6
  <1>6. ASSUME NEW ok \in BOOLEAN, WriteCompletes(ok)
        PROVE  TypeOK' /\ OneAtATime'
    <2>1. started # << >>
      BY <1>6 DEF WriteCompletes, InProgress
    <2>2. Tail(started) = << >> /\ Head(started) \in Items /\ reactor = "alive"
      BY <2>1, CalledBack
    <2>3. to_client' \in Seq(Items)
      BY <1>6, <2>2 DEF WriteCompletes, Deliver, TypeOK
    <2>4. left_size' \in 0 .. IntMax /\ \E op \in Items : started' = <<op>>
      <3>1. CASE ok /\ MaybeWriteNext(left_size, << >>)
        <4>1. left_size \in Nat /\ left_size <= IntMax
          BY GcsUtilAssumption DEF TypeOK
        <4>2. \/ left_size = 0 /\ started' = <<Finish("OK")>> /\ left_size' = 0
              \/ \E size \in 1 .. left_size : /\ started' = <<Write(size)>>
                                              /\ left_size' = left_size - size
          BY <3>1, <4>1, NextChunk
        <4>3. QED
          BY <4>1, <4>2, KindsOfItems, GcsUtilAssumption
      <3>2. CASE ~ok /\ started' = Append(<< >>, Finish("UNKNOWN")) /\ left_size' = left_size
        <4>1. Append(<< >>, Finish("UNKNOWN")) = <<Finish("UNKNOWN")>>
          OBVIOUS
        <4>2. QED
          BY <3>2, <4>1, KindsOfItems DEF TypeOK
      <3>3. QED
        BY <1>6, <2>2, <3>1, <3>2 DEF WriteCompletes, OnWriteDone
    <2>5. started' \in Seq(Items) /\ Len(started') = 1
      BY <2>4
    <2>6. QED
      BY <1>6, <2>2, <2>3, <2>4, <2>5 DEF WriteCompletes, TypeOK, OneAtATime, fixed, clientVars
  <1>7. ASSUME NEW ok \in BOOLEAN, ReadCompletes(ok)
        PROVE  TypeOK' /\ OneAtATime'
    <2>1. started # << >>
      BY <1>7 DEF ReadCompletes, InProgress
    <2>2. Tail(started) = << >> /\ Head(started) \in Items /\ reactor = "alive"
      BY <2>1, CalledBack
    <2>3. PICK op \in Items : started' = <<op>>
      <3>1. \/ started' = Append(<< >>, StartRead) \/ started' = Append(<< >>, Finish("OK"))
        BY <1>7, <2>2 DEF ReadCompletes, OnReadDone
      <3>2. StartRead \in Items /\ Finish("OK") \in Items
        BY KindsOfItems
      <3>3. \A op : Append(<< >>, op) = <<op>>
        OBVIOUS
      <3>4. QED
        BY <3>1, <3>2, <3>3
    <2>4. started' \in Seq(Items) /\ Len(started') = 1
      BY <2>3
    <2>5. to_server' \in Seq(Items) /\ moved' \in Nat
      <3>1. CASE to_server # << >> /\ moved' = moved + Head(to_server).size
                 /\ to_server' = Tail(to_server)
        <4>1. to_server \in Seq(Items) /\ moved \in Nat
          BY DEF TypeOK
        <4>2. Tail(to_server) \in Seq(Items) /\ Head(to_server).size \in Nat
          BY <3>1, <4>1, TotalOfTail
        <4>3. QED
          BY <3>1, <4>1, <4>2
      <3>2. CASE moved' = moved /\ to_server' = to_server
        BY <3>2 DEF TypeOK
      <3>3. QED
        BY <1>7, <3>1, <3>2 DEF ReadCompletes
    <2>6. QED
      BY <1>7, <2>2, <2>4, <2>5 DEF ReadCompletes, TypeOK, OneAtATime, fixed, clientVars
  <1>8. CASE StartCall
    BY <1>8, RequestIs DEF TypeOK, OneAtATime, StartCall, fixed, serverVars
  <1>9. CASE Read
    <2>1. to_client \in Seq(Items) /\ moved \in Nat /\ to_client # << >>
      BY <1>9 DEF Read, Arrived, TypeOK
    <2>2. Tail(to_client) \in Seq(Items) /\ Head(to_client).size \in Nat
      BY <2>1, TotalOfTail
    <2>3. to_client' \in Seq(Items) /\ moved' \in Nat
      BY <1>9, <2>1, <2>2 DEF Read
    <2>4. QED
      BY <1>9, <2>3 DEF TypeOK, OneAtATime, Read, fixed, serverVars, clientVars
  <1>10. CASE ReadEnds
    BY <1>10 DEF TypeOK, OneAtATime, ReadEnds, fixed, serverVars
  <1>11. CASE WriteChunk
    <2> DEFINE size == IF request.write_size - offset < request.chunk_size
                       THEN request.write_size - offset ELSE request.chunk_size
    <2>1. /\ request.write_size \in Nat /\ request.chunk_size \in Nat /\ offset \in Nat
          /\ offset < request.write_size
      BY <1>11, RequestIs DEF WriteChunk, TypeOK
    <2>2. size \in Nat /\ offset' \in Nat
      BY <1>11, <2>1 DEF WriteChunk
    <2>3. to_server' = Append(to_server, Write(size))
      BY <1>11 DEF WriteChunk
    <2> HIDE DEF size
    <2>4. to_server' \in Seq(Items)
      BY <2>2, <2>3, KindsOfItems DEF TypeOK
    <2>5. QED
      BY <1>11, <2>2, <2>4 DEF TypeOK, OneAtATime, WriteChunk, fixed, serverVars
  <1>12. CASE WriteFails
    BY <1>12 DEF TypeOK, OneAtATime, WriteFails, fixed, serverVars
  <1>13. CASE WritesDone
    <2>1. to_server' \in Seq(Items)
      BY <1>13, KindsOfItems DEF WritesDone, TypeOK
    <2>2. QED
      BY <1>13, <2>1 DEF TypeOK, OneAtATime, WritesDone, fixed, serverVars
  <1>14. CASE GetStatus
    <2>1. moved' \in Nat /\ status' \in Codes
      <3>1. CASE Arrived("finish") /\ status' = Head(to_client).code
                 /\ moved' = moved + Head(to_client).size
        <4>1. Head(to_client) \in Items /\ moved \in Nat
          BY <3>1, TotalOfTail DEF Arrived, TypeOK
        <4>2. QED
          BY <3>1, <4>1 DEF Items
      <3>2. CASE status' = "UNAVAILABLE" /\ moved' = moved
        BY <3>2 DEF TypeOK, Codes
      <3>3. QED
        BY <1>14, <3>1, <3>2 DEF GetStatus
    <2>2. QED
      BY <1>14, <2>1 DEF TypeOK, OneAtATime, GetStatus, fixed, serverVars
  <1>15. CASE UNCHANGED vars
    BY <1>15 DEF TypeOK, OneAtATime, vars
  <1>16. QED
    BY <1>1, <1>2, <1>3, <1>4, <1>5, <1>6, <1>7, <1>8, <1>9, <1>10, <1>11, <1>12, <1>13,
       <1>14, <1>15 DEF Next, Library, Client, CallOver

-----------------------------------------------------------------------------
(* What the steps do, in terms of what may be in progress. *)

\* The request, and all that follows from it alone, stays.
LEMMA RequestFixed ==
    ASSUME [Next]_vars
    PROVE  /\ request' = request /\ Size' = Size /\ Limit' = Limit
           /\ Sendable' = Sendable /\ Startable' = Startable
           /\ Whole' = Whole /\ Exists' = Exists
  <1>1. request' = request
    BY DEF Next, Library, Client, CallOver, RunServer, Kill, Break, CallArrives, OnDone,
           WriteCompletes, ReadCompletes, StartCall, Read, ReadEnds, WriteChunk, WriteFails,
           WritesDone, GetStatus, fixed, vars
  <1>2. Size' = Size
    BY <1>1 DEF Size
  <1>3. Limit' = Limit
    BY <1>1, <1>2 DEF Limit, Limited
  <1>4. Sendable' = Sendable
    BY <1>1, <1>2 DEF Sendable
  <1>5. Startable' = Startable
    BY <1>1, <1>2, <1>4 DEF Startable
  <1>6. Overflows' = Overflows /\ Named' = Named
    BY <1>1 DEF Overflows, Named
  <1>7. Bytes' = Bytes
    BY <1>6 DEF Bytes
  <1>8. Exists' = Exists
    BY <1>1, <1>7 DEF Exists
  <1>9. Whole' = Whole
    BY <1>1, <1>7, <1>8 DEF Whole
  <1>10. QED
    BY <1>1, <1>2, <1>3, <1>4, <1>5, <1>8, <1>9

\* What may be sent, by its kind.
LEMMA SendableIs ==
    ASSUME request \in Requests
    PROVE  /\ Sendable \subseteq Startable /\ Startable \subseteq Items
           /\ \A item \in Startable :
                 /\ item.kind = "write" =>
                       /\ request.method = "ReadObject" /\ Size >= 0
                       /\ item.size \in Nat /\ item = Write(item.size)
                 /\ item.kind = "read" => request.method = "WriteObject" /\ item = StartRead
                 /\ item.kind = "finish" =>
                       \/ /\ request.method = "GetObject"
                          /\ item = IF Size < 0 THEN Finish("NOT_FOUND") ELSE Reply(Size)
                       \/ /\ request.method = "ReadObject" /\ Size < 0
                          /\ item = Finish("NOT_FOUND")
                       \/ /\ request.method = "ReadObject" /\ Size >= 0
                          /\ item \in {Finish("OK"), Finish("UNKNOWN")}
                       \/ request.method = "WriteObject" /\ item = Finish("OK")
           /\ request.method = "ReadObject" /\ Size >= 0 =>
                 /\ Finish("OK") \in Sendable /\ Finish("UNKNOWN") \in Startable
                 /\ \A size \in Nat : Write(size) \in Sendable
           /\ request.method = "ReadObject" /\ Size < 0 => Sendable = {Finish("NOT_FOUND")}
           /\ request.method = "GetObject" =>
                 Sendable = {IF Size < 0 THEN Finish("NOT_FOUND") ELSE Reply(Size)}
           /\ request.method = "WriteObject" => Sendable = {Finish("OK")} /\ StartRead \in Startable
  <1>1. Size \in Int /\ request.method \in {"GetObject", "ReadObject", "WriteObject"}
    BY SizeIs, RequestIs
  <1>2. \A size \in Nat : /\ Write(size) \in Items /\ Write(size).kind = "write"
                          /\ Write(size).size = size
    BY KindsOfItems DEF Write
  <1>3. \A code \in Codes : Finish(code) \in Items /\ Finish(code).kind = "finish"
    BY KindsOfItems DEF Finish
  <1>4. \A size \in Nat : Reply(size) \in Items /\ Reply(size).kind = "finish"
    BY KindsOfItems DEF Reply
  <1>5. StartRead \in Items /\ StartRead.kind = "read"
    BY KindsOfItems DEF StartRead
  <1>6. CASE request.method = "GetObject"
    BY <1>1, <1>3, <1>4, <1>6, KindsOfItems DEF Sendable, Startable
  <1>7. CASE request.method = "ReadObject" /\ Size < 0
    BY <1>1, <1>3, <1>7, KindsOfItems DEF Sendable, Startable
  <1>8. CASE request.method = "ReadObject" /\ Size >= 0
    <2>1. Sendable = Chunks \cup {Finish("OK")} /\ Startable = Sendable \cup {Finish("UNKNOWN")}
      BY <1>1, <1>8 DEF Sendable, Startable
    <2>2. QED
      BY <1>1, <1>2, <1>3, <1>8, <2>1, KindsOfItems DEF Chunks
  <1>9. CASE request.method = "WriteObject"
    BY <1>1, <1>3, <1>5, <1>9, KindsOfItems DEF Sendable, Startable
  <1>10. QED
    BY <1>1, <1>6, <1>7, <1>8, <1>9

\* What a new reactor may start, method by method.
LEMMA CallArrivesDoes ==
    ASSUME TypeOK, OneAtATime, CallArrives
    PROVE  /\ ~broken /\ reactor = "none" /\ reactor' = "alive" /\ started = << >>
           /\ UNCHANGED <<to_client, to_server, broken, client, offset, status, moved>>
           /\ \/ /\ request.method = "GetObject"
                 /\ started' = << IF Size < 0 THEN Finish("NOT_FOUND") ELSE Reply(Size) >>
              \/ /\ request.method = "ReadObject" /\ Size < 0
                 /\ started' = <<Finish("NOT_FOUND")>>
              \/ /\ request.method = "ReadObject" /\ Size >= 0
                 /\ Limit = 0 /\ started' = <<Finish("OK")>> /\ left_size' = 0
              \/ /\ request.method = "ReadObject" /\ Size >= 0
                 /\ \E size \in 1 .. Limit : started' = <<Write(size)>> /\ left_size' = Limit - size
              \/ request.method = "WriteObject" /\ started' = <<StartRead>>
  <1>1. started = << >>
    <2>1. reactor = "none"
      BY DEF CallArrives
    <2>2. started \in Seq(Items) /\ Len(started) = 0
      BY <2>1 DEF TypeOK, OneAtATime
    <2>3. QED
      BY <2>2, EmptySeq
  <1>2. /\ Size \in Int
        /\ Size >= 0 => Limit \in Nat
    BY SizeIs, WholeIs DEF TypeOK
  <1>3. CASE request.method = "ReadObject" /\ Size >= 0 /\ MaybeWriteNext(Limit, << >>)
    <2>1. \/ Limit = 0 /\ started' = <<Finish("OK")>> /\ left_size' = 0
          \/ \E size \in 1 .. Limit : started' = <<Write(size)>> /\ left_size' = Limit - size
      BY <1>2, <1>3, NextChunk
    <2>2. QED
      BY <1>1, <1>3, <2>1 DEF CallArrives, clientVars
  <1>4. CASE request.method = "ReadObject" /\ Size < 0 /\ started' = <<Finish("NOT_FOUND")>>
    BY <1>1, <1>4 DEF CallArrives, clientVars
  <1>5. CASE request.method = "GetObject" /\ GetObject
    <2>1. started' = << IF Size < 0 THEN Finish("NOT_FOUND") ELSE Reply(Size) >>
      BY <1>5 DEF GetObject, Size
    <2>2. QED
      BY <1>1, <1>5, <2>1 DEF CallArrives, clientVars
  <1>6. CASE request.method = "WriteObject" /\ started' = <<StartRead>>
    BY <1>1, <1>6 DEF CallArrives, clientVars
  <1>7. QED
    BY <1>3, <1>4, <1>5, <1>6 DEF CallArrives, ReadObject, WriteObject, Size, Limit

\* What follows the end of a write: the next one, or the finish.
LEMMA WriteCompletesDoes ==
    ASSUME TypeOK, OneAtATime, KindsRight, NEW ok \in BOOLEAN, WriteCompletes(ok)
    PROVE  /\ reactor = "alive" /\ request.method = "ReadObject" /\ Size >= 0
           /\ UNCHANGED <<reactor, to_server, broken, client, offset, status, moved>>
           /\ \E size \in Nat :
                 /\ started = <<Write(size)>>
                 /\ to_client' = IF broken THEN to_client ELSE Append(to_client, Write(size))
           /\ \/ left_size = 0 /\ started' = <<Finish("OK")>> /\ left_size' = 0
              \/ \E size \in 1 .. left_size :
                    started' = <<Write(size)>> /\ left_size' = left_size - size
              \/ broken /\ started' = <<Finish("UNKNOWN")>> /\ left_size' = left_size
  <1> DEFINE op == Head(started)
  <1>1. started # << >> /\ op.kind = "write"
    BY DEF WriteCompletes, InProgress
  <1>2. reactor = "alive" /\ Tail(started) = << >> /\ started = <<op>>
    BY <1>1, CalledBack
  <1>3. op \in Startable
    BY <1>1 DEF KindsRight
  <1>4. to_client' = IF broken THEN to_client ELSE Append(to_client, op)
    BY DEF WriteCompletes, Deliver
  <1> HIDE DEF op
  <1>5. request.method = "ReadObject" /\ Size >= 0 /\ op.size \in Nat /\ op = Write(op.size)
    BY <1>1, <1>3, SendableIs DEF TypeOK
  <1>6. left_size \in Nat
    BY GcsUtilAssumption DEF TypeOK
  <1>7. CASE ok /\ MaybeWriteNext(left_size, << >>)
    <2>1. \/ left_size = 0 /\ started' = <<Finish("OK")>> /\ left_size' = 0
          \/ \E size \in 1 .. left_size :
                started' = <<Write(size)>> /\ left_size' = left_size - size
      BY <1>6, <1>7, NextChunk
    <2>2. QED
      BY <1>2, <1>4, <1>5, <2>1 DEF WriteCompletes, clientVars
  <1>8. CASE ~ok /\ started' = Append(<< >>, Finish("UNKNOWN")) /\ left_size' = left_size
    <2>1. broken /\ started' = <<Finish("UNKNOWN")>>
      BY <1>8 DEF WriteCompletes
    <2>2. QED
      BY <1>2, <1>4, <1>5, <1>8, <2>1 DEF WriteCompletes, clientVars
  <1>9. QED
    BY <1>2, <1>7, <1>8 DEF WriteCompletes, OnWriteDone

\* What follows the end of a read: the next one, or the finish.
LEMMA ReadCompletesDoes ==
    ASSUME TypeOK, OneAtATime, KindsRight, NEW ok \in BOOLEAN, ReadCompletes(ok)
    PROVE  /\ reactor = "alive" /\ request.method = "WriteObject" /\ started = <<StartRead>>
           /\ UNCHANGED <<reactor, left_size, to_client, broken, client, offset, status>>
           /\ \/ /\ started' = <<StartRead>>
                 /\ to_server # << >> /\ Head(to_server).kind = "write"
                 /\ to_server' = Tail(to_server) /\ moved' = moved + Head(to_server).size
              \/ /\ started' = <<Finish("OK")>> /\ UNCHANGED <<to_server, moved>>
                 /\ broken \/ (to_server # << >> /\ Head(to_server).kind = "finish")
  <1> DEFINE op == Head(started)
  <1>1. started # << >> /\ op.kind = "read"
    BY DEF ReadCompletes, InProgress
  <1>2. reactor = "alive" /\ Tail(started) = << >> /\ started = <<op>>
    BY <1>1, CalledBack
  <1>3. op \in Startable
    BY <1>1 DEF KindsRight
  <1> HIDE DEF op
  <1>4. request.method = "WriteObject" /\ op = StartRead
    BY <1>1, <1>3, SendableIs DEF TypeOK
  <1>5. \A item : Append(<< >>, item) = <<item>>
    OBVIOUS
  <1>6. \/ ok /\ started' = <<StartRead>>
        \/ ~ok /\ started' = <<Finish("OK")>>
    <2>1. \/ ok /\ started' = Append(<< >>, StartRead)
          \/ ~ok /\ started' = Append(<< >>, Finish("OK"))
      BY <1>2 DEF ReadCompletes, OnReadDone
    <2>2. QED
      BY <1>5, <2>1
  <1>7. QED
    BY <1>2, <1>4, <1>6 DEF ReadCompletes, clientVars

\* The finish is sent and the reactor is gone.
LEMMA OnDoneDoes ==
    ASSUME TypeOK, OneAtATime, KindsRight, OnDone
    PROVE  /\ reactor = "alive" /\ reactor' = "deleted" /\ started' = << >>
           /\ UNCHANGED <<left_size, to_server, broken, client, offset, status, moved>>
           /\ \E op \in Startable :
                 /\ op.kind = "finish" /\ started = <<op>>
                 /\ to_client' = IF broken THEN to_client ELSE Append(to_client, op)
  <1> DEFINE op == Head(started)
  <1>1. started # << >> /\ op.kind = "finish"
    BY DEF OnDone, InProgress
  <1>2. reactor = "alive" /\ Tail(started) = << >> /\ started = <<op>>
    BY <1>1, CalledBack
  <1>3. op \in Startable
    BY <1>1 DEF KindsRight
  <1>4. to_client' = IF broken THEN to_client ELSE Append(to_client, op)
    BY DEF OnDone, Deliver
  <1> HIDE DEF op
  <1>5. QED
    BY <1>1, <1>2, <1>3, <1>4 DEF OnDone, clientVars

-----------------------------------------------------------------------------
(* What is on its way, and in which order. *)

\* Every step keeps what may be started and on its way for the method called.
LEMMA KindsStep ==
    ASSUME DummyInv, [Next]_vars
    PROVE  KindsRight'
  <1>1. /\ TypeOK /\ OneAtATime /\ KindsRight
        /\ Sendable' = Sendable /\ Startable' = Startable /\ request' = request
        /\ request \in Requests
    BY RequestFixed DEF DummyInv, TypeOK
  <1>2. /\ to_client \in Seq(Sendable) /\ started \in Seq(Startable)
        /\ to_server \in Seq(Chunks \cup {Finish("none")})
        /\ client = "reading" => request.method = "ReadObject"
        /\ client = "writing" => request.method = "WriteObject"
        /\ client = "done" <=> status # "none"
    BY <1>1 DEF KindsRight
  <1>3. CASE /\ UNCHANGED <<to_client, started, to_server>>
             /\ client' = "reading" => request.method = "ReadObject"
             /\ client' = "writing" => request.method = "WriteObject"
             /\ client' = "done" <=> status' # "none"
    BY <1>1, <1>2, <1>3 DEF KindsRight
  <1>4. CASE RunServer \/ Break \/ ReadEnds \/ WriteFails \/ UNCHANGED vars
    BY <1>1, <1>2, <1>3, <1>4
       DEF RunServer, Break, ReadEnds, WriteFails, vars, fixed, serverVars, clientVars
  <1>5. CASE Kill
    <2>1. started' = << >> /\ << >> \in Seq(Startable)
      BY <1>5 DEF Kill
    <2>2. QED
      BY <1>1, <1>2, <1>5, <2>1 DEF Kill, KindsRight, clientVars
  <1>6. CASE CallArrives
    <2>1. \E op \in Startable : started' = <<op>>
      BY <1>1, <1>6, CallArrivesDoes, SendableIs
    <2>2. started' \in Seq(Startable)
      BY <2>1
    <2>3. UNCHANGED <<to_client, to_server, client, status>>
      BY <1>1, <1>6, CallArrivesDoes
    <2>4. QED
      BY <1>1, <1>2, <2>2, <2>3 DEF KindsRight
  <1>7. CASE OnDone
    <2>1. PICK op \in Startable :
             /\ op.kind = "finish" /\ started = <<op>>
             /\ to_client' = IF broken THEN to_client ELSE Append(to_client, op)
      BY <1>1, <1>7, OnDoneDoes
    <2>2. ~broken => op \in Sendable
      <3>1. op = Finish("UNKNOWN") /\ request.method = "ReadObject" /\ Size >= 0 => broken
        BY <2>1 DEF DummyInv, ReadObjectInv, ReadParts
      <3>2. QED
        BY <1>1, <2>1, <3>1, SendableIs
    <2>3. to_client' \in Seq(Sendable)
      BY <1>2, <2>1, <2>2
    <2>4. started' = << >> /\ << >> \in Seq(Startable) /\ UNCHANGED <<to_server, client, status>>
      BY <1>1, <1>7, OnDoneDoes
    <2>5. QED
      BY <1>1, <1>2, <2>3, <2>4 DEF KindsRight
  <1>8. ASSUME NEW ok \in BOOLEAN, WriteCompletes(ok)
        PROVE  KindsRight'
    <2>1. /\ request.method = "ReadObject" /\ Size >= 0
          /\ UNCHANGED <<to_server, client, status>>
      BY <1>1, <1>8, WriteCompletesDoes
    <2>2. PICK size \in Nat :
             to_client' = IF broken THEN to_client ELSE Append(to_client, Write(size))
      BY <1>1, <1>8, WriteCompletesDoes
    <2>3. to_client' \in Seq(Sendable)
      BY <1>1, <1>2, <2>1, <2>2, SendableIs
    <2>4. left_size \in Nat
      BY <1>1, GcsUtilAssumption DEF TypeOK
    <2>5. \E op \in Startable : started' = <<op>>
      <3>1. \/ started' = <<Finish("OK")>> \/ started' = <<Finish("UNKNOWN")>>
            \/ \E n \in 1 .. left_size : started' = <<Write(n)>>
        BY <1>1, <1>8, WriteCompletesDoes
      <3>2. QED
        BY <1>1, <2>1, <2>4, <3>1, SendableIs
    <2>6. started' \in Seq(Startable)
      BY <2>5
    <2>7. QED
      BY <1>1, <1>2, <2>1, <2>3, <2>6 DEF KindsRight
  <1>9. ASSUME NEW ok \in BOOLEAN, ReadCompletes(ok)
        PROVE  KindsRight'
    <2>1. /\ request.method = "WriteObject" /\ UNCHANGED <<to_client, client, status>>
          /\ started' = <<StartRead>> \/ started' = <<Finish("OK")>>
          /\ to_server' = to_server \/ (to_server # << >> /\ to_server' = Tail(to_server))
      BY <1>1, <1>9, ReadCompletesDoes
    <2>2. started' \in Seq(Startable)
      <3>1. StartRead \in Startable /\ Finish("OK") \in Startable
        BY <1>1, <2>1, SendableIs
      <3>2. PICK op \in Startable : started' = <<op>>
        BY <2>1, <3>1
      <3>3. QED
        BY <3>2
    <2>3. to_server' \in Seq(Chunks \cup {Finish("none")})
      <3> DEFINE S == Chunks \cup {Finish("none")}
      <3> HIDE DEF S
      <3>1. \A items \in Seq(S) : items # << >> => Tail(items) \in Seq(S)
        BY HeadTailProperties
      <3>2. to_server \in Seq(S)
        BY <1>2 DEF S
      <3>3. to_server' \in Seq(S)
        BY <2>1, <3>1, <3>2
      <3>4. QED
        BY <3>3 DEF S
    <2>4. QED
      BY <1>1, <1>2, <2>1, <2>2, <2>3 DEF KindsRight
  <1>10. CASE StartCall
    BY <1>1, <1>2, <1>3, <1>10, RequestIs DEF StartCall, serverVars
  <1>11. CASE Read
    <2>1. to_client' \in Seq(Sendable)
      BY <1>2, <1>11 DEF Read, Arrived
    <2>2. QED
      BY <1>1, <1>2, <1>11, <2>1 DEF Read, KindsRight, serverVars, clientVars
  <1>12. CASE WriteChunk
    <2> DEFINE size == IF request.write_size - offset < request.chunk_size
                       THEN request.write_size - offset ELSE request.chunk_size
    <2>1. to_server' = Append(to_server, Write(size))
      BY <1>12 DEF WriteChunk
    <2>2. size \in Nat
      BY <1>1, <1>12, RequestIs DEF WriteChunk, TypeOK
    <2> HIDE DEF size
    <2>3. Write(size) \in Chunks \cup {Finish("none")}
      BY <2>2 DEF Chunks
    <2>4. to_server' \in Seq(Chunks \cup {Finish("none")})
      BY <1>2, <2>1, <2>3
    <2>5. QED
      BY <1>1, <1>2, <1>12, <2>4 DEF WriteChunk, KindsRight, serverVars
  <1>13. CASE WritesDone
    <2>1. Finish("none") \in Chunks \cup {Finish("none")}
      OBVIOUS
    <2>2. to_server' \in Seq(Chunks \cup {Finish("none")})
      BY <1>2, <1>13, <2>1 DEF WritesDone
    <2>3. QED
      BY <1>1, <1>2, <1>13, <2>2 DEF WritesDone, KindsRight, serverVars
  <1>14. CASE GetStatus
    <2>1. status' # "none"
      <3>1. CASE Arrived("finish") /\ status' = Head(to_client).code
        <4>1. Head(to_client) \in Sendable /\ Head(to_client).kind = "finish"
          BY <1>2, <3>1 DEF Arrived
        <4>2. Head(to_client).code # "none"
          BY <1>1, <4>1, SendableIs DEF Finish, Reply
        <4>3. QED
          BY <3>1, <4>2
      <3>2. CASE status' = "UNAVAILABLE"
        BY <3>2
      <3>3. QED
        BY <1>14, <3>1, <3>2 DEF GetStatus
    <2>2. UNCHANGED <<to_client, started, to_server>> /\ client' = "done"
      BY <1>14 DEF GetStatus, serverVars
    <2>3. QED
      BY <1>3, <2>1, <2>2
  <1>15. QED
    BY <1>4, <1>5, <1>6, <1>7, <1>8, <1>9, <1>10, <1>11, <1>12, <1>13, <1>14
       DEF Next, Library, Client, CallOver

\* Every step keeps the finish the last thing of each stream.
LEMMA OrderStep ==
    ASSUME DummyInv, [Next]_vars
    PROVE  InOrder'
  <1>1. /\ TypeOK /\ OneAtATime /\ KindsRight /\ InOrder
        /\ request' = request /\ request \in Requests
        /\ to_client \in Seq(Items) /\ to_server \in Seq(Items)
    BY RequestFixed DEF DummyInv, TypeOK
  <1>2. /\ FinishLast(to_client) /\ FinishLast(to_server)
        /\ reactor = "alive" => ~Ended(to_client)
        /\ reactor = "none" /\ ~broken => to_client = << >>
        /\ Ended(to_server) => client \in {"finishing", "done"} /\ offset >= request.write_size
    BY <1>1 DEF InOrder
  <1>3. ~Ended(<< >>)
    BY DEF Ended
  <1>4. CASE /\ UNCHANGED <<to_client, to_server, reactor, offset>>
             /\ broken => broken'
             /\ client \in {"finishing", "done"} => client' \in {"finishing", "done"}
    BY <1>1, <1>2, <1>4 DEF InOrder, FinishLast, Ended
  <1>5. CASE RunServer \/ Break \/ StartCall \/ ReadEnds \/ WriteFails \/ GetStatus \/ UNCHANGED vars
    <2>1. /\ UNCHANGED <<to_client, to_server, reactor, offset>> /\ (broken => broken')
          /\ client \in {"finishing", "done"} => client' \in {"finishing", "done"}
      BY <1>5 DEF RunServer, Break, StartCall, ReadEnds, WriteFails, GetStatus, vars, fixed,
                  serverVars, clientVars
    <2>2. QED
      BY <1>4, <2>1
  <1>6. CASE Kill
    BY <1>1, <1>2, <1>6 DEF Kill, InOrder, FinishLast, Ended, clientVars
  <1>7. CASE CallArrives
    <2>1. to_client = << >> /\ reactor' = "alive"
          /\ UNCHANGED <<to_client, to_server, client, offset, broken>>
      BY <1>1, <1>2, <1>7, CallArrivesDoes
    <2>2. QED
      BY <1>1, <1>2, <1>3, <2>1 DEF InOrder, FinishLast, Ended
  <1>8. CASE OnDone
    <2>1. PICK op \in Startable :
             to_client' = IF broken THEN to_client ELSE Append(to_client, op)
      BY <1>1, <1>8, OnDoneDoes
    <2>2. op \in Items /\ ~Ended(to_client) /\ reactor' = "deleted"
          /\ UNCHANGED <<to_server, client, offset>>
      BY <1>1, <1>2, <1>8, OnDoneDoes, SendableIs
    <2>3. FinishLast(to_client')
      BY <1>1, <1>2, <2>1, <2>2, OrderOfAppend
    <2>4. QED
      BY <1>1, <1>2, <2>2, <2>3 DEF InOrder, FinishLast, Ended
  <1>9. ASSUME NEW ok \in BOOLEAN, WriteCompletes(ok)
        PROVE  InOrder'
    <2>1. PICK size \in Nat :
             to_client' = IF broken THEN to_client ELSE Append(to_client, Write(size))
      BY <1>1, <1>9, WriteCompletesDoes
    <2>2. /\ reactor = "alive" /\ reactor' = "alive" /\ ~Ended(to_client)
          /\ UNCHANGED <<to_server, client, offset>>
      BY <1>1, <1>2, <1>9, WriteCompletesDoes
    <2>3. Write(size) \in Items /\ Write(size).kind # "finish"
      BY KindsOfItems DEF Write
    <2>4. FinishLast(to_client') /\ ~Ended(to_client')
      BY <1>1, <1>2, <2>1, <2>2, <2>3, OrderOfAppend
    <2>5. QED
      BY <1>1, <1>2, <2>2, <2>4 DEF InOrder, FinishLast, Ended
  <1>10. ASSUME NEW ok \in BOOLEAN, ReadCompletes(ok)
         PROVE  InOrder'
    <2>1. /\ UNCHANGED <<reactor, to_client, client, offset, broken>>
          /\ to_server' = to_server \/ (to_server # << >> /\ to_server' = Tail(to_server))
      BY <1>1, <1>10, ReadCompletesDoes
    <2>2. FinishLast(to_server') /\ (Ended(to_server') => Ended(to_server))
      BY <1>1, <1>2, <2>1, OrderOfTail
    <2>3. QED
      BY <1>1, <1>2, <2>1, <2>2 DEF InOrder, FinishLast, Ended
  <1>11. CASE Read
    <2>1. /\ UNCHANGED <<reactor, to_server, client, offset, broken>>
          /\ to_client # << >> /\ to_client' = Tail(to_client)
      BY <1>11 DEF Read, Arrived, serverVars, clientVars
    <2>2. FinishLast(to_client') /\ (Ended(to_client') => Ended(to_client))
      BY <1>1, <1>2, <2>1, OrderOfTail
    <2>3. QED
      BY <1>1, <1>2, <2>1, <2>2 DEF InOrder, FinishLast, Ended
  <1>12. CASE WriteChunk
    <2> DEFINE size == IF request.write_size - offset < request.chunk_size
                       THEN request.write_size - offset ELSE request.chunk_size
    <2>1. /\ to_server' = Append(to_server, Write(size)) /\ client = "writing"
          /\ UNCHANGED <<reactor, to_client, broken>>
      BY <1>12 DEF WriteChunk, serverVars
    <2>2. size \in Nat
      BY <1>1, <1>12, RequestIs DEF WriteChunk, TypeOK
    <2> HIDE DEF size
    <2>3. Write(size) \in Items /\ Write(size).kind # "finish"
      BY <2>2, KindsOfItems DEF Write
    <2>4. FinishLast(to_server') /\ ~Ended(to_server')
      BY <1>1, <1>2, <2>1, <2>3, OrderOfAppend
    <2>5. QED
      BY <1>1, <1>2, <2>1, <2>4 DEF InOrder, FinishLast, Ended
  <1>13. CASE WritesDone
    <2>1. /\ to_server' = IF broken THEN to_server ELSE Append(to_server, Finish("none"))
          /\ client = "writing" /\ client' = "finishing" /\ offset >= request.write_size
          /\ UNCHANGED <<reactor, to_client, broken, offset>>
      BY <1>13 DEF WritesDone, serverVars
    <2>2. FinishLast(to_server')
      BY <1>1, <1>2, <2>1, OrderOfAppend, KindsOfItems
    <2>3. QED
      BY <1>1, <1>2, <2>1, <2>2 DEF InOrder, FinishLast, Ended
  <1>14. QED
    BY <1>5, <1>6, <1>7, <1>8, <1>9, <1>10, <1>11, <1>12, <1>13
       DEF Next, Library, Client, CallOver

-----------------------------------------------------------------------------
(* What a status means, method by method. *)

\* Every step keeps what GetObject's reply and status mean.
LEMMA GetObjectStep ==
    ASSUME DummyInv, [Next]_vars
    PROVE  GetObjectInv'
  <1>1. /\ TypeOK /\ OneAtATime /\ KindsRight /\ InOrder /\ GetObjectInv
        /\ request' = request /\ Size' = Size /\ request \in Requests
        /\ to_client \in Seq(Sendable) /\ moved \in Nat
    BY RequestFixed DEF DummyInv, TypeOK, KindsRight
  <1>2. SUFFICES ASSUME request.method = "GetObject"
                 PROVE  /\ status' # "OK" => moved' = 0
                        /\ status' = "OK" => Size >= 0 /\ moved' = Size
                        /\ status' = "NOT_FOUND" => Size < 0
    BY <1>1 DEF GetObjectInv
  <1>3. /\ status # "OK" => moved = 0
        /\ status = "OK" => Size >= 0 /\ moved = Size
        /\ status = "NOT_FOUND" => Size < 0
    BY <1>1, <1>2 DEF GetObjectInv
  <1>4. CASE UNCHANGED <<moved, status>>
    BY <1>3, <1>4
  <1>5. CASE RunServer \/ Kill \/ Break \/ StartCall \/ ReadEnds \/ WriteFails
             \/ WriteChunk \/ WritesDone \/ UNCHANGED vars
    BY <1>4, <1>5 DEF RunServer, Kill, Break, StartCall, ReadEnds, WriteFails, WriteChunk,
                      WritesDone, vars, fixed, serverVars, clientVars
  <1>6. CASE CallArrives
    BY <1>1, <1>4, <1>6, CallArrivesDoes
  <1>7. CASE OnDone
    BY <1>1, <1>4, <1>7, OnDoneDoes
  <1>8. ASSUME NEW ok \in BOOLEAN, WriteCompletes(ok)
        PROVE  FALSE
    BY <1>1, <1>2, <1>8, WriteCompletesDoes
  <1>9. ASSUME NEW ok \in BOOLEAN, ReadCompletes(ok)
        PROVE  FALSE
    BY <1>1, <1>2, <1>9, ReadCompletesDoes
  <1>10. CASE Read
    <2>1. request.method = "ReadObject"
      BY <1>1, <1>10 DEF Read, KindsRight
    <2>2. QED
      BY <1>2, <2>1
  <1>11. CASE GetStatus
    <2>1. moved = 0
      BY <1>1, <1>3, <1>11 DEF GetStatus, KindsRight
    <2>2. CASE Arrived("finish") /\ status' = Head(to_client).code
               /\ moved' = moved + Head(to_client).size
      <3>1. Head(to_client) \in Sendable
        BY <1>1, <2>2 DEF Arrived
      <3>2. Head(to_client) = IF Size < 0 THEN Finish("NOT_FOUND") ELSE Reply(Size)
        BY <1>1, <1>2, <3>1, SendableIs
      <3>3. Size \in Int
        BY <1>1, SizeIs
      <3>4. CASE Size < 0
        <4>1. status' = "NOT_FOUND" /\ moved' = 0
          BY <2>1, <2>2, <3>2, <3>4 DEF Finish
        <4>2. QED
          BY <2>1, <3>4, <4>1
      <3>5. CASE Size >= 0
        <4>1. Head(to_client).code = "OK" /\ Head(to_client).size = Size
          BY <3>2, <3>3, <3>5 DEF Reply
        <4>2. status' = "OK" /\ moved' = Size
          BY <2>1, <2>2, <3>3, <4>1
        <4>3. QED
          BY <2>1, <3>5, <4>2
      <3>6. QED
        BY <3>3, <3>4, <3>5
    <2>3. CASE status' = "UNAVAILABLE" /\ moved' = moved
      BY <2>1, <2>3
    <2>4. QED
      BY <1>11, <2>2, <2>3 DEF GetStatus
  <1>12. QED
    BY <1>5, <1>6, <1>7, <1>8, <1>9, <1>10, <1>11 DEF Next, Library, Client, CallOver

\* Every step keeps the bytes of a write: sent is what arrived and what is on its way.
LEMMA WriteObjectStep ==
    ASSUME DummyInv, [Next]_vars
    PROVE  WriteObjectInv'
  <1>1. /\ TypeOK /\ OneAtATime /\ KindsRight /\ InOrder /\ WriteObjectInv
        /\ request' = request /\ request \in Requests
        /\ to_client \in Seq(Items) /\ to_server \in Seq(Items)
        /\ moved \in Nat /\ offset \in Nat
    BY RequestFixed DEF DummyInv, TypeOK
  <1>2. request.write_size \in Nat \ {0} /\ request.chunk_size \in Nat
    BY <1>1, RequestIs
  <1> DEFINE FinishNext == to_server # << >> /\ Head(to_server).kind = "finish"
  <1>3. SUFFICES ASSUME request.method = "WriteObject"
                 PROVE  /\ Total(to_server') + moved' = Sent'
                        /\ started' = <<Finish("OK")>> => broken' \/ FinishNext'
                        /\ to_client' # << >> => FinishNext'
                        /\ status' = "OK" => moved' = request.write_size
                        /\ status' # "NOT_FOUND"
    BY <1>1 DEF WriteObjectInv
  <1>4. /\ Total(to_server) + moved = Sent
        /\ started = <<Finish("OK")>> => broken \/ FinishNext
        /\ to_client # << >> => FinishNext
        /\ status = "OK" => moved = request.write_size
        /\ status # "NOT_FOUND"
    BY <1>1, <1>3 DEF WriteObjectInv
  <1>5. StartRead # Finish("OK") /\ << >> # <<Finish("OK")>>
    BY DEF StartRead, Finish
  <1> HIDE DEF FinishNext
  <1>6. ASSUME UNCHANGED <<to_server, offset>> PROVE Sent' = Sent /\ FinishNext' = FinishNext
    BY <1>1, <1>6 DEF Sent, FinishNext
  <1>7. CASE /\ UNCHANGED <<to_server, to_client, offset, moved, status>>
             /\ started' \in {started, << >>, <<StartRead>>}
             /\ broken => broken'
    <2>1. Total(to_server') = Total(to_server)
      BY <1>7
    <2>2. started' = <<Finish("OK")>> => started = <<Finish("OK")>>
      <3>1. started' = started \/ started' = << >> \/ started' = <<StartRead>>
        BY <1>7
      <3>2. <<StartRead>> # <<Finish("OK")>>
        BY <1>5
      <3>3. QED
        BY <1>5, <3>1, <3>2
    <2>3. QED
      BY <1>4, <1>6, <1>7, <2>1, <2>2
  <1>8. CASE RunServer \/ Kill \/ Break \/ StartCall \/ ReadEnds \/ WriteFails \/ UNCHANGED vars
    <2>1. /\ UNCHANGED <<to_server, to_client, offset, moved, status>> /\ (broken => broken')
          /\ started' = started \/ started' = << >>
      BY <1>8 DEF RunServer, Kill, Break, StartCall, ReadEnds, WriteFails, vars, fixed,
                  serverVars, clientVars
    <2>2. QED
      BY <1>7, <2>1
  <1>9. CASE CallArrives
    <2>1. /\ UNCHANGED <<to_server, to_client, offset, moved, status, broken>>
          /\ started' = <<StartRead>>
      BY <1>1, <1>3, <1>9, CallArrivesDoes
    <2>2. QED
      BY <1>7, <2>1
  <1>10. CASE OnDone
    <2>1. /\ UNCHANGED <<to_server, broken, offset, moved, status>> /\ started' = << >>
      BY <1>1, <1>10, OnDoneDoes
    <2>2. to_client' # to_client => FinishNext
      <3>1. PICK op \in Startable :
               /\ op.kind = "finish" /\ started = <<op>>
               /\ to_client' = IF broken THEN to_client ELSE Append(to_client, op)
        BY <1>1, <1>10, OnDoneDoes
      <3>2. op = Finish("OK")
        BY <1>1, <1>3, <3>1, SendableIs
      <3>3. QED
        BY <1>4, <3>1, <3>2
    <2>3. FinishNext' = FinishNext /\ Sent' = Sent /\ Total(to_server') = Total(to_server)
      BY <1>6, <2>1
    <2>4. QED
      BY <1>4, <1>5, <2>1, <2>2, <2>3
  <1>11. ASSUME NEW ok \in BOOLEAN, WriteCompletes(ok)
         PROVE  FALSE
    BY <1>1, <1>3, <1>11, WriteCompletesDoes
  <1>12. ASSUME NEW ok \in BOOLEAN, ReadCompletes(ok)
         PROVE  /\ Total(to_server') + moved' = Sent'
                /\ started' = <<Finish("OK")>> => broken' \/ FinishNext'
                /\ to_client' # << >> => FinishNext'
                /\ status' = "OK" => moved' = request.write_size
                /\ status' # "NOT_FOUND"
    <2>1. UNCHANGED <<to_client, broken, offset, status>>
      BY <1>1, <1>12, ReadCompletesDoes
    <2>2. CASE /\ started' = <<StartRead>>
               /\ to_server # << >> /\ Head(to_server).kind = "write"
               /\ to_server' = Tail(to_server) /\ moved' = moved + Head(to_server).size
      <3>1. /\ Total(to_server) = Head(to_server).size + Total(Tail(to_server))
            /\ Head(to_server).size \in Nat /\ Tail(to_server) \in Seq(Items)
        BY <1>1, <2>2, TotalOfTail
      <3>2. Total(Tail(to_server)) \in Nat
        BY <3>1, TotalType
      <3>3. Sent' = Sent /\ Sent \in Nat /\ Sent <= request.write_size
        BY <1>1, <1>2, <2>1 DEF Sent
      <3>4. Total(to_server') + moved' = Sent'
        BY <1>1, <1>4, <2>2, <3>1, <3>2, <3>3
      <3>5. moved' <= request.write_size /\ moved' >= moved /\ moved' \in Nat
        <4>1. moved' \in Nat /\ moved' >= moved
          BY <1>1, <2>2, <3>1
        <4>2. Total(to_server') \in Nat
          BY <2>2, <3>2
        <4>3. moved' <= Sent
          BY <3>3, <3>4, <4>1, <4>2
        <4>4. QED
          BY <1>2, <3>3, <4>1, <4>3
      <3>6. to_client = << >>
        BY <1>4, <2>2 DEF FinishNext
      <3>7. started' # <<Finish("OK")>>
        BY <1>5, <2>2
      <3>8. QED
        BY <1>1, <1>2, <1>4, <2>1, <3>4, <3>5, <3>6, <3>7
    <2>3. CASE /\ started' = <<Finish("OK")>> /\ UNCHANGED <<to_server, moved>>
               /\ broken \/ (to_server # << >> /\ Head(to_server).kind = "finish")
      <3>1. FinishNext' = FinishNext /\ Sent' = Sent /\ Total(to_server') = Total(to_server)
        BY <1>6, <2>1, <2>3
      <3>2. broken \/ FinishNext
        BY <2>3 DEF FinishNext
      <3>3. QED
        BY <1>4, <2>1, <2>3, <3>1, <3>2
    <2>4. QED
      BY <1>1, <1>12, <2>2, <2>3, ReadCompletesDoes
  <1>13. CASE Read
    <2>1. request.method = "ReadObject"
      BY <1>1, <1>13 DEF Read, KindsRight
    <2>2. QED
      BY <1>3, <2>1
  <1>14. ASSUME NEW item \in Items, to_server' = Append(to_server, item) PROVE FinishNext => FinishNext'
    <2>1. to_server # << >> => to_server' # << >> /\ Head(to_server') = Head(to_server)
      BY <1>1, <1>14
    <2>2. QED
      BY <2>1 DEF FinishNext
  <1>15. CASE WriteChunk
    <2> DEFINE size == IF request.write_size - offset < request.chunk_size
                       THEN request.write_size - offset ELSE request.chunk_size
    <2>1. /\ to_server' = Append(to_server, Write(size)) /\ offset < request.write_size
          /\ offset' = offset + request.chunk_size
          /\ UNCHANGED <<started, to_client, moved, status, broken>>
      BY <1>15 DEF WriteChunk, serverVars
    <2>2. size \in Nat
      BY <1>1, <1>2, <2>1
    <2>3. Sent = offset /\ Sent' = offset + size
      BY <1>1, <1>2, <2>1 DEF Sent
    <2> HIDE DEF size
    <2>4. Write(size) \in Items /\ Write(size).size = size
      BY <2>2, KindsOfItems DEF Write
    <2>5. Total(to_server') = Total(to_server) + size /\ Total(to_server) \in Nat
      BY <1>1, <2>1, <2>4, TotalOfAppend, TotalType
    <2>6. FinishNext => FinishNext'
      BY <1>14, <2>1, <2>4
    <2>7. Total(to_server') + moved' = Sent'
      <3>1. Total(to_server) + moved = offset
        BY <1>4, <2>3
      <3>2. moved' = moved
        BY <2>1
      <3>3. Total(to_server') + moved' = offset + size
        BY <1>1, <2>2, <2>5, <3>1, <3>2
      <3>4. QED
        BY <2>3, <3>3
    <2>8. QED
      BY <1>4, <2>1, <2>6, <2>7
  <1>16. CASE WritesDone
    <2>1. /\ to_server' = IF broken THEN to_server ELSE Append(to_server, Finish("none"))
          /\ UNCHANGED <<started, to_client, moved, status, broken, offset>>
      BY <1>16 DEF WritesDone, serverVars
    <2>2. Finish("none") \in Items /\ Finish("none").size = 0
      BY KindsOfItems DEF Finish
    <2>3. Total(to_server') = Total(to_server)
      BY <1>1, <2>1, <2>2, TotalOfAppend, TotalType
    <2>4. Sent' = Sent
      BY <1>1, <2>1 DEF Sent
    <2>5. FinishNext => FinishNext'
      <3>1. CASE broken
        BY <1>6, <2>1, <3>1
      <3>2. CASE ~broken
        BY <1>14, <2>1, <2>2, <3>2
      <3>3. QED
        BY <3>1, <3>2
    <2>6. QED
      BY <1>4, <2>1, <2>3, <2>4, <2>5
  <1>17. CASE GetStatus
    <2>1. UNCHANGED <<to_server, to_client, offset, started, broken>>
      BY <1>17 DEF GetStatus, serverVars
    <2>2. FinishNext' = FinishNext /\ Sent' = Sent /\ Total(to_server') = Total(to_server)
      BY <1>6, <2>1
    <2>3. CASE Arrived("finish") /\ status' = Head(to_client).code
               /\ moved' = moved + Head(to_client).size
      <3>1. FinishNext /\ Head(to_client) \in Sendable
        BY <1>1, <1>4, <2>3 DEF Arrived, KindsRight
      <3>2. Head(to_client) = Finish("OK")
        BY <1>1, <1>3, <3>1, SendableIs
      <3>3. status' = "OK" /\ moved' = moved
        BY <1>1, <2>3, <3>2 DEF Finish
      <3>4. Ended(to_server) /\ Total(to_server) = Head(to_server).size
        BY <1>1, <3>1, FinishAtHead DEF FinishNext, InOrder
      <3>5. Head(to_server).size = 0
        <4>1. Head(to_server) \in Chunks \cup {Finish("none")}
          BY <1>1, <3>1 DEF FinishNext, KindsRight
        <4>2. Head(to_server) \notin Chunks
          BY <3>1 DEF FinishNext, Chunks, Write
        <4>3. QED
          BY <4>1, <4>2 DEF Finish
      <3>6. Sent = request.write_size
        BY <1>1, <1>2, <3>4 DEF Sent, InOrder
      <3>7. moved = request.write_size
        BY <1>1, <1>4, <3>4, <3>5, <3>6
      <3>8. QED
        BY <1>4, <2>1, <2>2, <3>3, <3>7
    <2>4. CASE status' = "UNAVAILABLE" /\ moved' = moved
      BY <1>4, <2>1, <2>2, <2>4
    <2>5. QED
      BY <1>17, <2>3, <2>4 DEF GetStatus
  <1>18. QED
    BY <1>8, <1>9, <1>10, <1>11, <1>12, <1>13, <1>15, <1>16, <1>17
       DEF Next, Library, Client, CallOver

\* A read of what does not exist brings nothing.
LEMMA ReadNothingStep ==
    ASSUME DummyInv, [Next]_vars, request.method = "ReadObject", Size < 0
    PROVE  moved' = 0 /\ status' # "OK"
  <1>1. /\ TypeOK /\ OneAtATime /\ KindsRight /\ request \in Requests
        /\ to_client \in Seq(Sendable) /\ moved = 0 /\ status # "OK"
        /\ Sendable = {Finish("NOT_FOUND")}
    BY SendableIs DEF DummyInv, TypeOK, KindsRight, ReadObjectInv
  <1>2. Size \in Int
    BY <1>1, SizeIs
  <1>3. ASSUME to_client # << >>
        PROVE  Head(to_client).kind = "finish" /\ Head(to_client).size = 0
               /\ Head(to_client).code # "OK"
    <2>1. Head(to_client) = Finish("NOT_FOUND")
      BY <1>1, <1>3
    <2>2. QED
      BY <2>1 DEF Finish
  <1>4. CASE RunServer \/ Kill \/ Break \/ StartCall \/ ReadEnds \/ WriteFails
             \/ WriteChunk \/ WritesDone \/ UNCHANGED vars
    BY <1>1, <1>4 DEF RunServer, Kill, Break, StartCall, ReadEnds, WriteFails, WriteChunk,
                      WritesDone, vars, fixed, serverVars, clientVars
  <1>5. CASE CallArrives
    BY <1>1, <1>5, CallArrivesDoes
  <1>6. CASE OnDone
    BY <1>1, <1>6, OnDoneDoes
  <1>7. ASSUME NEW ok \in BOOLEAN, WriteCompletes(ok)
        PROVE  FALSE
    BY <1>1, <1>2, <1>7, WriteCompletesDoes
  <1>8. ASSUME NEW ok \in BOOLEAN, ReadCompletes(ok)
        PROVE  FALSE
    BY <1>1, <1>8, ReadCompletesDoes
  <1>9. CASE Read
    BY <1>3, <1>9 DEF Read, Arrived
  <1>10. CASE GetStatus
    BY <1>1, <1>3, <1>10 DEF GetStatus, Arrived
  <1>11. QED
    BY <1>4, <1>5, <1>6, <1>7, <1>8, <1>9, <1>10 DEF Next, Library, Client, CallOver

\* Every step keeps the bytes of a read: received, on their way, being written and
\* left over make up the limit, until the connection breaks.
LEMMA ReadSomethingStep ==
    ASSUME DummyInv, [Next]_vars, request.method = "ReadObject", Size >= 0
    PROVE  ReadParts'
  <1>1. /\ TypeOK /\ OneAtATime /\ KindsRight /\ InOrder /\ request \in Requests
        /\ to_client \in Seq(Items) /\ to_client \in Seq(Sendable) /\ started \in Seq(Items)
        /\ moved \in Nat /\ left_size \in Nat /\ Limit' = Limit
    BY RequestFixed, GcsUtilAssumption DEF DummyInv, TypeOK, KindsRight
  <1>2. ReadParts
    BY DEF DummyInv, ReadObjectInv, ReadParts
  <1>3. Limit \in Nat /\ Total(started) \in Nat /\ Total(to_client) \in Nat
    BY <1>1, WholeIs, SizeIs, TotalType
  <1>4. /\ Finish("OK") # Finish("UNKNOWN") /\ Finish("OK").size = 0 /\ Finish("UNKNOWN").size = 0
        /\ \A size \in Nat : /\ Write(size).size = size /\ Write(size).kind = "write"
                             /\ Write(size) # Finish("OK") /\ Write(size) # Finish("UNKNOWN")
    BY DEF Finish, Write
  <1>5. \A item \in Items : Total(<<item>>) = item.size
    BY TotalOfOne
  <1>6. Finish("OK") \in Items /\ Finish("UNKNOWN") \in Items /\ \A size \in Nat : Write(size) \in Items
    BY KindsOfItems
  <1>7. \A a, b : <<a>> = <<b>> => a = b
    OBVIOUS
  <1>8. << >> # <<Finish("OK")>> /\ << >> # <<Finish("UNKNOWN")>>
    OBVIOUS
  <1>9. CASE /\ UNCHANGED <<left_size, started, to_client, moved, status, reactor>>
             /\ broken => broken'
    BY <1>1, <1>2, <1>9 DEF ReadParts, Ended
  <1>10. CASE RunServer \/ Break \/ StartCall \/ ReadEnds \/ WriteFails
              \/ WriteChunk \/ WritesDone \/ UNCHANGED vars
    <2>1. /\ UNCHANGED <<left_size, started, to_client, moved, status, reactor>>
          /\ broken => broken'
      BY <1>10 DEF RunServer, Break, StartCall, ReadEnds, WriteFails, WriteChunk,
                      WritesDone, vars, fixed, serverVars, clientVars
    <2>2. QED
      BY <1>9, <2>1
  <1>11. CASE Kill
    <2>1. /\ left_size' = 0 /\ started' = << >> /\ broken' = TRUE
          /\ to_client' = to_client /\ moved' = moved /\ status' = status
      BY <1>11 DEF Kill, clientVars
    <2>2. Total(started') = 0 /\ Total(to_client') = Total(to_client)
      BY <2>1, TotalOfNothing
    <2>3. Ended(to_client') = Ended(to_client)
      BY <2>1
    <2>4. 0 + 0 + Total(to_client) + moved <= Limit
      BY <1>1, <1>2, <1>3 DEF ReadParts
    <2>5. QED
      BY <1>1, <1>2, <1>8, <2>1, <2>2, <2>3, <2>4 DEF ReadParts
  <1>12. CASE CallArrives
    <2>1. /\ ~broken /\ reactor = "none" /\ reactor' = "alive"
          /\ to_client' = to_client /\ broken' = broken /\ status' = status /\ moved' = moved
          /\ to_client = << >>
      BY <1>1, <1>12, CallArrivesDoes DEF InOrder
    <2>2. moved = 0 /\ Total(to_client') = 0 /\ ~Ended(to_client')
      BY <1>2, <2>1, TotalOfNothing DEF ReadParts, Ended
    <2>3. CASE Limit = 0 /\ started' = <<Finish("OK")>> /\ left_size' = 0
      <3>1. Total(started') = 0 /\ started' # <<Finish("UNKNOWN")>>
        BY <1>4, <1>5, <1>6, <1>7, <2>3
      <3>2. left_size' + Total(started') + Total(to_client') + moved' = Limit
        BY <2>1, <2>2, <2>3, <3>1
      <3>3. QED
        BY <1>1, <1>2, <1>3, <2>1, <2>2, <2>3, <3>1, <3>2 DEF ReadParts
    <2>4. ASSUME NEW size \in 1 .. Limit, started' = <<Write(size)>>, left_size' = Limit - size
          PROVE  ReadParts'
      <3>1. size \in Nat
        BY <1>3
      <3>2. Total(started') = size /\ started' # <<Finish("UNKNOWN")>>
            /\ started' # <<Finish("OK")>>
        BY <1>4, <1>5, <1>6, <1>7, <2>4, <3>1
      <3>3. left_size' + Total(started') + Total(to_client') + moved' = Limit
        BY <1>3, <2>1, <2>2, <2>4, <3>1, <3>2
      <3>4. QED
        BY <1>1, <1>2, <1>3, <2>1, <2>2, <3>2, <3>3 DEF ReadParts
    <2>5. QED
      BY <1>1, <1>12, <2>3, <2>4, CallArrivesDoes, SizeIs
  <1>13. CASE OnDone
    <2>1. /\ reactor = "alive" /\ reactor' = "deleted" /\ started' = << >>
          /\ left_size' = left_size /\ broken' = broken /\ status' = status /\ moved' = moved
      BY <1>1, <1>13, OnDoneDoes
    <2>2. PICK op \in Startable :
             /\ op.kind = "finish" /\ started = <<op>>
             /\ to_client' = IF broken THEN to_client ELSE Append(to_client, op)
      BY <1>1, <1>13, OnDoneDoes
    <2>3. op \in {Finish("OK"), Finish("UNKNOWN")} /\ op \in Items /\ op.size = 0
      BY <1>1, <1>4, <2>2, SendableIs, SizeIs
    <2>4. Total(started) = 0 /\ Total(started') = 0
      BY <1>5, <2>1, <2>2, <2>3, TotalOfNothing
    <2>5. Total(to_client') = Total(to_client)
      <3>1. Total(Append(to_client, op)) = Total(to_client) + op.size
        BY <1>1, <2>3, TotalOfAppend
      <3>2. QED
        BY <1>3, <2>2, <2>3, <3>1
    <2>6. ~broken => Total(to_client) + moved = Limit
      <3>1. ~broken => op = Finish("OK")
        BY <1>2, <2>2, <2>3 DEF ReadParts
      <3>2. ~broken => left_size = 0
        BY <1>2, <2>2, <3>1 DEF ReadParts
      <3>3. ~broken => left_size + Total(started) + Total(to_client) + moved = Limit
        BY <1>2, <2>1 DEF ReadParts
      <3>4. QED
        BY <1>1, <1>3, <2>4, <3>2, <3>3
    <2>7. Ended(to_client') => Total(to_client') + moved' = Limit
      <3>1. broken => to_client' = to_client
        BY <2>2
      <3>2. Ended(to_client) => Total(to_client) + moved = Limit
        BY <1>2 DEF ReadParts
      <3>3. QED
        BY <2>1, <2>5, <2>6, <3>1, <3>2
    <2>8. left_size' + Total(started') + Total(to_client') + moved'
             = left_size + Total(started) + Total(to_client) + moved
      BY <2>1, <2>4, <2>5
    <2>9. QED
      BY <1>1, <1>2, <1>8, <2>1, <2>7, <2>8 DEF ReadParts
  <1>14. ASSUME NEW ok \in BOOLEAN, WriteCompletes(ok)
         PROVE  ReadParts'
    <2>1. /\ reactor = "alive" /\ reactor' = "alive" /\ broken' = broken
          /\ status' = status /\ moved' = moved /\ ~Ended(to_client)
      BY <1>1, <1>14, WriteCompletesDoes DEF InOrder
    <2>2. PICK size \in Nat :
             /\ started = <<Write(size)>>
             /\ to_client' = IF broken THEN to_client ELSE Append(to_client, Write(size))
      BY <1>1, <1>14, WriteCompletesDoes
    <2>3. Total(started) = size
      BY <1>4, <1>5, <1>6, <2>2
    <2>4. /\ Total(to_client') = IF broken THEN Total(to_client) ELSE Total(to_client) + size
          /\ ~Ended(to_client')
      <3>1. /\ Total(Append(to_client, Write(size))) = Total(to_client) + size
            /\ ~Ended(Append(to_client, Write(size)))
        BY <1>1, <1>4, <1>6, <2>1, TotalOfAppend, OrderOfAppend
      <3>2. QED
        BY <2>1, <2>2, <3>1
    <2>5. /\ left_size' + Total(started') = left_size
          /\ started' = <<Finish("OK")>> => left_size' = 0
          /\ started' = <<Finish("UNKNOWN")>> => broken
      <3>1. CASE left_size = 0 /\ started' = <<Finish("OK")>> /\ left_size' = 0
        <4>1. Total(started') = 0 /\ started' # <<Finish("UNKNOWN")>>
          BY <1>4, <1>5, <1>6, <1>7, <3>1
        <4>2. QED
          BY <3>1, <4>1
      <3>2. ASSUME NEW n \in 1 .. left_size, started' = <<Write(n)>>, left_size' = left_size - n
            PROVE  /\ left_size' + Total(started') = left_size
                   /\ started' # <<Finish("OK")>> /\ started' # <<Finish("UNKNOWN")>>
        <4>1. n \in Nat
          BY <1>1
        <4>2. Total(started') = n /\ started' # <<Finish("UNKNOWN")>>
              /\ started' # <<Finish("OK")>>
          BY <1>4, <1>5, <1>6, <1>7, <3>2, <4>1
        <4>3. QED
          BY <1>1, <3>2, <4>1, <4>2
      <3>3. CASE broken /\ started' = <<Finish("UNKNOWN")>> /\ left_size' = left_size
        <4>1. Total(started') = 0 /\ started' # <<Finish("OK")>>
          BY <1>4, <1>5, <1>6, <1>7, <3>3
        <4>2. QED
          BY <1>1, <3>3, <4>1
      <3>4. QED
        BY <1>1, <1>14, <3>1, <3>2, <3>3, WriteCompletesDoes
    <2>6. /\ left_size' + Total(started') + Total(to_client') + moved' <= Limit
          /\ ~broken => left_size' + Total(started') + Total(to_client') + moved' = Limit
      <3> DEFINE now == left_size + Total(started) + Total(to_client) + moved
      <3>1. now <= Limit /\ (~broken => now = Limit)
        BY <1>2, <2>1 DEF ReadParts
      <3>2. CASE broken
        <4>1. left_size' + Total(started') + Total(to_client') + moved'
                 = left_size + Total(to_client) + moved
          BY <2>1, <2>4, <2>5, <3>2
        <4>2. left_size + Total(to_client) + moved <= Limit
          BY <1>1, <1>3, <3>1
        <4>3. QED
          BY <3>2, <4>1, <4>2
      <3>3. CASE ~broken
        <4>1. left_size' + Total(started') + Total(to_client') + moved'
                 = left_size + (Total(to_client) + size) + moved
          BY <2>1, <2>4, <2>5, <3>3
        <4>2. left_size + (Total(to_client) + size) + moved = now
          BY <1>1, <1>3, <2>3
        <4>3. QED
          BY <3>1, <3>3, <4>1, <4>2
      <3>4. QED
        BY <3>2, <3>3
    <2>7. QED
      BY <1>1, <1>2, <2>1, <2>4, <2>5, <2>6 DEF ReadParts
  <1>15. ASSUME NEW ok \in BOOLEAN, ReadCompletes(ok)
         PROVE  FALSE
    BY <1>1, <1>15, ReadCompletesDoes
  <1>16. CASE Read
    <2>1. /\ to_client # << >> /\ Head(to_client).kind = "write"
          /\ to_client' = Tail(to_client) /\ moved' = moved + Head(to_client).size
          /\ left_size' = left_size /\ started' = started /\ broken' = broken
          /\ reactor' = reactor /\ status' = status /\ client = "reading"
      BY <1>16 DEF Read, Arrived, serverVars, clientVars
    <2>2. /\ Total(to_client) = Head(to_client).size + Total(to_client')
          /\ Head(to_client).size \in Nat /\ to_client' \in Seq(Items)
      BY <1>1, <2>1, TotalOfTail
    <2>3. Total(to_client') \in Nat /\ Total(to_client') + moved' = Total(to_client) + moved
      <3>1. Total(to_client') \in Nat
        BY <2>2, TotalType
      <3>2. QED
        BY <1>1, <2>1, <2>2, <3>1
    <2>4. Ended(to_client') => Ended(to_client)
      BY <1>1, <2>1, OrderOfTail DEF InOrder
    <2>5. ~broken => reactor # "none"
      BY <1>1, <2>1 DEF InOrder
    <2>6. status = "none"
      BY <1>1, <2>1 DEF KindsRight
    <2>7. left_size' + Total(started') + Total(to_client') + moved'
             = left_size + Total(started) + Total(to_client) + moved
      <3>1. moved' \in Nat /\ Total(started') = Total(started) /\ left_size' = left_size
        BY <1>1, <2>1, <2>2
      <3>2. left_size' + Total(started') + Total(to_client') + moved'
               = left_size + Total(started) + Total(to_client') + moved'
        BY <3>1
      <3>3. left_size + Total(started) + Total(to_client') + moved'
               = left_size + Total(started) + Total(to_client) + moved
        <4>1. PICK a \in Nat, b \in Nat : a = left_size + Total(started) /\ b = Total(to_client')
          BY <1>1, <1>3, <2>3
        <4>2. PICK c \in Nat, d \in Nat : c = moved' /\ d = Total(to_client)
          BY <1>3, <3>1
        <4>3. b + c = d + moved
          BY <2>3, <4>1, <4>2
        <4>4. a + b + c = a + d + moved
          BY <1>1, <4>3
        <4>5. QED
          BY <4>1, <4>2, <4>4
      <3>4. QED
        BY <3>2, <3>3
    <2>8. QED
      BY <1>1, <1>2, <2>1, <2>3, <2>4, <2>5, <2>6, <2>7 DEF ReadParts
  <1>17. CASE GetStatus
    <2>1. UNCHANGED <<left_size, started, to_client, broken, reactor>>
      BY <1>17 DEF GetStatus, serverVars
    <2>2. moved' = moved /\ status' # "NOT_FOUND" /\ (status' = "OK" => moved = Limit)
      <3>1. CASE Arrived("finish") /\ status' = Head(to_client).code
                 /\ moved' = moved + Head(to_client).size
        <4>1. Head(to_client) \in Sendable /\ Head(to_client).kind = "finish"
              /\ to_client # << >>
          BY <1>1, <3>1 DEF Arrived
        <4>2. Head(to_client) \in {Finish("OK"), Finish("UNKNOWN")}
          BY <1>1, <4>1, SendableIs, SizeIs
        <4>3. Head(to_client).code # "NOT_FOUND" /\ Head(to_client).size = 0
          BY <4>2 DEF Finish
        <4>4. Ended(to_client) /\ Total(to_client) = 0
          BY <1>1, <4>1, <4>3, FinishAtHead DEF InOrder
        <4>5. Total(to_client) + moved = Limit
          BY <1>2, <4>4 DEF ReadParts
        <4>6. QED
          BY <1>1, <3>1, <4>3, <4>4, <4>5
      <3>2. CASE status' = "UNAVAILABLE" /\ moved' = moved
        BY <3>2
      <3>3. QED
        BY <1>17, <3>1, <3>2 DEF GetStatus
    <2>3. Ended(to_client') = Ended(to_client) /\ Total(to_client') = Total(to_client)
          /\ Total(started') = Total(started)
      BY <2>1
    <2>4. QED
      BY <1>1, <1>2, <2>1, <2>2, <2>3 DEF ReadParts
  <1>18. QED
    BY <1>10, <1>11, <1>12, <1>13, <1>14, <1>15, <1>16, <1>17
       DEF Next, Library, Client, CallOver

\* The same for any object, one that is not there included.
LEMMA ReadObjectStep ==
    ASSUME DummyInv, [Next]_vars
    PROVE  ReadObjectInv'
  <1>1. Size' = Size /\ request' = request
    BY RequestFixed
  <1>2. request.method = "ReadObject" /\ Size < 0 => moved' = 0 /\ status' # "OK"
    BY ReadNothingStep
  <1>3. request.method = "ReadObject" /\ Size >= 0 => ReadParts'
    BY ReadSomethingStep
  <1>4. QED
    BY <1>1, <1>2, <1>3 DEF ReadObjectInv, ReadParts

-----------------------------------------------------------------------------
(* The theorems. *)

\* Every step keeps the whole invariant.
LEMMA InvariantStep ==
    ASSUME DummyInv, [Next]_vars
    PROVE  DummyInv'
  <1>1. TypeOK' /\ OneAtATime'
    BY TypesStep DEF DummyInv
  <1>2. KindsRight' /\ InOrder' /\ GetObjectInv' /\ ReadObjectInv' /\ WriteObjectInv'
    BY KindsStep, OrderStep, GetObjectStep, ReadObjectStep, WriteObjectStep
  <1>3. QED
    BY <1>1, <1>2 DEF DummyInv

\* The reactors' invariant: whatever the callbacks' order, and whenever the connection
\* breaks or the server is killed.
THEOREM ServerInvariant == Spec => []DummyInv
  <1>1. Init => DummyInv
    BY InitHolds
  <1>2. DummyInv /\ [Next]_vars => DummyInv'
    BY InvariantStep
  <1>3. QED
    BY <1>1, <1>2, PTL DEF Spec

\* The state stays within its types: no size that the server sends is negative, and
\* what a read's reactor has left fits its int64_t.
THEOREM TypeCorrect == Spec => []TypeOK
  <1>1. DummyInv => TypeOK
    BY DEF DummyInv
  <1>2. QED
    BY <1>1, ServerInvariant, PTL

\* A reactor has one operation in progress, and none when it is deleted: no callback
\* starts a second one, or leaves the reactor with nothing that would wake it.
THEOREM OneOperation == Spec => []OneAtATime
  <1>1. DummyInv => OneAtATime
    BY DEF DummyInv
  <1>2. QED
    BY <1>1, ServerInvariant, PTL

\* While the connection holds, the bytes of MaybeWriteNext's chunks and of DoWrite's
\* are all accounted for, however long the object and the chunks are.
THEOREM NoByteLost == Spec => []BytesConserved
  <1>1. DummyInv => BytesConserved
    <2> SUFFICES ASSUME DummyInv PROVE BytesConserved
      OBVIOUS
    <2>1. request \in Requests
      BY DEF DummyInv, TypeOK
    <2>2. request.method = "ReadObject" /\ Exists =>
             Size >= 0 /\ Whole = Limit /\ ReadParts
      BY <2>1, SizeIs, WholeIs DEF DummyInv, ReadObjectInv
    <2>3. request.method = "WriteObject" => Total(to_server) + moved = Sent
      BY DEF DummyInv, WriteObjectInv
    <2>4. QED
      BY <2>2, <2>3 DEF BytesConserved, ReadParts, Sent
  <1>2. QED
    BY <1>1, ServerInvariant, PTL

\* What may have arrived, and what each status means, all methods alike.
StatusMeans ==
    /\ moved \in Nat /\ Whole \in Nat /\ moved <= Whole
    /\ moved # 0 => request.method = "WriteObject" \/ Exists
    /\ status = "OK" => (request.method = "WriteObject" \/ Exists) /\ moved = Whole
    /\ status = "NOT_FOUND" => request.method # "WriteObject" /\ ~Exists
    /\ client = "done" <=> status # "none"

\* A status the client has is one that the transfer can have promised.
LEMMA StatusMeansIt ==
    ASSUME DummyInv
    PROVE  StatusMeans
  <1>1. /\ request \in Requests /\ moved \in Nat /\ Whole \in Nat /\ offset \in Nat
        /\ left_size \in Nat /\ Total(started) \in Nat /\ Total(to_client) \in Nat
        /\ Total(to_server) \in Nat
        /\ client = "done" <=> status # "none"
    BY WholeIs, TotalType, GcsUtilAssumption DEF DummyInv, TypeOK, KindsRight
  <1>2. /\ Size \in Int /\ (Exists <=> Size >= 0)
        /\ request.write_size \in Nat
        /\ request.method \in {"GetObject", "ReadObject", "WriteObject"}
    BY <1>1, SizeIs, RequestIs
  <1>3. CASE request.method = "GetObject"
    <2>1. /\ status # "OK" => moved = 0
          /\ status = "OK" => Size >= 0 /\ moved = Size
          /\ status = "NOT_FOUND" => Size < 0
      BY <1>3 DEF DummyInv, GetObjectInv
    <2>2. Size >= 0 => Whole = Size
      BY <1>1, <1>3, WholeIs
    <2>3. QED
      BY <1>1, <1>2, <1>3, <2>1, <2>2 DEF StatusMeans
  <1>4. CASE request.method = "ReadObject"
    <2>1. /\ Size < 0 => moved = 0 /\ status # "OK"
          /\ Size >= 0 => ReadParts
      BY <1>4 DEF DummyInv, ReadObjectInv
    <2>2. Size >= 0 => Whole = Limit
      BY <1>1, <1>4, WholeIs
    <2>3. Size >= 0 => moved <= Whole
      BY <1>1, <2>1, <2>2 DEF ReadParts
    <2>4. QED
      BY <1>1, <1>2, <1>4, <2>1, <2>2, <2>3 DEF ReadParts, StatusMeans
  <1>5. CASE request.method = "WriteObject"
    <2>1. /\ Total(to_server) + moved = Sent /\ status # "NOT_FOUND"
          /\ status = "OK" => moved = request.write_size
      BY <1>5 DEF DummyInv, WriteObjectInv
    <2>2. Whole = request.write_size
      BY <1>1, <1>5, WholeIs
    <2>3. Sent <= request.write_size /\ Sent \in Nat
      BY <1>1, <1>2 DEF Sent
    <2>4. QED
      BY <1>1, <1>2, <1>5, <2>1, <2>2, <2>3 DEF StatusMeans
  <1>6. QED
    BY <1>2, <1>3, <1>4, <1>5

\* The same of the state after a step.
LEMMA StatusMeansItNext == DummyInv' => StatusMeans'
  <1>1. DummyInv => StatusMeans
    BY StatusMeansIt
  <1>2. QED
    BY <1>1, PTL

\* The refinement, step by step: a step of the call that moves bytes or gives it its
\* verdict is a step of Transfer, and any other one stutters.
LEMMA TransferStep ==
    ASSUME DummyInv, DummyInv', [Next]_vars
    PROVE  [Promise!Next]_(Promise!vars)
  <1> DEFINE exists == request.method = "WriteObject" \/ Exists
  <1>1. /\ exists' = exists /\ Whole' = Whole /\ moved \in Nat /\ Whole \in Nat /\ moved' \in Nat
        /\ moved' <= Whole
        /\ moved' # 0 => exists
        /\ status' = "OK" => exists /\ moved' = Whole
        /\ status = "OK" => moved = Whole
        /\ status' = "NOT_FOUND" => ~exists
        /\ client = "done" <=> status # "none"
        /\ client' = "done" <=> status' # "none"
    <2>1. /\ exists' = exists /\ Whole' = Whole
      BY RequestFixed
    <2>2. StatusMeans /\ StatusMeans'
      BY StatusMeansIt, StatusMeansItNext
    <2>3. /\ moved' \in Nat /\ moved' <= Whole' /\ (moved' # 0 => exists')
          /\ status' = "OK" => exists' /\ moved' = Whole'
          /\ status' = "NOT_FOUND" => ~exists'
          /\ client' = "done" <=> status' # "none"
      BY <2>2 DEF StatusMeans
    <2>4. QED
      BY <2>1, <2>2, <2>3 DEF StatusMeans
  <1> HIDE DEF exists
  <1>2. CASE UNCHANGED <<moved, client, status>>
    BY <1>1, <1>2 DEF Promise!vars, exists
  <1>3. ASSUME moved' >= moved, status' = status, client' = "done" <=> client = "done"
        PROVE  [Promise!Next]_(Promise!vars)
    <2>1. CASE moved' = moved
      BY <1>1, <1>3, <2>1 DEF Promise!vars, exists
    <2>2. CASE moved' # moved
      <3>1. moved' \in moved + 1 .. Whole /\ moved' # 0 /\ status # "OK"
        BY <1>1, <1>3, <2>2
      <3>2. Promise!Arrive
        BY <1>1, <1>3, <3>1 DEF Promise!Arrive, exists
      <3>3. QED
        BY <3>2 DEF Promise!Next
    <2>3. QED
      BY <2>1, <2>2
  <1>4. CASE GetStatus
    <2>1. client = "finishing" /\ client' = "done" /\ status' # "none"
      BY <1>1, <1>4 DEF GetStatus
    <2>2. CASE status' = "OK"
      <3>1. Promise!Succeed
        BY <1>1, <2>1, <2>2 DEF Promise!Succeed, exists
      <3>2. QED
        BY <3>1 DEF Promise!Next
    <2>3. CASE status' # "OK"
      <3>1. moved' = moved
        <4>1. CASE Arrived("finish") /\ status' = Head(to_client).code
                   /\ moved' = moved + Head(to_client).size
          <5>1. Head(to_client) \in Sendable /\ Head(to_client).kind = "finish"
                /\ request \in Requests
            BY <4>1 DEF DummyInv, TypeOK, KindsRight, Arrived
          <5>2. Head(to_client).code # "OK" => Head(to_client).size = 0
            BY <5>1, SendableIs DEF Finish, Reply
          <5>3. QED
            BY <1>1, <2>3, <4>1, <5>2
        <4>2. QED
          BY <1>4, <4>1 DEF GetStatus
      <3>2. CASE status' = "NOT_FOUND"
        <4>1. Promise!Refuse
          BY <1>1, <2>1, <3>1, <3>2 DEF Promise!Refuse, exists
        <4>2. QED
          BY <4>1 DEF Promise!Next
      <3>3. CASE status' # "NOT_FOUND"
        <4>1. Promise!Fail
          BY <1>1, <2>1, <2>3, <3>1, <3>3 DEF Promise!Fail, exists
        <4>2. QED
          BY <4>1 DEF Promise!Next
      <3>4. QED
        BY <3>2, <3>3
    <2>4. QED
      BY <2>2, <2>3
  <1>5. CASE Read
    <2>1. Head(to_client).size \in Nat
      BY <1>5, TotalOfTail DEF DummyInv, TypeOK, Read, Arrived
    <2>2. moved' >= moved /\ status' = status /\ client' = client
      BY <1>1, <1>5, <2>1 DEF Read, clientVars
    <2>3. QED
      BY <1>3, <2>2
  <1>6. ASSUME NEW ok \in BOOLEAN, ReadCompletes(ok)
        PROVE  [Promise!Next]_(Promise!vars)
    <2>1. /\ client' = client /\ status' = status
          /\ \/ moved' = moved
             \/ to_server # << >> /\ moved' = moved + Head(to_server).size
      BY <1>6 DEF ReadCompletes, clientVars
    <2>2. to_server # << >> => Head(to_server).size \in Nat
      BY TotalOfTail DEF DummyInv, TypeOK
    <2>3. moved' >= moved
      BY <1>1, <2>1, <2>2
    <2>4. QED
      BY <1>3, <2>1, <2>3
  <1>7. CASE StartCall \/ ReadEnds \/ WriteFails \/ WritesDone
    <2>1. moved' = moved /\ status' = status /\ client # "done" /\ client' # "done"
      BY <1>7, RequestIs DEF DummyInv, TypeOK, StartCall, ReadEnds, WriteFails, WritesDone
    <2>2. QED
      BY <1>1, <1>3, <2>1
  <1>8. CASE RunServer \/ Kill \/ Break \/ CallArrives \/ OnDone \/ WriteChunk \/ UNCHANGED vars
    BY <1>2, <1>8 DEF RunServer, Kill, Break, CallArrives, OnDone, WriteChunk, vars, clientVars
  <1>9. ASSUME NEW ok \in BOOLEAN, WriteCompletes(ok)
        PROVE  [Promise!Next]_(Promise!vars)
    BY <1>2, <1>9 DEF WriteCompletes, clientVars
  <1>10. QED
    BY <1>4, <1>5, <1>6, <1>7, <1>8, <1>9 DEF Next, Library, Client, CallOver

\* A call implements a transfer: OK means that every byte asked for, and none besides,
\* has arrived, and NOT_FOUND that the name stands for no object, for every object,
\* limit and size of chunk, and wherever the connection breaks or the server is killed.
THEOREM ImplementsTransfer == Spec => TransferSpec
  <1>1. Init => Promise!Init
    <2> SUFFICES ASSUME Init PROVE Promise!Init
      OBVIOUS
    <2>1. Whole \in Nat
      BY WholeIs DEF Init
    <2>2. (request.method = "WriteObject" \/ Exists) \in BOOLEAN
      BY DEF Exists
    <2>3. moved = 0 /\ client # "done"
      BY DEF Init
    <2>4. (CASE client # "done" -> "pending"  [] status = "OK" -> "succeeded"
             [] status = "NOT_FOUND" -> "refused" [] OTHER -> "failed") = "pending"
      <3>1. client # "done" /\ status # "OK" /\ status # "NOT_FOUND"
        BY DEF Init
      <3>2. QED
        BY <3>1
    <2>5. QED
      BY <2>1, <2>2, <2>3, <2>4 DEF Promise!Init
  <1>2. DummyInv /\ DummyInv' /\ [Next]_vars => [Promise!Next]_(Promise!vars)
    BY TransferStep
  <1>3. QED
    BY <1>1, <1>2, ServerInvariant, PTL DEF Spec, TransferSpec, Promise!Spec
===============================================================================
