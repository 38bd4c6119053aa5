--------------------------- MODULE SmtpSessionProofs ---------------------------
(***************************************************************************)
(* For any batches, recipients and replies, and wherever the connection     *)
(* breaks: credentials are covered, what is recorded of a message is what   *)
(* the server did, and a message is accepted whole, as text from which a    *)
(* reader gets what was meant.                                              *)
(***************************************************************************)
EXTENDS SmtpSession, TLAPS, SequenceTheorems, WellFoundedInduction, FiniteSetTheorems

-----------------------------------------------------------------------------
(***************************************************************************)
(* Joining sequences. FlattenSeq is a recursive function, which is first    *)
(* shown to exist; what holds of all that it joins rests on a least number  *)
(* for which it fails.                                                      *)
(***************************************************************************)
\* What has been joined of s after each of n.
IsFlat(g, s, n) == g = [i \in 1..n |-> IF i = 1 THEN s[i] ELSE g[i - 1] \o s[i]]
Flats(s) == {n \in Nat \ {0} : ~ \E g : IsFlat(g, s, n)}

\* Joining a number of sequences is a function.
LEMMA FlatExists == ASSUME NEW s, NEW n \in Nat \ {0} PROVE \E g : IsFlat(g, s, n)
<1>1. SUFFICES ASSUME Flats(s) # {} PROVE FALSE
  BY DEF Flats
<1>2. PICK m \in Flats(s) : \A k \in Flats(s) : ~ (<<k, m>> \in OpToRel(<, Nat))
  BY <1>1, NatLessThanWellFounded, WFMin DEF Flats
<1>3. m \in Nat \ {0} /\ ~ \E g : IsFlat(g, s, m)
  BY DEF Flats
<1>4. CASE m = 1
  <2>1. IsFlat([i \in 1..1 |-> s[1]], s, m)
    BY <1>4 DEF IsFlat
  <2>2. QED
    BY <1>3, <2>1
<1>5. CASE m # 1
  <2>1. m - 1 \in Nat \ {0} /\ <<m - 1, m>> \in OpToRel(<, Nat)
    BY <1>3, <1>5 DEF OpToRel
  <2>2. PICK g : IsFlat(g, s, m - 1)
    BY <1>2, <2>1 DEF Flats
  <2>3. PICK h : h = [i \in 1..m |-> IF i < m THEN g[i] ELSE g[m - 1] \o s[m]]
    OBVIOUS
  <2>4. h = [i \in 1..m |-> IF i = 1 THEN s[i] ELSE h[i - 1] \o s[i]]
    <3>1. ASSUME NEW i \in 1..m PROVE h[i] = IF i = 1 THEN s[i] ELSE h[i - 1] \o s[i]
      <4>1. CASE i = m
        <5>1. m \in 1..m /\ m - 1 \in 1..m /\ m - 1 < m /\ ~ (m < m)
          BY <1>3, <1>5
        <5>2. h[m] = g[m - 1] \o s[m] /\ h[m - 1] = g[m - 1]
          BY <2>3, <5>1
        <5>3. QED
          BY <1>5, <4>1, <5>2
      <4>2. CASE i < m
        <5>1. i \in 1..(m - 1) /\ h[i] = g[i] /\ (i # 1 => i - 1 \in 1..m /\ i - 1 < m)
          BY <1>3, <2>3, <4>2
        <5>2. g[i] = IF i = 1 THEN s[i] ELSE g[i - 1] \o s[i]
          BY <2>2, <5>1 DEF IsFlat
        <5>3. i # 1 => h[i - 1] = g[i - 1]
          BY <2>3, <5>1
        <5>4. QED
          BY <5>1, <5>2, <5>3
      <4>3. QED
        BY <1>3, <4>1, <4>2
    <3>2. QED
      BY <2>3, <3>1
  <2>5. QED
    BY <1>3, <2>4 DEF IsFlat
<1>6. QED
  BY <1>4, <1>5

\* FlattenSeq is the last value of it.
LEMMA FlatIs ==
    ASSUME NEW s, Len(s) \in Nat \ {0}
    PROVE  \E g : IsFlat(g, s, Len(s)) /\ FlattenSeq(s) = g[Len(s)]
<1> DEFINE f == CHOOSE g : g = [i \in 1..Len(s) |-> IF i = 1 THEN s[i] ELSE g[i-1] \o s[i]]
<1>1. IsFlat(f, s, Len(s))
  BY FlatExists DEF IsFlat
<1>2. FlattenSeq(s) = f[Len(s)]
  BY DEF FlattenSeq
<1>3. QED
  BY <1>1, <1>2

\* Where what has been joined so far is not in P.
Strays(g, s, P) == {n \in 1..Len(s) : g[n] \notin P}

\* Of none and of one.
LEMMA FlatSimple == FlattenSeq(<<>>) = <<>> /\ \A e : FlattenSeq(<<e>>) = e
<1>1. FlattenSeq(<<>>) = <<>>
  BY EmptySeq DEF FlattenSeq
<1>2. ASSUME NEW e PROVE FlattenSeq(<<e>>) = e
  <2>1. Len(<<e>>) = 1 /\ <<e>>[1] = e
    OBVIOUS
  <2>2. Len(<<e>>) \in Nat \ {0}
    BY <2>1
  <2>3. PICK g : IsFlat(g, <<e>>, Len(<<e>>)) /\ FlattenSeq(<<e>>) = g[Len(<<e>>)]
    BY <2>2, FlatIs
  <2>4. QED
    BY <2>1, <2>3 DEF IsFlat
<1>3. QED
  BY <1>1, <1>2

\* What has been joined is a sequence.
LEMMA FlatType ==
    ASSUME NEW X, NEW s \in Seq(Seq(X)), NEW g, IsFlat(g, s, Len(s)), NEW n \in 1..Len(s)
    PROVE  /\ g[n] \in Seq(X) /\ s[n] \in Seq(X)
           /\ g[n] = IF n = 1 THEN s[n] ELSE g[n - 1] \o s[n]
<1>1. \A i \in 1..Len(s) : s[i] \in Seq(X) /\ g[i] = IF i = 1 THEN s[i] ELSE g[i - 1] \o s[i]
  BY ElementOfSeq DEF IsFlat
<1>2. Len(s) \in Nat
  BY LenProperties
<1>3. SUFFICES ASSUME Strays(g, s, Seq(X)) # {} PROVE FALSE
  BY <1>1 DEF Strays
<1>4. Strays(g, s, Seq(X)) \subseteq Nat
  BY <1>2 DEF Strays
<1>5. PICK k \in Strays(g, s, Seq(X)) : \A j \in Strays(g, s, Seq(X)) : ~ (<<j, k>> \in OpToRel(<, Nat))
  BY <1>3, <1>4, NatLessThanWellFounded, WFMin
<1>6. k \in 1..Len(s) /\ g[k] \notin Seq(X)
  BY DEF Strays
<1>7. k # 1 => k - 1 \in 1..Len(s) /\ <<k - 1, k>> \in OpToRel(<, Nat)
  BY <1>2, <1>6 DEF OpToRel
<1>8. k # 1 => g[k - 1] \in Seq(X)
  BY <1>5, <1>7 DEF Strays
<1>9. k # 1 => g[k - 1] \o s[k] \in Seq(X)
  BY <1>1, <1>6, <1>8, ConcatProperties
<1>10. QED
  BY <1>1, <1>6, <1>9

\* Sequences over a set are joined to a sequence over it.
LEMMA FlatSeq ==
    ASSUME NEW X, NEW s \in Seq(Seq(X)) PROVE FlattenSeq(s) \in Seq(X)
<1>1. Len(s) \in Nat /\ (Len(s) = 0 => s = <<>>)
  BY LenProperties, EmptySeq
<1>2. CASE Len(s) = 0
  BY <1>1, <1>2, FlatSimple, EmptySeq
<1>3. CASE Len(s) # 0
  <2>1. Len(s) \in Nat \ {0} /\ Len(s) \in 1..Len(s)
    BY <1>1, <1>3
  <2>2. PICK g : IsFlat(g, s, Len(s)) /\ FlattenSeq(s) = g[Len(s)]
    BY <2>1, FlatIs
  <2>3. QED
    BY <2>1, <2>2, FlatType
<1>4. QED
  BY <1>2, <1>3

\* How far what is joined to e is not e and what is joined.
Apart(g, h, e, n) == {i \in 1..n : g[i + 1] # e \o h[i]}

\* One more in front.
LEMMA FlatCons ==
    ASSUME NEW X, NEW s \in Seq(Seq(X)), NEW e \in Seq(X)
    PROVE  FlattenSeq(<<e>> \o s) = e \o FlattenSeq(s)
<1> DEFINE t == <<e>> \o s
<1>1. Len(s) \in Nat /\ (Len(s) = 0 => s = <<>>)
  BY LenProperties, EmptySeq
<1>2. <<e>> \in Seq(Seq(X)) /\ Len(<<e>>) = 1 /\ <<e>>[1] = e
  OBVIOUS
<1>3. /\ t \in Seq(Seq(X)) /\ Len(t) = Len(s) + 1 /\ t[1] = e
      /\ \A i \in 1..Len(s) : t[i + 1] = s[i]
  <2>1. /\ t \in Seq(Seq(X)) /\ Len(t) = 1 + Len(s)
        /\ \A i \in 1..(1 + Len(s)) : t[i] = IF i <= 1 THEN <<e>>[i] ELSE s[i - 1]
    BY <1>2, ConcatProperties
  <2>2. t[1] = e
    BY <1>1, <1>2, <2>1
  <2>3. ASSUME NEW i \in 1..Len(s) PROVE t[i + 1] = s[i]
    <3>1. i + 1 \in 1..(1 + Len(s)) /\ ~ (i + 1 <= 1) /\ (i + 1) - 1 = i
      BY <1>1
    <3>2. QED
      BY <2>1, <3>1
  <2>4. QED
    BY <1>1, <2>1, <2>2, <2>3
<1>4. CASE Len(s) = 0
  BY <1>1, <1>2, <1>4, FlatSimple, ConcatEmptySeq
<1>5. CASE Len(s) # 0
  <2>1. Len(s) \in Nat \ {0} /\ Len(t) \in Nat \ {0} /\ Len(s) \in 1..Len(s)
    BY <1>1, <1>3, <1>5
  <2>2. PICK h : IsFlat(h, s, Len(s)) /\ FlattenSeq(s) = h[Len(s)]
    BY <2>1, FlatIs
  <2>3. PICK g : IsFlat(g, t, Len(t)) /\ FlattenSeq(t) = g[Len(t)]
    BY <2>1, FlatIs
  <2>4. SUFFICES ASSUME Apart(g, h, e, Len(s)) # {} PROVE FALSE
    BY <1>3, <2>1, <2>2, <2>3 DEF Apart
  <2>5. Apart(g, h, e, Len(s)) \subseteq Nat
    BY <1>1 DEF Apart
  <2>6. PICK k \in Apart(g, h, e, Len(s)) :
            \A j \in Apart(g, h, e, Len(s)) : ~ (<<j, k>> \in OpToRel(<, Nat))
    BY <2>4, <2>5, NatLessThanWellFounded, WFMin
  <2>7. k \in 1..Len(s) /\ g[k + 1] # e \o h[k]
    BY DEF Apart
  <2>8. k + 1 \in 1..Len(t) /\ k + 1 # 1 /\ (k + 1) - 1 = k /\ 1 \in 1..Len(t)
    BY <1>1, <1>3, <2>7
  <2>9. g[k + 1] = g[k] \o s[k] /\ g[1] = e
    <3>1. \A i \in 1..Len(t) : g[i] = IF i = 1 THEN t[i] ELSE g[i - 1] \o t[i]
      BY <2>3 DEF IsFlat
    <3>2. g[k + 1] = g[k] \o t[k + 1] /\ g[1] = t[1]
      BY <2>8, <3>1
    <3>3. QED
      BY <1>3, <2>7, <3>2
  <2>10. CASE k = 1
    <3>1. h[1] = s[1] /\ g[1 + 1] = g[1] \o s[1]
      BY <2>2, <2>7, <2>9, <2>10 DEF IsFlat
    <3>2. QED
      BY <2>7, <2>9, <2>10, <3>1
  <2>11. CASE k # 1
    <3>1. k - 1 \in 1..Len(s) /\ (k - 1) + 1 = k /\ <<k - 1, k>> \in OpToRel(<, Nat)
      BY <1>1, <2>7, <2>11 DEF OpToRel
    <3>2. g[k] = e \o h[k - 1]
      BY <2>6, <3>1 DEF Apart
    <3>3. h[k] = h[k - 1] \o s[k] /\ h[k - 1] \in Seq(X) /\ s[k] \in Seq(X)
      <4>1. s[k] \in Seq(X) /\ h[k] = IF k = 1 THEN s[k] ELSE h[k - 1] \o s[k]
        BY <2>2, <2>7, FlatType
      <4>2. h[k - 1] \in Seq(X)
        BY <2>2, <3>1, FlatType
      <4>3. QED
        BY <2>11, <4>1, <4>2
    <3>4. (e \o h[k - 1]) \o s[k] = e \o (h[k - 1] \o s[k])
      <4>1. \A u, v, w \in Seq(X) : (u \o v) \o w = u \o (v \o w)
        BY ConcatAssociative
      <4>2. QED
        BY <3>3, <4>1
    <3>5. QED
      BY <2>7, <2>9, <3>2, <3>3, <3>4
  <2>12. QED
    BY <2>10, <2>11
<1>6. QED
  BY <1>4, <1>5

-----------------------------------------------------------------------------
(***************************************************************************)
(* Splitting what was joined. The marks between the parts are found in their*)
(* order, and the parts come back as they were.                             *)
(***************************************************************************)
\* f runs through S, whose elements are n, from the least to the greatest.
Runs(f, n, S) ==
    /\ f \in [1..n -> S]
    /\ \A i, j \in 1..n : i < j => f[i] < f[j]
    /\ \A e \in S : \E i \in 1..n : f[i] = e

\* There is one way to do so: the first place at which two differ would be the first at
\* which one of them leaves out a number.
LEMMA RunsBehind ==
    ASSUME NEW n \in Nat, NEW S \in SUBSET Int, NEW f, NEW g, Runs(f, n, S), Runs(g, n, S),
           NEW k \in 1..n, \A j \in 1..n : j < k => f[j] = g[j]
    PROVE  ~ (f[k] < g[k])
<1> SUFFICES ASSUME f[k] < g[k] PROVE FALSE
  OBVIOUS
<1>1. f[k] \in S
  BY DEF Runs
<1>2. PICK j \in 1..n : g[j] = f[k]
  BY <1>1 DEF Runs
<1>3. f[k] \in Int /\ g[k] \in Int /\ f[j] \in Int /\ g[j] \in Int
  BY DEF Runs
<1>4. CASE j < k
  BY <1>2, <1>3, <1>4 DEF Runs
<1>5. CASE j = k
  BY <1>2, <1>3, <1>5
<1>6. CASE k < j
  BY <1>2, <1>3, <1>6 DEF Runs
<1>7. QED
  BY <1>4, <1>5, <1>6

LEMMA RunsOnce ==
    ASSUME NEW n \in Nat, NEW S \in SUBSET Int, NEW f, NEW g, Runs(f, n, S), Runs(g, n, S)
    PROVE  f = g
<1> DEFINE A == {k \in 1..n : f[k] # g[k]}
<1>1. ASSUME A # {} PROVE FALSE
  <2>1. A \subseteq Nat
    OBVIOUS
  <2>2. PICK k \in A : \A j \in A : ~ (<<j, k>> \in OpToRel(<, Nat))
    BY <1>1, <2>1, NatLessThanWellFounded, WFMin
  <2>3. \A j \in 1..n : j < k => f[j] = g[j]
    <3>1. ASSUME NEW j \in 1..n, j < k PROVE <<j, k>> \in OpToRel(<, Nat)
      BY <2>1, <3>1 DEF OpToRel
    <3>2. QED
      BY <2>2, <3>1
  <2>4. ~ (f[k] < g[k]) /\ ~ (g[k] < f[k])
    BY <2>3, RunsBehind
  <2>5. f[k] \in Int /\ g[k] \in Int /\ f[k] # g[k]
    BY DEF Runs
  <2>6. QED
    BY <2>4, <2>5
<1>2. QED
  BY <1>1 DEF Runs

LEMMA OrderIs ==
    ASSUME NEW n \in Nat, NEW S \in SUBSET Int, NEW f, Runs(f, n, S)
    PROVE  InOrder(S) = f
<1>1. f \in Bijection(1..n, S)
  <2>1. ASSUME NEW a \in 1..n, NEW b \in 1..n, f[a] = f[b] PROVE a = b
    <3>1. f[a] \in Int /\ ~ (f[a] < f[b]) /\ ~ (f[b] < f[a])
      <4>1. f[a] \in Int
        BY DEF Runs
      <4>2. QED
        BY <2>1, <4>1
    <3>2. ~ (a < b) /\ ~ (b < a)
      BY <3>1 DEF Runs
    <3>3. QED
      BY <3>2
  <2>2. QED
    BY <2>1 DEF Bijection, Injection, Surjection, IsInjective, Runs
<1>2. Cardinality(S) = n
  BY <1>1, FS_CountingElements DEF ExistsBijection
<1>3. Runs(InOrder(S), n, S)
  BY <1>2 DEF InOrder, Runs
<1>4. QED
  BY <1>3, RunsOnce

\* A function that grows with every step grows.
LEMMA Grows ==
    ASSUME NEW n \in Nat, NEW f, \A k \in 1..n : f[k] \in Nat,
           \A k \in 1..n : k + 1 \in 1..n => f[k] < f[k + 1]
    PROVE  \A i, j \in 1..n : i < j => f[i] < f[j]
<1> TAKE i \in 1..n
<1> DEFINE A == {j \in 1..n : i < j /\ ~ (f[i] < f[j])}
<1>1. ASSUME A # {} PROVE FALSE
  <2>1. A \subseteq Nat
    OBVIOUS
  <2>2. PICK j \in A : \A h \in A : ~ (<<h, j>> \in OpToRel(<, Nat))
    BY <1>1, <2>1, NatLessThanWellFounded, WFMin
  <2>3. PICK h \in Nat : h = j - 1
    OBVIOUS
  <2>4. h \in 1..n /\ h + 1 = j /\ <<h, j>> \in OpToRel(<, Nat) /\ (i < h \/ i = h)
    BY <2>3 DEF OpToRel
  <2>5. f[h] < f[j] /\ (i < h => f[i] < f[h])
    BY <2>2, <2>4
  <2>6. f[i] \in Nat /\ f[h] \in Nat /\ f[j] \in Nat
    BY <2>4
  <2>7. f[i] < f[j]
    <3>1. CASE i = h
      BY <2>5, <3>1
    <3>2. CASE i < h
      <4>1. f[i] < f[h] /\ f[h] < f[j]
        BY <2>5, <3>2
      <4>2. QED
        BY <2>6, <4>1
    <3>3. QED
      BY <2>4, <3>1, <3>2
  <2>8. QED
    BY <2>7
<1>2. QED
  BY <1>1

\* Where each part begins, with its mark; and the end.
Start(g, k) == IF k = 1 THEN 1 ELSE Len(g[k - 1]) + 1

\* What joins parts, each behind a mark.
Joins(g, n, mark, parts, X) ==
    /\ mark \in X /\ n \in Nat \ {0} /\ parts \in [1..n -> Seq(X)]
    /\ \A k \in 1..n :
         /\ g[k] \in Seq(X)
         /\ g[k] = IF k = 1 THEN <<mark>> \o parts[k] ELSE g[k - 1] \o (<<mark>> \o parts[k])

\* One line in front.
LEMMA InFront ==
    ASSUME NEW X, NEW e \in X, NEW u \in Seq(X)
    PROVE  /\ <<e>> \o u \in Seq(X) /\ Len(<<e>> \o u) = Len(u) + 1
           /\ (<<e>> \o u)[1] = e
           /\ \A i \in 1..Len(u) : (<<e>> \o u)[i + 1] = u[i]
<1>1. <<e>> \in Seq(X) /\ Len(<<e>>) = 1 /\ <<e>>[1] = e /\ Len(u) \in Nat
  BY LenProperties
<1>2. /\ <<e>> \o u \in Seq(X) /\ Len(<<e>> \o u) = 1 + Len(u)
      /\ \A i \in 1..(1 + Len(u)) : (<<e>> \o u)[i] = IF i <= 1 THEN <<e>>[i] ELSE u[i - 1]
  BY <1>1, ConcatProperties
<1>3. (<<e>> \o u)[1] = e
  BY <1>1, <1>2
<1>4. ASSUME NEW i \in 1..Len(u) PROVE (<<e>> \o u)[i + 1] = u[i]
  <2>1. i + 1 \in 1..(1 + Len(u)) /\ ~ (i + 1 <= 1) /\ (i + 1) - 1 = i
    BY <1>1
  <2>2. QED
    BY <1>2, <2>1
<1>5. QED
  BY <1>1, <1>2, <1>3, <1>4

\* How long it gets.
LEMMA JoinStep ==
    ASSUME NEW X, NEW mark, NEW n, NEW parts, NEW g, Joins(g, n, mark, parts, X), NEW k \in 1..n
    PROVE  /\ Len(g[k]) = Start(g, k) + Len(parts[k])
           /\ Start(g, k) \in Nat \ {0} /\ Len(g[k]) \in Nat /\ Len(parts[k]) \in Nat
           /\ g[k][Start(g, k)] = mark
           /\ \A i \in 1..Len(parts[k]) : g[k][Start(g, k) + i] = parts[k][i]
           /\ k # 1 => \A p \in 1..Len(g[k - 1]) : g[k][p] = g[k - 1][p]
<1> mark \in X /\ n \in Nat \ {0} /\ parts \in [1..n -> Seq(X)] /\ \A j \in 1..n : g[j] \in Seq(X)
  BY DEF Joins
<1>1. PICK e : e = <<mark>> \o parts[k]
  OBVIOUS
<1>2. /\ e \in Seq(X) /\ Len(e) = Len(parts[k]) + 1 /\ e[1] = mark /\ Len(parts[k]) \in Nat
      /\ \A i \in 1..Len(parts[k]) : e[i + 1] = parts[k][i]
  BY <1>1, InFront, LenProperties
<1>3. CASE k = 1
  <2>1. g[k] = e /\ Start(g, k) = 1
    BY <1>1, <1>3 DEF Joins, Start
  <2>2. \A i \in 1..Len(parts[k]) : 1 + i = i + 1
    BY <1>2
  <2>3. QED
    BY <1>2, <1>3, <2>1, <2>2
<1>4. CASE k # 1
  <2>1. k - 1 \in 1..n
    BY <1>4
  <2>2. PICK u \in Seq(X) : u = g[k - 1]
    BY <2>1
  <2>3. g[k] = u \o e /\ Start(g, k) = Len(u) + 1 /\ Len(u) \in Nat
    BY <1>1, <1>4, <2>2, LenProperties DEF Joins, Start
  <2>4. /\ Len(g[k]) = Len(u) + Len(e)
        /\ \A i \in 1..Len(u) + Len(e) : g[k][i] = IF i <= Len(u) THEN u[i] ELSE e[i - Len(u)]
    <3>1. \A v \in Seq(X) : /\ Len(u \o v) = Len(u) + Len(v)
                            /\ \A i \in 1..Len(u) + Len(v) :
                                 (u \o v)[i] = IF i <= Len(u) THEN u[i] ELSE v[i - Len(u)]
      BY ConcatProperties
    <3>2. QED
      BY <1>2, <2>3, <3>1
  <2>5. g[k][Len(u) + 1] = e[1]
    <3>1. Len(u) + 1 \in 1..Len(u) + Len(e) /\ ~ (Len(u) + 1 <= Len(u)) /\ (Len(u) + 1) - Len(u) = 1
      BY <1>2, <2>3
    <3>2. QED
      BY <2>4, <3>1
  <2>6. ASSUME NEW i \in 1..Len(parts[k]) PROVE g[k][(Len(u) + 1) + i] = parts[k][i]
    <3>1. /\ (Len(u) + 1) + i \in 1..Len(u) + Len(e) /\ ~ ((Len(u) + 1) + i <= Len(u))
          /\ ((Len(u) + 1) + i) - Len(u) = i + 1
      BY <1>2, <2>3
    <3>2. QED
      BY <1>2, <2>4, <3>1
  <2>7. \A p \in 1..Len(u) : g[k][p] = u[p]
    BY <1>2, <2>3, <2>4
  <2>8. Len(g[k]) = (Len(u) + 1) + Len(parts[k]) /\ Len(g[k]) \in Nat
    BY <1>2, <2>3, <2>4
  <2>9. g[k][Start(g, k)] = mark
    BY <1>2, <2>3, <2>5
  <2>10. \A i \in 1..Len(parts[k]) : g[k][Start(g, k) + i] = parts[k][i]
    BY <2>3, <2>6
  <2>11. k # 1 => \A p \in 1..Len(g[k - 1]) : g[k][p] = g[k - 1][p]
    BY <2>2, <2>7
  <2>12. Start(g, k) \in Nat \ {0} /\ Len(g[k]) = Start(g, k) + Len(parts[k])
    BY <2>3, <2>8
  <2>13. QED
    BY <1>2, <2>8, <2>9, <2>10, <2>11, <2>12
<1>5. QED
  BY <1>3, <1>4

\* What has been joined stays as it is.
Keeps(g, k, i) == \A p \in 1..Len(g[k]) : p \in 1..Len(g[i]) /\ g[i][p] = g[k][p]

LEMMA JoinKeeps ==
    ASSUME NEW X, NEW mark, NEW n, NEW parts, NEW g, Joins(g, n, mark, parts, X),
           NEW k \in 1..n, NEW i \in k..n
    PROVE  Keeps(g, k, i)
<1> SUFFICES ASSUME NEW p \in 1..Len(g[k]) PROVE p \in 1..Len(g[i]) /\ g[i][p] = g[k][p]
  BY DEF Keeps
<1> n \in Nat \ {0} /\ \A j \in 1..n : g[j] \in Seq(X)
  BY DEF Joins
<1> DEFINE A == {j \in k..n : ~ (p \in 1..Len(g[j]) /\ g[j][p] = g[k][p])}
<1>1. ASSUME A # {} PROVE FALSE
  <2>1. A \subseteq Nat
    OBVIOUS
  <2>2. PICK j \in A : \A h \in A : ~ (<<h, j>> \in OpToRel(<, Nat))
    BY <1>1, <2>1, NatLessThanWellFounded, WFMin
  <2>3. PICK h \in Nat : h = j - 1
    OBVIOUS
  <2>4. j # k
    OBVIOUS
  <2>5. h \in k..n /\ h \in 1..n /\ j \in 1..n /\ j # 1
    BY <2>3, <2>4
  <2>6. p \in 1..Len(g[h]) /\ g[h][p] = g[k][p]
    <3>1. <<h, j>> \in OpToRel(<, Nat)
      BY <2>3 DEF OpToRel
    <3>2. QED
      BY <2>2, <2>5, <3>1
  <2>7. /\ Len(g[j]) = Start(g, j) + Len(parts[j]) /\ Len(parts[j]) \in Nat
        /\ \A q \in 1..Len(g[h]) : g[j][q] = g[h][q]
    <3>1. /\ Len(g[j]) = Start(g, j) + Len(parts[j]) /\ Len(parts[j]) \in Nat
          /\ j # 1 => \A q \in 1..Len(g[j - 1]) : g[j][q] = g[j - 1][q]
      BY <2>5, JoinStep
    <3>2. QED
      BY <2>3, <2>5, <3>1
  <2>8. Start(g, j) = Len(g[h]) + 1 /\ Len(g[h]) \in Nat
    BY <2>3, <2>5, LenProperties DEF Start
  <2>9. p \in 1..Len(g[j])
    <3>1. PICK a \in Nat : a = Len(g[h])
      BY <2>8
    <3>2. PICK b \in Nat : b = Len(parts[j])
      BY <2>7
    <3>3. Len(g[j]) = (a + 1) + b /\ p \in 1..a
      BY <2>6, <2>7, <2>8, <3>1, <3>2
    <3>4. QED
      BY <3>3
  <2>10. g[j][p] = g[k][p]
    BY <2>6, <2>7
  <2>11. QED
    BY <2>9, <2>10
<1>2. QED
  BY <1>1

\* Every line is a mark or within a part.
LEMMA JoinCovers ==
    ASSUME NEW X, NEW mark, NEW n, NEW parts, NEW g, Joins(g, n, mark, parts, X), NEW p \in 1..Len(g[n])
    PROVE  \E k \in 1..n : \/ p = Start(g, k)
                           \/ \E i \in 1..Len(parts[k]) : p = Start(g, k) + i
<1> n \in Nat \ {0} /\ \A j \in 1..n : g[j] \in Seq(X)
  BY DEF Joins
<1> DEFINE A == {k \in 1..n : p <= Len(g[k])}
<1>1. Len(g[n]) \in Nat /\ n \in A /\ A \subseteq Nat
  BY LenProperties
<1>2. PICK k \in A : \A h \in A : ~ (<<h, k>> \in OpToRel(<, Nat))
  BY <1>1, NatLessThanWellFounded, WFMin
<1>3. k \in 1..n /\ p <= Len(g[k]) /\ p \in Nat \ {0}
  BY <1>1
<1>4. /\ Len(g[k]) = Start(g, k) + Len(parts[k])
      /\ Start(g, k) \in Nat \ {0} /\ Len(parts[k]) \in Nat
  BY <1>3, JoinStep
<1>5. Start(g, k) <= p
  <2>1. CASE k = 1
    BY <1>3, <2>1 DEF Start
  <2>2. CASE k # 1
    <3>1. PICK h \in Nat : h = k - 1
      BY <1>3
    <3>2. h \in 1..n /\ Len(g[h]) \in Nat
      BY <1>3, <2>2, <3>1, LenProperties
    <3>3. ~ (p <= Len(g[h]))
      <4>1. <<h, k>> \in OpToRel(<, Nat)
        BY <1>3, <3>1 DEF OpToRel
      <4>2. QED
        BY <1>2, <3>2, <4>1
    <3>4. Start(g, k) = Len(g[h]) + 1
      BY <2>2, <3>1 DEF Start
    <3>5. Len(g[h]) < p
      BY <1>3, <3>2, <3>3
    <3>6. QED
      BY <1>3, <3>2, <3>4, <3>5
  <2>3. QED
    BY <2>1, <2>2
<1>6. PICK i \in Nat : p = Start(g, k) + i
  <2>1. p - Start(g, k) \in Nat /\ p = Start(g, k) + (p - Start(g, k))
    BY <1>3, <1>4, <1>5
  <2>2. QED
    BY <2>1
<1>7. i = 0 \/ i \in 1..Len(parts[k])
  BY <1>3, <1>4, <1>6
<1>8. QED
  BY <1>3, <1>4, <1>6, <1>7

\* The parts between the marks are those that were joined.
LEMMA SplitIs ==
    ASSUME NEW X, NEW mark \in X, NEW last \in X, NEW n \in Nat \ {0}, NEW parts \in [1..n -> Seq(X)],
           \A k \in 1..n : \A i \in 1..Len(parts[k]) : parts[k][i] \notin {mark, last}
    PROVE  Split(FlattenSeq([k \in 1..n |-> <<mark>> \o parts[k]]) \o <<last>>, {mark, last}) = parts
<1>1. PICK s : s = [k \in 1..n |-> <<mark>> \o parts[k]]
  OBVIOUS
<1>2. s \in Seq(Seq(X)) /\ Len(s) = n
  <2>1. s \in [1..n -> Seq(X)]
    BY <1>1, InFront
  <2>2. s \in Seq(Seq(X)) /\ DOMAIN s = 1..n
    BY <2>1, SeqDef
  <2>3. QED
    BY <2>2, LenProperties
<1>3. PICK g : IsFlat(g, s, n) /\ FlattenSeq(s) = g[n]
  BY <1>2, FlatIs
<1>4. \A k \in 1..n : g[k] \in Seq(X)
  BY <1>2, <1>3, FlatType
<1>5. Joins(g, n, mark, parts, X)
  BY <1>1, <1>3, <1>4 DEF IsFlat, Joins
<1>6. PICK body : body = g[n] \o <<last>>
  OBVIOUS
<1>7. PICK l \in Nat : l = Len(g[n])
  BY <1>4, LenProperties
<1>8. /\ body \in Seq(X) /\ DOMAIN body = 1..(l + 1) /\ Len(body) = l + 1
      /\ body[l + 1] = last
      /\ \A p \in 1..l : body[p] = g[n][p]
  <2>1. <<last>> \in Seq(X) /\ Len(<<last>>) = 1 /\ <<last>>[1] = last /\ g[n] \in Seq(X)
    BY <1>4
  <2>2. /\ body \in Seq(X) /\ Len(body) = l + 1
        /\ \A p \in 1..(l + 1) : body[p] = IF p <= l THEN g[n][p] ELSE <<last>>[p - l]
    <3>1. \A u, v \in Seq(X) : /\ u \o v \in Seq(X) /\ Len(u \o v) = Len(u) + Len(v)
                               /\ \A i \in 1..Len(u) + Len(v) :
                                    (u \o v)[i] = IF i <= Len(u) THEN u[i] ELSE v[i - Len(u)]
      BY ConcatProperties
    <3>2. QED
      BY <1>6, <1>7, <2>1, <3>1
  <2>3. body[l + 1] = last
    <3>1. l + 1 \in 1..(l + 1) /\ ~ (l + 1 <= l) /\ (l + 1) - l = 1
      BY <1>7
    <3>2. QED
      BY <2>1, <2>2, <3>1
  <2>4. \A p \in 1..l : body[p] = g[n][p]
    BY <1>7, <2>2
  <2>5. QED
    BY <2>2, <2>3, <2>4, LenProperties
<1>9. PICK at : at = [k \in 1..(n + 1) |-> IF k <= n THEN Start(g, k) ELSE l + 1]
  OBVIOUS
<1>10. ASSUME NEW k \in 1..n
       PROVE  /\ at[k] = Start(g, k) /\ at[k] \in 1..l /\ at[k + 1] = at[k] + 1 + Len(parts[k])
              /\ Len(parts[k]) \in Nat /\ body[at[k]] = mark
              /\ \A i \in 1..Len(parts[k]) : at[k] + i \in 1..l /\ body[at[k] + i] = parts[k][i]
  <2>1. /\ Len(g[k]) = Start(g, k) + Len(parts[k])
        /\ Start(g, k) \in Nat \ {0} /\ Len(g[k]) \in Nat /\ Len(parts[k]) \in Nat
        /\ g[k][Start(g, k)] = mark
        /\ \A i \in 1..Len(parts[k]) : g[k][Start(g, k) + i] = parts[k][i]
    BY <1>5, JoinStep
  <2>2. at[k] = Start(g, k)
    BY <1>9
  <2>3. at[k + 1] = Len(g[k]) + 1
    <3>1. CASE k = n
      <4>1. k + 1 \in 1..(n + 1) /\ ~ (k + 1 <= n)
        BY <3>1
      <4>2. QED
        BY <1>7, <1>9, <3>1, <4>1
    <3>2. CASE k # n
      <4>1. k + 1 \in 1..(n + 1) /\ k + 1 <= n /\ k + 1 # 1 /\ (k + 1) - 1 = k
        BY <3>2
      <4>2. QED
        BY <1>9, <4>1 DEF Start
    <3>3. QED
      BY <3>1, <3>2
  <2>4. ASSUME NEW p \in 1..Len(g[k]) PROVE p \in 1..l /\ body[p] = g[k][p]
    <3>1. n \in k..n
      OBVIOUS
    <3>2. Keeps(g, k, n)
      BY <1>5, <3>1, JoinKeeps
    <3>3. QED
      BY <1>7, <1>8, <3>2 DEF Keeps
  <2>5. /\ Start(g, k) \in 1..Len(g[k])
        /\ \A i \in 1..Len(parts[k]) : Start(g, k) + i \in 1..Len(g[k])
    BY <2>1
  <2>6. at[k] \in 1..l /\ body[at[k]] = mark
    BY <2>1, <2>2, <2>4, <2>5
  <2>7. \A i \in 1..Len(parts[k]) : at[k] + i \in 1..l /\ body[at[k] + i] = parts[k][i]
    BY <2>1, <2>2, <2>4, <2>5
  <2>8. at[k + 1] = at[k] + 1 + Len(parts[k])
    BY <2>1, <2>2, <2>3
  <2>9. QED
    BY <2>1, <2>2, <2>6, <2>7, <2>8
<1>11. at[n + 1] = l + 1
  <2>1. n + 1 \in 1..(n + 1) /\ ~ (n + 1 <= n)
    OBVIOUS
  <2>2. QED
    BY <1>9, <2>1
<1>12. PICK S : S = {p \in DOMAIN body : body[p] \in {mark, last}}
  OBVIOUS
<1>13. Runs(at, n + 1, S)
  <2>1. at \in [1..(n + 1) -> S]
    <3>1. ASSUME NEW k \in 1..(n + 1) PROVE at[k] \in S
      <4>1. CASE k \in 1..n
        <5>1. at[k] \in 1..l /\ body[at[k]] = mark
          BY <1>10, <4>1
        <5>2. QED
          BY <1>7, <1>8, <1>12, <5>1
      <4>2. CASE k = n + 1
        BY <1>7, <1>8, <1>11, <1>12, <4>2
      <4>3. QED
        BY <4>1, <4>2
    <3>2. QED
      BY <1>9, <3>1
  <2>2. \A i, j \in 1..(n + 1) : i < j => at[i] < at[j]
    <3>1. \A k \in 1..(n + 1) : at[k] \in Nat
      <4>1. \A k \in 1..n : at[k] \in Nat
        BY <1>10
      <4>2. QED
        BY <1>11, <4>1
    <3>2. ASSUME NEW k \in 1..(n + 1), k + 1 \in 1..(n + 1) PROVE at[k] < at[k + 1]
      <4>1. k \in 1..n
        BY <3>2
      <4>2. at[k] \in Nat /\ at[k + 1] = at[k] + 1 + Len(parts[k]) /\ Len(parts[k]) \in Nat
        BY <1>10, <3>1, <4>1
      <4>3. QED
        BY <4>2
    <3>3. n + 1 \in Nat
      OBVIOUS
    <3>4. QED
      BY <3>1, <3>2, <3>3, Grows
  <2>3. ASSUME NEW e \in S PROVE \E k \in 1..(n + 1) : at[k] = e
    <3>1. e \in 1..(l + 1) /\ body[e] \in {mark, last}
      BY <1>8, <1>12
    <3>2. CASE e = l + 1
      <4>1. n + 1 \in 1..(n + 1)
        OBVIOUS
      <4>2. QED
        BY <1>11, <3>2, <4>1
    <3>3. CASE e \in 1..l
      <4>1. PICK k \in 1..n : e = Start(g, k) \/ \E i \in 1..Len(parts[k]) : e = Start(g, k) + i
        BY <1>4, <1>5, <1>7, <3>3, JoinCovers
      <4>2. ASSUME NEW i \in 1..Len(parts[k]), e = Start(g, k) + i PROVE FALSE
        BY <1>10, <3>1, <4>2
      <4>3. at[k] = e /\ k \in 1..(n + 1)
        BY <1>10, <4>1, <4>2
      <4>4. QED
        BY <4>3
    <3>4. e = l + 1 \/ e \in 1..l
      BY <1>7, <3>1
    <3>5. QED
      BY <3>2, <3>3, <3>4
  <2>4. QED
    BY <2>1, <2>2, <2>3 DEF Runs
<1>14. InOrder(S) = at
  <2>1. S \in SUBSET Int /\ n + 1 \in Nat
    BY <1>8, <1>12
  <2>2. QED
    BY <1>13, <2>1, OrderIs
<1>15. Len(at) = n + 1
  <2>1. at \in [1..(n + 1) -> S] /\ n + 1 \in Nat
    BY <1>13 DEF Runs
  <2>2. at \in Seq(S) /\ DOMAIN at = 1..(n + 1)
    BY <2>1, SeqDef
  <2>3. QED
    BY <2>1, <2>2, LenProperties
<1>16. Split(body, {mark, last}) = [k \in 1..n |-> SubSeq(body, at[k] + 1, at[k + 1] - 1)]
  <2>1. Split(body, {mark, last}) = [k \in 1..(Len(at) - 1) |-> SubSeq(body, at[k] + 1, at[k + 1] - 1)]
    BY <1>12, <1>14 DEF Split
  <2>2. Len(at) - 1 = n
    BY <1>15
  <2>3. QED
    BY <2>1, <2>2
<1>17. ASSUME NEW k \in 1..n PROVE SubSeq(body, at[k] + 1, at[k + 1] - 1) = parts[k]
  <2>1. at[k] \in 1..l
    BY <1>10
  <2>2. PICK a \in Nat : a = at[k]
    BY <2>1
  <2>3. PICK m \in Nat : m = Len(parts[k])
    BY <1>10
  <2>4. at[k] + 1 = a + 1 /\ at[k + 1] - 1 = a + m
    BY <1>10, <2>2, <2>3
  <2>5. \A i \in 1..m : a + i \in 1..l /\ body[a + i] = parts[k][i]
    BY <1>10, <2>2, <2>3
  <2>6. PICK u : u = SubSeq(body, a + 1, a + m)
    OBVIOUS
  <2>7. \A i \in (a + 1)..(a + m) : body[i] \in X
    <3>1. ASSUME NEW i \in (a + 1)..(a + m) PROVE i \in 1..l
      <4>1. i - a \in 1..m /\ a + (i - a) = i
        BY <2>2, <2>3
      <4>2. QED
        BY <2>5, <4>1
    <3>2. QED
      BY <1>7, <1>8, <3>1, ElementOfSeq
  <2>8. /\ u \in Seq(X) /\ Len(u) = IF a + 1 <= a + m THEN (a + m) - (a + 1) + 1 ELSE 0
        /\ \A i \in 1..((a + m) - (a + 1) + 1) : u[i] = body[(a + 1) + i - 1]
    <3>1. \A c, d \in Int : (\A i \in c..d : body[i] \in X) =>
              /\ SubSeq(body, c, d) \in Seq(X)
              /\ Len(SubSeq(body, c, d)) = IF c <= d THEN d - c + 1 ELSE 0
              /\ \A i \in 1..(d - c + 1) : SubSeq(body, c, d)[i] = body[c + i - 1]
      BY SubSeqProperties
    <3>2. a + 1 \in Int /\ a + m \in Int
      BY <2>2, <2>3
    <3>3. QED
      BY <2>6, <2>7, <3>1, <3>2
  <2>9. Len(u) = m /\ \A i \in 1..m : u[i] = body[a + i]
    <3>1. (a + m) - (a + 1) + 1 = m /\ \A i \in 1..m : (a + 1) + i - 1 = a + i
      BY <2>2, <2>3
    <3>2. m = 0 \/ a + 1 <= a + m
      BY <2>2, <2>3
    <3>3. QED
      BY <2>2, <2>3, <2>8, <3>1, <3>2
  <2>10. u = parts[k]
    BY <2>3, <2>5, <2>8, <2>9, SeqEqual
  <2>11. QED
    BY <2>4, <2>6, <2>10
<1>18. QED
  BY <1>1, <1>3, <1>6, <1>16, <1>17

-----------------------------------------------------------------------------
(***************************************************************************)
(* Lines, and how a reader tells them apart.                                *)
(***************************************************************************)
LEMMA LineParts ==
    ASSUME NEW dots, NEW rest
    PROVE  Line(dots, rest).dots = dots /\ Line(dots, rest).rest = rest
BY DEF Line

\* All in X are lines.
AreLines(X) == \A x \in X : x = Line(x.dots, x.rest) /\ x.dots \in Nat

\* A sequence of lines is a text.
LEMMA LinesAreText == ASSUME NEW X, AreLines(X), NEW u \in Seq(X) PROVE IsText(u)
<1>1. Len(u) \in Nat /\ u \in [1..Len(u) -> X] /\ \A k \in 1..Len(u) : u[k] \in X
  BY LenProperties, ElementOfSeq
<1>2. \A k \in 1..Len(u) : u[k] = Line(u[k].dots, u[k].rest) /\ u[k].dots \in Nat
  BY <1>1 DEF AreLines
<1>3. u = [k \in 1..Len(u) |-> u[k]]
  BY <1>1
<1>4. u = [k \in 1..Len(u) |-> Line(u[k].dots, u[k].rest)]
  BY <1>2, <1>3
<1>5. QED
  BY <1>1, <1>2, <1>4 DEF IsText

\* A header can be told from the other lines the builder adds.
LEMMA HeaderIs ==
    ASSUME NEW name, NEW value
    PROVE  /\ Header(name, value).rest[1] = name /\ Header(name, value).rest[2] = value
           /\ Header(name, value) # Blank
<1>1. Header(name, value).rest = <<name, value>> /\ Blank.rest = <<"">>
  BY LineParts DEF Header, Blank
<1>2. <<name, value>> # <<"">> /\ <<name, value>>[1] = name /\ <<name, value>>[2] = value
  OBVIOUS
<1>3. QED
  BY <1>1, <1>2

LEMMA NoMark ==
    ASSUME NEW name, NEW value, name # "--", NEW boundary
    PROVE  Header(name, value) \notin Marks(boundary) /\ Blank \notin Marks(boundary)
<1>1. /\ Header(name, value).rest = <<name, value>> /\ Blank.rest = <<"">>
      /\ Delimiter(boundary).rest = <<"--", boundary>>
      /\ FinalDelimiter(boundary).rest = <<"--", boundary, "--">>
  BY LineParts DEF Header, Blank, Delimiter, FinalDelimiter
<1>2. /\ <<name, value>> # <<"--", boundary>> /\ <<name, value>> # <<"--", boundary, "--">>
      /\ <<"">> # <<"--", boundary>> /\ <<"">> # <<"--", boundary, "--">>
  OBVIOUS
<1>3. QED
  BY <1>1, <1>2 DEF Marks

LEMMA MarksApart ==
    Delimiter("alternative") \notin Marks("mixed") /\ FinalDelimiter("alternative") \notin Marks("mixed")
<1>1. /\ Delimiter("alternative").rest = <<"--", "alternative">>
      /\ FinalDelimiter("alternative").rest = <<"--", "alternative", "--">>
      /\ Delimiter("mixed").rest = <<"--", "mixed">>
      /\ FinalDelimiter("mixed").rest = <<"--", "mixed", "--">>
  BY LineParts DEF Delimiter, FinalDelimiter
<1>2. /\ <<"--", "alternative">> # <<"--", "mixed">>
      /\ <<"--", "alternative">> # <<"--", "mixed", "--">>
      /\ <<"--", "alternative", "--">> # <<"--", "mixed">>
      /\ <<"--", "alternative", "--">> # <<"--", "mixed", "--">>
  OBVIOUS
<1>3. QED
  BY <1>1, <1>2 DEF Marks

\* The headers end with the first blank line, and the rest is the body.
LEMMA HeadersAre ==
    ASSUME NEW X, Blank \in X, NEW H \in Seq(X), NEW B \in Seq(X), \A k \in 1..Len(H) : H[k] # Blank
    PROVE  /\ HeadersOf(H \o (<<Blank>> \o B)) = ToSet(H)
           /\ BodyOf(H \o (<<Blank>> \o B)) = B
<1>1. PICK e : e = <<Blank>> \o B
  OBVIOUS
<1>2. PICK n \in Nat : n = Len(H)
  BY LenProperties
<1>3. PICK m \in Nat : m = Len(B)
  BY LenProperties
<1>4. e \in Seq(X) /\ Len(e) = m + 1 /\ e[1] = Blank /\ \A i \in 1..m : e[i + 1] = B[i]
  BY <1>1, <1>3, InFront
<1>5. PICK lines : lines = H \o e
  OBVIOUS
<1>6. /\ lines \in Seq(X) /\ Len(lines) = n + (m + 1)
      /\ \A i \in 1..(n + (m + 1)) : lines[i] = IF i <= n THEN H[i] ELSE e[i - n]
  <2>1. \A u, v \in Seq(X) : /\ u \o v \in Seq(X) /\ Len(u \o v) = Len(u) + Len(v)
                             /\ \A i \in 1..Len(u) + Len(v) :
                                  (u \o v)[i] = IF i <= Len(u) THEN u[i] ELSE v[i - Len(u)]
    BY ConcatProperties
  <2>2. /\ lines \in Seq(X) /\ Len(lines) = Len(H) + Len(e)
        /\ \A i \in 1..Len(H) + Len(e) : lines[i] = IF i <= Len(H) THEN H[i] ELSE e[i - Len(H)]
    BY <1>4, <1>5, <2>1
  <2>3. QED
    BY <1>2, <1>4, <2>2
<1>7. lines[n + 1] = Blank
  <2>1. n + 1 \in 1..(n + (m + 1)) /\ ~ (n + 1 <= n) /\ (n + 1) - n = 1
    OBVIOUS
  <2>2. QED
    BY <1>4, <1>6, <2>1
<1>8. \A i \in 1..n : lines[i] = H[i] /\ lines[i] # Blank
  BY <1>2, <1>6
<1>9. ASSUME NEW i \in 1..m PROVE lines[(n + 1) + i] = B[i]
  <2>1. (n + 1) + i \in 1..(n + (m + 1)) /\ ~ ((n + 1) + i <= n) /\ ((n + 1) + i) - n = i + 1
    OBVIOUS
  <2>2. QED
    BY <1>4, <1>6, <2>1
<1>10. HeaderEnd(lines) = n + 1
  <2>1. PICK I : I = {i \in 1..Len(lines) : lines[i] = Blank}
    OBVIOUS
  <2>2. n + 1 \in I /\ \A i \in I : n + 1 <= i /\ i \in Nat
    BY <1>6, <1>7, <1>8, <2>1
  <2>3. Min(I) = n + 1
    <3>1. \A x \in I : (\A y \in I : x <= y) => x = n + 1
      BY <2>2
    <3>2. QED
      BY <2>2, <3>1 DEF Min
  <2>4. HeaderEnd(lines) = IF I # {} THEN Min(I) ELSE 0
    BY <2>1 DEF HeaderEnd, SelectInSeq
  <2>5. QED
    BY <2>2, <2>3, <2>4
<1>11. \A c, d \in Int : (\A i \in c..d : lines[i] \in X) =>
              /\ SubSeq(lines, c, d) \in Seq(X)
              /\ Len(SubSeq(lines, c, d)) = IF c <= d THEN d - c + 1 ELSE 0
              /\ \A i \in 1..(d - c + 1) : SubSeq(lines, c, d)[i] = lines[c + i - 1]
  BY SubSeqProperties
<1>12. \A i \in 1..(n + (m + 1)) : lines[i] \in X
  BY <1>6, ElementOfSeq
<1>13. SubSeq(lines, 1, n) = H
  <2>1. PICK u : u = SubSeq(lines, 1, n)
    OBVIOUS
  <2>2. \A i \in 1..n : lines[i] \in X
    BY <1>12
  <2>3. u \in Seq(X) /\ Len(u) = n /\ \A i \in 1..n : u[i] = lines[i]
    <3>1. n - 1 + 1 = n /\ (~ (1 <= n) => n = 0) /\ \A i \in 1..n : 1 + i - 1 = i
      OBVIOUS
    <3>2. QED
      BY <1>11, <2>1, <2>2, <3>1
  <2>4. u = H
    BY <1>2, <1>8, <2>3, SeqEqual
  <2>5. QED
    BY <2>1, <2>4
<1>14. SubSeq(lines, n + 2, n + (m + 1)) = B
  <2>1. PICK u : u = SubSeq(lines, n + 2, n + (m + 1))
    OBVIOUS
  <2>2. n + 2 \in Int /\ n + (m + 1) \in Int /\ \A i \in (n + 2)..(n + (m + 1)) : lines[i] \in X
    BY <1>12
  <2>3. u \in Seq(X) /\ Len(u) = m /\ \A i \in 1..m : u[i] = lines[(n + 1) + i]
    <3>1. /\ (n + (m + 1)) - (n + 2) + 1 = m /\ (~ (n + 2 <= n + (m + 1)) => m = 0)
          /\ \A i \in 1..m : (n + 2) + i - 1 = (n + 1) + i
      OBVIOUS
    <3>2. QED
      BY <1>11, <2>1, <2>2, <3>1
  <2>4. u = B
    BY <1>3, <1>9, <2>3, SeqEqual
  <2>5. QED
    BY <2>1, <2>4
<1>15. HeadersOf(lines) = ToSet(H) /\ BodyOf(lines) = B
  <2>1. HeaderEnd(lines) - 1 = n /\ HeaderEnd(lines) + 1 = n + 2 /\ Len(lines) = n + (m + 1)
    BY <1>6, <1>10
  <2>2. QED
    BY <1>13, <1>14, <2>1 DEF HeadersOf, BodyOf
<1>16. QED
  BY <1>1, <1>5, <1>15

\* What two sequences have between them.
LEMMA ToSetConcat ==
    ASSUME NEW X, NEW u \in Seq(X), NEW v \in Seq(X) PROVE ToSet(u \o v) = ToSet(u) \cup ToSet(v)
<1>1. PICK n \in Nat : n = Len(u) /\ DOMAIN u = 1..n
  BY LenProperties
<1>2. PICK m \in Nat : m = Len(v) /\ DOMAIN v = 1..m
  BY LenProperties
<1>3. /\ u \o v \in Seq(X) /\ Len(u \o v) = n + m
      /\ \A i \in 1..(n + m) : (u \o v)[i] = IF i <= n THEN u[i] ELSE v[i - n]
  BY <1>1, <1>2, ConcatProperties
<1>4. PICK w : w = u \o v
  OBVIOUS
<1>5. DOMAIN w = 1..(n + m) /\ \A i \in 1..(n + m) : w[i] = IF i <= n THEN u[i] ELSE v[i - n]
  BY <1>3, <1>4, LenProperties
<1>6. ASSUME NEW i \in 1..m PROVE n + i \in 1..(n + m) /\ w[n + i] = v[i]
  <2>1. n + i \in 1..(n + m) /\ ~ (n + i <= n) /\ (n + i) - n = i
    OBVIOUS
  <2>2. QED
    BY <1>5, <2>1
<1>7. ASSUME NEW i \in 1..(n + m) PROVE w[i] \in ToSet(u) \cup ToSet(v)
  <2>1. CASE i <= n
    BY <1>1, <1>5, <2>1 DEF ToSet
  <2>2. CASE ~ (i <= n)
    <3>1. i - n \in 1..m /\ w[i] = v[i - n]
      BY <1>5, <2>2
    <3>2. QED
      BY <1>2, <3>1 DEF ToSet
  <2>3. QED
    BY <2>1, <2>2
<1>8. \A i \in 1..n : i \in 1..(n + m) /\ w[i] = u[i]
  BY <1>5
<1>9. ToSet(w) = ToSet(u) \cup ToSet(v)
  <2>1. ToSet(w) \subseteq ToSet(u) \cup ToSet(v)
    BY <1>5, <1>7 DEF ToSet
  <2>2. ToSet(u) \subseteq ToSet(w)
    BY <1>1, <1>5, <1>8 DEF ToSet
  <2>3. ToSet(v) \subseteq ToSet(w)
    BY <1>2, <1>5, <1>6 DEF ToSet
  <2>4. QED
    BY <2>1, <2>2, <2>3
<1>10. QED
  BY <1>4, <1>9

-----------------------------------------------------------------------------
(***************************************************************************)
(* A text of one part or of several.                                        *)
(***************************************************************************)
\* One, two and three lines.
LEMMA LinesInFront ==
    ASSUME NEW X, NEW d \in X, NEW e \in X, NEW f \in X, NEW u \in Seq(X)
    PROVE  /\ <<d, e>> \o u = <<d>> \o (<<e>> \o u)
           /\ <<d, e, f>> \o u = <<d>> \o (<<e, f>> \o u)
           /\ <<d>> \in Seq(X) /\ <<d, e>> \in Seq(X) /\ <<d, e, f>> \in Seq(X)
<1>1. /\ <<d>> \in Seq(X) /\ <<e>> \in Seq(X) /\ <<e, f>> \in Seq(X) /\ <<d, e>> \in Seq(X)
      /\ <<d, e, f>> \in Seq(X) /\ Len(<<d, e>>) = 2 /\ Len(<<d, e, f>>) = 3
      /\ <<d, e>>[1] = d /\ <<d, e>>[2] = e
      /\ <<d, e, f>>[1] = d /\ <<d, e, f>>[2] = e /\ <<d, e, f>>[3] = f
      /\ Len(<<e>>) = 1 /\ <<e>>[1] = e /\ Len(<<e, f>>) = 2 /\ <<e, f>>[1] = e /\ <<e, f>>[2] = f
  OBVIOUS
<1>2. <<d>> \o <<e>> = <<d, e>>
  <2>1. PICK w : w = <<d>> \o <<e>>
    OBVIOUS
  <2>2. w \in Seq(X) /\ Len(w) = 1 + 1 /\ w[1] = d /\ \A i \in 1..1 : w[i + 1] = <<e>>[i]
    BY <1>1, <2>1, InFront
  <2>3. w[1 + 1] = e
    BY <1>1, <2>2
  <2>4. Len(w) = 2 /\ w[2] = e
    BY <2>2, <2>3
  <2>5. w = <<d, e>>
    <3>1. \A i \in 1..2 : w[i] = <<d, e>>[i]
      BY <1>1, <2>2, <2>4
    <3>2. QED
      BY <1>1, <2>2, <2>4, <3>1, SeqEqual
  <2>6. QED
    BY <2>1, <2>5
<1>3. <<d>> \o <<e, f>> = <<d, e, f>>
  <2>1. PICK w : w = <<d>> \o <<e, f>>
    OBVIOUS
  <2>2. w \in Seq(X) /\ Len(w) = 2 + 1 /\ w[1] = d /\ \A i \in 1..2 : w[i + 1] = <<e, f>>[i]
    BY <1>1, <2>1, InFront
  <2>3. w[1 + 1] = e /\ w[2 + 1] = f
    BY <1>1, <2>2
  <2>4. Len(w) = 3 /\ w[2] = e /\ w[3] = f
    BY <2>2, <2>3
  <2>5. w = <<d, e, f>>
    <3>1. \A i \in 1..3 : w[i] = <<d, e, f>>[i]
      BY <1>1, <2>2, <2>4
    <3>2. QED
      BY <1>1, <2>2, <2>4, <3>1, SeqEqual
  <2>6. QED
    BY <2>1, <2>5
<1>4. \A v, w \in Seq(X) : (v \o w) \o u = v \o (w \o u)
  BY ConcatAssociative
<1>5. (<<d>> \o <<e>>) \o u = <<d>> \o (<<e>> \o u)
  BY <1>1, <1>4
<1>6. (<<d>> \o <<e, f>>) \o u = <<d>> \o (<<e, f>> \o u)
  BY <1>1, <1>4
<1>7. QED
  BY <1>1, <1>2, <1>3, <1>5, <1>6

\* Of two.
LEMMA FlatPair ==
    ASSUME NEW s, NEW n, n = 2, Len(s) = n
    PROVE  FlattenSeq(s) = s[1] \o s[2]
<1>1. Len(s) \in Nat \ {0}
  OBVIOUS
<1>2. PICK g : IsFlat(g, s, Len(s)) /\ FlattenSeq(s) = g[Len(s)]
  BY <1>1, FlatIs
<1>3. \A i \in 1..2 : g[i] = IF i = 1 THEN s[i] ELSE g[i - 1] \o s[i]
  BY <1>2 DEF IsFlat
<1>4. 1 \in 1..2 /\ 2 \in 1..2 /\ 2 - 1 = 1 /\ 2 # 1
  OBVIOUS
<1>5. g[1] = s[1] /\ g[2] = g[2 - 1] \o s[2]
  BY <1>3, <1>4
<1>6. QED
  BY <1>2, <1>4, <1>5

\* Of one each.
Singles(f) == [k \in 1..Len(f) |-> <<f[k]>>]

LEMMA FlatSingles ==
    ASSUME NEW X, NEW f \in Seq(X), NEW s, s = Singles(f)
    PROVE  FlattenSeq(s) = f
<1>1. PICK n \in Nat : n = Len(f)
  BY LenProperties
<1>2. s \in Seq(Seq(X)) /\ Len(s) = n
  <2>1. \A k \in 1..n : <<f[k]>> \in Seq(X)
    BY <1>1, ElementOfSeq
  <2>2. s \in [1..n -> Seq(X)]
    BY <1>1, <2>1 DEF Singles
  <2>3. s \in Seq(Seq(X)) /\ DOMAIN s = 1..n
    BY <2>2, SeqDef
  <2>4. QED
    BY <2>3, LenProperties
<1>3. CASE n = 0
  <2>1. s = <<>> /\ f = <<>>
    BY <1>1, <1>2, <1>3, EmptySeq
  <2>2. QED
    BY <2>1, FlatSimple
<1>4. CASE n # 0
  <2>1. PICK g : IsFlat(g, s, n) /\ FlattenSeq(s) = g[n]
    BY <1>2, <1>4, FlatIs
  <2>2. \A k \in 1..n : g[k] \in Seq(X) /\ g[k] = IF k = 1 THEN s[k] ELSE g[k - 1] \o s[k]
    <3>1. IsFlat(g, s, Len(s))
      BY <1>2, <2>1
    <3>2. \A k \in 1..n : g[k] \in Seq(X)
      BY <1>2, <3>1, FlatType
    <3>3. QED
      BY <2>1, <3>2 DEF IsFlat
  <2>3. \A k \in 1..n : s[k] = <<f[k]>> /\ s[k] \in Seq(X) /\ Len(s[k]) = 1 /\ s[k][1] = f[k]
    <3>1. \A e \in X : <<e>> \in Seq(X) /\ Len(<<e>>) = 1 /\ <<e>>[1] = e
      OBVIOUS
    <3>2. \A k \in 1..n : f[k] \in X
      BY <1>1, ElementOfSeq
    <3>3. QED
      BY <1>1, <3>1, <3>2 DEF Singles
  <2> DEFINE A == {k \in 1..n : ~ (Len(g[k]) = k /\ \A i \in 1..k : g[k][i] = f[i])}
  <2>4. ASSUME A # {} PROVE FALSE
    <3>1. A \subseteq Nat
      OBVIOUS
    <3>2. PICK k \in A : \A j \in A : ~ (<<j, k>> \in OpToRel(<, Nat))
      BY <2>4, <3>1, NatLessThanWellFounded, WFMin
    <3>3. CASE k = 1
      <4>1. g[1] = s[1] /\ 1 \in 1..n
        BY <2>2, <3>3
      <4>2. Len(g[1]) = 1 /\ g[1][1] = f[1]
        BY <2>3, <4>1
      <4>3. QED
        BY <3>3, <4>2
    <3>4. CASE k # 1
      <4>1. PICK h \in Nat : h = k - 1
        OBVIOUS
      <4>2. h \in 1..n /\ k = h + 1
        BY <3>4, <4>1
      <4>3. Len(g[h]) = h /\ \A i \in 1..h : g[h][i] = f[i]
        <5>1. <<h, k>> \in OpToRel(<, Nat)
          BY <4>1 DEF OpToRel
        <5>2. QED
          BY <3>2, <4>2, <5>1
      <4>4. g[k] = g[h] \o s[k] /\ g[h] \in Seq(X) /\ s[k] \in Seq(X)
        BY <2>2, <2>3, <3>4, <4>1, <4>2
      <4>5. /\ Len(g[k]) = Len(g[h]) + Len(s[k])
            /\ \A i \in 1..Len(g[h]) + Len(s[k]) :
                  g[k][i] = IF i <= Len(g[h]) THEN g[h][i] ELSE s[k][i - Len(g[h])]
        <5>1. \A u, v \in Seq(X) : /\ Len(u \o v) = Len(u) + Len(v)
                                   /\ \A i \in 1..Len(u) + Len(v) :
                                        (u \o v)[i] = IF i <= Len(u) THEN u[i] ELSE v[i - Len(u)]
          BY ConcatProperties
        <5>2. PICK u \in Seq(X) : u = g[h]
          BY <4>4
        <5>3. PICK v \in Seq(X) : v = s[k]
          BY <4>4
        <5>4. PICK w : w = u \o v
          OBVIOUS
        <5>5. /\ Len(w) = Len(u) + Len(v)
              /\ \A i \in 1..Len(u) + Len(v) : w[i] = IF i <= Len(u) THEN u[i] ELSE v[i - Len(u)]
          BY <5>1, <5>4
        <5>6. w = g[k]
          BY <4>4, <5>2, <5>3, <5>4
        <5>7. QED
          BY <5>2, <5>3, <5>5, <5>6
      <4>6. /\ Len(g[k]) = h + 1
            /\ \A i \in 1..(h + 1) : g[k][i] = IF i <= h THEN g[h][i] ELSE s[k][i - h]
        BY <2>3, <4>3, <4>5
      <4>7. g[k][h + 1] = f[k]
        <5>1. h + 1 \in 1..(h + 1) /\ ~ (h + 1 <= h) /\ (h + 1) - h = 1
          OBVIOUS
        <5>2. QED
          BY <2>3, <4>6, <5>1
      <4>8. \A i \in 1..h : g[k][i] = f[i]
        BY <4>3, <4>6
      <4>9. \A i \in 1..k : g[k][i] = f[i]
        <5>1. \A i \in 1..k : i \in 1..h \/ i = k
          BY <4>2
        <5>2. QED
          BY <4>2, <4>7, <4>8, <5>1
      <4>10. Len(g[k]) = k
        BY <4>2, <4>6
      <4>11. QED
        BY <4>9, <4>10
    <3>5. QED
      BY <3>3, <3>4
  <2>5. Len(g[n]) = n /\ \A i \in 1..n : g[n][i] = f[i]
    BY <1>4, <2>4
  <2>6. g[n] = f
    BY <1>1, <1>4, <2>2, <2>5, SeqEqual
  <2>7. QED
    BY <2>1, <2>6
<1>5. QED
  BY <1>3, <1>4

\* No line of u is in M.
Free(u, M) == \A k \in 1..Len(u) : u[k] \notin M

LEMMA FreeConcat ==
    ASSUME NEW X, NEW u \in Seq(X), NEW v \in Seq(X), NEW M, Free(u, M), Free(v, M)
    PROVE  Free(u \o v, M)
<1>1. /\ Len(u \o v) = Len(u) + Len(v) /\ Len(u) \in Nat /\ Len(v) \in Nat
      /\ \A i \in 1..Len(u) + Len(v) : (u \o v)[i] = IF i <= Len(u) THEN u[i] ELSE v[i - Len(u)]
  BY ConcatProperties, LenProperties
<1>2. SUFFICES ASSUME NEW i \in 1..Len(u) + Len(v) PROVE (u \o v)[i] \notin M
  BY <1>1 DEF Free
<1>3. CASE i <= Len(u)
  BY <1>1, <1>3 DEF Free
<1>4. CASE ~ (i <= Len(u))
  <2>1. i - Len(u) \in 1..Len(v) /\ (u \o v)[i] = v[i - Len(u)]
    BY <1>1, <1>4
  <2>2. QED
    BY <2>1 DEF Free
<1>5. QED
  BY <1>3, <1>4

\* The headers above the structure.
OnlyHeaders(h) ==
    \A k \in 1..Len(h) : \E name \in {"To", "Cc", "Subject"} : \E value : h[k] = Header(name, value)

LEMMA HeaderSet ==
    ASSUME NEW X, NEW h \in Seq(X), OnlyHeaders(h), NEW name, NEW value, Header(name, value) \in X
    PROVE  /\ h \o <<Header(name, value)>> \in Seq(X)
           /\ \A k \in 1..Len(h \o <<Header(name, value)>>) : (h \o <<Header(name, value)>>)[k] # Blank
           /\ ToSet(h \o <<Header(name, value)>>) = ToSet(h) \cup {Header(name, value)}
           /\ \A x \in ToSet(h) : x.rest[1] \in {"To", "Cc", "Subject"}
<1>1. PICK e \in X : e = Header(name, value)
  OBVIOUS
<1>2. <<e>> \in Seq(X) /\ Len(<<e>>) = 1 /\ <<e>>[1] = e /\ DOMAIN <<e>> = 1..1
  OBVIOUS
<1>3. \A k \in 1..Len(h) : h[k] # Blank /\ h[k].rest[1] \in {"To", "Cc", "Subject"}
  BY HeaderIs DEF OnlyHeaders
<1>4. Free(h, {Blank}) /\ Free(<<e>>, {Blank})
  BY <1>1, <1>2, <1>3, HeaderIs DEF Free
<1>5. Free(h \o <<e>>, {Blank})
  BY <1>2, <1>4, FreeConcat
<1>6. h \o <<e>> \in Seq(X)
  BY <1>2, ConcatProperties
<1>7. ToSet(<<e>>) = {e}
  BY <1>2 DEF ToSet
<1>8. ToSet(h \o <<e>>) = ToSet(h) \cup {e}
  <2>1. \A v \in Seq(X) : ToSet(h \o v) = ToSet(h) \cup ToSet(v)
    BY ToSetConcat
  <2>2. QED
    BY <1>2, <1>7, <2>1
<1>9. \A x \in ToSet(h) : x.rest[1] \in {"To", "Cc", "Subject"}
  BY <1>3, LenProperties DEF ToSet
<1>10. QED
  BY <1>1, <1>5, <1>6, <1>8, <1>9 DEF Free

\* A text of one part, with or without headers above it.
IsLeaf(lines, h, type, u, X) ==
    /\ Blank \in X /\ h \in Seq(X) /\ OnlyHeaders(h) /\ u \in Seq(X)
    /\ Header("Content-Type", type) \in X
    /\ lines = h \o (<<Header("Content-Type", type), Blank>> \o u)

ReadAsLeaf(lines, h, type, u, X) ==
    /\ lines \in Seq(X)
    /\ HeadersOf(lines) = ToSet(h) \cup {Header("Content-Type", type)}
    /\ Parts(lines) = <<lines>> /\ TypeOf(lines) = type /\ BodyOf(lines) = u

LEMMA LeafIs ==
    ASSUME NEW X, NEW h, NEW type, NEW u, NEW lines, IsLeaf(lines, h, type, u, X)
    PROVE  ReadAsLeaf(lines, h, type, u, X)
<1> /\ Blank \in X /\ h \in Seq(X) /\ OnlyHeaders(h) /\ u \in Seq(X)
    /\ lines = h \o (<<Header("Content-Type", type), Blank>> \o u)
  BY DEF IsLeaf
<1>1. PICK e \in X : e = Header("Content-Type", type)
  BY DEF IsLeaf
<1>2. PICK H \in Seq(X) : H = h \o <<e>>
  BY <1>1, HeaderSet
<1>3. /\ \A k \in 1..Len(H) : H[k] # Blank
      /\ ToSet(H) = ToSet(h) \cup {e}
      /\ \A x \in ToSet(h) : x.rest[1] \in {"To", "Cc", "Subject"}
  BY <1>1, <1>2, HeaderSet
<1>4. <<e>> \in Seq(X) /\ <<Blank>> \o u \in Seq(X) /\ <<e, Blank>> \o u = <<e>> \o (<<Blank>> \o u)
  BY InFront, LinesInFront
<1>5. lines = H \o (<<Blank>> \o u)
  <2>1. \A v, w \in Seq(X) : (h \o v) \o w = h \o (v \o w)
    BY ConcatAssociative
  <2>2. (h \o <<e>>) \o (<<Blank>> \o u) = h \o (<<e>> \o (<<Blank>> \o u))
    BY <1>4, <2>1
  <2>3. QED
    BY <1>1, <1>2, <1>4, <2>2
<1>6. lines \in Seq(X)
  BY <1>4, <1>5, ConcatProperties
<1>7. HeadersOf(lines) = ToSet(h) \cup {e} /\ BodyOf(lines) = u
  BY <1>3, <1>5, HeadersAre
<1>8. e.rest[1] = "Content-Type" /\ e.rest[2] = type
  BY <1>1, HeaderIs
<1>9. {x \in HeadersOf(lines) : x.rest[1] = "Multipart"} = {}
  BY <1>3, <1>7, <1>8
<1>10. \A x \in HeadersOf(lines) : x.rest[1] = "Content-Type" <=> x = e
  BY <1>3, <1>7, <1>8
<1>11. TypeOf(lines) = type
  <2>1. (CHOOSE x \in HeadersOf(lines) : x.rest[1] = "Content-Type") = e
    BY <1>7, <1>10
  <2>2. QED
    BY <1>8, <2>1 DEF TypeOf
<1>12. Parts(lines) = <<lines>>
  BY <1>9 DEF Parts
<1>13. QED
  BY <1>1, <1>6, <1>7, <1>11, <1>12 DEF ReadAsLeaf

\* A text of several parts.
Together(boundary, n, parts) == FlattenSeq([k \in 1..n |-> <<Delimiter(boundary)>> \o parts[k]])

IsMultipart(lines, h, boundary, n, parts, joined, X) ==
    /\ Blank \in X /\ h \in Seq(X) /\ OnlyHeaders(h) /\ joined \in Seq(X)
    /\ Header("Multipart", boundary) \in X /\ Marks(boundary) \subseteq X
    /\ n \in Nat \ {0} /\ parts \in [1..n -> Seq(X)]
    /\ \A k \in 1..n : Free(parts[k], Marks(boundary))
    /\ joined = Together(boundary, n, parts)
    /\ lines = h \o (Multipart(boundary) \o (joined \o <<FinalDelimiter(boundary)>>))

ReadAsParts(lines, h, boundary, parts, X) ==
    /\ lines \in Seq(X)
    /\ HeadersOf(lines) = ToSet(h) \cup {Header("Multipart", boundary)}
    /\ Parts(lines) = parts

LEMMA MultipartIs ==
    ASSUME NEW X, NEW h, NEW boundary, NEW n, NEW parts, NEW joined, NEW lines,
           IsMultipart(lines, h, boundary, n, parts, joined, X)
    PROVE  ReadAsParts(lines, h, boundary, parts, X)
<1> /\ Blank \in X /\ h \in Seq(X) /\ OnlyHeaders(h) /\ joined \in Seq(X)
    /\ n \in Nat \ {0} /\ parts \in [1..n -> Seq(X)]
    /\ \A k \in 1..n : Free(parts[k], Marks(boundary))
    /\ lines = h \o (Multipart(boundary) \o (joined \o <<FinalDelimiter(boundary)>>))
  BY DEF IsMultipart
<1>1. PICK e \in X : e = Header("Multipart", boundary)
  BY DEF IsMultipart
<1>2. PICK H \in Seq(X) : H = h \o <<e>>
  BY <1>1, HeaderSet
<1>3. /\ \A k \in 1..Len(H) : H[k] # Blank
      /\ ToSet(H) = ToSet(h) \cup {e}
      /\ \A x \in ToSet(h) : x.rest[1] \in {"To", "Cc", "Subject"}
  BY <1>1, <1>2, HeaderSet
<1>4. Delimiter(boundary) \in X /\ FinalDelimiter(boundary) \in X
  BY DEF IsMultipart, Marks
<1>5. PICK u : u = joined \o <<FinalDelimiter(boundary)>>
  OBVIOUS
<1>6. u \in Seq(X)
  <2>1. <<FinalDelimiter(boundary)>> \in Seq(X)
    BY <1>4
  <2>2. QED
    BY <1>5, <2>1, ConcatProperties
<1>7. <<e>> \in Seq(X) /\ <<Blank>> \o u \in Seq(X) /\ <<e, Blank>> \o u = <<e>> \o (<<Blank>> \o u)
  <2>1. <<e>> \in Seq(X)
    OBVIOUS
  <2>2. <<Blank>> \o u \in Seq(X)
    BY <1>6, InFront
  <2>3. <<e, Blank>> \o u = <<e>> \o (<<Blank>> \o u)
    BY <1>6, LinesInFront
  <2>4. QED
    BY <2>1, <2>2, <2>3
<1>8. lines = H \o (<<Blank>> \o u)
  <2>1. \A v, w \in Seq(X) : (h \o v) \o w = h \o (v \o w)
    BY ConcatAssociative
  <2>2. (h \o <<e>>) \o (<<Blank>> \o u) = h \o (<<e>> \o (<<Blank>> \o u))
    BY <1>7, <2>1
  <2>3. QED
    BY <1>1, <1>2, <1>5, <1>7, <2>2 DEF Multipart
<1>9. lines \in Seq(X)
  <2>1. \A v \in Seq(X) : H \o v \in Seq(X)
    BY ConcatProperties
  <2>2. QED
    BY <1>7, <1>8, <2>1
<1>10. HeadersOf(lines) = ToSet(h) \cup {e} /\ BodyOf(lines) = u
  BY <1>3, <1>6, <1>8, HeadersAre
<1>11. e.rest[1] = "Multipart" /\ e.rest[2] = boundary
  BY <1>1, HeaderIs
<1>12. {x \in HeadersOf(lines) : x.rest[1] = "Multipart"} = {e}
  BY <1>3, <1>10, <1>11
<1>13. (CHOOSE x \in {e} : TRUE) = e
  OBVIOUS
<1>14. Parts(lines) = Split(u, Marks(boundary))
  BY <1>10, <1>11, <1>12, <1>13 DEF Parts
<1>15. Split(u, Marks(boundary)) = parts
  BY <1>4, <1>5, SplitIs DEF IsMultipart, Free, Marks, Together
<1>16. QED
  BY <1>1, <1>9, <1>10, <1>14, <1>15 DEF ReadAsParts

-----------------------------------------------------------------------------
(***************************************************************************)
(* What the builder writes is read as it was meant.                         *)
(***************************************************************************)
\* Every line of message m is in X, and so is every line the builder writes for it.
Furnished(X, m) ==
    /\ AreLines(X)
    /\ Blank \in X
    /\ Marks("alternative") \subseteq X /\ Marks("mixed") \subseteq X
    /\ Header("Multipart", "alternative") \in X /\ Header("Multipart", "mixed") \in X
    /\ \A type \in {"plain", "html", "file"} : Header("Content-Type", type) \in X
    /\ Header("To", m.to) \in X /\ Header("Cc", m.cc) \in X /\ Header("Subject", m.subject) \in X
    /\ m.text \in Seq(X) /\ m.html \in Seq(X) /\ m.files \in Seq(Seq(X))

\* None of the lines it is given is a boundary.
FreeOfMarks(u) == Free(u, Marks("alternative")) /\ Free(u, Marks("mixed"))
Unmarked(m) ==
    FreeOfMarks(m.text) /\ FreeOfMarks(m.html) /\ \A k \in 1..Len(m.files) : FreeOfMarks(m.files[k])

\* An empty text is written as an empty line.
Written(u) == IF u = <<>> THEN <<Blank>> ELSE u

LEMMA PartIs ==
    ASSUME NEW X, Blank \in X, NEW type, Header("Content-Type", type) \in X, NEW u \in Seq(X), FreeOfMarks(u)
    PROVE  /\ Written(u) \in Seq(X) /\ Part(type, u) \in Seq(X) /\ FreeOfMarks(Part(type, u))
           /\ Part(type, u) = <<Header("Content-Type", type), Blank>> \o Written(u)
<1>1. PICK e \in X : e = Header("Content-Type", type)
  OBVIOUS
<1>2. <<Blank>> \in Seq(X) /\ <<e, Blank>> \in Seq(X)
  OBVIOUS
<1>3. Written(u) \in Seq(X)
  BY <1>2 DEF Written
<1>4. Part(type, u) = <<e, Blank>> \o Written(u)
  BY <1>1 DEF Part, Written
<1>5. /\ Len(<<Blank>>) = 1 /\ <<Blank>>[1] = Blank
      /\ Len(<<e, Blank>>) = 2 /\ <<e, Blank>>[1] = e /\ <<e, Blank>>[2] = Blank
  OBVIOUS
<1>6. \A b : e \notin Marks(b) /\ Blank \notin Marks(b)
  BY <1>1, NoMark
<1>7. \A b : Free(<<Blank>>, Marks(b)) /\ Free(<<e, Blank>>, Marks(b))
  BY <1>5, <1>6 DEF Free
<1>8. FreeOfMarks(Written(u))
  BY <1>7 DEF FreeOfMarks, Written
<1>9. \A M : Free(<<e, Blank>>, M) /\ Free(Written(u), M) => Free(<<e, Blank>> \o Written(u), M)
  BY <1>2, <1>3, FreeConcat
<1>10. FreeOfMarks(Part(type, u))
  BY <1>4, <1>7, <1>8, <1>9 DEF FreeOfMarks
<1>11. Part(type, u) \in Seq(X)
  BY <1>2, <1>3, <1>4, ConcatProperties
<1>12. QED
  BY <1>1, <1>3, <1>4, <1>10, <1>11

\* Sequences one after the other can be grouped as one likes.
Cat(u, v) == u \o v

LEMMA Associative ==
    ASSUME NEW X
    PROVE  /\ \A u, v, w \in Seq(X) : Cat(Cat(u, v), w) = Cat(u, Cat(v, w))
           /\ \A u, v \in Seq(X) : Cat(u, v) \in Seq(X)
BY ConcatAssociative, ConcatProperties DEF Cat

RightOf(s, a, t) == s = a \o t
Five(a, d, p, q, f) == (((a \o d) \o p) \o q) \o f
Six(a, d, p, q, f) == ((((a \o d) \o p) \o d) \o q) \o f

LEMMA RegroupFive ==
    ASSUME NEW X, NEW a \in Seq(X), NEW d \in Seq(X), NEW p \in Seq(X), NEW q \in Seq(X), NEW f \in Seq(X)
    PROVE  RightOf(Five(a, d, p, q, f), a, ((d \o p) \o q) \o f)
<1>1. PICK e \in Seq(X) : e = Cat(d, p)
  BY Associative
<1>2. PICK h \in Seq(X) : h = Cat(e, q)
  BY Associative
<1>3. Cat(Cat(a, d), p) = Cat(a, e)
  BY <1>1, Associative
<1>4. Cat(Cat(a, e), q) = Cat(a, h)
  BY <1>2, Associative
<1>5. Cat(Cat(a, h), f) = Cat(a, Cat(h, f))
  BY Associative
<1>6. Cat(Cat(Cat(Cat(a, d), p), q), f) = Cat(a, Cat(Cat(Cat(d, p), q), f))
  BY <1>1, <1>2, <1>3, <1>4, <1>5
<1>7. QED
  BY <1>6 DEF Cat, Five, RightOf

LEMMA RegroupSix ==
    ASSUME NEW X, NEW a \in Seq(X), NEW d \in Seq(X), NEW p \in Seq(X), NEW q \in Seq(X), NEW f \in Seq(X)
    PROVE  RightOf(Six(a, d, p, q, f), a, ((d \o p) \o (d \o q)) \o f)
<1>1. PICK e \in Seq(X) : e = Cat(d, p)
  BY Associative
<1>2. PICK g \in Seq(X) : g = Cat(d, q)
  BY Associative
<1>3. PICK h \in Seq(X) : h = Cat(e, g)
  BY Associative
<1>4. PICK l \in Seq(X) : l = Cat(a, e)
  BY Associative
<1>5. Cat(Cat(a, d), p) = l
  BY <1>1, <1>4, Associative
<1>6. Cat(Cat(l, d), q) = Cat(l, g)
  BY <1>2, Associative
<1>7. Cat(Cat(a, e), g) = Cat(a, h)
  BY <1>3, Associative
<1>8. Cat(Cat(a, h), f) = Cat(a, Cat(h, f))
  BY Associative
<1>9. Cat(Cat(Cat(Cat(Cat(a, d), p), d), q), f) = Cat(a, Cat(Cat(Cat(d, p), Cat(d, q)), f))
  BY <1>1, <1>2, <1>3, <1>4, <1>5, <1>6, <1>7, <1>8
<1>10. QED
  BY <1>9 DEF Cat, Six, RightOf

\* What a reader is shown of parts.
Shown(parts) == [k \in DOMAIN parts |-> <<TypeOf(parts[k]), BodyOf(parts[k])>>]

\* The texts of a message, and its files.
TextsMeant(m) ==
    (IF m.text # <<>> THEN <<<<"plain", m.text>>>>
     ELSE IF m.html = <<>> THEN <<<<"plain", <<Blank>>>>>> ELSE <<>>)
        \o (IF m.html # <<>> THEN <<<<"html", m.html>>>> ELSE <<>>)
FilesMeant(m) == [k \in DOMAIN m.files |-> <<"file", m.files[k]>>]

\* Nothing further is found in these parts.
AreLeaves(parts, X) ==
    /\ parts \in Seq(Seq(X)) /\ parts # <<>>
    /\ \A k \in 1..Len(parts) : Parts(parts[k]) = <<parts[k]>>

\* One text.
IsSingle(lines, h, type, u, X) ==
    /\ Blank \in X /\ h \in Seq(X) /\ OnlyHeaders(h) /\ u \in Seq(X) /\ FreeOfMarks(u)
    /\ Header("Content-Type", type) \in X
    /\ lines = h \o Part(type, u)

LEMMA SingleReads ==
    ASSUME NEW X, NEW h, NEW type, NEW u, NEW lines, IsSingle(lines, h, type, u, X)
    PROVE  /\ lines \in Seq(X)
           /\ HeadersOf(lines) = ToSet(h) \cup {Header("Content-Type", type)}
           /\ AreLeaves(Parts(lines), X)
           /\ Shown(Parts(lines)) = <<<<type, Written(u)>>>>
<1> /\ Blank \in X /\ h \in Seq(X) /\ OnlyHeaders(h) /\ u \in Seq(X) /\ FreeOfMarks(u)
    /\ Header("Content-Type", type) \in X
    /\ lines = h \o Part(type, u)
  BY DEF IsSingle
<1>1. PICK w \in Seq(X) : w = Written(u)
  BY PartIs
<1>2. lines = h \o (<<Header("Content-Type", type), Blank>> \o w)
  BY <1>1, PartIs
<1>3. /\ lines \in Seq(X)
      /\ HeadersOf(lines) = ToSet(h) \cup {Header("Content-Type", type)}
      /\ Parts(lines) = <<lines>> /\ TypeOf(lines) = type /\ BodyOf(lines) = w
  <2>1. IsLeaf(lines, h, type, w, X)
    BY <1>2 DEF IsLeaf
  <2>2. QED
    <3>1. ReadAsLeaf(lines, h, type, w, X)
      BY <2>1, LeafIs
    <3>2. QED
      BY <3>1 DEF ReadAsLeaf
<1>4. PICK single : single = <<lines>>
  OBVIOUS
<1>5. /\ single \in Seq(Seq(X)) /\ Len(single) = 1 /\ single[1] = lines /\ single # <<>>
      /\ DOMAIN single = 1..1
  BY <1>3, <1>4
<1>6. AreLeaves(<<lines>>, X)
  <2>1. \A k \in 1..1 : single[k] = lines
    BY <1>5
  <2>2. \A k \in 1..Len(single) : Parts(single[k]) = <<single[k]>>
    BY <1>3, <1>5, <2>1
  <2>3. QED
    BY <1>4, <1>5, <2>2 DEF AreLeaves
<1>7. Shown(<<lines>>) = <<<<type, w>>>>
  <2>1. Shown(single) = [k \in 1..1 |-> <<type, w>>]
    <3>1. \A k \in 1..1 : single[k] = lines
      BY <1>5
    <3>2. \A k \in 1..1 : <<TypeOf(single[k]), BodyOf(single[k])>> = <<type, w>>
      BY <1>3, <3>1
    <3>3. QED
      BY <1>5, <3>2 DEF Shown
  <2>2. QED
    BY <1>4, <2>1
<1>8. QED
  BY <1>1, <1>3, <1>6, <1>7

\* Two alternatives.
LEMMA AlternativeReads ==
    ASSUME NEW X, NEW m, Furnished(X, m), Unmarked(m), NEW h \in Seq(X), OnlyHeaders(h),
           m.text # <<>>, m.html # <<>>, NEW lines, lines = h \o Content(m)
    PROVE  /\ lines \in Seq(X)
           /\ HeadersOf(lines) = ToSet(h) \cup {Header("Multipart", "alternative")}
           /\ AreLeaves(Parts(lines), X)
           /\ Shown(Parts(lines)) = <<<<"plain", m.text>>, <<"html", m.html>>>>
           /\ Content(m) \in Seq(X) /\ Free(Content(m), Marks("mixed"))
<1>1. PICK p \in Seq(X) : p = Part("plain", m.text)
  BY PartIs DEF Furnished, Unmarked
<1>2. PICK q \in Seq(X) : q = Part("html", m.html)
  BY PartIs DEF Furnished, Unmarked
<1>3. FreeOfMarks(p) /\ FreeOfMarks(q)
  BY <1>1, <1>2, PartIs DEF Furnished, Unmarked
<1>4. /\ Delimiter("alternative") \in X /\ FinalDelimiter("alternative") \in X
      /\ Header("Multipart", "alternative") \in X /\ Blank \in X
  BY DEF Furnished, Marks
<1>5. \A x \in X : <<x>> \in Seq(X)
  OBVIOUS
<1>6. PICK d \in Seq(X) : d = <<Delimiter("alternative")>>
  BY <1>4, <1>5
<1>7. PICK f \in Seq(X) : f = <<FinalDelimiter("alternative")>>
  BY <1>4, <1>5
<1>8. PICK a \in Seq(X) : a = Multipart("alternative")
  <2>1. \A x, y \in X : <<x, y>> \in Seq(X)
    OBVIOUS
  <2>2. QED
    BY <1>4, <2>1 DEF Multipart
<1>9. PICK g \in Seq(X) : g = (d \o p) \o (d \o q)
  <2>1. \A u, v \in Seq(X) : u \o v \in Seq(X)
    BY ConcatProperties
  <2>2. QED
    BY <2>1
<1>10. Content(m) = Six(a, d, p, q, f)
  BY <1>1, <1>2, <1>6, <1>7, <1>8 DEF Content, Six
<1>11. Content(m) = a \o (g \o f)
  <2>1. RightOf(Six(a, d, p, q, f), a, ((d \o p) \o (d \o q)) \o f)
    BY RegroupSix
  <2>2. QED
    BY <1>9, <1>10, <2>1 DEF RightOf
<1>12. PICK parts : parts = <<p, q>>
  OBVIOUS
<1>13. /\ parts \in Seq(Seq(X)) /\ Len(parts) = 2 /\ parts # <<>> /\ parts[1] = p /\ parts[2] = q
       /\ DOMAIN parts = 1..2 /\ parts \in [1..2 -> Seq(X)]
  BY <1>12
<1>14. g = Together("alternative", 2, parts)
  <2>1. PICK s : s = [k \in 1..2 |-> <<Delimiter("alternative")>> \o parts[k]]
    OBVIOUS
  <2>2. s[1] = d \o p /\ s[2] = d \o q
    <3>1. 1 \in 1..2 /\ 2 \in 1..2
      OBVIOUS
    <3>2. s[1] = <<Delimiter("alternative")>> \o parts[1] /\ s[2] = <<Delimiter("alternative")>> \o parts[2]
      BY <2>1, <3>1
    <3>3. QED
      BY <1>6, <1>13, <3>2
  <2>3. Len(s) = 2
    <3>1. PICK n \in Nat : n = 2
      OBVIOUS
    <3>2. PICK S : S = {s[k] : k \in 1..n}
      OBVIOUS
    <3>3. s \in [1..n -> S] /\ DOMAIN s = 1..n
      BY <2>1, <3>1, <3>2
    <3>4. s \in Seq(S)
      BY <3>3, SeqDef
    <3>5. QED
      BY <3>4, <3>1, <3>3, LenProperties
  <2>4. FlattenSeq(s) = s[1] \o s[2]
    BY <2>3, FlatPair
  <2>5. QED
    BY <1>9, <2>1, <2>2, <2>4 DEF Together
<1>15. /\ lines \in Seq(X)
       /\ HeadersOf(lines) = ToSet(h) \cup {Header("Multipart", "alternative")}
       /\ Parts(lines) = parts
  <2>1. lines = h \o (Multipart("alternative") \o (g \o <<FinalDelimiter("alternative")>>))
    BY <1>7, <1>8, <1>11
  <2>2. \A k \in 1..2 : Free(parts[k], Marks("alternative"))
    BY <1>3, <1>13 DEF FreeOfMarks
  <2>3. PICK n \in Nat \ {0} : n = 2
    OBVIOUS
  <2>4. /\ parts \in [1..n -> Seq(X)] /\ g = Together("alternative", n, parts)
        /\ \A k \in 1..n : Free(parts[k], Marks("alternative"))
    BY <1>13, <1>14, <2>2, <2>3
  <2>5. IsMultipart(lines, h, "alternative", n, parts, g, X)
    BY <2>1, <2>4 DEF IsMultipart, Furnished
  <2>6. QED
    <3>1. ReadAsParts(lines, h, "alternative", parts, X)
      BY <2>5, MultipartIs
    <3>2. QED
      BY <3>1 DEF ReadAsParts
<1>16. <<>> \in Seq(X) /\ OnlyHeaders(<<>>) /\ \A u \in Seq(X) : <<>> \o u = u
  BY ConcatEmptySeq DEF OnlyHeaders
<1>17. AreLeaves(<<p>>, X) /\ Shown(<<p>>) = <<<<"plain", m.text>>>> /\ Parts(p) = <<p>>
  <2>1. p = <<>> \o Part("plain", m.text)
    BY <1>1, <1>16
  <2>2. Written(m.text) = m.text
    BY DEF Written
  <2>3. AreLeaves(Parts(p), X) /\ Shown(Parts(p)) = <<<<"plain", Written(m.text)>>>>
    <3>1. IsSingle(p, <<>>, "plain", m.text, X)
      BY <1>16, <2>1 DEF IsSingle, Furnished, Unmarked
    <3>2. QED
      BY <3>1, SingleReads
  <2>4. Parts(p) = <<p>>
    <3>1. p = <<>> \o (<<Header("Content-Type", "plain"), Blank>> \o m.text)
      BY <2>1, <2>2, PartIs DEF Furnished, Unmarked
    <3>2. IsLeaf(p, <<>>, "plain", m.text, X)
      BY <1>16, <3>1 DEF IsLeaf, Furnished
    <3>3. QED
      BY <3>2, LeafIs DEF ReadAsLeaf
  <2>5. QED
    BY <2>2, <2>3, <2>4
<1>18. AreLeaves(<<q>>, X) /\ Shown(<<q>>) = <<<<"html", m.html>>>> /\ Parts(q) = <<q>>
  <2>1. q = <<>> \o Part("html", m.html)
    BY <1>2, <1>16
  <2>2. Written(m.html) = m.html
    BY DEF Written
  <2>3. AreLeaves(Parts(q), X) /\ Shown(Parts(q)) = <<<<"html", Written(m.html)>>>>
    <3>1. IsSingle(q, <<>>, "html", m.html, X)
      BY <1>16, <2>1 DEF IsSingle, Furnished, Unmarked
    <3>2. QED
      BY <3>1, SingleReads
  <2>4. Parts(q) = <<q>>
    <3>1. q = <<>> \o (<<Header("Content-Type", "html"), Blank>> \o m.html)
      BY <2>1, <2>2, PartIs DEF Furnished, Unmarked
    <3>2. IsLeaf(q, <<>>, "html", m.html, X)
      BY <1>16, <3>1 DEF IsLeaf, Furnished
    <3>3. QED
      BY <3>2, LeafIs DEF ReadAsLeaf
  <2>5. QED
    BY <2>2, <2>3, <2>4
<1>19. AreLeaves(parts, X)
  BY <1>13, <1>17, <1>18 DEF AreLeaves
<1>20. Shown(parts) = <<<<"plain", m.text>>, <<"html", m.html>>>>
  <2>1. <<TypeOf(p), BodyOf(p)>> = <<"plain", m.text>> /\ <<TypeOf(q), BodyOf(q)>> = <<"html", m.html>>
    BY <1>17, <1>18 DEF Shown
  <2>2. QED
    BY <1>13, <2>1 DEF Shown
<1>21. Content(m) \in Seq(X) /\ Free(Content(m), Marks("mixed"))
  <2>1. \A u, v \in Seq(X) : u \o v \in Seq(X)
    BY ConcatProperties
  <2>2. \A u, v \in Seq(X) : Free(u, Marks("mixed")) /\ Free(v, Marks("mixed")) => Free(u \o v, Marks("mixed"))
    BY FreeConcat
  <2>3. Free(a, Marks("mixed")) /\ Free(d, Marks("mixed")) /\ Free(f, Marks("mixed"))
    <3>1. Header("Multipart", "alternative") \notin Marks("mixed") /\ Blank \notin Marks("mixed")
      <4>1. "Multipart" # "--"
        OBVIOUS
      <4>2. QED
        BY <4>1, NoMark
    <3>2. QED
      BY <1>6, <1>7, <1>8, <3>1, MarksApart DEF Free, Multipart
  <2>4. Free(p, Marks("mixed")) /\ Free(q, Marks("mixed"))
    BY <1>3 DEF FreeOfMarks
  <2>5. a \o d \in Seq(X) /\ Free(a \o d, Marks("mixed"))
    BY <2>1, <2>2, <2>3
  <2>6. (a \o d) \o p \in Seq(X) /\ Free((a \o d) \o p, Marks("mixed"))
    BY <2>1, <2>2, <2>4, <2>5
  <2>7. ((a \o d) \o p) \o d \in Seq(X) /\ Free(((a \o d) \o p) \o d, Marks("mixed"))
    BY <2>1, <2>2, <2>3, <2>6
  <2>8. (((a \o d) \o p) \o d) \o q \in Seq(X) /\ Free((((a \o d) \o p) \o d) \o q, Marks("mixed"))
    BY <2>1, <2>2, <2>4, <2>7
  <2>9. /\ ((((a \o d) \o p) \o d) \o q) \o f \in Seq(X)
        /\ Free(((((a \o d) \o p) \o d) \o q) \o f, Marks("mixed"))
    BY <2>1, <2>2, <2>3, <2>8
  <2>10. QED
    BY <1>10, <2>9 DEF Six
<1>22. QED
  BY <1>15, <1>19, <1>20, <1>21

\* A text above which the message has its headers, or none.
IsContentText(lines, h, m, X) ==
    /\ Furnished(X, m) /\ Unmarked(m) /\ h \in Seq(X) /\ OnlyHeaders(h)
    /\ lines = h \o Content(m)

ReadAsTexts(lines, h, m, X) ==
    /\ lines \in Seq(X)
    /\ AreLeaves(Parts(lines), X)
    /\ Shown(Parts(lines)) = TextsMeant(m)
    /\ \E name \in {"Content-Type", "Multipart"} :
         \E value : HeadersOf(lines) = ToSet(h) \cup {Header(name, value)}

LEMMA ContentReads ==
    ASSUME NEW X, NEW m, NEW h, NEW lines, IsContentText(lines, h, m, X)
    PROVE  ReadAsTexts(lines, h, m, X)
<1>1. CASE m.text # <<>> /\ m.html # <<>>
  <2>1. /\ lines \in Seq(X) /\ AreLeaves(Parts(lines), X)
        /\ HeadersOf(lines) = ToSet(h) \cup {Header("Multipart", "alternative")}
        /\ Shown(Parts(lines)) = <<<<"plain", m.text>>, <<"html", m.html>>>>
    BY <1>1, AlternativeReads DEF IsContentText
  <2>2. <<<<"plain", m.text>>>> \o <<<<"html", m.html>>>> = <<<<"plain", m.text>>, <<"html", m.html>>>>
    <3>1. PICK x : x = <<"plain", m.text>>
      OBVIOUS
    <3>2. PICK y : y = <<"html", m.html>>
      OBVIOUS
    <3>3. <<y>> = <<y>> \o <<>> /\ <<x, y>> \o <<>> = <<x, y>> /\ <<x, y>> \o <<>> = <<x>> \o (<<y>> \o <<>>)
      <4>1. <<>> \in Seq({x, y}) /\ <<y>> \in Seq({x, y}) /\ <<x, y>> \in Seq({x, y})
        OBVIOUS
      <4>2. <<y>> \o <<>> = <<y>> /\ <<x, y>> \o <<>> = <<x, y>>
        BY <4>1, ConcatEmptySeq
      <4>3. <<x, y>> \o <<>> = <<x>> \o (<<y>> \o <<>>)
        BY <4>1, LinesInFront
      <4>4. QED
        BY <4>2, <4>3
    <3>4. QED
      BY <3>1, <3>2, <3>3
  <2>3. TextsMeant(m) = <<<<"plain", m.text>>, <<"html", m.html>>>>
    BY <1>1, <2>2 DEF TextsMeant
  <2>4. QED
    BY <2>1, <2>3 DEF ReadAsTexts
<1>2. CASE ~ (m.text # <<>> /\ m.html # <<>>)
  <2>1. PICK type \in {"plain", "html"}, u \in {m.text, m.html} :
          /\ Content(m) = Part(type, u)
          /\ TextsMeant(m) = <<<<type, Written(u)>>>>
    <3>1. \A x : <<x>> \o <<>> = <<x>> /\ <<>> \o <<x>> = <<x>>
      <4>1. SUFFICES ASSUME NEW x PROVE <<x>> \o <<>> = <<x>> /\ <<>> \o <<x>> = <<x>>
        OBVIOUS
      <4>2. <<x>> \in Seq({x})
        OBVIOUS
      <4>3. QED
        BY <4>2, ConcatEmptySeq
    <3>2. CASE m.html # <<>>
      <4>1. m.text = <<>>
        BY <1>2, <3>2
      <4>2. Content(m) = Part("html", m.html) /\ Written(m.html) = m.html
        BY <3>2, <4>1 DEF Content, Written
      <4>3. TextsMeant(m) = <<>> \o <<<<"html", m.html>>>>
        BY <3>2, <4>1 DEF TextsMeant
      <4>4. QED
        BY <3>1, <4>2, <4>3
    <3>3. CASE m.html = <<>>
      <4>1. Content(m) = Part("plain", m.text)
        BY <3>3 DEF Content
      <4>2. TextsMeant(m) = <<<<"plain", Written(m.text)>>>> \o <<>>
        BY <3>3 DEF TextsMeant, Written
      <4>3. QED
        BY <3>1, <4>1, <4>2
    <3>4. QED
      BY <3>2, <3>3
  <2>2. IsSingle(lines, h, type, u, X)
    BY <2>1 DEF IsSingle, IsContentText, Furnished, Unmarked
  <2>3. /\ lines \in Seq(X) /\ AreLeaves(Parts(lines), X)
        /\ HeadersOf(lines) = ToSet(h) \cup {Header("Content-Type", type)}
        /\ Shown(Parts(lines)) = <<<<type, Written(u)>>>>
    BY <2>2, SingleReads
  <2>4. QED
    BY <2>1, <2>3 DEF ReadAsTexts
<1>3. QED
  BY <1>1, <1>2

LEMMA ContentIs ==
    ASSUME NEW X, NEW m, Furnished(X, m), Unmarked(m)
    PROVE  /\ Content(m) \in Seq(X) /\ Free(Content(m), Marks("mixed"))
           /\ ReadAsTexts(Content(m), <<>>, m, X)
<1>1. <<>> \in Seq(X) /\ OnlyHeaders(<<>>) /\ \A u \in Seq(X) : <<>> \o u = u
  BY ConcatEmptySeq DEF OnlyHeaders
<1>2. Content(m) \in Seq(X) /\ Free(Content(m), Marks("mixed"))
  <2>1. CASE m.text # <<>> /\ m.html # <<>>
    <3>1. PICK lines : lines = <<>> \o Content(m)
      OBVIOUS
    <3>2. QED
      BY <1>1, <2>1, <3>1, AlternativeReads
  <2>2. CASE ~ (m.text # <<>> /\ m.html # <<>>)
    <3>1. PICK type \in {"plain", "html"}, u \in {m.text, m.html} : Content(m) = Part(type, u)
      BY <2>2 DEF Content
    <3>2. /\ Blank \in X /\ Header("Content-Type", type) \in X /\ u \in Seq(X) /\ FreeOfMarks(u)
      BY DEF Furnished, Unmarked
    <3>3. Part(type, u) \in Seq(X) /\ FreeOfMarks(Part(type, u))
      BY <3>2, PartIs
    <3>4. QED
      BY <3>1, <3>3 DEF FreeOfMarks
  <2>3. QED
    BY <2>1, <2>2
<1>3. IsContentText(Content(m), <<>>, m, X)
  BY <1>1, <1>2 DEF IsContentText
<1>4. QED
  BY <1>2, <1>3, ContentReads

\* What has only leaves has no other leaves.
LEMMA LeavesAre ==
    ASSUME NEW X, NEW lines, AreLeaves(Parts(lines), X)
    PROVE  Leaves(lines) = Parts(lines)
<1>1. PICK P \in Seq(Seq(X)) : P = Parts(lines)
  BY DEF AreLeaves
<1>2. DOMAIN P = 1..Len(P)
  BY LenProperties
<1>3. [k \in DOMAIN P |-> Parts(P[k])] = Singles(P)
  BY <1>1, <1>2 DEF AreLeaves, Singles
<1>4. FlattenSeq(Singles(P)) = P
  BY FlatSingles
<1>5. QED
  BY <1>1, <1>3, <1>4 DEF Leaves

LEMMA ShownConcat ==
    ASSUME NEW Y, NEW u \in Seq(Y), NEW v \in Seq(Y)
    PROVE  /\ Shown(u \o v) = Shown(u) \o Shown(v)
           /\ Shown(u) \in Seq({<<TypeOf(x), BodyOf(x)>> : x \in Y})
           /\ Len(Shown(u)) = Len(u)
<1>1. PICK Z : Z = {<<TypeOf(x), BodyOf(x)>> : x \in Y}
  OBVIOUS
<1>2. ASSUME NEW w \in Seq(Y)
      PROVE  /\ Shown(w) \in Seq(Z) /\ Len(Shown(w)) = Len(w)
             /\ \A i \in 1..Len(w) : Shown(w)[i] = <<TypeOf(w[i]), BodyOf(w[i])>>
  <2>1. PICK n \in Nat : n = Len(w)
    BY LenProperties
  <2>2. DOMAIN w = 1..n /\ \A i \in 1..n : w[i] \in Y
    BY <2>1, LenProperties, ElementOfSeq
  <2>3. Shown(w) = [k \in 1..n |-> <<TypeOf(w[k]), BodyOf(w[k])>>]
    BY <2>2 DEF Shown
  <2>4. PICK s : s = Shown(w)
    OBVIOUS
  <2>5. \A i \in 1..n : s[i] = <<TypeOf(w[i]), BodyOf(w[i])>> /\ s[i] \in Z
    BY <1>1, <2>2, <2>3, <2>4
  <2>6. s \in [1..n -> Z] /\ DOMAIN s = 1..n
    BY <2>3, <2>4, <2>5
  <2>7. s \in Seq(Z)
    BY <2>6, SeqDef
  <2>8. Len(s) = n
    BY <2>1, <2>6, <2>7, LenProperties
  <2>9. QED
    BY <2>1, <2>4, <2>5, <2>7, <2>8
<1>3. PICK a \in Seq(Z) : a = Shown(u)
  BY <1>2
<1>4. PICK b \in Seq(Z) : b = Shown(v)
  BY <1>2
<1>5. PICK w \in Seq(Y) : w = u \o v
  BY ConcatProperties
<1>6. PICK c \in Seq(Z) : c = Shown(w)
  BY <1>2
<1>7. PICK n \in Nat : n = Len(u)
  BY LenProperties
<1>8. PICK m \in Nat : m = Len(v)
  BY LenProperties
<1>9. Len(w) = n + m /\ \A i \in 1..(n + m) : w[i] = IF i <= n THEN u[i] ELSE v[i - n]
  BY <1>5, <1>7, <1>8, ConcatProperties
<1>10. PICK d \in Seq(Z) : d = a \o b
  BY ConcatProperties
<1>11. Len(a) = n /\ Len(b) = m
  BY <1>2, <1>3, <1>4, <1>7, <1>8
<1>12. Len(d) = n + m /\ \A i \in 1..(n + m) : d[i] = IF i <= n THEN a[i] ELSE b[i - n]
  BY <1>10, <1>11, ConcatProperties
<1>13. Len(c) = n + m /\ \A i \in 1..(n + m) : c[i] = <<TypeOf(w[i]), BodyOf(w[i])>>
  BY <1>2, <1>6, <1>9
<1>14. ASSUME NEW i \in 1..(n + m) PROVE c[i] = d[i]
  <2>1. CASE i <= n
    <3>1. i \in 1..n /\ w[i] = u[i] /\ d[i] = a[i]
      BY <1>9, <1>12, <2>1
    <3>2. a[i] = <<TypeOf(u[i]), BodyOf(u[i])>>
      BY <1>2, <1>3, <1>7, <3>1
    <3>3. QED
      BY <1>13, <3>1, <3>2
  <2>2. CASE ~ (i <= n)
    <3>1. PICK j \in Nat : j = i - n
      BY <2>2
    <3>2. j \in 1..m /\ w[i] = v[j] /\ d[i] = b[j]
      BY <1>9, <1>12, <2>2, <3>1
    <3>3. b[j] = <<TypeOf(v[j]), BodyOf(v[j])>>
      BY <1>2, <1>4, <1>8, <3>2
    <3>4. QED
      BY <1>13, <3>2, <3>3
  <2>3. QED
    BY <2>1, <2>2
<1>15. c = d
  BY <1>12, <1>13, <1>14, SeqEqual
<1>16. QED
  BY <1>1, <1>2, <1>3, <1>4, <1>5, <1>6, <1>10, <1>15

\* A sequence with one element in front, element by element.
LEMMA ConsIs ==
    ASSUME NEW Y, NEW e \in Y, NEW s \in Seq(Y), NEW n \in Nat, Len(s) = n,
           NEW w \in [1..(n + 1) -> Y], w[1] = e, \A i \in 1..n : w[i + 1] = s[i]
    PROVE  w = <<e>> \o s /\ w \in Seq(Y) /\ Len(w) = n + 1
<1>1. w \in Seq(Y) /\ Len(w) = n + 1
  <2>1. PICK p \in Nat : p = n + 1
    OBVIOUS
  <2>2. w \in [1..p -> Y] /\ DOMAIN w = 1..p
    BY <2>1
  <2>3. w \in Seq(Y)
    BY <2>2, SeqDef
  <2>4. QED
    BY <2>1, <2>2, <2>3, LenProperties
<1>2. PICK t : t = <<e>> \o s
  OBVIOUS
<1>3. t \in Seq(Y) /\ Len(t) = n + 1 /\ t[1] = e /\ \A i \in 1..n : t[i + 1] = s[i]
  BY <1>2, InFront
<1>4. ASSUME NEW i \in 1..(n + 1) PROVE w[i] = t[i]
  <2>1. CASE i = 1
    BY <1>3, <2>1
  <2>2. CASE i # 1
    <3>1. PICK j \in Nat : j = i - 1
      OBVIOUS
    <3>2. j \in 1..n /\ i = j + 1
      BY <2>2, <3>1
    <3>3. QED
      BY <1>3, <3>2
  <2>3. QED
    BY <2>1, <2>2
<1>5. w = t
  BY <1>1, <1>3, <1>4, SeqEqual
<1>6. QED
  BY <1>1, <1>2, <1>5

\* The text of a file below its boundary.
Filed(f) == <<Header("Content-Type", "file"), Blank>> \o f
Rests(m) == [k \in 1..Len(m.files) |-> Filed(m.files[k])]

ReadAsFiles(m, X) ==
    /\ Rests(m) \in Seq(Seq(X)) /\ Len(Rests(m)) = Len(m.files)
    /\ \A k \in 1..Len(m.files) :
         /\ Rests(m)[k] \in Seq(X)
         /\ Free(Rests(m)[k], Marks("mixed"))
         /\ Parts(Rests(m)[k]) = <<Rests(m)[k]>>
         /\ File(m.files[k]) = <<Delimiter("mixed")>> \o Rests(m)[k]
    /\ Shown(Rests(m)) = FilesMeant(m)

LEMMA FilesAre ==
    ASSUME NEW X, NEW m, Furnished(X, m), Unmarked(m)
    PROVE  ReadAsFiles(m, X)
<1>1. /\ m.files \in Seq(Seq(X)) /\ Blank \in X /\ Header("Content-Type", "file") \in X
      /\ Delimiter("mixed") \in X
  BY DEF Furnished, Marks
<1>2. PICK n \in Nat : n = Len(m.files)
  BY <1>1, LenProperties
<1>3. DOMAIN m.files = 1..n /\ \A k \in 1..n : m.files[k] \in Seq(X)
  BY <1>1, <1>2, LenProperties, ElementOfSeq
<1>4. <<>> \in Seq(X) /\ OnlyHeaders(<<>>) /\ \A u \in Seq(X) : <<>> \o u = u
  BY ConcatEmptySeq DEF OnlyHeaders
<1>5. ASSUME NEW k \in 1..n
      PROVE  /\ Filed(m.files[k]) \in Seq(X)
             /\ Free(Filed(m.files[k]), Marks("mixed"))
             /\ Parts(Filed(m.files[k])) = <<Filed(m.files[k])>>
             /\ File(m.files[k]) = <<Delimiter("mixed")>> \o Filed(m.files[k])
             /\ TypeOf(Filed(m.files[k])) = "file" /\ BodyOf(Filed(m.files[k])) = m.files[k]
  <2>1. PICK f \in Seq(X) : f = m.files[k]
    BY <1>3
  <2>2. PICK e \in X : e = Header("Content-Type", "file")
    BY <1>1
  <2>3. <<e, Blank>> \in Seq(X)
    BY <1>1
  <2>4. PICK u \in Seq(X) : u = Filed(f)
    BY <2>2, <2>3, ConcatProperties DEF Filed
  <2>5. u = <<>> \o (<<Header("Content-Type", "file"), Blank>> \o f)
    BY <1>4, <2>4 DEF Filed
  <2>6. IsLeaf(u, <<>>, "file", f, X)
    BY <1>1, <1>4, <2>5 DEF IsLeaf
  <2>7. ReadAsLeaf(u, <<>>, "file", f, X)
    BY <2>6, LeafIs
  <2>8. Parts(u) = <<u>> /\ TypeOf(u) = "file" /\ BodyOf(u) = f
    BY <2>7 DEF ReadAsLeaf
  <2>9. Free(u, Marks("mixed"))
    <3>1. Free(f, Marks("mixed"))
      BY <1>2, <2>1 DEF Unmarked, FreeOfMarks
    <3>2. e \notin Marks("mixed") /\ Blank \notin Marks("mixed")
      BY <2>2, NoMark
    <3>3. Len(<<e, Blank>>) = 2 /\ <<e, Blank>>[1] = e /\ <<e, Blank>>[2] = Blank
      OBVIOUS
    <3>4. Free(<<e, Blank>>, Marks("mixed"))
      BY <3>2, <3>3 DEF Free
    <3>5. \A v, w \in Seq(X) :
            Free(v, Marks("mixed")) /\ Free(w, Marks("mixed")) => Free(v \o w, Marks("mixed"))
      BY FreeConcat
    <3>6. Free(<<e, Blank>> \o f, Marks("mixed"))
      BY <2>3, <3>1, <3>4, <3>5
    <3>7. QED
      BY <2>2, <2>4, <3>6 DEF Filed
  <2>10. File(f) = <<Delimiter("mixed")>> \o u
    <3>1. \A d \in X : <<d, e, Blank>> \o f = <<d>> \o (<<e, Blank>> \o f)
      BY <1>1, LinesInFront
    <3>2. QED
      BY <1>1, <2>2, <2>4, <3>1 DEF File, Filed
  <2>11. QED
    BY <2>1, <2>4, <2>8, <2>9, <2>10
<1>6. PICK r : r = Rests(m)
  OBVIOUS
<1>7. r \in [1..n -> Seq(X)] /\ DOMAIN r = 1..n /\ \A k \in 1..n : r[k] = Filed(m.files[k])
  <2>1. r = [k \in 1..n |-> Filed(m.files[k])]
    BY <1>2, <1>6 DEF Rests
  <2>2. QED
    BY <1>5, <2>1
<1>8. r \in Seq(Seq(X)) /\ Len(r) = n
  <2>1. r \in Seq(Seq(X))
    BY <1>7, SeqDef
  <2>2. QED
    BY <1>7, <2>1, LenProperties
<1>9. Shown(r) = FilesMeant(m)
  <2>1. Shown(r) = [k \in 1..n |-> <<TypeOf(r[k]), BodyOf(r[k])>>]
    BY <1>7 DEF Shown
  <2>2. FilesMeant(m) = [k \in 1..n |-> <<"file", m.files[k]>>]
    BY <1>3 DEF FilesMeant
  <2>3. \A k \in 1..n : <<TypeOf(r[k]), BodyOf(r[k])>> = <<"file", m.files[k]>>
    BY <1>5, <1>7
  <2>4. QED
    BY <2>1, <2>2, <2>3
<1>10. \A k \in 1..Len(m.files) :
         /\ r[k] \in Seq(X) /\ Free(r[k], Marks("mixed")) /\ Parts(r[k]) = <<r[k]>>
         /\ File(m.files[k]) = <<Delimiter("mixed")>> \o r[k]
  BY <1>2, <1>5, <1>7
<1>11. QED
  BY <1>2, <1>6, <1>8, <1>9, <1>10 DEF ReadAsFiles

\* A text above which the message has its headers, followed by its files.
IsFiled(lines, h, m, X) ==
    /\ Furnished(X, m) /\ Unmarked(m) /\ m.files # <<>> /\ h \in Seq(X) /\ OnlyHeaders(h)
    /\ lines = h \o (Multipart("mixed") \o <<Delimiter("mixed")>> \o Content(m)
                        \o FlattenSeq([k \in DOMAIN m.files |-> File(m.files[k])])
                        \o <<FinalDelimiter("mixed")>>)

\* The parts of it: the texts, and the files.
PartsMeant(m) == <<Content(m)>> \o Rests(m)

PartsAreMeant(m, n, X) ==
    /\ PartsMeant(m) \in [1..n -> Seq(X)] /\ PartsMeant(m) \in Seq(Seq(X)) /\ Len(PartsMeant(m)) = n
    /\ n = Len(m.files) + 1
    /\ PartsMeant(m)[1] = Content(m)
    /\ \A i \in 1..Len(m.files) : PartsMeant(m)[i + 1] = Rests(m)[i]
    /\ \A k \in 1..n : Free(PartsMeant(m)[k], Marks("mixed"))

LEMMA PartsMeantAre ==
    ASSUME NEW X, NEW m, Furnished(X, m), Unmarked(m)
    PROVE  \E n \in Nat \ {0} : PartsAreMeant(m, n, X)
<1>1. ReadAsFiles(m, X)
  BY FilesAre
<1>2. Content(m) \in Seq(X) /\ Free(Content(m), Marks("mixed"))
  BY ContentIs
<1>3. PICK c \in Seq(X) : c = Content(m)
  BY <1>2
<1>4. PICK r \in Seq(Seq(X)) : r = Rests(m)
  BY <1>1 DEF ReadAsFiles
<1>5. PICK n \in Nat : n = Len(m.files) /\ n = Len(r)
  BY <1>1, <1>4, LenProperties DEF ReadAsFiles
<1>6. PICK parts : parts = <<c>> \o r
  OBVIOUS
<1>7. /\ parts \in Seq(Seq(X)) /\ Len(parts) = n + 1 /\ parts[1] = c
      /\ \A i \in 1..n : parts[i + 1] = r[i]
  BY <1>5, <1>6, InFront
<1>8. parts \in [1..(n + 1) -> Seq(X)]
  BY <1>7, LenProperties
<1>9. ASSUME NEW k \in 1..(n + 1) PROVE Free(parts[k], Marks("mixed"))
  <2>1. CASE k = 1
    BY <1>2, <1>3, <1>7, <2>1
  <2>2. CASE k # 1
    <3>1. PICK j \in Nat : j = k - 1
      OBVIOUS
    <3>2. j \in 1..n /\ k = j + 1
      BY <2>2, <3>1
    <3>3. Free(r[j], Marks("mixed"))
      BY <1>1, <1>4, <1>5, <3>2 DEF ReadAsFiles
    <3>4. QED
      BY <1>7, <3>2, <3>3
  <2>3. QED
    BY <2>1, <2>2
<1>10. PICK p \in Nat \ {0} : p = n + 1
  OBVIOUS
<1>11. parts = PartsMeant(m)
  BY <1>3, <1>4, <1>6 DEF PartsMeant
<1>12. PartsAreMeant(m, p, X)
  BY <1>3, <1>4, <1>5, <1>7, <1>8, <1>9, <1>10, <1>11 DEF PartsAreMeant
<1>13. QED
  BY <1>12

\* They are joined to what the builder writes.
LEMMA FilesTogether ==
    ASSUME NEW X, NEW m, Furnished(X, m), Unmarked(m), NEW n \in Nat \ {0}, PartsAreMeant(m, n, X)
    PROVE  /\ FlattenSeq([k \in DOMAIN m.files |-> File(m.files[k])]) \in Seq(X)
           /\ Together("mixed", n, PartsMeant(m)) =
                (<<Delimiter("mixed")>> \o Content(m))
                    \o FlattenSeq([k \in DOMAIN m.files |-> File(m.files[k])])
<1>1. ReadAsFiles(m, X)
  BY FilesAre
<1>2. Delimiter("mixed") \in X /\ m.files \in Seq(Seq(X))
  BY DEF Furnished, Marks
<1>3. PICK d \in Seq(X) : d = <<Delimiter("mixed")>>
  <2>1. \A x \in X : <<x>> \in Seq(X)
    OBVIOUS
  <2>2. QED
    BY <1>2, <2>1
<1>4. PICK q \in Nat : q = Len(m.files)
  BY <1>2, LenProperties
<1>5. DOMAIN m.files = 1..q /\ n = q + 1
  BY <1>2, <1>4, LenProperties DEF PartsAreMeant
<1>6. PICK e \in Seq(X) : e = d \o Content(m)
  BY ContentIs, ConcatProperties
<1>7. PICK s : s = [k \in DOMAIN m.files |-> File(m.files[k])]
  OBVIOUS
<1>8. PICK parts : parts = PartsMeant(m)
  OBVIOUS
<1>9. /\ parts \in [1..(q + 1) -> Seq(X)] /\ parts[1] = Content(m)
      /\ \A i \in 1..q : parts[i + 1] = Rests(m)[i]
  BY <1>4, <1>5, <1>8 DEF PartsAreMeant
<1>10. \A i \in 1..q : s[i] = d \o Rests(m)[i] /\ s[i] \in Seq(X)
  <2>1. \A i \in 1..q : s[i] = d \o Rests(m)[i] /\ Rests(m)[i] \in Seq(X)
    BY <1>1, <1>3, <1>4, <1>5, <1>7 DEF ReadAsFiles
  <2>2. \A u \in Seq(X) : d \o u \in Seq(X)
    BY ConcatProperties
  <2>3. QED
    BY <2>1, <2>2
<1>11. s \in Seq(Seq(X)) /\ Len(s) = q
  <2>1. s \in [1..q -> Seq(X)] /\ DOMAIN s = 1..q
    BY <1>5, <1>7, <1>10
  <2>2. s \in Seq(Seq(X))
    BY <2>1, SeqDef
  <2>3. QED
    BY <2>1, <2>2, LenProperties
<1>12. PICK w : w = [k \in 1..(q + 1) |-> d \o parts[k]]
  OBVIOUS
<1>13. w \in [1..(q + 1) -> Seq(X)]
  <2>1. \A u \in Seq(X) : d \o u \in Seq(X)
    BY ConcatProperties
  <2>2. QED
    BY <1>9, <1>12, <2>1
<1>14. w[1] = e
  <2>1. 1 \in 1..(q + 1)
    OBVIOUS
  <2>2. QED
    BY <1>6, <1>9, <1>12, <2>1
<1>15. ASSUME NEW i \in 1..q PROVE w[i + 1] = s[i]
  <2>1. i + 1 \in 1..(q + 1)
    OBVIOUS
  <2>2. w[i + 1] = d \o Rests(m)[i]
    BY <1>9, <1>12, <2>1
  <2>3. QED
    BY <1>10, <2>2
<1>16. w = <<e>> \o s
  BY <1>11, <1>13, <1>14, <1>15, ConsIs
<1>17. FlattenSeq(w) = e \o FlattenSeq(s)
  BY <1>11, <1>16, FlatCons
<1>18. Together("mixed", n, parts) = FlattenSeq(w)
  BY <1>3, <1>5, <1>12 DEF Together
<1>19. FlattenSeq(s) \in Seq(X)
  BY <1>11, FlatSeq
<1>20. QED
  BY <1>3, <1>6, <1>7, <1>8, <1>17, <1>18, <1>19

\* The reader finds the parts, and in them the texts and the files.
LEMMA FiledParts ==
    ASSUME NEW X, NEW h, NEW m, NEW lines, IsFiled(lines, h, m, X)
    PROVE  ReadAsParts(lines, h, "mixed", PartsMeant(m), X)
<1> /\ Furnished(X, m) /\ Unmarked(m) /\ h \in Seq(X) /\ OnlyHeaders(h)
  BY DEF IsFiled
<1>1. PICK n \in Nat \ {0} : PartsAreMeant(m, n, X)
  BY PartsMeantAre
<1>2. /\ Delimiter("mixed") \in X /\ FinalDelimiter("mixed") \in X
      /\ Header("Multipart", "mixed") \in X /\ Blank \in X
  BY DEF Furnished, Marks
<1>3. \A x \in X : <<x>> \in Seq(X)
  OBVIOUS
<1>4. PICK d \in Seq(X) : d = <<Delimiter("mixed")>>
  BY <1>2, <1>3
<1>5. PICK f \in Seq(X) : f = <<FinalDelimiter("mixed")>>
  BY <1>2, <1>3
<1>6. PICK a \in Seq(X) : a = Multipart("mixed")
  <2>1. \A x, y \in X : <<x, y>> \in Seq(X)
    OBVIOUS
  <2>2. QED
    BY <1>2, <2>1 DEF Multipart
<1>7. PICK c \in Seq(X) : c = Content(m)
  BY ContentIs
<1>8. PICK q \in Seq(X) : q = FlattenSeq([k \in DOMAIN m.files |-> File(m.files[k])])
  BY <1>1, FilesTogether
<1>9. PICK g \in Seq(X) : g = (d \o c) \o q
  <2>1. \A u, v \in Seq(X) : u \o v \in Seq(X)
    BY ConcatProperties
  <2>2. QED
    BY <2>1
<1>10. lines = h \o Five(a, d, c, q, f)
  BY <1>4, <1>5, <1>6, <1>7, <1>8 DEF IsFiled, Five
<1>11. lines = h \o (a \o (g \o f))
  <2>1. RightOf(Five(a, d, c, q, f), a, ((d \o c) \o q) \o f)
    BY RegroupFive
  <2>2. QED
    BY <1>9, <1>10, <2>1 DEF RightOf
<1>12. g = Together("mixed", n, PartsMeant(m))
  BY <1>1, <1>4, <1>7, <1>8, <1>9, FilesTogether
<1>13. IsMultipart(lines, h, "mixed", n, PartsMeant(m), g, X)
  <2>1. lines = h \o (Multipart("mixed") \o (g \o <<FinalDelimiter("mixed")>>))
    BY <1>5, <1>6, <1>11
  <2>2. /\ PartsMeant(m) \in [1..n -> Seq(X)]
        /\ \A k \in 1..n : Free(PartsMeant(m)[k], Marks("mixed"))
    BY <1>1 DEF PartsAreMeant
  <2>3. QED
    BY <1>12, <2>1, <2>2 DEF IsMultipart, Furnished
<1>14. QED
  BY <1>13, MultipartIs

LEMMA FilesRead ==
    ASSUME NEW X, NEW h, NEW m, NEW lines, IsFiled(lines, h, m, X)
    PROVE  /\ lines \in Seq(X)
           /\ HeadersOf(lines) = ToSet(h) \cup {Header("Multipart", "mixed")}
           /\ Leaves(lines) = Parts(Content(m)) \o Rests(m)
           /\ Shown(Leaves(lines)) = TextsMeant(m) \o FilesMeant(m)
<1> /\ Furnished(X, m) /\ Unmarked(m)
  BY DEF IsFiled
<1>1. ReadAsParts(lines, h, "mixed", PartsMeant(m), X)
  BY FiledParts
<1>2. PICK n \in Nat \ {0} : PartsAreMeant(m, n, X)
  BY PartsMeantAre
<1>3. ReadAsFiles(m, X)
  BY FilesAre
<1>4. ReadAsTexts(Content(m), <<>>, m, X)
  BY ContentIs
<1>5. PICK parts \in Seq(Seq(X)) : parts = PartsMeant(m)
  BY <1>2 DEF PartsAreMeant
<1>6. PICK e \in Seq(Seq(X)) : e = Parts(Content(m))
  BY <1>4 DEF ReadAsTexts, AreLeaves
<1>7. PICK r \in Seq(Seq(X)) : r = Rests(m)
  BY <1>3 DEF ReadAsFiles
<1>8. PICK q \in Nat : q = Len(r) /\ q = Len(m.files)
  BY <1>3, <1>7, LenProperties DEF ReadAsFiles
<1>9. n = q + 1 /\ DOMAIN parts = 1..(q + 1)
  <2>1. n = q + 1 /\ Len(parts) = n
    BY <1>2, <1>5, <1>8 DEF PartsAreMeant
  <2>2. QED
    BY <2>1, LenProperties
<1>10. PICK s : s = Singles(r)
  OBVIOUS
<1>11. \A i \in 1..q : s[i] = <<r[i]>> /\ s[i] \in Seq(Seq(X))
  <2>1. \A i \in 1..q : r[i] \in Seq(X)
    BY <1>8, ElementOfSeq
  <2>2. \A x \in Seq(X) : <<x>> \in Seq(Seq(X))
    OBVIOUS
  <2>3. \A i \in 1..q : s[i] = <<r[i]>>
    BY <1>8, <1>10 DEF Singles
  <2>4. QED
    BY <2>1, <2>2, <2>3
<1>12. s \in Seq(Seq(Seq(X))) /\ Len(s) = q
  <2>1. s \in [1..q -> Seq(Seq(X))] /\ DOMAIN s = 1..q
    BY <1>8, <1>10, <1>11 DEF Singles
  <2>2. s \in Seq(Seq(Seq(X)))
    BY <2>1, SeqDef
  <2>3. QED
    BY <2>1, <2>2, LenProperties
<1>13. PICK w : w = [k \in 1..(q + 1) |-> Parts(parts[k])]
  OBVIOUS
<1>14. w[1] = e
  <2>1. 1 \in 1..(q + 1)
    OBVIOUS
  <2>2. parts[1] = Content(m)
    BY <1>2, <1>5 DEF PartsAreMeant
  <2>3. QED
    BY <1>6, <1>13, <2>1, <2>2
<1>15. ASSUME NEW i \in 1..q PROVE i + 1 \in 1..(q + 1) /\ w[i + 1] = s[i]
  <2>1. i + 1 \in 1..(q + 1)
    OBVIOUS
  <2>2. parts[i + 1] = r[i]
    BY <1>2, <1>5, <1>7, <1>8 DEF PartsAreMeant
  <2>3. Parts(r[i]) = <<r[i]>>
    BY <1>3, <1>7, <1>8 DEF ReadAsFiles
  <2>4. QED
    BY <1>11, <1>13, <2>1, <2>2, <2>3
<1>16. w \in [1..(q + 1) -> Seq(Seq(X))]
  <2>1. ASSUME NEW k \in 1..(q + 1) PROVE w[k] \in Seq(Seq(X))
    <3>1. CASE k = 1
      BY <1>14, <3>1
    <3>2. CASE k # 1
      <4>1. PICK j \in Nat : j = k - 1
        OBVIOUS
      <4>2. j \in 1..q /\ k = j + 1
        BY <3>2, <4>1
      <4>3. QED
        BY <1>11, <1>15, <4>2
    <3>3. QED
      BY <3>1, <3>2
  <2>2. QED
    BY <1>13, <2>1
<1>17. w = <<e>> \o s
  BY <1>12, <1>14, <1>15, <1>16, ConsIs
<1>18. FlattenSeq(w) = e \o FlattenSeq(s)
  <2>1. PICK S : S = Seq(X)
    OBVIOUS
  <2>2. s \in Seq(Seq(S)) /\ e \in Seq(S)
    BY <1>12, <2>1
  <2>3. FlattenSeq(<<e>> \o s) = e \o FlattenSeq(s)
    BY <2>2, FlatCons
  <2>4. QED
    BY <1>17, <2>3
<1>19. FlattenSeq(s) = r
  BY <1>10, FlatSingles
<1>20. Leaves(lines) = FlattenSeq(w)
  <2>1. Parts(lines) = parts
    BY <1>1, <1>5 DEF ReadAsParts
  <2>2. QED
    BY <1>9, <1>13, <2>1 DEF Leaves
<1>21. Leaves(lines) = e \o r
  BY <1>18, <1>19, <1>20
<1>22. Shown(e \o r) = Shown(e) \o Shown(r)
  BY ShownConcat
<1>23. Shown(e) = TextsMeant(m) /\ Shown(r) = FilesMeant(m)
  BY <1>3, <1>4, <1>6, <1>7 DEF ReadAsTexts, ReadAsFiles
<1>24. Shown(Leaves(lines)) = TextsMeant(m) \o FilesMeant(m)
  BY <1>21, <1>22, <1>23
<1>25. QED
  BY <1>1, <1>6, <1>7, <1>21, <1>24 DEF ReadAsParts

\* The headers above the structure: the recipients that are not hidden, and the subject.
HeadOf(m) == RecipientHeaders(m) \o <<Header("Subject", m.subject)>>

HeadersMeant(m) ==
    {Header("Subject", m.subject)}
        \cup (IF m.to # <<>> THEN {Header("To", m.to)} ELSE {})
        \cup (IF m.cc # <<>> THEN {Header("Cc", m.cc)} ELSE {})

LEMMA HeadIs ==
    ASSUME NEW X, NEW m, Furnished(X, m)
    PROVE  HeadOf(m) \in Seq(X) /\ OnlyHeaders(HeadOf(m)) /\ ToSet(HeadOf(m)) = HeadersMeant(m)
<1>1. PICK t \in X : t = Header("To", m.to)
  BY DEF Furnished
<1>2. PICK c \in X : c = Header("Cc", m.cc)
  BY DEF Furnished
<1>3. PICK s \in X : s = Header("Subject", m.subject)
  BY DEF Furnished
<1>4. \A x \in X : <<x>> \in Seq(X) /\ ToSet(<<x>>) = {x}
  <2>1. SUFFICES ASSUME NEW x \in X PROVE <<x>> \in Seq(X) /\ ToSet(<<x>>) = {x}
    OBVIOUS
  <2>2. <<x>> \in Seq(X) /\ DOMAIN <<x>> = 1..1 /\ <<x>>[1] = x
    OBVIOUS
  <2>3. QED
    BY <2>2 DEF ToSet
<1>5. <<>> \in Seq(X) /\ ToSet(<<>>) = {}
  <2>1. <<>> \in Seq(X) /\ DOMAIN <<>> = {}
    OBVIOUS
  <2>2. QED
    BY <2>1 DEF ToSet
<1>6. PICK a \in Seq(X) : a = IF m.to # <<>> THEN <<t>> ELSE <<>>
  BY <1>4, <1>5
<1>7. PICK b \in Seq(X) : b = IF m.cc # <<>> THEN <<c>> ELSE <<>>
  BY <1>4, <1>5
<1>8. PICK d \in Seq(X) : d = <<s>>
  BY <1>4
<1>9. PICK e \in Seq(X) : e = a \o b
  BY ConcatProperties
<1>10. PICK h \in Seq(X) : h = e \o d
  BY ConcatProperties
<1>11. HeadOf(m) = h
  BY <1>1, <1>2, <1>3, <1>6, <1>7, <1>8, <1>9, <1>10 DEF HeadOf, RecipientHeaders
<1>12. ToSet(h) = (ToSet(a) \cup ToSet(b)) \cup ToSet(d)
  <2>1. \A u, v \in Seq(X) : ToSet(u \o v) = ToSet(u) \cup ToSet(v)
    BY ToSetConcat
  <2>2. ToSet(e) = ToSet(a) \cup ToSet(b)
    BY <1>9, <2>1
  <2>3. ToSet(h) = ToSet(e) \cup ToSet(d)
    BY <1>10, <2>1
  <2>4. QED
    BY <2>2, <2>3
<1>13. /\ ToSet(a) = IF m.to # <<>> THEN {t} ELSE {}
       /\ ToSet(b) = IF m.cc # <<>> THEN {c} ELSE {}
       /\ ToSet(d) = {s}
  BY <1>4, <1>5, <1>6, <1>7, <1>8
<1>14. ToSet(h) = HeadersMeant(m)
  BY <1>1, <1>2, <1>3, <1>12, <1>13 DEF HeadersMeant
<1>15. \A x \in ToSet(h) : \E name \in {"To", "Cc", "Subject"} : \E value : x = Header(name, value)
  BY <1>14 DEF HeadersMeant
<1>16. \A k \in 1..Len(h) : h[k] \in ToSet(h)
  BY LenProperties DEF ToSet
<1>17. OnlyHeaders(h)
  BY <1>15, <1>16 DEF OnlyHeaders
<1>18. QED
  BY <1>11, <1>14, <1>17

\* Of the headers the reader is shown those above the structure.
LEMMA HeadersShown ==
    ASSUME NEW X, NEW m, Furnished(X, m), NEW lines, NEW name \in {"Content-Type", "Multipart"}, NEW value,
           HeadersOf(lines) = ToSet(HeadOf(m)) \cup {Header(name, value)}
    PROVE  {h \in HeadersOf(lines) : h.rest[1] \in {"To", "Cc", "Bcc", "Subject"}} = HeadersMeant(m)
<1>1. ToSet(HeadOf(m)) = HeadersMeant(m)
  BY HeadIs
<1>2. Header(name, value).rest[1] = name
  BY HeaderIs
<1>3. \A h \in HeadersMeant(m) : h.rest[1] \in {"To", "Cc", "Subject"}
  BY HeaderIs DEF HeadersMeant
<1>4. name \notin {"To", "Cc", "Bcc", "Subject"}
  OBVIOUS
<1>5. QED
  BY <1>1, <1>2, <1>3, <1>4

\* What is built is read as it was meant.
LEMMA BuildReads ==
    ASSUME NEW X, NEW m, Furnished(X, m), Unmarked(m)
    PROVE  Build(m) \in Seq(X) /\ Read(Build(m)) = Intended(m)
<1>1. PICK h \in Seq(X) : h = HeadOf(m)
  BY HeadIs
<1>2. OnlyHeaders(h)
  BY <1>1, HeadIs
<1>3. PICK lines : lines = Build(m)
  OBVIOUS
<1>4. /\ lines \in Seq(X)
      /\ Shown(Leaves(lines)) = TextsMeant(m) \o FilesMeant(m)
      /\ \E name \in {"Content-Type", "Multipart"} : \E value :
           HeadersOf(lines) = ToSet(h) \cup {Header(name, value)}
  <2>1. CASE m.files = <<>>
    <3>1. lines = h \o Content(m)
      BY <1>1, <1>3, <2>1 DEF Build, HeadOf
    <3>2. IsContentText(lines, h, m, X)
      BY <1>2, <3>1 DEF IsContentText
    <3>3. ReadAsTexts(lines, h, m, X)
      BY <3>2, ContentReads
    <3>4. Leaves(lines) = Parts(lines)
      BY <3>3, LeavesAre DEF ReadAsTexts
    <3>5. FilesMeant(m) = <<>>
      <4>1. DOMAIN <<>> = {}
        OBVIOUS
      <4>2. FilesMeant(m) = [k \in {} |-> <<"file", m.files[k]>>]
        BY <2>1, <4>1 DEF FilesMeant
      <4>3. QED
        BY <4>2
    <3>6. TextsMeant(m) \o <<>> = TextsMeant(m)
      <4>1. PICK P \in Seq(Seq(X)) : P = Parts(lines)
        BY <3>3 DEF ReadAsTexts, AreLeaves
      <4>2. \E Z : Shown(P) \in Seq(Z)
        BY ShownConcat
      <4>3. PICK Z : TextsMeant(m) \in Seq(Z)
        BY <3>3, <4>1, <4>2 DEF ReadAsTexts
      <4>4. QED
        BY <4>3, ConcatEmptySeq
    <3>7. QED
      BY <3>3, <3>4, <3>5, <3>6 DEF ReadAsTexts
  <2>2. CASE m.files # <<>>
    <3>1. lines = h \o (Multipart("mixed") \o <<Delimiter("mixed")>> \o Content(m)
                          \o FlattenSeq([k \in DOMAIN m.files |-> File(m.files[k])])
                          \o <<FinalDelimiter("mixed")>>)
      BY <1>1, <1>3, <2>2 DEF Build, HeadOf
    <3>2. IsFiled(lines, h, m, X)
      BY <1>2, <2>2, <3>1 DEF IsFiled
    <3>3. QED
      BY <3>2, FilesRead
  <2>3. QED
    BY <2>1, <2>2
<1>5. PICK name \in {"Content-Type", "Multipart"} :
        \E value : HeadersOf(lines) = ToSet(h) \cup {Header(name, value)}
  BY <1>4
<1>6. {x \in HeadersOf(lines) : x.rest[1] \in {"To", "Cc", "Bcc", "Subject"}} = HeadersMeant(m)
  <2>1. PICK value : HeadersOf(lines) = ToSet(h) \cup {Header(name, value)}
    BY <1>5
  <2>2. QED
    BY <1>1, <2>1, HeadersShown
<1>7. Intended(m).shown = HeadersMeant(m) /\ Intended(m).parts = TextsMeant(m) \o FilesMeant(m)
  BY DEF Intended, HeadersMeant, TextsMeant, FilesMeant
<1>8. Read(lines) = [shown |-> HeadersMeant(m), parts |-> TextsMeant(m) \o FilesMeant(m)]
  <2>1. [k \in DOMAIN Leaves(lines) |-> <<TypeOf(Leaves(lines)[k]), BodyOf(Leaves(lines)[k])>>]
          = TextsMeant(m) \o FilesMeant(m)
    BY <1>4 DEF Shown
  <2>2. QED
    BY <1>6, <2>1 DEF Read
<1>9. Intended(m) = [shown |-> HeadersMeant(m), parts |-> TextsMeant(m) \o FilesMeant(m)]
  BY DEF Intended, HeadersMeant, TextsMeant, FilesMeant
<1>10. QED
  BY <1>3, <1>4, <1>8, <1>9

\* The lines of a text, and those the builder adds.
LinesIn(u) == {u[k] : k \in 1..Len(u)}
Added(m) ==
    {Blank} \cup Marks("alternative") \cup Marks("mixed")
        \cup {Header("Multipart", boundary) : boundary \in {"alternative", "mixed"}}
        \cup {Header("Content-Type", type) : type \in {"plain", "html", "file"}}
        \cup {Header("To", m.to), Header("Cc", m.cc), Header("Subject", m.subject)}

LEMMA AddedAreLines == ASSUME NEW m PROVE AreLines(Added(m))
<1>1. \A rest : Line(0, rest) = Line(Line(0, rest).dots, Line(0, rest).rest) /\ Line(0, rest).dots \in Nat
  BY LineParts
<1>2. ASSUME NEW x \in Added(m) PROVE \E rest : x = Line(0, rest)
  BY DEF Added, Blank, Marks, Header, Delimiter, FinalDelimiter
<1>3. QED
  BY <1>1, <1>2 DEF AreLines

LEMMA LinesInText ==
    ASSUME NEW u, IsText(u)
    PROVE  AreLines(LinesIn(u)) /\ \A X : LinesIn(u) \subseteq X => u \in Seq(X)
<1>1. PICK n \in Nat : n = Len(u)
  BY DEF IsText
<1>2. \A k \in 1..n : u[k] = Line(u[k].dots, u[k].rest) /\ u[k].dots \in Nat
  <2>1. u = [k \in 1..n |-> Line(u[k].dots, u[k].rest)] /\ \A k \in 1..n : u[k].dots \in Nat
    BY <1>1 DEF IsText
  <2>2. PICK w : w = [k \in 1..n |-> Line(u[k].dots, u[k].rest)]
    OBVIOUS
  <2>3. \A k \in 1..n : w[k] = Line(u[k].dots, u[k].rest)
    BY <2>2
  <2>4. u = w
    BY <2>1, <2>2
  <2>5. QED
    BY <2>1, <2>3, <2>4
<1>3. ASSUME NEW X, LinesIn(u) \subseteq X PROVE u \in Seq(X)
  <2>1. \A k \in 1..n : u[k] \in X
    BY <1>1, <1>3 DEF LinesIn
  <2>2. u = [k \in 1..n |-> u[k]]
    BY <1>1 DEF IsText
  <2>3. u \in [1..n -> X]
    BY <2>1, <2>2
  <2>4. QED
    BY <2>3, SeqDef
<1>4. QED
  BY <1>1, <1>2, <1>3 DEF AreLines, LinesIn

\* What the builder is given.
Given(m) ==
    /\ IsContent(m.text) /\ IsContent(m.html)
    /\ m.files \in Seq(ToSet(m.files))
    /\ \A k \in DOMAIN m.files : IsContent(m.files[k])

LEMMA GivenIsFurnished ==
    ASSUME NEW m, Given(m)
    PROVE  (\E X : Furnished(X, m)) /\ Unmarked(m)
<1>1. PICK n \in Nat : n = Len(m.files) /\ DOMAIN m.files = 1..n
  BY LenProperties DEF Given
<1>2. IsText(m.text) /\ IsText(m.html) /\ \A k \in 1..n : IsText(m.files[k])
  BY <1>1 DEF Given, IsContent
<1>3. PICK F : F = {LinesIn(m.files[k]) : k \in 1..n}
  OBVIOUS
<1>4. PICK U : U = UNION F
  OBVIOUS
<1>5. PICK A : A = Added(m)
  OBVIOUS
<1>6. PICK T : T = LinesIn(m.text) \cup LinesIn(m.html)
  OBVIOUS
<1>7. PICK X : X = T \cup (U \cup A)
  OBVIOUS
<1>8. /\ \A k \in 1..n : LinesIn(m.files[k]) \in F
      /\ \A S \in F : \E k \in 1..n : S = LinesIn(m.files[k])
  BY <1>3
<1>9. /\ LinesIn(m.text) \subseteq X /\ LinesIn(m.html) \subseteq X /\ Added(m) \subseteq X
      /\ \A k \in 1..n : LinesIn(m.files[k]) \subseteq X
  <2>1. \A S \in F : S \subseteq U
    BY <1>4
  <2>2. \A k \in 1..n : LinesIn(m.files[k]) \subseteq U
    BY <1>8, <2>1
  <2>3. T \subseteq X /\ U \subseteq X /\ A \subseteq X
    BY <1>7
  <2>4. LinesIn(m.text) \subseteq T /\ LinesIn(m.html) \subseteq T
    BY <1>6
  <2>5. QED
    BY <1>5, <2>2, <2>3, <2>4
<1>10. AreLines(X)
  <2>1. AreLines(Added(m)) /\ AreLines(LinesIn(m.text)) /\ AreLines(LinesIn(m.html))
    BY <1>2, AddedAreLines, LinesInText
  <2>2. \A k \in 1..n : AreLines(LinesIn(m.files[k]))
    BY <1>2, LinesInText
  <2>3. \A S \in F : AreLines(S)
    BY <1>8, <2>2
  <2>4. AreLines(U)
    BY <1>4, <2>3 DEF AreLines
  <2>5. AreLines(T) /\ AreLines(A)
    BY <1>5, <1>6, <2>1 DEF AreLines
  <2>6. QED
    BY <1>7, <2>4, <2>5 DEF AreLines
<1>11. m.text \in Seq(X) /\ m.html \in Seq(X) /\ \A k \in 1..n : m.files[k] \in Seq(X)
  BY <1>2, <1>9, LinesInText
<1>12. m.files \in Seq(Seq(X))
  <2>1. m.files = [k \in 1..n |-> m.files[k]]
    BY <1>1, LenProperties DEF Given
  <2>2. m.files \in [1..n -> Seq(X)]
    BY <1>11, <2>1
  <2>3. QED
    BY <2>2, SeqDef
<1>13. /\ Blank \in X
       /\ Marks("alternative") \subseteq X /\ Marks("mixed") \subseteq X
       /\ Header("Multipart", "alternative") \in X /\ Header("Multipart", "mixed") \in X
       /\ \A type \in {"plain", "html", "file"} : Header("Content-Type", type) \in X
       /\ Header("To", m.to) \in X /\ Header("Cc", m.cc) \in X /\ Header("Subject", m.subject) \in X
  BY <1>9 DEF Added
<1>14. Furnished(X, m)
  BY <1>10, <1>11, <1>12, <1>13 DEF Furnished
<1>15. \A u : IsContent(u) => FreeOfMarks(u)
  BY DEF IsContent, FreeOfMarks, Free
<1>16. Unmarked(m)
  BY <1>1, <1>15 DEF Given, Unmarked
<1>17. QED
  BY <1>14, <1>16

\* Whatever a batch says is written as a text, and a reader of that text gets the recipients
\* that are not hidden, the subject, the texts and the files, each as it was and in order
\* (MimeBuilder::build, with any texts, one or both, and any number of files).
THEOREM BatchIsRead ==
    ASSUME SmtpSessionAssumption, NEW b \in Batches, NEW m \in DOMAIN b
    PROVE  IsText(Build(b[m])) /\ Read(Build(b[m])) = Intended(b[m])
<1>1. Given(b[m])
  BY DEF SmtpSessionAssumption, Given
<1>2. PICK X : Furnished(X, b[m]) /\ Unmarked(b[m])
  BY <1>1, GivenIsFurnished
<1>3. Build(b[m]) \in Seq(X) /\ Read(Build(b[m])) = Intended(b[m])
  BY <1>2, BuildReads
<1>4. QED
  BY <1>2, <1>3, LinesAreText DEF Furnished

-----------------------------------------------------------------------------
(***************************************************************************)
(* The end of the data. The dots that are added keep every line apart from  *)
(* it, so that the server takes the text as it was, and nothing of it for a *)
(* command.                                                                 *)
(***************************************************************************)
LEMMA StuffLines ==
    ASSUME NEW lines, IsText(lines)
    PROVE  /\ Stuff(lines) \in Seq(ToSet(Stuff(lines)))
           /\ Len(Stuff(lines)) = Len(lines) + 1
           /\ \A k \in 1..Len(lines) :
                Stuff(lines)[k] = IF lines[k].dots > 0
                                  THEN Line(lines[k].dots + 1, lines[k].rest) ELSE lines[k]
           /\ Stuff(lines)[Len(lines) + 1] = EndOfData
<1> DEFINE n == Len(lines)
           stuffed == [k \in DOMAIN lines |->
                          IF lines[k].dots > 0 THEN Line(lines[k].dots + 1, lines[k].rest)
                          ELSE lines[k]]
           S == {stuffed[k] : k \in 1..n} \cup {EndOfData}
<1>1. n \in Nat /\ DOMAIN lines = 1..n
  BY DEF IsText
<1>2. stuffed \in Seq(S) /\ Len(stuffed) = n
  <2>1. stuffed \in [1..n -> S]
    BY <1>1
  <2> HIDE DEF stuffed, S
  <2>2. stuffed \in Seq(S)
    BY <1>1, <2>1, SeqDef
  <2>3. QED
    BY <1>1, <2>1, <2>2, LenProperties
<1>3. Stuff(lines) = Append(stuffed, EndOfData)
  BY DEF Stuff
<1>4. EndOfData \in S
  OBVIOUS
<1> HIDE DEF S, stuffed
<1>5. /\ Stuff(lines) \in Seq(S) /\ Len(Stuff(lines)) = n + 1
      /\ \A k \in 1..n : Stuff(lines)[k] = stuffed[k]
      /\ Stuff(lines)[n + 1] = EndOfData
  BY <1>2, <1>3, <1>4, AppendProperties
<1>6. Stuff(lines) \in Seq(ToSet(Stuff(lines)))
  <2>1. DOMAIN Stuff(lines) = 1..(n + 1)
    BY <1>5, LenProperties
  <2>2. Stuff(lines) \in [1..(n + 1) -> ToSet(Stuff(lines))]
    BY <1>5, <2>1, LenProperties DEF ToSet
  <2>3. QED
    BY <1>1, <2>2, SeqDef
<1>7. \A k \in 1..n :
        stuffed[k] = IF lines[k].dots > 0 THEN Line(lines[k].dots + 1, lines[k].rest) ELSE lines[k]
  BY <1>1 DEF stuffed
<1>8. QED
  BY <1>5, <1>6, <1>7

LEMMA DataEnds ==
    ASSUME NEW lines, IsText(lines)
    PROVE  DataEnd(Stuff(lines)) = Len(lines) + 1
<1> DEFINE data == Stuff(lines)
           n == Len(lines)
           ends == {i \in 1..Len(data) : data[i] = EndOfData}
<1>1. n \in Nat /\ Len(data) = n + 1 /\ data[n + 1] = EndOfData
  BY StuffLines DEF IsText
<1>2. ASSUME NEW k \in 1..n PROVE data[k] # EndOfData
  <2>1. lines[k].dots \in Nat /\ EndOfData.dots = 1
    BY DEF IsText, EndOfData, Line
  <2>2. CASE lines[k].dots > 0
    <3>1. data[k] = Line(lines[k].dots + 1, lines[k].rest)
      BY <2>2, StuffLines
    <3>2. data[k].dots = lines[k].dots + 1
      BY <3>1, LineParts
    <3>3. QED
      BY <2>1, <2>2, <3>2
  <2>3. CASE ~ (lines[k].dots > 0)
    BY <2>1, <2>3, StuffLines
  <2>4. QED
    BY <2>2, <2>3
<1>3. ends = {n + 1}
  BY <1>1, <1>2
<1>4. DataEnd(data) = Min(ends)
  BY <1>3 DEF DataEnd, SelectInSeq
<1>5. Min({n + 1}) = n + 1
  BY <1>1 DEF Min
<1>6. QED
  BY <1>3, <1>4, <1>5

LEMMA NothingBeyond ==
    ASSUME NEW lines, IsText(lines)
    PROVE  Beyond(Stuff(lines)) = <<>>
<1>1. Len(lines) \in Nat /\ Len(Stuff(lines)) = Len(lines) + 1
      /\ Stuff(lines) \in Seq(ToSet(Stuff(lines)))
  BY StuffLines DEF IsText
<1>2. Beyond(Stuff(lines)) = SubSeq(Stuff(lines), Len(lines) + 2, Len(lines) + 1)
  BY <1>1, DataEnds DEF Beyond
<1>3. QED
  BY <1>1, <1>2, SubSeqEmpty

LEMMA ReceivedAsWritten ==
    ASSUME NEW lines, IsText(lines)
    PROVE  Received(Stuff(lines)) = lines
<1> DEFINE data == Stuff(lines)
           n == Len(lines)
<1>1. n \in Nat /\ DataEnd(data) - 1 = n
  BY DataEnds DEF IsText
<1>2. lines = [k \in 1..n |-> Line(lines[k].dots, lines[k].rest)]
  BY DEF IsText
<1>3. ASSUME NEW k \in 1..n
      PROVE  (IF data[k].dots > 0 THEN Line(data[k].dots - 1, data[k].rest) ELSE data[k])
                = Line(lines[k].dots, lines[k].rest)
  <2>1. lines[k].dots \in Nat /\ lines[k] = Line(lines[k].dots, lines[k].rest)
    BY <1>2 DEF IsText
  <2>2. CASE lines[k].dots > 0
    <3>1. data[k] = Line(lines[k].dots + 1, lines[k].rest)
      BY <2>2, StuffLines
    <3>2. data[k].dots = lines[k].dots + 1 /\ data[k].rest = lines[k].rest
      BY <3>1, LineParts
    <3>3. data[k].dots > 0 /\ data[k].dots - 1 = lines[k].dots
      BY <2>1, <3>2
    <3>4. QED
      BY <3>2, <3>3
  <2>3. CASE ~ (lines[k].dots > 0)
    <3>1. data[k] = lines[k]
      BY <2>3, StuffLines
    <3>2. QED
      BY <2>1, <2>3, <3>1
  <2>4. QED
    BY <2>2, <2>3
<1>4. Received(data) = [k \in 1..n |-> Line(lines[k].dots, lines[k].rest)]
  BY <1>1, <1>3 DEF Received
<1>5. QED
  BY <1>2, <1>4

-----------------------------------------------------------------------------
(***************************************************************************)
(* The invariant.                                                           *)
(***************************************************************************)
Early == {"greeting", "ehlo", "starttls", "login", "user", "pass", "plain"}
Lines == [code : Nat, last : BOOLEAN]

SessionType ==
    /\ batch \in Batches /\ security \in Securities /\ faults \subseteq Faults
    /\ pc \in Stages
    /\ awaiting \in BOOLEAN /\ pending \in BOOLEAN
    /\ mail \in Nat \ {0} /\ rcpt \in Nat \ {0}
    /\ pc \in Sending \cup {"prepare"} => mail \in Mails
    /\ pc \in Sending => Rcpts(mail) # <<>>
    /\ pc = "rcpt" => rcpt \in 1..Len(Rcpts(mail))
    /\ pc \in {"prepare", "mail"} => rcpt = 1
    /\ pc \in Early => mail = 1
    /\ result \in [Mails -> {"queued", "sent", "failed"}]
    /\ replies \in Seq(Lines)

\* The client reads the reply to its last command, and no other: every reply ends with its
\* only last line.
DialogInv ==
    /\ awaiting => asked.exchange = pc /\ asked.mail = mail /\ asked.rcpt = rcpt
    /\ awaiting => pc \in Talk \cup {"greeting"}
    /\ pending => awaiting
    /\ pending \/ ~ awaiting => replies = <<>>
    /\ \A k \in DOMAIN replies : replies[k].last => k = Len(replies)

LoginInv ==
    /\ security = "tls" => tls
    /\ pc \in {"login", "user", "pass", "plain"} => tls \/ security = "plain"
    /\ LoginIsCovered

\* The server has not answered what the client is at.
Unanswered == awaiting => pending

\* The lines on their way have one of these codes.
Told(codes) == \A k \in DOMAIN replies : replies[k].code \in codes

UpTo(n) == {Rcpts(mail)[j] : j \in 1..n}

\* The transaction is that of the message the client is at, as far as the client has been
\* told that it is.
Transaction ==
    /\ pc = "mail" /\ ~ Unanswered =>
         \A k \in DOMAIN replies : replies[k].code = 250 => from = mail /\ to = {}
    /\ pc \in {"rcpt", "data"} => from = mail
    /\ pc = "rcpt" /\ Unanswered => to = UpTo(rcpt - 1)
    /\ pc = "rcpt" /\ ~ Unanswered =>
         \A k \in DOMAIN replies : replies[k].code \in {250, 251} => to = UpTo(rcpt)
    /\ pc = "data" => to = UpTo(Len(Rcpts(mail)))
    /\ pc = "body" /\ Unanswered => from = mail /\ to = UpTo(Len(Rcpts(mail)))
    /\ pc = "body" /\ ~ Unanswered =>
         \A k \in DOMAIN replies : replies[k].code = 250 => \E a \in accepted : a.body = mail

\* What has been accepted was recorded as sent, or will be with the next line unless the
\* connection has ended.
AcceptedInv ==
    \A a \in accepted :
        /\ a.body \in Mails /\ a.envelope = a.body /\ a.to = ToSet(Rcpts(a.body))
        /\ a.read = Read(Received(Stuff(Build(batch[a.body]))))
        /\ \/ a.body < mail /\ (closed \/ result[a.body] = "sent")
           \/ a.body = mail /\ pc = "body" /\ ~ Unanswered /\ Told({250})

SentInv ==
    \A m \in Mails :
        /\ result[m] = "sent" => \E a \in accepted : a.body = m
        /\ result[m] # "queued" => m < mail

BadBy(n) == \E k \in 1..n : ToSet(Rcpts(k)) \cap Bad # {}

\* When nothing goes wrong: a transaction that was left open has a recipient that is bad.
CauseInv ==
    faults = {} =>
        /\ closed => pc \in {"quit", "done"}
        /\ pc \in Early => from = 0
        /\ pc \in {"prepare", "quit"} \/ (pc = "mail" /\ Unanswered) => from = 0 \/ BadBy(mail - 1)
        /\ pc = "body" /\ ~ Unanswered => from = 0
        /\ pc \in Sending => Told(Expected(pc)) \/ BadBy(mail)
        /\ \A m \in Mails : result[m] = "failed" => Rcpts(m) = <<>> \/ BadBy(m)

LEMMA Batched ==
    ASSUME SmtpSessionAssumption, SessionType
    PROVE  /\ Len(batch) \in Nat /\ DOMAIN batch = 1..Len(batch)
           /\ \A m \in Mails : /\ Rcpts(m) \in Seq(Addrs) /\ Len(Rcpts(m)) \in Nat
                               /\ DOMAIN Rcpts(m) = 1..Len(Rcpts(m))
                               /\ Rcpts(m) # <<>> => Len(Rcpts(m)) # 0
<1>1. batch \in Seq(ToSet(batch))
  BY DEF SmtpSessionAssumption, SessionType
<1>2. Len(batch) \in Nat /\ DOMAIN batch = 1..Len(batch)
  BY <1>1, LenProperties
<1>3. ASSUME NEW m \in Mails PROVE Rcpts(m) \in Seq(Addrs)
  BY <1>2, <1>3 DEF SmtpSessionAssumption, SessionType, Rcpts, Mails
<1>4. QED
  BY <1>2, <1>3, LenProperties, EmptySeq

LEMMA StageNames ==
    /\ Early \subseteq Stages /\ Sending \subseteq Stages
    /\ Sending = {"mail", "rcpt", "data", "body"}
    /\ Stages = Early \cup Sending \cup {"quit", "prepare", "done", "aborted"}
    /\ Talk = (Early \ {"greeting"}) \cup Sending \cup {"quit"}
BY DEF Early, Sending, Stages, Talk

-----------------------------------------------------------------------------
(***************************************************************************)
(* Where the client goes.                                                   *)
(***************************************************************************)
Stay == UNCHANGED <<mail, rcpt, result>>
Onward(outcome) ==
    /\ result' = [result EXCEPT ![mail] = outcome]
    /\ mail' = mail + 1 /\ rcpt' = 1
    /\ pc' = IF mail + 1 <= Len(batch) THEN "prepare" ELSE "quit"

LEMMA FailMoves ==
    ASSUME NEW code, pc \in Talk \cup {"greeting"}, Fail(code)
    PROVE  \/ pc \in Sending /\ Onward("failed")
           \/ pc = "quit" /\ pc' = "done" /\ Stay
           \/ pc = "login" /\ pc' = "plain" /\ Stay
           \/ pc \in Early /\ pc' = "aborted" /\ Stay
<1>1. CASE pc \in Sending
  BY <1>1, StageNames DEF Fail, Settle, Begin, Onward
<1>2. CASE pc = "quit"
  BY <1>2, StageNames DEF Fail, Goto, Stay
<1>3. CASE pc = "login" /\ code # 0
  BY <1>3, StageNames DEF Fail, Goto, Stay
<1>4. CASE pc \in Early /\ ~ (pc = "login" /\ code # 0)
  <2>1. pc \notin Sending /\ pc # "quit"
    BY <1>4, StageNames DEF Early
  <2>2. QED
    BY <1>4, <2>1 DEF Fail, Goto, Stay
<1>5. QED
  BY <1>1, <1>2, <1>3, <1>4, StageNames DEF Early

LEMMA ProceedMoves ==
    ASSUME NEW code, pc \in Talk \cup {"greeting"}, code \in Expected(pc), Proceed
    PROVE  \/ /\ pc \in Early /\ pc' \in Early /\ Stay
              /\ pc' \in {"login", "plain"} => pc = "ehlo" /\ (security # "starttls" \/ tls)
              /\ pc' \in {"user", "pass"} => pc \in {"login", "user"}
           \/ /\ pc \in Early /\ pc' = (IF 1 <= Len(batch) THEN "prepare" ELSE "quit")
              /\ mail' = 1 /\ rcpt' = 1 /\ UNCHANGED result
           \/ pc = "mail" /\ pc' = "rcpt" /\ Stay /\ code = 250
           \/ /\ pc = "rcpt" /\ pc' = "rcpt" /\ rcpt' = rcpt + 1 /\ rcpt < Len(Rcpts(mail))
              /\ UNCHANGED <<mail, result>> /\ code \in {250, 251}
           \/ /\ pc = "rcpt" /\ pc' = "data" /\ ~ (rcpt < Len(Rcpts(mail))) /\ Stay
              /\ code \in {250, 251}
           \/ pc = "data" /\ pc' = "body" /\ Stay
           \/ pc = "body" /\ Onward("sent") /\ code = 250
<1>1. CASE pc \in {"greeting", "starttls", "login", "user"}
  BY <1>1 DEF Proceed, Goto, Stay, Early
<1>2. CASE pc = "ehlo"
  <2>1. \/ Goto("starttls")
        \/ (security # "starttls" \/ tls) /\ Goto("login")
        \/ Ready
    BY <1>2 DEF Proceed
  <2>2. QED
    BY <1>2, <2>1 DEF Ready, Begin, Goto, Stay, Early
<1>3. CASE pc \in {"pass", "plain"}
  <2>1. Ready
    BY <1>3 DEF Proceed
  <2>2. QED
    BY <1>3, <2>1 DEF Ready, Begin, Early
<1>4. CASE pc = "mail"
  <2>1. Goto("rcpt") /\ code = 250
    BY <1>4 DEF Proceed, Expected
  <2>2. QED
    BY <1>4, <2>1 DEF Goto, Stay
<1>5. CASE pc = "data"
  <2>1. Goto("body")
    BY <1>5 DEF Proceed
  <2>2. QED
    BY <1>5, <2>1 DEF Goto, Stay
<1>6. CASE pc = "rcpt"
  BY <1>6 DEF Proceed, NextRcpt, Goto, Stay, Expected
<1>7. CASE pc = "body"
  BY <1>7 DEF Proceed, Settle, Begin, Onward, Expected
<1>8. CASE pc = "quit"
  BY <1>8 DEF Expected
<1>9. QED
  BY <1>1, <1>2, <1>8, <1>4, <1>6, <1>7, <1>3, <1>5, StageNames DEF Early

-----------------------------------------------------------------------------
(***************************************************************************)
(* What a step does.                                                        *)
(***************************************************************************)
LEMMA BrokenEffect ==
    ASSUME DialogInv, Broken
    PROVE  /\ closed /\ ~ awaiting' /\ ~ pending' /\ replies = <<>>
           /\ UNCHANGED <<batch, security, withLogin, faults, tls, asked, replies, from, to, closed, accepted>>
           /\ \/ pc \in Sending /\ Onward("failed")
              \/ pc = "quit" /\ pc' = "done" /\ Stay
              \/ pc = "login" /\ pc' = "plain" /\ Stay
              \/ pc \in Early /\ pc' = "aborted" /\ Stay
BY FailMoves DEF DialogInv, Broken, given, server

LEMMA ReadEffect ==
    ASSUME SessionType, DialogInv, ReadLine
    PROVE  /\ awaiting /\ ~ pending /\ pc \in Talk \cup {"greeting"}
           /\ replies[1] \in Lines /\ 1 \in DOMAIN replies
           /\ UNCHANGED <<batch, security, withLogin, faults, asked, pending, from, to, closed, accepted>>
           /\ replies' \in Seq(Lines)
           /\ \/ /\ UNCHANGED client
                 /\ Len(replies') = Len(replies) - 1
                 /\ \A k \in DOMAIN replies' : k + 1 \in DOMAIN replies /\ replies'[k] = replies[k + 1]
              \/ /\ ~ awaiting' /\ replies' = <<>>
                 /\ tls' = (tls \/ pc = "starttls") /\ replies[1].code \in Expected(pc) /\ Proceed
              \/ /\ ~ awaiting' /\ replies' = <<>>
                 /\ UNCHANGED tls /\ Fail(replies[1].code)
                 /\ replies[1].code \notin Expected(pc) \/ pc = "starttls"
<1>1. /\ Head(replies) = replies[1] /\ Head(replies) \in Lines /\ 1 \in DOMAIN replies
      /\ Tail(replies) \in Seq(Lines) /\ Len(Tail(replies)) = Len(replies) - 1
      /\ \A i \in 1..Len(Tail(replies)) : Tail(replies)[i] = replies[i + 1]
      /\ Len(replies) \in Nat \ {0} /\ DOMAIN replies = 1..Len(replies)
      /\ DOMAIN Tail(replies) = 1..(Len(replies) - 1)
  BY HeadTailProperties, EmptySeq, LenProperties DEF SessionType, ReadLine
<1>2. awaiting /\ ~ pending /\ pc \in Talk \cup {"greeting"}
  BY DEF ReadLine, DialogInv
<1>3. UNCHANGED <<batch, security, withLogin, faults, asked, pending, from, to, closed, accepted>>
      /\ replies' = Tail(replies)
  BY DEF ReadLine, given, server
<1>4. replies[1].last => Tail(replies) = <<>>
  <2> SUFFICES ASSUME replies[1].last PROVE Tail(replies) = <<>>
    OBVIOUS
  <2>1. Len(replies) = 1
    BY <1>1 DEF DialogInv
  <2>2. QED
    BY <1>1, <2>1, EmptySeq
<1>5. \/ UNCHANGED client
      \/ /\ ~ awaiting' /\ replies[1].last
         /\ tls' = (tls \/ pc = "starttls") /\ replies[1].code \in Expected(pc) /\ Proceed
      \/ /\ ~ awaiting' /\ replies[1].last
         /\ UNCHANGED tls /\ Fail(replies[1].code)
         /\ replies[1].code \notin Expected(pc) \/ pc = "starttls"
  BY <1>1 DEF ReadLine
<1>6. \A k \in DOMAIN Tail(replies) : k + 1 \in DOMAIN replies /\ Tail(replies)[k] = replies[k + 1]
  BY <1>1
<1>7. QED
  BY <1>1, <1>2, <1>3, <1>4, <1>5, <1>6

LEMMA CodesAreNumbers ==
    /\ \A exchange : Expected(exchange) \subseteq Nat
    /\ Codes \subseteq Nat
<1>1. \A exchange : Expected(exchange) \in {{220}, {250}, {334}, {235}, {250, 251}, {354}, {}}
  BY DEF Expected
<1>2. \A exchange : Expected(exchange) \subseteq Nat
  BY <1>1
<1>3. Refusal \subseteq Nat
  BY DEF Refusal
<1>4. \/ Codes \in {{503}, {550}, {250, 251} \cup Refusal, {554}, {334, 504}, {221}}
      \/ Codes = Expected(asked.exchange) \cup Refusal
  BY DEF Codes
<1>5. Expected(asked.exchange) \cup Refusal \subseteq Nat
  BY <1>2, <1>3
<1>6. QED
  BY <1>2, <1>3, <1>4, <1>5

LEMMA AnswerEffect ==
    ASSUME SmtpSessionAssumption, SessionType, DialogInv, Answer
    PROVE  \E code \in Codes :
              /\ pending /\ awaiting /\ ~ closed /\ pending' = FALSE
              /\ asked.exchange = pc /\ asked.mail = mail /\ asked.rcpt = rcpt
              /\ pc \in Talk \cup {"greeting"}
              /\ UNCHANGED <<given, client, asked>>
              /\ replies' \in Seq(Lines)
              /\ \A k \in DOMAIN replies' :
                    replies'[k].code = code /\ (replies'[k].last => k = Len(replies'))
              /\ closed' = (pc = "quit")
              /\ pc = "mail" /\ code = 250 => from' = mail /\ to' = {} /\ UNCHANGED accepted
              /\ pc = "rcpt" /\ code \in {250, 251} =>
                   to' = to \cup {Recipient} /\ UNCHANGED <<from, accepted>>
              /\ pc = "body" => from' = 0 /\ to' = {} /\ accepted' = IF code # 250 THEN accepted
                                      ELSE accepted \cup
                                             {[envelope |-> from, body |-> mail, to |-> to,
                                               read |-> Read(Received(Body))]}
              /\ ~ (pc = "mail" /\ code = 250) /\ ~ (pc = "rcpt" /\ code \in {250, 251}) /\ pc # "body" =>
                   UNCHANGED <<from, to, accepted>>
<1>1. /\ pending /\ awaiting /\ ~ closed /\ replies = <<>>
      /\ asked.exchange = pc /\ asked.mail = mail /\ asked.rcpt = rcpt
      /\ pc \in Talk \cup {"greeting"}
      /\ UNCHANGED <<given, client, asked>> /\ pending' = FALSE /\ closed' = (pc = "quit")
  BY DEF Answer, DialogInv
<1>2. PICK code \in Codes, n \in 1..MaxLines :
        /\ replies' = replies \o Reply(code, n) \o Surplus
        /\ CASE asked.exchange = "mail" /\ code = 250 ->
                    from' = asked.mail /\ to' = {} /\ UNCHANGED accepted
             [] asked.exchange = "rcpt" /\ code \in {250, 251} ->
                    to' = to \cup {Recipient} /\ UNCHANGED <<from, accepted>>
             [] asked.exchange = "body" ->
                    /\ from' = 0 /\ to' = {}
                    /\ accepted' = IF code # 250 THEN accepted ELSE accepted \cup
                            {[envelope |-> from, body |-> asked.mail, to |-> to,
                              read |-> Read(Received(Body))]}
             [] OTHER -> UNCHANGED <<from, to, accepted>>
  BY DEF Answer
<1>3. Surplus = <<>>
  <2>1. CASE pc # "body"
    BY <1>1, <2>1 DEF Surplus
  <2>2. CASE pc = "body"
    <3>1. mail \in DOMAIN batch
      BY <2>2, Batched DEF SessionType, Sending, Mails
    <3>2. IsText(Build(batch[mail]))
      BY <3>1, BatchIsRead DEF SessionType
    <3>3. Beyond(Body) = <<>>
      BY <1>1, <3>2, NothingBeyond DEF Body
    <3>4. DOMAIN Beyond(Body) = {}
      BY <3>3
    <3>5. QED
      BY <3>4 DEF Surplus
  <2>3. QED
    BY <2>1, <2>2
<1>4. /\ Reply(code, n) \in Seq(Lines) /\ Len(Reply(code, n)) = n
      /\ \A k \in 1..n : Reply(code, n)[k] = [code |-> code, last |-> k = n]
      /\ n \in Nat
  <2>1. n \in Nat
    BY DEF SmtpSessionAssumption
  <2>2. code \in Nat
    BY CodesAreNumbers
  <2>3. Reply(code, n) \in [1..n -> Lines]
    BY <2>2 DEF Reply, Lines
  <2>4. Reply(code, n) \in Seq(Lines)
    BY <2>1, <2>3, SeqDef
  <2>5. QED
    BY <2>1, <2>3, <2>4, LenProperties DEF Reply
<1>5. replies' = Reply(code, n)
  <2>1. replies \o Reply(code, n) = Reply(code, n)
    BY <1>1, <1>4, ConcatEmptySeq
  <2>2. QED
    BY <1>2, <1>3, <1>4, <2>1, ConcatEmptySeq
<1>6. DOMAIN replies' = 1..n
  BY <1>4, <1>5, LenProperties
<1>7. \A k \in DOMAIN replies' : replies'[k].code = code /\ (replies'[k].last => k = Len(replies'))
  <2> SUFFICES ASSUME NEW k \in 1..n
               PROVE  Reply(code, n)[k].code = code /\ (Reply(code, n)[k].last => k = n)
    BY <1>4, <1>5, <1>6
  <2>1. Reply(code, n)[k] = [code |-> code, last |-> k = n]
    BY <1>4
  <2>2. ASSUME k # n PROVE ~ Reply(code, n)[k].last
    <3>1. (k = n) = FALSE
      BY <2>2
    <3>2. Reply(code, n)[k] = [code |-> code, last |-> FALSE]
      BY <2>1, <3>1
    <3>3. QED
      BY <3>2
  <2>3. Reply(code, n)[k].code = code
    BY <2>1
  <2>4. QED
    BY <2>2, <2>3
<1>8. /\ pc = "mail" /\ code = 250 => from' = mail /\ to' = {} /\ UNCHANGED accepted
      /\ pc = "rcpt" /\ code \in {250, 251} =>
           to' = to \cup {Recipient} /\ UNCHANGED <<from, accepted>>
      /\ pc = "body" => from' = 0 /\ to' = {} /\ accepted' = IF code # 250 THEN accepted
                              ELSE accepted \cup
                                     {[envelope |-> from, body |-> mail, to |-> to,
                                       read |-> Read(Received(Body))]}
      /\ ~ (pc = "mail" /\ code = 250) /\ ~ (pc = "rcpt" /\ code \in {250, 251}) /\ pc # "body" =>
           UNCHANGED <<from, to, accepted>>
  BY <1>1, <1>2
<1>9. QED
  BY <1>1, <1>4, <1>5, <1>7, <1>8

\* A message without recipients is settled at once.
LEMMA PrepareEffect ==
    ASSUME SmtpSessionAssumption, SessionType, Prepare
    PROVE  /\ pc = "prepare"
           /\ UNCHANGED <<batch, security, withLogin, faults, awaiting, tls, asked, pending, replies,
                          from, to, closed, accepted>>
           /\ \/ Rcpts(mail) = <<>> /\ Onward("failed")
              \/ Rcpts(mail) # <<>> /\ pc' = "mail" /\ Stay
BY DEF Prepare, Settle, Begin, Goto, Onward, Stay, given, server

-----------------------------------------------------------------------------
(***************************************************************************)
(* Types, and the dialogue.                                                 *)
(***************************************************************************)
SameBatch == UNCHANGED <<batch, security, withLogin, faults>>

LEMMA OnwardType ==
    ASSUME SmtpSessionAssumption, SessionType, SameBatch, pc \in Sending \cup {"prepare"},
           NEW outcome \in {"sent", "failed"}, Onward(outcome),
           awaiting' \in BOOLEAN, pending' \in BOOLEAN, replies' \in Seq(Lines)
    PROVE  SessionType'
<1>1. mail + 1 \in Nat \ {0} /\ (mail + 1 <= Len(batch) => mail + 1 \in Mails)
  BY Batched DEF SessionType, Mails
<1>2. Mails' = Mails
  BY DEF Mails, SameBatch
<1>3. result' \in [Mails -> {"queued", "sent", "failed"}]
  BY DEF Onward, SessionType
<1>4. pc' \in {"prepare", "quit"} /\ (pc' = "prepare" => mail' \in Mails) /\ mail' \in Nat \ {0} /\ rcpt' = 1
  BY <1>1 DEF Onward
<1>5. QED
  BY <1>2, <1>3, <1>4, StageNames DEF SessionType, SameBatch, Early

\* The client goes on with the same message, or not yet with one.
LEMMA StayType ==
    ASSUME SmtpSessionAssumption, SessionType, SameBatch, UNCHANGED <<mail, result>>,
           pc' \in Stages,
           pc' \in Sending \cup {"prepare"} => mail \in Mails,
           pc' \in Sending => Rcpts(mail) # <<>>,
           rcpt' \in Nat \ {0}, pc' = "rcpt" => rcpt' \in 1..Len(Rcpts(mail)),
           pc' \in {"prepare", "mail"} => rcpt' = 1, pc' \in Early => mail = 1,
           awaiting' \in BOOLEAN, pending' \in BOOLEAN, replies' \in Seq(Lines)
    PROVE  SessionType'
<1>1. Mails' = Mails /\ Rcpts(mail)' = Rcpts(mail)
  BY DEF Mails, Rcpts, SameBatch
<1>2. QED
  BY <1>1 DEF SessionType, SameBatch

LEMMA ReadyType ==
    ASSUME SmtpSessionAssumption, SessionType, SameBatch, mail' = 1, rcpt' = 1, UNCHANGED result,
           pc' = IF 1 <= Len(batch) THEN "prepare" ELSE "quit",
           awaiting' \in BOOLEAN, pending' \in BOOLEAN, replies' \in Seq(Lines)
    PROVE  SessionType'
<1>1. Mails' = Mails /\ (1 <= Len(batch) => 1 \in Mails)
  BY Batched DEF Mails, SameBatch
<1>2. pc' \in {"prepare", "quit"} /\ (pc' = "prepare" => mail' \in Mails)
  BY <1>1
<1>3. QED
  BY <1>1, <1>2, StageNames DEF SessionType, SameBatch, Early

LEMMA SessionTypeStep ==
    ASSUME SmtpSessionAssumption, SessionType, DialogInv, [Next]_vars
    PROVE  SessionType'
<1>1. CASE Prepare
  <2>1. SameBatch /\ awaiting' \in BOOLEAN /\ pending' \in BOOLEAN /\ replies' \in Seq(Lines)
    BY <1>1, PrepareEffect DEF SessionType, SameBatch
  <2>2. CASE Onward("failed")
    BY <1>1, <2>1, <2>2, PrepareEffect, OnwardType
  <2>3. CASE Rcpts(mail) # <<>> /\ pc' = "mail" /\ Stay
    BY <1>1, <2>1, <2>3, PrepareEffect, StayType, StageNames DEF SessionType, Stay, Early
  <2>4. QED
    BY <1>1, <2>2, <2>3, PrepareEffect
<1>2. CASE Send
  <2>1. /\ UNCHANGED <<batch, security, withLogin, faults, pc, mail, rcpt, result, replies>>
        /\ awaiting' = TRUE /\ pending' = TRUE
    BY <1>2 DEF Send, given
  <2>2. QED
    BY <2>1, StayType DEF SessionType, SameBatch
<1>3. CASE Broken
  <2>1. SameBatch /\ awaiting' \in BOOLEAN /\ pending' \in BOOLEAN /\ replies' \in Seq(Lines)
    BY <1>3 DEF SessionType, SameBatch, Broken, given
  <2>2. CASE pc \in Sending /\ Onward("failed")
    BY <2>1, <2>2, OnwardType
  <2>3. CASE Stay /\ (pc' = "plain" => pc = "login") /\ pc' \in {"done", "plain", "aborted"}
    BY <2>1, <2>3, StayType, StageNames DEF SessionType, Stay, Early
  <2>4. QED
    BY <1>3, <2>2, <2>3, BrokenEffect
<1>4. CASE ReadLine
  <2>1. SameBatch /\ pending' \in BOOLEAN /\ replies' \in Seq(Lines)
    BY <1>4, ReadEffect DEF SessionType, SameBatch
  <2>2. CASE UNCHANGED client
    BY <2>1, <2>2 DEF SessionType, client, Mails, Rcpts, SameBatch
  <2>3. CASE ~ awaiting' /\ Fail(replies[1].code)
    <3>1. awaiting' \in BOOLEAN /\ pc \in Talk \cup {"greeting"}
      BY <1>4, ReadEffect DEF ReadLine, SessionType, client
    <3>2. CASE pc \in Sending /\ Onward("failed")
      BY <2>1, <3>1, <3>2, OnwardType
    <3>3. CASE Stay /\ (pc' = "plain" => pc = "login") /\ pc' \in {"done", "plain", "aborted"}
      BY <2>1, <3>1, <3>3, StayType, StageNames DEF SessionType, Stay, Early
    <3>4. QED
      BY <2>3, <3>1, <3>2, <3>3, FailMoves
  <2>4. CASE ~ awaiting' /\ replies[1].code \in Expected(pc) /\ Proceed
    <3>1. awaiting' \in BOOLEAN /\ pc \in Talk \cup {"greeting"}
      BY <1>4, ReadEffect DEF ReadLine, SessionType, client
    <3>2. CASE pc \in Early /\ pc' \in Early /\ Stay
      BY <2>1, <3>1, <3>2, StayType, StageNames DEF SessionType, Stay, Early
    <3>3. CASE /\ pc' = (IF 1 <= Len(batch) THEN "prepare" ELSE "quit")
               /\ mail' = 1 /\ rcpt' = 1 /\ UNCHANGED result
      BY <2>1, <3>1, <3>3, ReadyType
    <3>4. CASE pc \in Sending /\ Stay /\ pc' \in {"data", "body"}
      BY <2>1, <3>1, <3>4, StayType, StageNames DEF SessionType, Stay, Early
    <3>5. CASE pc = "mail" /\ pc' = "rcpt" /\ Stay
      <4>1. mail \in Mails /\ Rcpts(mail) # <<>>
        BY <3>5, StageNames DEF SessionType
      <4>2. UNCHANGED <<mail, result>>
        BY <3>5 DEF Stay
      <4>3. rcpt' \in Nat \ {0} /\ rcpt' \in 1..Len(Rcpts(mail))
        BY <3>5, <4>1, Batched DEF Stay, SessionType
      <4>4. QED
        BY <2>1, <3>1, <3>5, <4>1, <4>2, <4>3, StayType, StageNames DEF Early
    <3>6. CASE /\ pc = "rcpt" /\ pc' = "rcpt" /\ rcpt' = rcpt + 1 /\ rcpt < Len(Rcpts(mail))
               /\ UNCHANGED <<mail, result>>
      <4>1. mail \in Mails /\ Rcpts(mail) # <<>> /\ rcpt \in Nat \ {0}
        BY <3>6, StageNames DEF SessionType
      <4>2. rcpt' \in Nat \ {0} /\ rcpt' \in 1..Len(Rcpts(mail))
        BY <3>6, <4>1, Batched
      <4>3. QED
        BY <2>1, <3>1, <3>6, <4>1, <4>2, StayType, StageNames DEF Early
    <3>7. CASE pc = "body" /\ Onward("sent")
      BY <2>1, <3>1, <3>7, OnwardType, StageNames
    <3>8. QED
      BY <2>4, <3>1, <3>2, <3>3, <3>4, <3>5, <3>6, <3>7, ProceedMoves, StageNames
  <2>5. QED
    BY <1>4, <2>2, <2>3, <2>4, ReadEffect
<1>5. CASE Answer
  <2>1. /\ SameBatch /\ UNCHANGED <<pc, awaiting, mail, rcpt, result>> /\ pending' \in BOOLEAN
        /\ replies' \in Seq(Lines)
    BY <1>5, AnswerEffect DEF SameBatch, given, client
  <2>2. QED
    BY <2>1, StayType DEF SessionType
<1>6. CASE Close
  <2>1. SameBatch /\ UNCHANGED <<pc, awaiting, mail, rcpt, result, pending>>
    BY <1>6 DEF Close, SameBatch, given, client
  <2>2. PICK k \in 0..Len(replies) : replies' = SubSeq(replies, 1, k)
    BY <1>6 DEF Close
  <2>3. \A i \in 1..k : replies[i] \in Lines
    BY ElementOfSeq, LenProperties DEF SessionType
  <2>4. replies' \in Seq(Lines)
    BY <2>2, <2>3, SubSeqProperties, LenProperties DEF SessionType
  <2>5. QED
    BY <2>1, <2>4, StayType DEF SessionType
<1>7. CASE UNCHANGED vars
  <2>1. SameBatch /\ UNCHANGED <<pc, awaiting, mail, rcpt, result, pending, replies>>
    BY <1>7 DEF vars, SameBatch, given, client
  <2>2. QED
    BY <2>1, StayType DEF SessionType
<1>8. QED
  BY <1>1, <1>2, <1>3, <1>4, <1>5, <1>6, <1>7 DEF Next, Dialogue

LEMMA CutReplies ==
    ASSUME SessionType, Close
    PROVE  /\ SameBatch /\ UNCHANGED <<pc, awaiting, mail, rcpt, tls, result, asked, pending, from, to, accepted>>
           /\ closed' /\ ~ closed /\ "close" \in faults
           /\ \A k \in DOMAIN replies' : k \in DOMAIN replies /\ replies'[k] = replies[k]
           /\ Len(replies') <= Len(replies) /\ Len(replies) \in Nat /\ Len(replies') \in Nat
           /\ DOMAIN replies' = 1..Len(replies')
           /\ replies = <<>> => replies' = <<>>
<1>1. PICK n \in 0..Len(replies) : replies' = SubSeq(replies, 1, n)
  BY DEF Close
<1>2. /\ \A i \in 1..n : replies[i] \in Lines
      /\ Len(replies) \in Nat /\ n \in Int /\ DOMAIN replies = 1..Len(replies)
  BY ElementOfSeq, LenProperties DEF SessionType
<1>3. /\ replies' \in Seq(Lines) /\ Len(replies') = IF 1 <= n THEN n - 1 + 1 ELSE 0
      /\ \A i \in 1..(n - 1 + 1) : replies'[i] = replies[1 + i - 1]
  BY <1>1, <1>2, SubSeqProperties
<1>4. Len(replies') = n /\ DOMAIN replies' = 1..n
  BY <1>2, <1>3, LenProperties
<1>5. \A k \in DOMAIN replies' : k \in DOMAIN replies /\ replies'[k] = replies[k]
  BY <1>2, <1>3, <1>4
<1>6. replies = <<>> => replies' = <<>>
  BY <1>2, <1>3, <1>4, EmptySeq
<1>7. QED
  BY <1>2, <1>4, <1>5, <1>6 DEF Close, SameBatch, given, client

LEMMA DialogStep ==
    ASSUME SmtpSessionAssumption, SessionType, DialogInv, [Next]_vars
    PROVE  DialogInv'
<1>1. ASSUME ~ awaiting', ~ pending', replies' = <<>> PROVE DialogInv'
  <2>1. DOMAIN replies' = {}
    BY <1>1
  <2>2. QED
    BY <1>1, <2>1 DEF DialogInv
<1>2. CASE Prepare
  <2>1. pc \notin Talk \cup {"greeting"} /\ UNCHANGED <<awaiting, pending, replies>>
    BY <1>2, PrepareEffect, StageNames DEF Early
  <2>2. QED
    BY <1>1, <2>1 DEF DialogInv
<1>3. CASE Send
  BY <1>3 DEF Send, DialogInv
<1>4. CASE Broken
  BY <1>1, <1>4, BrokenEffect
<1>5. CASE ReadLine
  <2>1. CASE ~ awaiting' /\ replies' = <<>>
    BY <1>1, <1>5, <2>1, ReadEffect
  <2>2. CASE /\ UNCHANGED client
             /\ Len(replies') = Len(replies) - 1
             /\ \A k \in DOMAIN replies' : k + 1 \in DOMAIN replies /\ replies'[k] = replies[k + 1]
    <3>1. /\ UNCHANGED <<pc, awaiting, mail, rcpt, asked, pending>> /\ awaiting /\ ~ pending
          /\ replies' \in Seq(Lines)
      BY <1>5, <2>2, ReadEffect DEF client
    <3>2. \A k \in DOMAIN replies' : replies'[k].last => k = Len(replies')
      <4> SUFFICES ASSUME NEW k \in DOMAIN replies', replies'[k].last PROVE k = Len(replies')
        OBVIOUS
      <4>1. k + 1 = Len(replies)
        BY <2>2 DEF DialogInv
      <4>2. k \in Nat /\ Len(replies) \in Nat
        BY <3>1, LenProperties DEF SessionType
      <4>3. QED
        BY <2>2, <4>1, <4>2
    <3>3. QED
      BY <3>1, <3>2 DEF DialogInv
  <2>3. QED
    BY <1>5, <2>1, <2>2, ReadEffect
<1>6. CASE Answer
  <2>1. /\ UNCHANGED <<pc, awaiting, mail, rcpt, asked>> /\ awaiting /\ ~ pending'
        /\ \A k \in DOMAIN replies' : replies'[k].last => k = Len(replies')
    BY <1>6, AnswerEffect DEF client
  <2>2. QED
    BY <2>1 DEF DialogInv
<1>7. CASE Close
  <2>1. \A k \in DOMAIN replies' : replies'[k].last => k = Len(replies')
    BY <1>7, CutReplies DEF DialogInv
  <2>2. QED
    BY <1>7, <2>1, CutReplies DEF DialogInv
<1>8. CASE UNCHANGED vars
  BY <1>8 DEF vars, client, DialogInv
<1>9. QED
  BY <1>2, <1>3, <1>4, <1>5, <1>6, <1>7, <1>8 DEF Next, Dialogue

LEMMA LoginStep ==
    ASSUME SmtpSessionAssumption, SessionType, DialogInv, LoginInv, [Next]_vars
    PROVE  LoginInv'
<1>1. ASSUME UNCHANGED <<security, asked>>, tls => tls',
             pc' \in {"login", "user", "pass", "plain"} =>
                pc \in {"login", "user", "pass", "plain"} \/ tls' \/ security = "plain"
      PROVE  LoginInv'
  BY <1>1 DEF LoginInv, LoginIsCovered
<1>2. CASE Prepare
  BY <1>1, <1>2, PrepareEffect DEF Onward
<1>3. CASE Send
  <2>1. UNCHANGED <<security, tls, pc>> /\ asked'.exchange = pc
    BY <1>3 DEF Send, given
  <2>2. QED
    BY <2>1 DEF LoginInv, LoginIsCovered
<1>4. CASE Broken
  BY <1>1, <1>4, BrokenEffect DEF Onward
<1>5. CASE ReadLine
  <2>1. UNCHANGED <<security, asked>>
    BY <1>5, ReadEffect
  <2>2. CASE UNCHANGED client
    BY <1>1, <2>1, <2>2 DEF client
  <2>3. CASE UNCHANGED tls /\ Fail(replies[1].code)
    <3>1. pc \in Talk \cup {"greeting"}
      BY <1>5, ReadEffect
    <3>2. QED
      BY <1>1, <2>1, <2>3, <3>1, FailMoves DEF Onward
  <2>4. CASE tls' = (tls \/ pc = "starttls") /\ replies[1].code \in Expected(pc) /\ Proceed
    <3>1. pc \in Talk \cup {"greeting"}
      BY <1>5, ReadEffect
    <3>2. pc' \in {"login", "plain"} => pc = "ehlo" /\ (security # "starttls" \/ tls)
      BY <2>4, <3>1, ProceedMoves DEF Onward
    <3>3. pc' \in {"user", "pass"} => pc \in {"login", "user"}
      BY <2>4, <3>1, ProceedMoves DEF Onward
    <3>4. security = "tls" => tls
      BY DEF LoginInv
    <3>5. security \in {"plain", "starttls", "tls"}
      BY DEF SessionType, SmtpSessionAssumption
    <3>6. tls => tls'
      BY <2>4
    <3>7. QED
      BY <1>1, <2>1, <3>2, <3>3, <3>4, <3>5, <3>6
  <2>5. QED
    BY <1>5, <2>2, <2>3, <2>4, ReadEffect
<1>6. CASE Answer
  BY <1>1, <1>6, AnswerEffect DEF given, client
<1>7. CASE Close
  BY <1>1, <1>7, CutReplies DEF SameBatch
<1>8. CASE UNCHANGED vars
  BY <1>1, <1>8 DEF vars, given, client
<1>9. QED
  BY <1>2, <1>3, <1>4, <1>5, <1>6, <1>7, <1>8 DEF Next, Dialogue

-----------------------------------------------------------------------------
(***************************************************************************)
(* The transaction.                                                         *)
(***************************************************************************)
\* The client goes to where it has no transaction.
LEMMA TransactionOver ==
    ASSUME pc' \notin Sending
    PROVE  Transaction'
BY StageNames DEF Transaction

\* What the server has written becomes less, or nothing changes.
LEMMA TransactionKept ==
    ASSUME Transaction, UNCHANGED <<batch, pc, mail, rcpt, from, to, accepted>>,
           Unanswered' <=> Unanswered,
           \A k \in DOMAIN replies' : \E j \in DOMAIN replies : replies'[k] = replies[j]
    PROVE  Transaction'
<1>1. \A n : UpTo(n)' = UpTo(n)
  BY DEF UpTo, Rcpts
<1>2. Rcpts(mail)' = Rcpts(mail)
  BY DEF Rcpts
<1>3. pc = "mail" /\ ~ Unanswered =>
         \A k \in DOMAIN replies' : replies'[k].code = 250 => from = mail /\ to = {}
  BY DEF Transaction
<1>4. pc = "rcpt" /\ ~ Unanswered =>
         \A k \in DOMAIN replies' : replies'[k].code \in {250, 251} => to = UpTo(rcpt)
  BY DEF Transaction
<1>5. pc = "body" /\ ~ Unanswered =>
         \A k \in DOMAIN replies' : replies'[k].code = 250 => \E a \in accepted : a.body = mail
  BY DEF Transaction
<1>6. QED
  BY <1>1, <1>2, <1>3, <1>4, <1>5 DEF Transaction

LEMMA TransactionRead ==
    ASSUME SmtpSessionAssumption, SessionType, DialogInv, Transaction, ReadLine
    PROVE  Transaction'
<1>1. /\ awaiting /\ ~ pending /\ ~ Unanswered /\ pc \in Talk \cup {"greeting"}
      /\ UNCHANGED <<batch, from, to, accepted, pending>> /\ 1 \in DOMAIN replies
  BY ReadEffect DEF Unanswered
<1>2. CASE UNCHANGED client
  <2>1. Unanswered' <=> Unanswered
    BY <1>1, <1>2 DEF Unanswered, client
  <2>2. \A k \in DOMAIN replies' : \E j \in DOMAIN replies : replies'[k] = replies[j]
    <3>1. CASE replies' = <<>>
      BY <3>1
    <3>2. CASE \A k \in DOMAIN replies' : k + 1 \in DOMAIN replies /\ replies'[k] = replies[k + 1]
      BY <3>2
    <3>3. QED
      BY <3>1, <3>2, ReadEffect
  <2>3. QED
    BY <1>1, <1>2, <2>1, <2>2, TransactionKept DEF client
<1>3. CASE Fail(replies[1].code)
  <2>1. pc' \in {"prepare", "quit", "done", "plain", "aborted"}
    BY <1>1, <1>3, FailMoves DEF Onward
  <2>2. QED
    BY <2>1, TransactionOver, StageNames
<1>4. CASE ~ awaiting' /\ replies' = <<>> /\ replies[1].code \in Expected(pc) /\ Proceed
  <2> DEFINE code == replies[1].code
  <2>1. Unanswered' /\ DOMAIN replies' = {}
    BY <1>4 DEF Unanswered
  <2>2. CASE pc = "mail" /\ pc' = "rcpt" /\ Stay /\ code = 250
    <3>1. from = mail /\ to = {} /\ rcpt = 1
      BY <1>1, <2>2 DEF Transaction, SessionType
    <3>2. UpTo(rcpt - 1)' = {}
      <4>1. rcpt' - 1 = 0
        BY <2>2, <3>1 DEF Stay
      <4>2. QED
        BY <4>1 DEF UpTo
    <3>3. from' = mail' /\ to' = {}
      BY <1>1, <2>2, <3>1 DEF Stay
    <3>4. QED
      BY <2>1, <2>2, <3>2, <3>3 DEF Transaction
  <2>3. CASE /\ pc = "rcpt" /\ pc' = "rcpt" /\ rcpt' = rcpt + 1
             /\ UNCHANGED <<mail, result>> /\ code \in {250, 251}
    <3>1. from = mail /\ to = UpTo(rcpt)
      BY <1>1, <2>3 DEF Transaction
    <3>2. UpTo(rcpt - 1)' = UpTo(rcpt)
      <4>1. rcpt' - 1 = rcpt
        BY <2>3 DEF SessionType
      <4>2. QED
        BY <1>1, <2>3, <4>1 DEF UpTo, Rcpts
    <3>3. QED
      BY <1>1, <2>1, <2>3, <3>1, <3>2 DEF Transaction
  <2>4. CASE /\ pc = "rcpt" /\ pc' = "data" /\ ~ (rcpt < Len(Rcpts(mail))) /\ Stay
             /\ code \in {250, 251}
    <3>1. from = mail /\ to = UpTo(rcpt)
      BY <1>1, <2>4 DEF Transaction
    <3>2. rcpt = Len(Rcpts(mail))
      <4>1. rcpt \in 1..Len(Rcpts(mail)) /\ mail \in Mails
        BY <2>4, StageNames DEF SessionType
      <4>2. QED
        BY <2>4, <4>1, Batched
    <3>3. UpTo(Len(Rcpts(mail)))' = UpTo(Len(Rcpts(mail)))
      BY <1>1, <2>4 DEF UpTo, Rcpts, Stay
    <3>4. from' = mail' /\ to' = UpTo(Len(Rcpts(mail)))'
      BY <1>1, <2>4, <3>1, <3>2, <3>3 DEF Stay
    <3>5. QED
      BY <2>4, <3>4 DEF Transaction
  <2>5. CASE pc = "data" /\ pc' = "body" /\ Stay
    <3>1. from = mail /\ to = UpTo(Len(Rcpts(mail)))
      BY <2>5 DEF Transaction
    <3>2. UpTo(Len(Rcpts(mail)))' = UpTo(Len(Rcpts(mail)))
      BY <1>1, <2>5 DEF UpTo, Rcpts, Stay
    <3>3. from' = mail' /\ to' = UpTo(Len(Rcpts(mail)))'
      BY <1>1, <2>5, <3>1, <3>2 DEF Stay
    <3>4. QED
      BY <2>1, <2>5, <3>3 DEF Transaction
  <2>6. CASE pc' \notin Sending
    BY <2>6, TransactionOver
  <2>7. QED
    BY <1>1, <1>4, <2>2, <2>3, <2>4, <2>5, <2>6, ProceedMoves, StageNames DEF Onward, Early
<1>5. QED
  BY <1>2, <1>3, <1>4, ReadEffect

LEMMA TransactionAnswer ==
    ASSUME SmtpSessionAssumption, SessionType, DialogInv, Transaction, Answer
    PROVE  Transaction'
<1>1. PICK code \in Codes :
        /\ pending /\ awaiting /\ pending' = FALSE
        /\ asked.exchange = pc /\ asked.mail = mail /\ asked.rcpt = rcpt
        /\ UNCHANGED <<given, client, asked>>
        /\ \A k \in DOMAIN replies' : replies'[k].code = code
        /\ pc = "mail" /\ code = 250 => from' = mail /\ to' = {} /\ UNCHANGED accepted
        /\ pc = "rcpt" /\ code \in {250, 251} =>
              to' = to \cup {Recipient} /\ UNCHANGED <<from, accepted>>
        /\ pc = "body" => from' = 0 /\ to' = {} /\ accepted' = IF code # 250 THEN accepted
                            ELSE accepted \cup
                                   {[envelope |-> from, body |-> mail, to |-> to,
                                     read |-> Read(Received(Body))]}
        /\ ~ (pc = "mail" /\ code = 250) /\ ~ (pc = "rcpt" /\ code \in {250, 251}) /\ pc # "body" =>
              UNCHANGED <<from, to, accepted>>
  BY AnswerEffect
<1>2. /\ UNCHANGED <<batch, pc, mail, rcpt, awaiting>> /\ Unanswered /\ ~ Unanswered'
  BY <1>1 DEF given, client, Unanswered
<1>3. \A n : UpTo(n)' = UpTo(n)
  BY <1>2 DEF UpTo, Rcpts
<1>4. Rcpts(mail)' = Rcpts(mail)
  BY <1>2 DEF Rcpts
<1>5. CASE pc = "mail"
  BY <1>1, <1>2, <1>5 DEF Transaction
<1>6. CASE pc = "rcpt"
  <2>1. from = mail /\ to = UpTo(rcpt - 1)
    BY <1>2, <1>6 DEF Transaction
  <2>2. from' = mail
    BY <1>1, <1>6, <2>1
  <2>3. code \in {250, 251} => to' = UpTo(rcpt)
    <3>1. rcpt \in Nat \ {0}
      BY DEF SessionType
    <3>2. UpTo(rcpt) = UpTo(rcpt - 1) \cup {Rcpts(mail)[rcpt]}
      <4>1. 1..rcpt = (1..(rcpt - 1)) \cup {rcpt}
        BY <3>1
      <4>2. QED
        BY <4>1 DEF UpTo
    <3>3. Recipient = Rcpts(mail)[rcpt]
      BY <1>1 DEF Recipient
    <3>4. QED
      BY <1>1, <1>6, <2>1, <3>2, <3>3
  <2>4. QED
    BY <1>1, <1>2, <1>3, <1>6, <2>2, <2>3 DEF Transaction
<1>7. CASE pc = "data"
  BY <1>1, <1>2, <1>3, <1>4, <1>7 DEF Transaction
<1>8. CASE pc = "body"
  <2>1. code = 250 => \E a \in accepted' : a.body = mail
    <3> DEFINE new == [envelope |-> from, body |-> mail, to |-> to, read |-> Read(Received(Body))]
    <3>1. new.body = mail
      OBVIOUS
    <3>2. accepted' = IF code # 250 THEN accepted ELSE accepted \cup {new}
      BY <1>1, <1>8
    <3> HIDE DEF new
    <3>3. QED
      BY <3>1, <3>2
  <2>2. QED
    BY <1>1, <1>2, <1>8, <2>1 DEF Transaction
<1>9. CASE pc \notin Sending
  BY <1>2, <1>9, TransactionOver
<1>10. QED
  BY <1>5, <1>6, <1>7, <1>8, <1>9, StageNames

LEMMA TransactionStep ==
    ASSUME SmtpSessionAssumption, SessionType, DialogInv, Transaction, [Next]_vars
    PROVE  Transaction'
<1>1. CASE Prepare
  <2>1. ~ awaiting /\ ~ awaiting' /\ UNCHANGED <<batch, from, to, accepted, replies>>
    BY <1>1, PrepareEffect, StageNames DEF DialogInv, Early
  <2>2. pc' \in {"mail", "prepare", "quit"} /\ Unanswered'
    BY <1>1, <2>1, PrepareEffect DEF Onward, Unanswered
  <2>3. QED
    BY <2>2 DEF Transaction
<1>2. CASE Send
  <2>1. /\ UNCHANGED <<batch, pc, mail, rcpt, from, to, accepted, replies>>
        /\ Unanswered /\ Unanswered'
    BY <1>2 DEF Send, given, server, Unanswered
  <2>2. QED
    BY <2>1, TransactionKept
<1>3. CASE Broken
  <2>1. pc' \in {"prepare", "quit", "done", "plain", "aborted"}
    BY <1>3, BrokenEffect DEF Onward
  <2>2. QED
    BY <2>1, TransactionOver, StageNames
<1>4. CASE Close
  <2>1. UNCHANGED <<batch, pc, mail, rcpt, from, to, accepted>> /\ (Unanswered' <=> Unanswered)
    BY <1>4, CutReplies DEF SameBatch, Unanswered
  <2>2. \A k \in DOMAIN replies' : \E j \in DOMAIN replies : replies'[k] = replies[j]
    BY <1>4, CutReplies
  <2>3. QED
    BY <2>1, <2>2, TransactionKept
<1>5. CASE UNCHANGED vars
  <2>1. UNCHANGED <<batch, pc, mail, rcpt, from, to, accepted, replies>> /\ (Unanswered' <=> Unanswered)
    BY <1>5 DEF vars, given, client, server, Unanswered
  <2>2. QED
    BY <2>1, TransactionKept
<1>6. QED
  BY <1>1, <1>2, <1>3, <1>4, <1>5, TransactionRead, TransactionAnswer DEF Next, Dialogue

-----------------------------------------------------------------------------
(***************************************************************************)
(* What is accepted and what is recorded.                                   *)
(***************************************************************************)
\* The client has left the messages accepted so far behind, or is where it was.
LEMMA AcceptedKept ==
    ASSUME SessionType, AcceptedInv, UNCHANGED <<batch, accepted>>, closed => closed',
           mail' \in Nat,
           \A a \in accepted :
              \/ /\ a.body < mail' /\ (closed' \/ result'[a.body] = "sent")
              \/ /\ a.body = mail /\ UNCHANGED <<mail, pc>> /\ (Unanswered' <=> Unanswered)
                 /\ Told({250}) => Told({250})'
                 /\ ~ (a.body < mail)
    PROVE  AcceptedInv'
<1>1. Mails' = Mails /\ \A m : Rcpts(m)' = Rcpts(m)
  BY DEF Mails, Rcpts
<1>2. ASSUME NEW a \in accepted
      PROVE  \/ a.body < mail' /\ (closed' \/ result'[a.body] = "sent")
             \/ a.body = mail' /\ pc' = "body" /\ ~ Unanswered' /\ Told({250})'
  BY <1>2 DEF AcceptedInv
<1>3. ASSUME NEW a \in accepted
      PROVE  /\ a.body \in Mails' /\ a.envelope = a.body /\ a.to = ToSet(Rcpts(a.body)')
             /\ a.read = Read(Received(Stuff(Build(batch'[a.body]))))
  BY <1>1 DEF AcceptedInv
<1>4. QED
  BY <1>2, <1>3 DEF AcceptedInv

LEMMA AcceptedOnward ==
    ASSUME SessionType, AcceptedInv, UNCHANGED <<batch, accepted>>, closed => closed',
           mail \in Mails, NEW outcome \in {"sent", "failed"}, Onward(outcome),
           \A a \in accepted : a.body = mail => closed' \/ outcome = "sent"
    PROVE  AcceptedInv'
<1>1. mail' = mail + 1 /\ mail \in Nat \ {0} /\ result' = [result EXCEPT ![mail] = outcome]
  BY DEF Onward, SessionType
<1>2. ASSUME NEW a \in accepted
      PROVE  a.body < mail' /\ (closed' \/ result'[a.body] = "sent")
  <2>1. a.body \in Mails /\ a.body \in Int
    BY DEF AcceptedInv, Mails
  <2>2. CASE a.body = mail
    BY <1>1, <2>1, <2>2 DEF SessionType
  <2>3. CASE a.body < mail /\ (closed \/ result[a.body] = "sent")
    BY <1>1, <2>1, <2>3 DEF SessionType
  <2>4. QED
    BY <2>2, <2>3 DEF AcceptedInv
<1>3. QED
  BY <1>1, <1>2, AcceptedKept

LEMMA AcceptedStay ==
    ASSUME SessionType, AcceptedInv, UNCHANGED <<batch, accepted, mail, result>>, closed => closed',
           \/ pc # "body" \/ Unanswered
           \/ UNCHANGED pc /\ (Unanswered' <=> Unanswered) /\ (Told({250}) => Told({250})')
    PROVE  AcceptedInv'
<1>1. mail \in Nat
  BY DEF SessionType
<1>2. \A a \in accepted : a.body \in Int
  BY DEF AcceptedInv, Mails
<1>3. ASSUME NEW a \in accepted
      PROVE  \/ /\ a.body < mail' /\ (closed' \/ result'[a.body] = "sent")
             \/ /\ a.body = mail /\ UNCHANGED <<mail, pc>> /\ (Unanswered' <=> Unanswered)
                /\ Told({250}) => Told({250})'
                /\ ~ (a.body < mail)
  <2>1. CASE a.body < mail /\ (closed \/ result[a.body] = "sent")
    BY <2>1
  <2>2. CASE a.body = mail /\ pc = "body" /\ ~ Unanswered
    BY <1>1, <2>2
  <2>3. QED
    BY <2>1, <2>2 DEF AcceptedInv
<1>4. QED
  BY <1>1, <1>3, AcceptedKept

LEMMA AcceptedRead ==
    ASSUME SmtpSessionAssumption, SessionType, DialogInv, AcceptedInv, ReadLine
    PROVE  AcceptedInv'
<1>1. /\ awaiting /\ ~ pending /\ ~ Unanswered /\ pc \in Talk \cup {"greeting"}
      /\ UNCHANGED <<batch, from, to, accepted, pending, closed>> /\ 1 \in DOMAIN replies
  BY ReadEffect DEF Unanswered
<1>2. CASE UNCHANGED client
  <2>1. Unanswered' <=> Unanswered
    BY <1>1, <1>2 DEF Unanswered, client
  <2>2. Told({250}) => Told({250})'
    <3>1. CASE replies' = <<>>
      BY <3>1 DEF Told
    <3>2. CASE \A k \in DOMAIN replies' : k + 1 \in DOMAIN replies /\ replies'[k] = replies[k + 1]
      BY <3>2 DEF Told
    <3>3. QED
      BY <3>1, <3>2, ReadEffect
  <2>3. QED
    BY <1>1, <1>2, <2>1, <2>2, AcceptedStay DEF client
<1>3. CASE Fail(replies[1].code) /\ (replies[1].code \notin Expected(pc) \/ pc = "starttls")
  <2>1. \A a \in accepted : a.body # mail
    <3> SUFFICES ASSUME NEW a \in accepted, a.body = mail PROVE FALSE
      OBVIOUS
    <3>1. mail \in Nat
      BY DEF SessionType
    <3>2. pc = "body" /\ Told({250})
      BY <3>1 DEF AcceptedInv
    <3>3. replies[1].code = 250
      BY <1>1, <3>2 DEF Told
    <3>4. QED
      BY <1>3, <3>2, <3>3 DEF Expected
  <2>2. CASE pc \in Sending /\ Onward("failed")
    <3>1. mail \in Mails
      BY <2>2 DEF SessionType
    <3>2. QED
      BY <1>1, <2>1, <2>2, <3>1, AcceptedOnward
  <2>3. CASE Stay /\ pc \notin Sending
    BY <1>1, <2>3, AcceptedStay, StageNames DEF Stay
  <2>4. QED
    BY <1>1, <1>3, <2>2, <2>3, FailMoves, StageNames DEF Early
<1>4. CASE replies[1].code \in Expected(pc) /\ Proceed
  <2>1. CASE pc = "body" /\ Onward("sent")
    <3>1. mail \in Mails
      BY <2>1, StageNames DEF SessionType
    <3>2. QED
      BY <1>1, <2>1, <3>1, AcceptedOnward
  <2>2. CASE pc # "body" /\ UNCHANGED <<mail, result>>
    BY <1>1, <2>2, AcceptedStay
  <2>3. CASE pc \in Early /\ mail' = 1 /\ UNCHANGED result
    <3>1. mail' = mail /\ pc # "body"
      BY <2>3, StageNames DEF SessionType, Early
    <3>2. QED
      BY <1>1, <2>3, <3>1, AcceptedStay
  <2>4. QED
    BY <1>1, <1>4, <2>1, <2>2, <2>3, ProceedMoves DEF Early, Stay
<1>5. QED
  BY <1>2, <1>3, <1>4, ReadEffect

LEMMA AcceptedAnswer ==
    ASSUME SmtpSessionAssumption, SessionType, DialogInv, Transaction, AcceptedInv, Answer
    PROVE  AcceptedInv'
<1> DEFINE new == [envelope |-> from, body |-> mail, to |-> to, read |-> Read(Received(Body))]
<1>1. PICK code \in Codes :
        /\ pending /\ awaiting /\ pending' = FALSE /\ ~ closed
        /\ asked.exchange = pc /\ asked.mail = mail /\ asked.rcpt = rcpt
        /\ UNCHANGED <<given, client, asked>>
        /\ \A k \in DOMAIN replies' : replies'[k].code = code
        /\ pc = "body" => accepted' = IF code # 250 THEN accepted ELSE accepted \cup {new}
        /\ pc # "body" => UNCHANGED accepted
  BY AnswerEffect
<1>2. /\ UNCHANGED <<batch, pc, mail, rcpt, awaiting, result>> /\ Unanswered /\ ~ Unanswered'
  BY <1>1 DEF given, client, Unanswered
<1>3. CASE UNCHANGED accepted
  BY <1>1, <1>2, <1>3, AcceptedStay
<1>4. CASE pc = "body" /\ code = 250 /\ accepted' = accepted \cup {new}
  <2>1. mail \in Mails /\ mail \in Nat
    BY <1>4, StageNames DEF SessionType
  <2>2. from = mail /\ to = UpTo(Len(Rcpts(mail)))
    BY <1>2, <1>4 DEF Transaction
  <2>3. to = ToSet(Rcpts(mail))
    BY <2>1, <2>2, Batched DEF UpTo, ToSet
  <2>4. Body = Stuff(Build(batch[mail]))
    BY <1>1 DEF Body
  <2>5. /\ new.body = mail /\ new.envelope = mail /\ new.to = ToSet(Rcpts(mail))
        /\ new.read = Read(Received(Stuff(Build(batch[mail]))))
    BY <2>2, <2>3, <2>4
  <2> HIDE DEF new
  <2>6. Told({250})'
    BY <1>1, <1>4 DEF Told
  <2>7. Mails' = Mails /\ \A m : Rcpts(m)' = Rcpts(m)
    BY <1>2 DEF Mails, Rcpts
  <2>8. \A a \in accepted : a.body < mail /\ result[a.body] = "sent"
    BY <1>1, <1>2 DEF AcceptedInv
  <2>9. ASSUME NEW a \in accepted \cup {new}
        PROVE  /\ a.body \in Mails /\ a.envelope = a.body /\ a.to = ToSet(Rcpts(a.body))
               /\ a.read = Read(Received(Stuff(Build(batch[a.body]))))
               /\ \/ a.body < mail /\ result[a.body] = "sent"
                  \/ a.body = mail
    <3>1. CASE a = new
      BY <2>1, <2>5, <3>1
    <3>2. CASE a \in accepted
      BY <2>8, <3>2 DEF AcceptedInv
    <3>3. QED
      BY <3>1, <3>2
  <2>10. QED
    BY <1>2, <1>4, <2>6, <2>7, <2>9 DEF AcceptedInv
<1>5. QED
  <2> HIDE DEF new
  <2>1. QED
    BY <1>1, <1>3, <1>4

LEMMA AcceptedStep ==
    ASSUME SmtpSessionAssumption, SessionType, DialogInv, Transaction, AcceptedInv,
           [Next]_vars
    PROVE  AcceptedInv'
<1>1. CASE Prepare
  <2>1. UNCHANGED <<batch, accepted, closed>> /\ pc = "prepare" /\ mail \in Mails
    BY <1>1, PrepareEffect DEF SessionType
  <2>2. \A a \in accepted : a.body # mail
    <3>1. mail \in Nat
      BY DEF SessionType
    <3>2. QED
      BY <2>1, <3>1 DEF AcceptedInv
  <2>3. CASE Onward("failed")
    BY <2>1, <2>2, <2>3, AcceptedOnward
  <2>4. CASE Stay
    BY <2>1, <2>4, AcceptedStay DEF Stay
  <2>5. QED
    BY <1>1, <2>3, <2>4, PrepareEffect
<1>2. CASE Send
  BY <1>2, AcceptedStay DEF Send, given, server, Unanswered
<1>3. CASE Broken
  <2>1. UNCHANGED <<batch, accepted, closed>> /\ closed
    BY <1>3, BrokenEffect
  <2>2. CASE pc \in Sending /\ Onward("failed")
    <3>1. mail \in Mails
      BY <2>2 DEF SessionType
    <3>2. QED
      BY <2>1, <2>2, <3>1, AcceptedOnward
  <2>3. CASE Stay /\ pc \notin Sending
    BY <2>1, <2>3, AcceptedStay, StageNames DEF Stay
  <2>4. QED
    BY <1>3, <2>2, <2>3, BrokenEffect, StageNames DEF Early
<1>4. CASE Close
  <2>1. UNCHANGED <<batch, pc, mail, result, accepted>> /\ closed' /\ (Unanswered' <=> Unanswered)
    BY <1>4, CutReplies DEF SameBatch, Unanswered
  <2>2. Told({250}) => Told({250})'
    BY <1>4, CutReplies DEF Told
  <2>3. QED
    BY <2>1, <2>2, AcceptedStay
<1>5. CASE UNCHANGED vars
  <2>1. UNCHANGED <<batch, pc, mail, result, accepted, closed>> /\ (Unanswered' <=> Unanswered)
    BY <1>5 DEF vars, given, client, server, Unanswered
  <2>2. Told({250}) => Told({250})'
    BY <1>5 DEF Told, vars
  <2>3. QED
    BY <2>1, <2>2, AcceptedStay
<1>6. QED
  BY <1>1, <1>2, <1>3, <1>4, <1>5, AcceptedRead, AcceptedAnswer DEF Next, Dialogue

LEMMA SentKept ==
    ASSUME SessionType, SentInv, UNCHANGED <<batch, mail, result>>, accepted \subseteq accepted'
    PROVE  SentInv'
<1>1. Mails' = Mails
  BY DEF Mails
<1>2. QED
  BY <1>1 DEF SentInv

LEMMA SentOnward ==
    ASSUME SmtpSessionAssumption, SessionType, SentInv, UNCHANGED <<batch, accepted>>, mail \in Mails,
           NEW outcome \in {"sent", "failed"}, Onward(outcome),
           outcome = "sent" => \E a \in accepted : a.body = mail
    PROVE  SentInv'
<1>1. Mails' = Mails /\ mail' = mail + 1 /\ result' = [result EXCEPT ![mail] = outcome]
  BY DEF Onward, Mails
<1>2. ASSUME NEW m \in Mails
      PROVE  /\ result'[m] = "sent" => \E a \in accepted : a.body = m
             /\ result'[m] # "queued" => m < mail + 1
  <2>1. CASE m = mail
    <3>1. result'[m] = outcome /\ mail \in Nat
      BY <1>1, <2>1 DEF SessionType
    <3>2. QED
      BY <2>1, <3>1
  <2>2. CASE m # mail
    <3>1. result'[m] = result[m] /\ m \in Int /\ mail \in Nat
      BY <1>1, <2>2 DEF SessionType, Mails
    <3>2. QED
      BY <3>1 DEF SentInv
  <2>3. QED
    BY <2>1, <2>2
<1>3. QED
  BY <1>1, <1>2 DEF SentInv

LEMMA SentStep ==
    ASSUME SmtpSessionAssumption, SessionType, DialogInv, Transaction, SentInv, [Next]_vars
    PROVE  SentInv'
<1>1. CASE Prepare
  <2>1. UNCHANGED <<batch, accepted>> /\ mail \in Mails
    BY <1>1, PrepareEffect DEF SessionType
  <2>2. QED
    BY <1>1, <2>1, PrepareEffect, SentKept, SentOnward DEF Stay
<1>2. CASE Send
  BY <1>2, SentKept DEF Send, given, server
<1>3. CASE Broken
  <2>1. UNCHANGED <<batch, accepted>>
    BY <1>3, BrokenEffect
  <2>2. CASE pc \in Sending /\ Onward("failed")
    BY <2>1, <2>2, SentOnward DEF SessionType
  <2>3. CASE Stay
    BY <2>1, <2>3, SentKept DEF Stay
  <2>4. QED
    BY <1>3, <2>2, <2>3, BrokenEffect
<1>4. CASE ReadLine
  <2>1. /\ pc \in Talk \cup {"greeting"} /\ UNCHANGED <<batch, accepted>> /\ ~ Unanswered
        /\ 1 \in DOMAIN replies
    BY <1>4, ReadEffect DEF Unanswered
  <2>2. CASE UNCHANGED client
    BY <2>1, <2>2, SentKept DEF client
  <2>3. CASE Fail(replies[1].code)
    <3>1. CASE pc \in Sending /\ Onward("failed")
      BY <2>1, <3>1, SentOnward DEF SessionType
    <3>2. CASE Stay
      BY <2>1, <3>2, SentKept DEF Stay
    <3>3. QED
      BY <2>1, <2>3, <3>1, <3>2, FailMoves
  <2>4. CASE replies[1].code \in Expected(pc) /\ Proceed
    <3>1. CASE pc = "body" /\ Onward("sent") /\ replies[1].code = 250
      <4>1. mail \in Mails
        BY <3>1, StageNames DEF SessionType
      <4>2. \E a \in accepted : a.body = mail
        BY <2>1, <3>1 DEF Transaction
      <4>3. QED
        BY <2>1, <3>1, <4>1, <4>2, SentOnward
    <3>2. CASE UNCHANGED <<mail, result>>
      BY <2>1, <3>2, SentKept
    <3>3. CASE pc \in Early /\ mail' = 1 /\ UNCHANGED result
      BY <2>1, <3>3, SentKept DEF SessionType
    <3>4. QED
      BY <2>1, <2>4, <3>1, <3>2, <3>3, ProceedMoves DEF Stay
  <2>5. QED
    BY <1>4, <2>2, <2>3, <2>4, ReadEffect
<1>5. CASE Answer
  <2>1. UNCHANGED <<given, client>>
    BY <1>5 DEF Answer
  <2>2. accepted \subseteq accepted'
    <3>1. \E a : accepted' \in {accepted, accepted \cup {a}}
      BY <1>5 DEF Answer
    <3>2. QED
      BY <3>1
  <2>3. QED
    BY <2>1, <2>2, SentKept DEF given, client
<1>6. CASE Close
  BY <1>6, CutReplies, SentKept DEF SameBatch
<1>7. CASE UNCHANGED vars
  BY <1>7, SentKept DEF vars, given, client, server
<1>8. QED
  BY <1>1, <1>2, <1>3, <1>4, <1>5, <1>6, <1>7 DEF Next, Dialogue

-----------------------------------------------------------------------------
(***************************************************************************)
(* Why a message fails when nothing goes wrong.                             *)
(***************************************************************************)
LEMMA MoreIsBad ==
    ASSUME NEW m \in Nat, NEW n \in Nat, m <= n, BadBy(m)
    PROVE  BadBy(n)
BY DEF BadBy

\* The codes of a server that refuses no more than it has to.
LEMMA CodesTell ==
    ASSUME SmtpSessionAssumption, SessionType, DialogInv, Transaction, CauseInv, faults = {},
           awaiting, pending, NEW code \in Codes, pc \in Sending
    PROVE  code \in Expected(pc) \/ BadBy(mail)
<1>1. /\ asked.exchange = pc /\ asked.mail = mail /\ asked.rcpt = rcpt /\ Unanswered
      /\ mail \in Nat \ {0} /\ mail \in Mails
  BY DEF DialogInv, SessionType, Unanswered
<1>2. Refusal = {}
  BY DEF Refusal
<1>3. CASE pc = "mail"
  <2>1. CASE from = 0
    <3>1. Codes = Expected(pc)
      BY <1>1, <1>2, <1>3, <2>1 DEF Codes
    <3>2. QED
      BY <3>1
  <2>2. CASE BadBy(mail - 1)
    BY <1>1, <2>2, MoreIsBad
  <2>3. QED
    BY <1>1, <1>3, <2>1, <2>2 DEF CauseInv
<1>4. CASE pc = "rcpt"
  <2>1. CASE Recipient \in Bad
    <3>1. Recipient \in ToSet(Rcpts(mail))
      BY <1>1, <1>4, Batched DEF Recipient, SessionType, ToSet
    <3>2. mail \in 1..mail
      BY <1>1
    <3>3. QED
      BY <2>1, <3>1, <3>2 DEF BadBy
  <2>2. CASE Recipient \notin Bad
    <3>1. Codes = {250, 251}
      BY <1>1, <1>2, <1>4, <2>2 DEF Codes
    <3>2. Expected(pc) = {250, 251}
      BY <1>4 DEF Expected
    <3>3. QED
      BY <3>1, <3>2
  <2>3. QED
    BY <2>1, <2>2
<1>5. CASE pc = "data"
  <2>1. to # {}
    <3>1. to = UpTo(Len(Rcpts(mail))) /\ Len(Rcpts(mail)) \in Nat \ {0}
      BY <1>1, <1>5, Batched, StageNames DEF Transaction, SessionType
    <3>2. 1 \in 1..Len(Rcpts(mail))
      BY <3>1
    <3>3. QED
      BY <3>1, <3>2 DEF UpTo
  <2>2. Codes = Expected(pc)
    BY <1>1, <1>2, <1>5, <2>1 DEF Codes
  <2>3. QED
    BY <2>2
<1>6. CASE pc = "body"
  <2>1. Codes = Expected(pc)
    BY <1>1, <1>2, <1>6 DEF Codes
  <2>2. QED
    BY <2>1
<1>7. QED
  BY <1>3, <1>4, <1>5, <1>6, StageNames

LEMMA BadSame ==
    ASSUME UNCHANGED batch
    PROVE  /\ Mails' = Mails /\ Rcpts(mail)' = Rcpts(mail') /\ (\A m : Rcpts(m)' = Rcpts(m))
           /\ \A n : BadBy(n)' <=> BadBy(n)
<1>1. \A m : Rcpts(m)' = Rcpts(m)
  BY DEF Rcpts
<1>2. QED
  BY <1>1 DEF Mails, Rcpts, BadBy

\* The client is where it was.
LEMMA CauseKept ==
    ASSUME CauseInv, UNCHANGED <<batch, faults, mail, result, pc, from, closed>>,
           Unanswered' <=> Unanswered, Told(Expected(pc)) => Told(Expected(pc))'
    PROVE  CauseInv'
<1>1. /\ Mails' = Mails /\ (\A m : Rcpts(m)' = Rcpts(m))
      /\ \A n : BadBy(n)' <=> BadBy(n)
  BY BadSame
<1>2. (BadBy(mail) <=> BadBy(mail)') /\ (BadBy(mail - 1) <=> BadBy(mail - 1)')
  BY <1>1
<1>3. QED
  BY <1>1, <1>2 DEF CauseInv

\* It has settled a message.
LEMMA CauseOnward ==
    ASSUME SmtpSessionAssumption, SessionType, CauseInv, faults = {}, mail \in Mails,
           NEW outcome \in {"sent", "failed"}, Onward(outcome),
           UNCHANGED <<batch, faults, from>>, ~ closed',
           outcome = "failed" => Rcpts(mail) = <<>> \/ BadBy(mail),
           from = 0 \/ BadBy(mail)
    PROVE  CauseInv'
<1>1. /\ Mails' = Mails /\ (\A m : Rcpts(m)' = Rcpts(m))
      /\ \A n : BadBy(n)' <=> BadBy(n)
  BY BadSame
<1>2. mail' - 1 = mail /\ pc' \in {"prepare", "quit"}
  BY DEF Onward, SessionType
<1>3. BadBy(mail - 1)' <=> BadBy(mail)
  BY <1>1, <1>2
<1>4. ASSUME NEW m \in Mails, result'[m] = "failed" PROVE Rcpts(m) = <<>> \/ BadBy(m)
  <2>1. CASE m = mail
    <3>1. result'[m] = outcome
      BY <2>1 DEF Onward, SessionType
    <3>2. QED
      BY <1>4, <2>1, <3>1
  <2>2. CASE m # mail
    <3>1. result'[m] = result[m]
      BY <2>2 DEF Onward, SessionType
    <3>2. QED
      BY <1>4, <3>1 DEF CauseInv
  <2>3. QED
    BY <2>1, <2>2
<1>5. QED
  BY <1>1, <1>2, <1>3, <1>4, StageNames DEF CauseInv, Early

\* It goes on, and has not yet sent what comes next.
LEMMA CauseMoves ==
    ASSUME SmtpSessionAssumption, SessionType, CauseInv, faults = {},
           UNCHANGED <<batch, faults, result, from>>, closed' => pc' \in {"quit", "done"},
           replies' = <<>>, Unanswered', pc' \in Early => from = 0,
           pc' \in {"prepare", "quit", "mail"} => from = 0
    PROVE  CauseInv'
<1>1. /\ Mails' = Mails /\ (\A m : Rcpts(m)' = Rcpts(m))
      /\ \A n : BadBy(n)' <=> BadBy(n)
  BY BadSame
<1>2. \A codes : Told(codes)'
  BY DEF Told
<1>3. Told(Expected(pc))'
  BY DEF Told
<1>4. QED
  BY <1>1, <1>3 DEF CauseInv

LEMMA CauseRead ==
    ASSUME SmtpSessionAssumption, SessionType, DialogInv, CauseInv, faults = {}, ReadLine
    PROVE  CauseInv'
<1>1. /\ awaiting /\ ~ pending /\ ~ Unanswered /\ pc \in Talk \cup {"greeting"}
      /\ UNCHANGED <<batch, faults, from, pending, closed>> /\ 1 \in DOMAIN replies
  BY ReadEffect DEF Unanswered
<1>2. CASE UNCHANGED client
  <2>1. Unanswered' <=> Unanswered
    BY <1>1, <1>2 DEF Unanswered, client
  <2>2. Told(Expected(pc)) => Told(Expected(pc))'
    <3>1. CASE replies' = <<>>
      BY <3>1 DEF Told
    <3>2. CASE \A k \in DOMAIN replies' : k + 1 \in DOMAIN replies /\ replies'[k] = replies[k + 1]
      <4>1. Expected(pc)' = Expected(pc)
        BY <1>2 DEF client, Expected
      <4>2. QED
        BY <3>2, <4>1 DEF Told
    <3>3. QED
      BY <3>1, <3>2, ReadEffect
  <2>3. QED
    BY <1>1, <1>2, <2>1, <2>2, CauseKept DEF client
<1>3. CASE /\ ~ awaiting' /\ replies' = <<>> /\ Fail(replies[1].code)
           /\ replies[1].code \notin Expected(pc) \/ pc = "starttls"
  <2>1. Unanswered'
    BY <1>3 DEF Unanswered
  <2>2. CASE pc \in Sending /\ Onward("failed")
    <3>1. pc # "starttls" /\ mail \in Mails
      BY <2>2, StageNames DEF SessionType
    <3>2. BadBy(mail)
      BY <1>1, <1>3, <2>2, <3>1 DEF CauseInv, Told
    <3>3. ~ closed'
      BY <1>1, <2>2, StageNames DEF CauseInv
    <3>4. QED
      BY <1>1, <2>2, <3>1, <3>2, <3>3, CauseOnward
  <2>3. CASE Stay /\ pc' \in {"plain", "aborted"} /\ pc \in Early
    BY <1>1, <1>3, <2>1, <2>3, CauseMoves DEF CauseInv, Early, Stay
  <2>4. CASE Stay /\ pc' = "done"
    BY <1>1, <1>3, <2>1, <2>4, CauseMoves, StageNames DEF Stay, Early
  <2>5. QED
    BY <1>1, <1>3, <2>2, <2>3, <2>4, FailMoves DEF Early
<1>4. CASE ~ awaiting' /\ replies' = <<>> /\ replies[1].code \in Expected(pc) /\ Proceed
  <2>1. Unanswered'
    BY <1>4 DEF Unanswered
  <2>2. CASE pc = "body" /\ Onward("sent")
    <3>1. mail \in Mails /\ from = 0 /\ ~ closed'
      BY <1>1, <2>2, StageNames DEF SessionType, CauseInv
    <3>2. QED
      BY <1>1, <2>2, <3>1, CauseOnward
  <2>3. CASE pc \in Early /\ pc' \in Early \cup {"prepare", "quit"} /\ UNCHANGED result
    <3>1. from = 0 /\ ~ closed'
      BY <1>1, <2>3 DEF CauseInv, Early
    <3>2. QED
      BY <1>1, <1>4, <2>1, <2>3, <3>1, CauseMoves
  <2>4. CASE pc \in Sending /\ pc' \in {"rcpt", "data", "body"} /\ UNCHANGED result
    <3>1. ~ closed' /\ pc' \notin Early
      BY <1>1, <2>4, StageNames DEF CauseInv, Early
    <3>2. QED
      BY <1>1, <1>4, <2>1, <2>4, <3>1, CauseMoves
  <2>5. QED
    BY <1>1, <1>4, <2>2, <2>3, <2>4, ProceedMoves, StageNames DEF Stay
<1>5. QED
  BY <1>2, <1>3, <1>4, ReadEffect

LEMMA CauseAnswer ==
    ASSUME SmtpSessionAssumption, SessionType, DialogInv, Transaction, CauseInv,
           faults = {}, Answer
    PROVE  CauseInv'
<1>1. PICK code \in Codes :
        /\ pending /\ awaiting /\ pending' = FALSE /\ ~ closed
        /\ UNCHANGED <<given, client>>
        /\ closed' = (pc = "quit")
        /\ \A k \in DOMAIN replies' : replies'[k].code = code
        /\ pc = "body" => from' = 0
        /\ pc \notin {"mail", "rcpt", "body"} => UNCHANGED from
        /\ pc = "quit" => UNCHANGED from
        /\ pc \in Talk \cup {"greeting"}
  BY AnswerEffect
<1>2. /\ UNCHANGED <<batch, faults, pc, mail, rcpt, awaiting, result>> /\ Unanswered /\ ~ Unanswered'
  BY <1>1 DEF given, client, Unanswered
<1>3. /\ Mails' = Mails /\ (\A m : Rcpts(m)' = Rcpts(m))
      /\ \A n : BadBy(n)' <=> BadBy(n)
  BY <1>2, BadSame
<1>4. (BadBy(mail)' <=> BadBy(mail)) /\ (BadBy(mail - 1)' <=> BadBy(mail - 1))
  BY <1>2, <1>3
<1>5. Expected(pc)' = Expected(pc)
  BY <1>2 DEF Expected
<1>6. pc \in Sending => Told(Expected(pc))' \/ BadBy(mail)
  BY <1>1, <1>5, CodesTell DEF Told
<1>7. pc \in Early \cup {"prepare", "quit"} => UNCHANGED from
  BY <1>1, StageNames DEF Early
<1>8. QED
  BY <1>1, <1>2, <1>3, <1>4, <1>6, <1>7 DEF CauseInv

LEMMA CauseStep ==
    ASSUME SmtpSessionAssumption, SessionType, DialogInv, Transaction, CauseInv,
           [Next]_vars
    PROVE  CauseInv'
<1>1. SUFFICES ASSUME faults' = {} PROVE CauseInv'
  BY DEF CauseInv
<1>2. SameBatch /\ faults = {}
  BY <1>1 DEF Next, Dialogue, Prepare, Send, Broken, ReadLine, Answer, Close, vars, given, SameBatch
<1>3. CASE Prepare
  <2>1. /\ UNCHANGED <<batch, faults, from, awaiting, pending, replies, closed>> /\ mail \in Mails
        /\ ~ awaiting /\ replies = <<>> /\ ~ closed
        /\ from = 0 \/ BadBy(mail - 1)
    BY <1>2, <1>3, PrepareEffect, StageNames DEF SessionType, DialogInv, CauseInv, Early
  <2>2. from = 0 \/ BadBy(mail)
    BY <2>1 DEF BadBy, Mails
  <2>3. CASE Rcpts(mail) = <<>> /\ Onward("failed")
    BY <1>2, <2>1, <2>2, <2>3, CauseOnward
  <2>4. CASE pc' = "mail" /\ Stay
    <3>1. (\A n : BadBy(n)' <=> BadBy(n)) /\ Mails' = Mails /\ (\A m : Rcpts(m)' = Rcpts(m))
      BY <2>1, BadSame
    <3>2. BadBy(mail - 1)' <=> BadBy(mail - 1)
      BY <2>4, <3>1 DEF Stay
    <3>3. Told(Expected(pc))'
      BY <2>1 DEF Told
    <3>4. QED
      BY <2>1, <2>4, <3>1, <3>2, <3>3, StageNames DEF CauseInv, Stay, Early
  <2>5. QED
    BY <1>3, <2>3, <2>4, PrepareEffect
<1>4. CASE Send
  <2>1. UNCHANGED <<batch, faults, mail, result, pc, from, closed, replies>> /\ Unanswered /\ Unanswered'
    BY <1>4 DEF Send, given, server, Unanswered
  <2>2. Told(Expected(pc)) => Told(Expected(pc))'
    BY <2>1 DEF Told, Expected
  <2>3. QED
    BY <2>1, <2>2, CauseKept
<1>5. CASE Broken
  <2>1. pc = "quit" /\ pc' = "done" /\ Stay /\ Unanswered' /\ replies' = <<>>
    BY <1>2, <1>5, BrokenEffect, StageNames DEF CauseInv, Early, Unanswered
  <2>2. UNCHANGED <<batch, faults, from>>
    BY <1>5, BrokenEffect
  <2>3. QED
    BY <1>2, <2>1, <2>2, CauseMoves, StageNames DEF Stay, Early
<1>6. CASE Close
  BY <1>2, <1>6, CutReplies
<1>7. CASE UNCHANGED vars
  <2>1. /\ UNCHANGED <<batch, faults, mail, result, pc, from, closed, replies>>
        /\ Unanswered' <=> Unanswered
    BY <1>7 DEF vars, given, client, server, Unanswered
  <2>2. Told(Expected(pc)) => Told(Expected(pc))'
    BY <2>1 DEF Told, Expected
  <2>3. QED
    BY <2>1, <2>2, CauseKept
<1>8. QED
  BY <1>2, <1>3, <1>4, <1>5, <1>6, <1>7, CauseRead, CauseAnswer DEF Next, Dialogue

-----------------------------------------------------------------------------
(***************************************************************************)
(* The rest of the types.                                                   *)
(***************************************************************************)
RestType ==
    /\ withLogin \in BOOLEAN /\ tls \in BOOLEAN /\ closed \in BOOLEAN
    /\ asked \in Command
    /\ from \in Nat /\ to \subseteq Addrs

LEMMA RestTypeStep ==
    ASSUME SmtpSessionAssumption, SessionType, DialogInv, RestType, [Next]_vars
    PROVE  RestType'
<1>1. CASE Send
  <2>1. asked' \in Command
    BY <1>1 DEF Send, Command, SessionType
  <2>2. QED
    BY <1>1, <2>1 DEF Send, given, server, RestType
<1>2. CASE Answer
  <2>1. /\ UNCHANGED <<withLogin, tls, asked>> /\ closed' \in BOOLEAN
        /\ asked.exchange = pc /\ asked.mail = mail /\ asked.rcpt = rcpt
    BY <1>2 DEF Answer, given, client, DialogInv
  <2>2. pc = "rcpt" => Recipient \in Addrs
    <3> SUFFICES ASSUME pc = "rcpt" PROVE Recipient \in Addrs
      OBVIOUS
    <3>1. mail \in Mails /\ rcpt \in 1..Len(Rcpts(mail))
      BY StageNames DEF SessionType
    <3>2. Rcpts(mail) \in Seq(Addrs)
      BY <3>1, Batched
    <3>3. QED
      BY <2>1, <3>1, <3>2, ElementOfSeq DEF Recipient
  <2>3. /\ from' \in {from, mail, 0}
        /\ to' \in {to, {}} \/ (pc = "rcpt" /\ to' = to \cup {Recipient})
    BY <1>2, <2>1 DEF Answer
  <2>4. QED
    BY <2>1, <2>2, <2>3 DEF RestType, SessionType
<1>3. CASE Close
  BY <1>3, CutReplies DEF RestType, SameBatch
<1>4. CASE ReadLine
  BY <1>4, ReadEffect DEF RestType, client
<1>5. CASE Prepare
  BY <1>5, PrepareEffect DEF RestType
<1>6. CASE Broken
  BY <1>6, BrokenEffect DEF RestType
<1>7. CASE UNCHANGED vars
  BY <1>7 DEF vars, given, client, server, RestType
<1>8. QED
  BY <1>1, <1>2, <1>3, <1>4, <1>5, <1>6, <1>7 DEF Next, Dialogue

-----------------------------------------------------------------------------
(***************************************************************************)
(* The theorems.                                                            *)
(***************************************************************************)
SessionInv ==
    /\ SessionType /\ RestType
    /\ DialogInv
    /\ LoginInv
    /\ Transaction /\ AcceptedInv /\ SentInv
    /\ CauseInv

LEMMA AtFirst ==
    ASSUME SmtpSessionAssumption, Init
    PROVE  SessionInv
<1>1. SessionType
  BY EmptySeq, StageNames DEF Init, SessionType, Mails, Early
<1>2. RestType
  BY DEF Init, RestType, Command
<1>3. replies = <<>> /\ DOMAIN replies = {}
  BY DEF Init
<1>4. DialogInv
  BY <1>3, StageNames DEF Init, DialogInv, Early
<1>5. LoginInv
  BY DEF Init, LoginInv, LoginIsCovered
<1>6. Transaction /\ AcceptedInv /\ SentInv
  BY <1>3, StageNames DEF Init, Transaction, AcceptedInv, SentInv, Mails
<1>7. CauseInv
  BY StageNames DEF Init, CauseInv, Mails
<1>8. QED
  BY <1>1, <1>2, <1>4, <1>5, <1>6, <1>7 DEF SessionInv

\* What holds of every session: the reply read is that to the last command, and the
\* transaction of the server is that of the message the client is at.
THEOREM SessionInvariance == Spec => []SessionInv
<1>1. Init => SessionInv
  BY SmtpSessionAssumption, AtFirst
<1>2. SessionInv /\ [Next]_vars => SessionInv'
  BY SmtpSessionAssumption, SessionTypeStep, RestTypeStep, DialogStep, LoginStep, TransactionStep,
     AcceptedStep, SentStep, CauseStep DEF SessionInv
<1>3. QED
  BY <1>1, <1>2, PTL DEF Spec

\* Every variable of a session has its type (SmtpClient, its server).
THEOREM TypeCorrect == Spec => []TypeOK
<1>1. ASSUME SessionInv PROVE TypeOK
  <2>1. pc = "rcpt" => rcpt \in DOMAIN Rcpts(mail)
    BY <1>1, Batched, SmtpSessionAssumption, StageNames DEF SessionInv, SessionType
  <2>2. \A a \in accepted : a.envelope \in Nat /\ a.body \in Mails /\ a.to \subseteq Addrs
    <3> SUFFICES ASSUME NEW a \in accepted
                 PROVE  a.envelope \in Nat /\ a.body \in Mails /\ a.to \subseteq Addrs
      OBVIOUS
    <3>1. a.body \in Mails /\ a.envelope = a.body /\ a.to = ToSet(Rcpts(a.body))
      BY <1>1 DEF SessionInv, AcceptedInv
    <3>2. Rcpts(a.body) \in Seq(Addrs)
      BY <1>1, <3>1, Batched, SmtpSessionAssumption DEF SessionInv
    <3>3. QED
      BY <3>1, <3>2, ElementOfSeq, LenProperties DEF ToSet, Mails
  <2>3. QED
    BY <1>1, <2>1, <2>2 DEF SessionInv, SessionType, RestType, TypeOK, Lines
<1>2. QED
  BY <1>1, SessionInvariance, PTL

\* No credentials go over a connection less secure than configured, whatever the replies
\* (SmtpClient::connect, upgrade_starttls and login).
THEOREM LoginCovered == Spec => []LoginIsCovered
<1>1. SessionInv => LoginIsCovered
  BY DEF SessionInv, LoginInv
<1>2. QED
  BY <1>1, SessionInvariance, PTL

\* What the dispatcher records of a message is what the server did with it, unless the
\* connection broke; and without a fault a message fails for a bad recipient, of its own or
\* of one before it (send_mail, read_response).
THEOREM OutcomesAreTrue == Spec => []OutcomeIsTrue
<1>1. ASSUME SessionInv PROVE OutcomeIsTrue
  <2> SUFFICES ASSUME NEW m \in Mails
               PROVE  /\ result[m] = "sent" => \E a \in accepted : a.body = m
                      /\ result[m] = "failed" /\ ~ closed => \A a \in accepted : a.body # m
                      /\ faults = {} /\ result[m] = "failed" /\ Rcpts(m) # <<>> =>
                           \E k \in 1..m : ToSet(Rcpts(k)) \cap Bad # {}
    BY DEF OutcomeIsTrue
  <2>1. result[m] = "sent" => \E a \in accepted : a.body = m
    BY <1>1 DEF SessionInv, SentInv
  <2>2. ASSUME result[m] = "failed", ~ closed, NEW a \in accepted, a.body = m PROVE FALSE
    <3>1. m < mail /\ m \in Int /\ mail \in Nat
      BY <1>1, <2>2 DEF SessionInv, SentInv, SessionType, Mails
    <3>2. result[m] = "sent"
      BY <1>1, <2>2, <3>1 DEF SessionInv, AcceptedInv
    <3>3. QED
      BY <2>2, <3>2
  <2>3. faults = {} /\ result[m] = "failed" /\ Rcpts(m) # <<>> => BadBy(m)
    BY <1>1 DEF SessionInv, CauseInv
  <2>4. QED
    BY <2>1, <2>2, <2>3 DEF BadBy
<1>2. QED
  BY <1>1, SessionInvariance, PTL

\* A message is accepted with all its recipients and no other, and read as it was meant: the
\* dots that are added on the way are taken off, and no line of it ends the data
\* (send_mail and its dot-stuffing).
THEOREM AcceptedWhole == Spec => []ArrivesWhole
<1>1. ASSUME SessionInv PROVE ArrivesWhole
  <2> SUFFICES ASSUME NEW a \in accepted
               PROVE  /\ a.envelope = a.body /\ a.to = ToSet(Rcpts(a.body))
                      /\ a.read = Intended(batch[a.body])
    BY DEF ArrivesWhole
  <2>1. /\ a.body \in Mails /\ a.envelope = a.body /\ a.to = ToSet(Rcpts(a.body))
        /\ a.read = Read(Received(Stuff(Build(batch[a.body]))))
    BY <1>1 DEF SessionInv, AcceptedInv
  <2>2. batch \in Batches /\ a.body \in DOMAIN batch
    BY <1>1, <2>1, Batched, SmtpSessionAssumption DEF SessionInv, SessionType, Mails
  <2>3. IsText(Build(batch[a.body])) /\ Read(Build(batch[a.body])) = Intended(batch[a.body])
    BY <2>2, SmtpSessionAssumption, BatchIsRead
  <2>4. QED
    BY <2>1, <2>3, ReceivedAsWritten
<1>2. QED
  BY <1>1, SessionInvariance, PTL
=============================================================================
