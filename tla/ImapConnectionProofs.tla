------------------------ MODULE ImapConnectionProofs ------------------------
(***************************************************************************)
(* What the client notes and takes is what the server has answered and      *)
(* sent, for any scripts, mailboxes and messages, whatever the messages     *)
(* quote and wherever the connection is cut.                                *)
(*                                                                          *)
(* While a command is under way either nothing has come but what is said in *)
(* between, or what is still to be read, with what was cut off, is a        *)
(* sequence of whole frames and then the tagged line. A frame is a line     *)
(* that is not tagged, with its literal and the rest of it when it          *)
(* announces one; so no line of a literal is ever taken for a line of the   *)
(* answer, and the tagged line is the answer to this command.               *)
(***************************************************************************)
EXTENDS ImapConnection, TLAPS, SequenceTheorems, WellFoundedInduction, FiniteSetTheorems

USE ImapConnectionAssumption

-----------------------------------------------------------------------------
(***************************************************************************)
(* FlattenSeq. It joins from the left with a recursive function, of which   *)
(* little is known before it is known to exist: the facts of this section   *)
(* rest on a least number for which they fail.                              *)
(***************************************************************************)
\* What has been joined of s after each of n.
IsFlat(g, s, n) == g = [i \in 1..n |-> IF i = 1 THEN s[i] ELSE g[i - 1] \o s[i]]
Flats(s) == {n \in Nat \ {0} : ~ \E g : IsFlat(g, s, n)}

\* Joining a number of sequences is a function.
LEMMA FlatExists == ASSUME NEW s, NEW n \in Nat \ {0} PROVE \E g : IsFlat(g, s, n)
<1>1. SUFFICES ASSUME Flats(s) # {} PROVE FALSE
  BY DEF Flats
<1>2. PICK m \in Flats(s) : \A k \in Flats(s) : ~ (<<k, m>> \in OpToRel(<, Nat))
  BY <1>1, NatLessThanWellFounded, WFMin DEF Flats
<1>3. m \in Nat \ {0} /\ ~ \E g : IsFlat(g, s, m)
  BY DEF Flats
<1>4. CASE m = 1
  <2>1. IsFlat([i \in 1..1 |-> s[1]], s, m)
    BY <1>4 DEF IsFlat
  <2>2. QED
    BY <1>3, <2>1
<1>5. CASE m # 1
  <2>1. m - 1 \in Nat \ {0} /\ <<m - 1, m>> \in OpToRel(<, Nat)
    BY <1>3, <1>5 DEF OpToRel
  <2>2. PICK g : IsFlat(g, s, m - 1)
    BY <1>2, <2>1 DEF Flats
  <2>3. PICK h : h = [i \in 1..m |-> IF i < m THEN g[i] ELSE g[m - 1] \o s[m]]
    OBVIOUS
  <2>4. h = [i \in 1..m |-> IF i = 1 THEN s[i] ELSE h[i - 1] \o s[i]]
    <3>1. ASSUME NEW i \in 1..m PROVE h[i] = IF i = 1 THEN s[i] ELSE h[i - 1] \o s[i]
      <4>1. CASE i = m
        <5>1. m \in 1..m /\ m - 1 \in 1..m /\ m - 1 < m /\ ~ (m < m)
          BY <1>3, <1>5
        <5>2. h[m] = g[m - 1] \o s[m] /\ h[m - 1] = g[m - 1]
          BY <2>3, <5>1
        <5>3. QED
          BY <1>5, <4>1, <5>2
      <4>2. CASE i < m
        <5>1. i \in 1..(m - 1) /\ h[i] = g[i] /\ (i # 1 => i - 1 \in 1..m /\ i - 1 < m)
          BY <1>3, <2>3, <4>2
        <5>2. g[i] = IF i = 1 THEN s[i] ELSE g[i - 1] \o s[i]
          BY <2>2, <5>1 DEF IsFlat
        <5>3. i # 1 => h[i - 1] = g[i - 1]
          BY <2>3, <5>1
        <5>4. QED
          BY <5>1, <5>2, <5>3
      <4>3. QED
        BY <1>3, <4>1, <4>2
    <3>2. QED
      BY <2>3, <3>1
  <2>5. QED
    BY <1>3, <2>4 DEF IsFlat
<1>6. QED
  BY <1>4, <1>5

\* FlattenSeq is the last value of it.
LEMMA FlatIs ==
    ASSUME NEW s, Len(s) \in Nat \ {0}
    PROVE  \E g : IsFlat(g, s, Len(s)) /\ FlattenSeq(s) = g[Len(s)]
<1> DEFINE f == CHOOSE g : g = [i \in 1..Len(s) |-> IF i = 1 THEN s[i] ELSE g[i-1] \o s[i]]
<1>1. IsFlat(f, s, Len(s))
  BY FlatExists DEF IsFlat
<1>2. FlattenSeq(s) = f[Len(s)]
  BY DEF FlattenSeq
<1>3. QED
  BY <1>1, <1>2

\* Where what has been joined so far is not in P.
Bad(g, s, P) == {n \in 1..Len(s) : g[n] \notin P}

\* Of none and of one.
LEMMA FlatSimple == FlattenSeq(<<>>) = <<>> /\ \A e : FlattenSeq(<<e>>) = e
<1>1. FlattenSeq(<<>>) = <<>>
  BY EmptySeq DEF FlattenSeq
<1>2. ASSUME NEW e PROVE FlattenSeq(<<e>>) = e
  <2>1. Len(<<e>>) = 1 /\ <<e>>[1] = e
    OBVIOUS
  <2>0. Len(<<e>>) \in Nat \ {0}
    BY <2>1
  <2>2. PICK g : IsFlat(g, <<e>>, Len(<<e>>)) /\ FlattenSeq(<<e>>) = g[Len(<<e>>)]
    BY <2>0, FlatIs
  <2>3. QED
    BY <2>1, <2>2 DEF IsFlat
<1>3. QED
  BY <1>1, <1>2

\* What has been joined is a sequence.
LEMMA FlatType ==
    ASSUME NEW X, NEW s \in Seq(Seq(X)), NEW g, IsFlat(g, s, Len(s)), NEW n \in 1..Len(s)
    PROVE  /\ g[n] \in Seq(X) /\ s[n] \in Seq(X)
           /\ g[n] = IF n = 1 THEN s[n] ELSE g[n - 1] \o s[n]
<1>1. \A i \in 1..Len(s) : s[i] \in Seq(X) /\ g[i] = IF i = 1 THEN s[i] ELSE g[i - 1] \o s[i]
  BY ElementOfSeq DEF IsFlat
<1>2. Len(s) \in Nat
  BY LenProperties
<1>3. SUFFICES ASSUME Bad(g, s, Seq(X)) # {} PROVE FALSE
  BY <1>1 DEF Bad
<1>4. Bad(g, s, Seq(X)) \subseteq Nat
  BY <1>2 DEF Bad
<1>5. PICK k \in Bad(g, s, Seq(X)) : \A j \in Bad(g, s, Seq(X)) : ~ (<<j, k>> \in OpToRel(<, Nat))
  BY <1>3, <1>4, NatLessThanWellFounded, WFMin
<1>6. k \in 1..Len(s) /\ g[k] \notin Seq(X)
  BY DEF Bad
<1>7. k # 1 => k - 1 \in 1..Len(s) /\ <<k - 1, k>> \in OpToRel(<, Nat)
  BY <1>2, <1>6 DEF OpToRel
<1>8. k # 1 => g[k - 1] \in Seq(X)
  BY <1>5, <1>7 DEF Bad
<1>9. k # 1 => g[k - 1] \o s[k] \in Seq(X)
  BY <1>1, <1>6, <1>8, ConcatProperties
<1>10. QED
  BY <1>1, <1>6, <1>9

\* Sequences over a set are joined to a sequence over it.
LEMMA FlatSeq ==
    ASSUME NEW X, NEW s \in Seq(Seq(X)) PROVE FlattenSeq(s) \in Seq(X)
<1>1. Len(s) \in Nat /\ (Len(s) = 0 => s = <<>>)
  BY LenProperties, EmptySeq
<1>2. CASE Len(s) = 0
  BY <1>1, <1>2, FlatSimple, EmptySeq
<1>3. CASE Len(s) # 0
  <2>1. Len(s) \in Nat \ {0} /\ Len(s) \in 1..Len(s)
    BY <1>1, <1>3
  <2>2. PICK g : IsFlat(g, s, Len(s)) /\ FlattenSeq(s) = g[Len(s)]
    BY <2>1, FlatIs
  <2>3. QED
    BY <2>1, <2>2, FlatType
<1>4. QED
  BY <1>2, <1>3

\* How far what is joined to e is not e and what is joined.
Apart(g, h, e, n) == {i \in 1..n : g[i + 1] # e \o h[i]}

\* One more in front.
LEMMA FlatCons ==
    ASSUME NEW X, NEW s \in Seq(Seq(X)), NEW e \in Seq(X)
    PROVE  FlattenSeq(<<e>> \o s) = e \o FlattenSeq(s)
<1> DEFINE t == <<e>> \o s
<1>1. Len(s) \in Nat /\ (Len(s) = 0 => s = <<>>)
  BY LenProperties, EmptySeq
<1>2. <<e>> \in Seq(Seq(X)) /\ Len(<<e>>) = 1 /\ <<e>>[1] = e
  OBVIOUS
<1>3. /\ t \in Seq(Seq(X)) /\ Len(t) = Len(s) + 1 /\ t[1] = e
      /\ \A i \in 1..Len(s) : t[i + 1] = s[i]
  <2>1. /\ t \in Seq(Seq(X)) /\ Len(t) = 1 + Len(s)
        /\ \A i \in 1..(1 + Len(s)) : t[i] = IF i <= 1 THEN <<e>>[i] ELSE s[i - 1]
    BY <1>2, ConcatProperties
  <2>2. t[1] = e
    BY <1>1, <1>2, <2>1
  <2>3. ASSUME NEW i \in 1..Len(s) PROVE t[i + 1] = s[i]
    <3>1. i + 1 \in 1..(1 + Len(s)) /\ ~ (i + 1 <= 1) /\ (i + 1) - 1 = i
      BY <1>1
    <3>2. QED
      BY <2>1, <3>1
  <2>4. QED
    BY <1>1, <2>1, <2>2, <2>3
<1>4. CASE Len(s) = 0
  BY <1>1, <1>2, <1>4, FlatSimple, ConcatEmptySeq
<1>5. CASE Len(s) # 0
  <2>1. Len(s) \in Nat \ {0} /\ Len(t) \in Nat \ {0} /\ Len(s) \in 1..Len(s)
    BY <1>1, <1>3, <1>5
  <2>2. PICK h : IsFlat(h, s, Len(s)) /\ FlattenSeq(s) = h[Len(s)]
    BY <2>1, FlatIs
  <2>3. PICK g : IsFlat(g, t, Len(t)) /\ FlattenSeq(t) = g[Len(t)]
    BY <2>1, FlatIs
  <2>4. SUFFICES ASSUME Apart(g, h, e, Len(s)) # {} PROVE FALSE
    BY <1>3, <2>1, <2>2, <2>3 DEF Apart
  <2>5. Apart(g, h, e, Len(s)) \subseteq Nat
    BY <1>1 DEF Apart
  <2>6. PICK k \in Apart(g, h, e, Len(s)) :
            \A j \in Apart(g, h, e, Len(s)) : ~ (<<j, k>> \in OpToRel(<, Nat))
    BY <2>4, <2>5, NatLessThanWellFounded, WFMin
  <2>7. k \in 1..Len(s) /\ g[k + 1] # e \o h[k]
    BY DEF Apart
  <2>8. k + 1 \in 1..Len(t) /\ k + 1 # 1 /\ (k + 1) - 1 = k /\ 1 \in 1..Len(t)
    BY <1>1, <1>3, <2>7
  <2>9. g[k + 1] = g[k] \o s[k] /\ g[1] = e
    <3>1. \A i \in 1..Len(t) : g[i] = IF i = 1 THEN t[i] ELSE g[i - 1] \o t[i]
      BY <2>3 DEF IsFlat
    <3>2. g[k + 1] = g[k] \o t[k + 1] /\ g[1] = t[1]
      BY <2>8, <3>1
    <3>3. QED
      BY <1>3, <2>7, <3>2
  <2>10. CASE k = 1
    <3>1. h[1] = s[1] /\ g[1 + 1] = g[1] \o s[1]
      BY <2>2, <2>7, <2>9, <2>10 DEF IsFlat
    <3>2. QED
      BY <2>7, <2>9, <2>10, <3>1
  <2>11. CASE k # 1
    <3>1. k - 1 \in 1..Len(s) /\ (k - 1) + 1 = k /\ <<k - 1, k>> \in OpToRel(<, Nat)
      BY <1>1, <2>7, <2>11 DEF OpToRel
    <3>2. g[k] = e \o h[k - 1]
      BY <2>6, <3>1 DEF Apart
    <3>3. h[k] = h[k - 1] \o s[k] /\ h[k - 1] \in Seq(X) /\ s[k] \in Seq(X)
      <4>1. s[k] \in Seq(X) /\ h[k] = IF k = 1 THEN s[k] ELSE h[k - 1] \o s[k]
        BY <2>2, <2>7, FlatType
      <4>2. h[k - 1] \in Seq(X)
        BY <2>2, <3>1, FlatType
      <4>3. QED
        BY <2>11, <4>1, <4>2
    <3>4. (e \o h[k - 1]) \o s[k] = e \o (h[k - 1] \o s[k])
      <4>1. \A u, v, w \in Seq(X) : (u \o v) \o w = u \o (v \o w)
        BY ConcatAssociative
      <4>2. QED
        BY <3>3, <4>1
    <3>5. QED
      BY <2>7, <2>9, <3>2, <3>3, <3>4
  <2>12. QED
    BY <2>10, <2>11
<1>6. QED
  BY <1>4, <1>5

\* The first of what was joined.
LEMMA FlatTail ==
    ASSUME NEW X, NEW s \in Seq(Seq(X)), s # <<>>
    PROVE  /\ FlattenSeq(s) = Head(s) \o FlattenSeq(Tail(s))
           /\ s = <<Head(s)>> \o Tail(s)
           /\ Head(s) \in Seq(X) /\ Tail(s) \in Seq(Seq(X))
<1>1. /\ Head(s) \in Seq(X) /\ Tail(s) \in Seq(Seq(X))
      /\ Len(Tail(s)) = Len(s) - 1 /\ Head(s) = s[1]
      /\ \A i \in 1..Len(Tail(s)) : Tail(s)[i] = s[i + 1]
  BY HeadTailProperties
<1>2. Len(s) \in Nat \ {0}
  BY EmptySeq
<1>3. s = <<Head(s)>> \o Tail(s)
  <2>1. <<Head(s)>> \in Seq(Seq(X)) /\ Len(<<Head(s)>>) = 1 /\ <<Head(s)>>[1] = s[1]
    BY <1>1
  <2>2. /\ <<Head(s)>> \o Tail(s) \in Seq(Seq(X)) /\ Len(<<Head(s)>> \o Tail(s)) = Len(s)
        /\ \A i \in 1..Len(s) : (<<Head(s)>> \o Tail(s))[i] =
                IF i <= 1 THEN <<Head(s)>>[i] ELSE Tail(s)[i - 1]
    BY <1>1, <1>2, <2>1, ConcatProperties
  <2>3. ASSUME NEW i \in 1..Len(s) PROVE s[i] = (<<Head(s)>> \o Tail(s))[i]
    <3>1. CASE i = 1
      BY <1>2, <2>1, <2>2, <3>1
    <3>2. CASE i # 1
      <4>1. i - 1 \in 1..Len(Tail(s)) /\ (i - 1) + 1 = i /\ ~ (i <= 1)
        BY <1>1, <1>2, <3>2
      <4>2. QED
        BY <1>1, <2>2, <4>1
    <3>3. QED
      BY <3>1, <3>2
  <2>4. QED
    BY <2>2, <2>3, SeqEqual
<1>4. QED
  BY <1>1, <1>3, FlatCons

\* Where what was joined is not what there was.
Off(g, r, n) == {i \in 1..n : ~ (Len(g[i]) = i /\ \A j \in 1..i : g[i][j] = r[j])}

\* Sequences of one element each.
LEMMA FlatSingles ==
    ASSUME NEW X, NEW r \in Seq(X), NEW s \in Seq(Seq(X)), Len(s) = Len(r),
           \A i \in 1..Len(s) : s[i] = <<r[i]>>
    PROVE  FlattenSeq(s) = r
<1>1. Len(s) \in Nat /\ (Len(s) = 0 => s = <<>> /\ r = <<>>)
  BY LenProperties, EmptySeq
<1>2. CASE Len(s) = 0
  BY <1>1, <1>2, FlatSimple
<1>3. CASE Len(s) # 0
  <2>1. Len(s) \in Nat \ {0} /\ Len(s) \in 1..Len(s)
    BY <1>1, <1>3
  <2>2. PICK g : IsFlat(g, s, Len(s)) /\ FlattenSeq(s) = g[Len(s)]
    BY <2>1, FlatIs
  <2>3. Off(g, r, Len(s)) = {}
    <3>1. SUFFICES ASSUME Off(g, r, Len(s)) # {} PROVE FALSE
      OBVIOUS
    <3>2. Off(g, r, Len(s)) \subseteq Nat
      BY <1>1 DEF Off
    <3>3. PICK k \in Off(g, r, Len(s)) :
            \A j \in Off(g, r, Len(s)) : ~ (<<j, k>> \in OpToRel(<, Nat))
      BY <3>1, <3>2, NatLessThanWellFounded, WFMin
    <3>4. k \in 1..Len(s) /\ ~ (Len(g[k]) = k /\ \A j \in 1..k : g[k][j] = r[j])
      BY DEF Off
    <3>10. s[k] \in Seq(X) /\ g[k] = IF k = 1 THEN s[k] ELSE g[k - 1] \o s[k]
      BY <2>2, <3>4, FlatType
    <3>11. s[k] = <<r[k]>>
      BY <3>4
    <3>5. s[k] = <<r[k]>> /\ s[k] \in Seq(X) /\ g[k] = IF k = 1 THEN s[k] ELSE g[k - 1] \o s[k]
      BY <3>10, <3>11
    <3>6. Len(s[k]) = 1 /\ s[k][1] = r[k]
      BY <3>11
    <3>7. CASE k = 1
      BY <3>4, <3>5, <3>6, <3>7
    <3>8. CASE k # 1
      <4>0. k - 1 \in 1..Len(s) /\ <<k - 1, k>> \in OpToRel(<, Nat)
        BY <1>1, <3>4, <3>8 DEF OpToRel
      <4>1. k - 1 \in 1..Len(s) /\ k \in Nat
        BY <1>1, <3>4, <3>8
      <4>2. Len(g[k - 1]) = k - 1 /\ \A j \in 1..(k - 1) : g[k - 1][j] = r[j]
        BY <3>3, <4>0 DEF Off
      <4>3. g[k - 1] \in Seq(X)
        BY <2>2, <4>1, FlatType
      <4>4. PICK u \in Seq(X), v \in Seq(X) : u = g[k - 1] /\ v = s[k]
        BY <3>10, <4>3
      <4>5. Len(u) = k - 1 /\ (\A j \in 1..(k - 1) : u[j] = r[j]) /\ Len(v) = 1 /\ v[1] = r[k]
        BY <3>6, <4>2, <4>4
      <4>6. g[k] = u \o v
        BY <3>10, <3>8, <4>4
      <4>7. /\ Len(u \o v) = Len(u) + Len(v)
            /\ \A j \in 1..(Len(u) + Len(v)) :
                    (u \o v)[j] = IF j <= Len(u) THEN u[j] ELSE v[j - Len(u)]
        BY ConcatProperties
      <4>8. Len(u \o v) = k
        BY <4>1, <4>5, <4>7
      <4>9. ASSUME NEW j \in 1..k PROVE (u \o v)[j] = r[j]
        <5>1. CASE j = k
          BY <4>1, <4>5, <4>7, <5>1
        <5>2. CASE j # k
          <6>1. j \in 1..(k - 1) /\ j <= k - 1 /\ j \in 1..((k - 1) + 1)
            BY <4>1, <5>2
          <6>2. QED
            BY <4>5, <4>7, <6>1
        <5>3. QED
          BY <5>1, <5>2
      <4>10. QED
        BY <3>4, <4>6, <4>8, <4>9
    <3>9. QED
      BY <3>7, <3>8
  <2>4. Len(g[Len(s)]) = Len(s) /\ \A j \in 1..Len(s) : g[Len(s)][j] = r[j]
    BY <2>1, <2>3 DEF Off
  <2>5. g[Len(s)] \in Seq(X)
    BY <2>1, <2>2, FlatType
  <2>6. QED
    BY <2>2, <2>4, <2>5, SeqEqual
<1>4. QED
  BY <1>2, <1>3

-----------------------------------------------------------------------------
(***************************************************************************)
(* Lines and names.                                                         *)
(***************************************************************************)
\* The lines the server writes are lines.
LEMMA LineTypes ==
    /\ \A uid, n \in Nat : Fetch(uid, n) \in Line
    /\ \A uid \in Nat : FetchInline(uid) \in Line
    /\ \A k \in Nat, ok \in BOOLEAN : Tagged(k, ok) \in Line
    /\ Piece("status") \in Line /\ Piece("exists") \in Line /\ Piece("continuation") \in Line
    /\ Piece("text") \in Line /\ Piece("rest") \in Line
<1>1. <<>> \in Seq(Characters)
  OBVIOUS
<1>2. QED
  BY <1>1 DEF Fetch, FetchInline, Tagged, Piece, Line

\* Quoted names are names.
LEMMA QuoteType == ASSUME NEW name \in Seq(Characters) PROVE Quote(name) \in Seq(Characters)
<1> DEFINE s == [k \in DOMAIN name |->
        IF name[k] \in {DQuote, Backslash} THEN <<Backslash, name[k]>> ELSE <<name[k]>>]
<1>1. DOMAIN name = 1..Len(name) /\ Len(name) \in Nat /\ \A k \in 1..Len(name) : name[k] \in Characters
  BY LenProperties, ElementOfSeq
<1>2. \A k \in 1..Len(name) : s[k] \in Seq(Characters)
  BY <1>1 DEF Backslash
<1>3. s \in Seq(Seq(Characters))
  BY <1>1, <1>2
<1>4. QED
  BY <1>3, FlatSeq DEF Quote

\* A line of LIST says which mailbox it is about, and how.
LEMMA ListedType ==
    ASSUME NEW b \in Mailboxes, NEW form \in {"quoted", "atom", "literal"}
    PROVE  /\ Listed(b, form) \in Line
           /\ Listed(b, form).kind = "list" /\ Listed(b, form).of = b /\ Listed(b, form).form = form
           /\ Listed(b, form).name = IF form = "quoted" THEN Quote(b) ELSE b
           /\ Listed(b, form).literal = IF form = "literal" THEN 1 ELSE 0
<1>1. b \in Seq(Characters) /\ Quote(b) \in Seq(Characters)
  BY QuoteType
<1>2. QED
  BY <1>1 DEF Listed, Piece, Line

\* A plain name is quoted as it is.
LEMMA QuotePlain == ASSUME NEW b \in Seq(Characters), Plain(b) PROVE Quote(b) = b
<1> DEFINE s == [k \in DOMAIN b |->
        IF b[k] \in {DQuote, Backslash} THEN <<Backslash, b[k]>> ELSE <<b[k]>>]
<1>1. DOMAIN b = 1..Len(b) /\ Len(b) \in Nat /\ \A k \in 1..Len(b) : b[k] \in Characters
  BY LenProperties, ElementOfSeq
<1>2. s = [k \in 1..Len(b) |-> <<b[k]>>]
  BY <1>1 DEF Plain
<1>3. s \in Seq(Seq(Characters)) /\ Len(s) = Len(b) /\ \A k \in 1..Len(s) : s[k] = <<b[k]>>
  BY <1>1, <1>2
<1>4. QED
  BY <1>3, FlatSingles DEF Quote

\* What the parser makes of a name.
LEMMA ParseListed ==
    ASSUME NEW b \in Mailboxes, NEW form \in {"quoted", "atom"}
    PROVE  /\ ParseName(Listed(b, form)) \in Seq(Characters)
           /\ Plain(b) => ParseName(Listed(b, form)) = b
<1> DEFINE l == Listed(b, form)
           I == {i \in 1..Len(l.name) : l.name[i] = DQuote}
<1>1. l.form = form /\ l.name = IF form = "quoted" THEN Quote(b) ELSE b
  BY ListedType
<1>2. b \in Seq(Characters) /\ Quote(b) \in Seq(Characters) /\ l.name \in Seq(Characters)
  BY <1>1, QuoteType
<1>3. Len(l.name) \in Nat /\ \A i \in 1..Len(l.name) : l.name[i] \in Characters
  BY <1>2, LenProperties, ElementOfSeq
<1>4. CASE form = "atom"
  <2>1. Plain(b) => b = <<>> \/ b[1] # "NIL"
    BY DEF Plain
  <2>2. QED
    BY <1>1, <1>2, <1>4, <2>1 DEF ParseName
<1>5. CASE form = "quoted"
  <2>1. SelectInSeq(l.name, LAMBDA c : c = DQuote) = IF I # {} THEN Min(I) ELSE 0
    BY DEF SelectInSeq
  <2>2. CASE I = {}
    <3>1. ParseName(l) = l.name
      BY <1>1, <1>5, <2>1, <2>2 DEF ParseName
    <3>2. QED
      BY <1>1, <1>2, <1>5, <3>1, QuotePlain
  <2>3. CASE I # {}
    <3>1. Min(I) \in I
      <4>1. I \subseteq Nat
        BY <1>3
      <4>2. PICK m \in I : \A k \in I : ~ (<<k, m>> \in OpToRel(<, Nat))
        BY <2>3, <4>1, NatLessThanWellFounded, WFMin
      <4>3. \A k \in I : k >= m
        <5>1. ASSUME NEW k \in I PROVE ~ (k < m)
          BY <4>1, <4>2 DEF OpToRel
        <5>2. QED
          BY <4>1, <5>1
      <4>4. QED
        BY <4>1, <4>3 DEF Min
    <3>2. ParseName(l) = SubSeq(l.name, 1, Min(I) - 1)
      <4>1. Min(I) # 0
        BY <3>1
      <4>2. QED
        BY <1>1, <1>5, <2>1, <2>3, <4>1 DEF ParseName
    <3>3. ParseName(l) \in Seq(Characters)
      <4>1. PICK m \in 1..Len(l.name) : m = Min(I)
        BY <3>1
      <4>2. 1 \in Int /\ m - 1 \in Int /\ \A i \in 1..(m - 1) : l.name[i] \in Characters
        BY <1>3
      <4>3. SubSeq(l.name, 1, m - 1) \in Seq(Characters)
        BY <4>2, SubSeqProperties
      <4>4. QED
        BY <3>2, <4>1, <4>3
    <3>4. ~ Plain(b)
      <4>1. ASSUME Plain(b) PROVE FALSE
        <5>1. l.name = b /\ DOMAIN b = 1..Len(b)
          BY <1>1, <1>2, <1>5, <4>1, QuotePlain, LenProperties
        <5>2. QED
          BY <2>3, <4>1, <5>1 DEF Plain
      <4>2. QED
        BY <4>1
    <3>5. QED
      BY <3>3, <3>4
  <2>4. QED
    BY <2>2, <2>3
<1>6. QED
  BY <1>4, <1>5

\* The server's reading of a quoted string.
IsReading(r, text, n) ==
    r = [k \in 0..n |->
            IF k = 0 THEN [name |-> <<>>, escape |-> FALSE]
            ELSE IF text[k] = Backslash /\ ~ r[k - 1].escape
                 THEN [name |-> r[k - 1].name, escape |-> TRUE]
                 ELSE [name |-> Append(r[k - 1].name, text[k]), escape |-> FALSE]]
Unread(text) == {n \in Nat : ~ \E r : IsReading(r, text, n)}

\* One more character.
Reads(state, c) ==
    IF c = Backslash /\ ~ state.escape
    THEN [name |-> state.name, escape |-> TRUE]
    ELSE [name |-> Append(state.name, c), escape |-> FALSE]

\* The reading of a quoted string, character by character.
LEMMA ReadingSteps ==
    ASSUME NEW r, NEW text, NEW n \in Nat
    PROVE  IsReading(r, text, n) <=>
             /\ r = [k \in 0..n |-> r[k]]
             /\ r[0] = [name |-> <<>>, escape |-> FALSE]
             /\ \A k \in 1..n : r[k] = Reads(r[k - 1], text[k])
<1>1. ASSUME IsReading(r, text, n)
      PROVE  /\ r = [k \in 0..n |-> r[k]]
             /\ r[0] = [name |-> <<>>, escape |-> FALSE]
             /\ \A k \in 1..n : r[k] = Reads(r[k - 1], text[k])
  <2>1. r = [k \in 0..n |-> r[k]]
    BY <1>1 DEF IsReading
  <2>2. 0 \in 0..n /\ \A k \in 1..n : k \in 0..n /\ k # 0
    OBVIOUS
  <2>3. QED
    BY <1>1, <2>1, <2>2 DEF IsReading, Reads
<1>2. ASSUME r = [k \in 0..n |-> r[k]],
             r[0] = [name |-> <<>>, escape |-> FALSE],
             \A k \in 1..n : r[k] = Reads(r[k - 1], text[k])
      PROVE  IsReading(r, text, n)
  <2>1. \A k \in 0..n : k # 0 => k \in 1..n
    OBVIOUS
  <2>2. QED
    BY <1>2, <2>1 DEF IsReading, Reads
<1>3. QED
  BY <1>1, <1>2

\* There is one of any string.
LEMMA ReadingExists == ASSUME NEW text, NEW n \in Nat PROVE \E r : IsReading(r, text, n)
<1>1. SUFFICES ASSUME Unread(text) # {} PROVE FALSE
  BY DEF Unread
<1>2. PICK m \in Unread(text) : \A k \in Unread(text) : ~ (<<k, m>> \in OpToRel(<, Nat))
  BY <1>1, NatLessThanWellFounded, WFMin DEF Unread
<1>3. m \in Nat /\ ~ \E r : IsReading(r, text, m)
  BY DEF Unread
<1>4. CASE m = 0
  <2>1. PICK r : r = [k \in 0..0 |-> [name |-> <<>>, escape |-> FALSE]]
    OBVIOUS
  <2>2. /\ r = [k \in 0..0 |-> r[k]]
        /\ r[0] = [name |-> <<>>, escape |-> FALSE]
        /\ \A k \in 1..0 : r[k] = Reads(r[k - 1], text[k])
    <3>1. 1..0 = {} /\ 0 \in 0..0
      OBVIOUS
    <3>2. QED
      BY <2>1, <3>1
  <2>4. 0 \in Nat
    OBVIOUS
  <2>5. IsReading(r, text, 0)
    BY <2>2, <2>4, ReadingSteps
  <2>3. QED
    BY <1>3, <1>4, <2>5
<1>5. CASE m # 0
  <2>1. <<m - 1, m>> \in OpToRel(<, Nat)
    BY <1>3, <1>5 DEF OpToRel
  <2>2. m - 1 \in Nat
    BY <1>3, <1>5
  <2>3. PICK r : IsReading(r, text, m - 1)
    BY <1>2, <2>1, <2>2 DEF Unread
  <2>4. /\ r[0] = [name |-> <<>>, escape |-> FALSE]
        /\ \A k \in 1..(m - 1) : r[k] = Reads(r[k - 1], text[k])
    BY <2>2, <2>3, ReadingSteps
  <2>5. PICK h : h = [k \in 0..m |-> IF k < m THEN r[k] ELSE Reads(r[m - 1], text[m])]
    OBVIOUS
  <2>6. h = [k \in 0..m |-> h[k]] /\ h[0] = r[0]
    BY <1>3, <1>5, <2>5
  <2>7. ASSUME NEW k \in 1..m PROVE h[k] = Reads(h[k - 1], text[k])
    <3>1. k - 1 \in 0..m /\ k - 1 < m /\ k \in 0..m
      BY <1>3
    <3>2. h[k - 1] = r[k - 1]
      BY <2>5, <3>1
    <3>3. CASE k = m
      <4>1. h[k] = Reads(r[m - 1], text[m])
        BY <1>3, <2>5, <3>1, <3>3
      <4>2. QED
        BY <3>2, <3>3, <4>1
    <3>4. CASE k # m
      <4>1. k < m /\ k \in 1..(m - 1)
        BY <1>3, <3>4
      <4>2. h[k] = r[k]
        BY <2>5, <3>1, <4>1
      <4>3. QED
        BY <2>4, <3>2, <4>1, <4>2
    <3>5. QED
      BY <3>3, <3>4
  <2>8. IsReading(h, text, m)
    <3>1. /\ h = [k \in 0..m |-> h[k]]
          /\ h[0] = [name |-> <<>>, escape |-> FALSE]
          /\ \A k \in 1..m : h[k] = Reads(h[k - 1], text[k])
      BY <2>4, <2>6, <2>7
    <3>2. QED
      BY <1>3, <3>1, ReadingSteps
  <2>9. QED
    BY <1>3, <2>8
<1>6. QED
  BY <1>4, <1>5

\* Unquote is its last value.
LEMMA UnquoteIs ==
    ASSUME NEW text, Len(text) \in Nat
    PROVE  \E r : IsReading(r, text, Len(text)) /\ Unquote(text) = r[Len(text)].name
<1> DEFINE f == CHOOSE r : r = [k \in 0..Len(text) |->
            IF k = 0 THEN [name |-> <<>>, escape |-> FALSE]
            ELSE IF text[k] = Backslash /\ ~ r[k - 1].escape
                 THEN [name |-> r[k - 1].name, escape |-> TRUE]
                 ELSE [name |-> Append(r[k - 1].name, text[k]), escape |-> FALSE]]
<1>1. IsReading(f, text, Len(text))
  <2>1. \E r : IsReading(r, text, Len(text))
    BY ReadingExists
  <2>2. QED
    BY <2>1 DEF IsReading
<1>2. Unquote(text) = f[Len(text)].name
  BY DEF Unquote
<1>3. QED
  BY <1>1, <1>2

\* What has been joined stays in front.
Behind(g, n) ==
    {j \in 0..(n - 1) :
        ~ (Len(g[n - j]) <= Len(g[n]) /\ \A i \in 1..Len(g[n - j]) : g[n][i] = g[n - j][i])}

\* What has been joined so far is the beginning of the whole.
LEMMA FlatPrefix ==
    ASSUME NEW X, NEW s \in Seq(Seq(X)), NEW g, IsFlat(g, s, Len(s)), NEW k \in 1..Len(s)
    PROVE  Len(g[k]) <= Len(g[Len(s)]) /\ \A i \in 1..Len(g[k]) : g[Len(s)][i] = g[k][i]
<1> DEFINE n == Len(s)
<1>1. n \in Nat /\ k \in 1..n
  BY LenProperties
<1>2. \A j \in 1..n : g[j] \in Seq(X) /\ Len(g[j]) \in Nat
  BY FlatType, LenProperties
<1>5. \A b \in 1..n : s[b] \in Seq(X) /\ g[b] = IF b = 1 THEN s[b] ELSE g[b - 1] \o s[b]
  BY FlatType
<1> HIDE DEF n
<1>3. Behind(g, n) = {}
  <2>1. SUFFICES ASSUME Behind(g, n) # {} PROVE FALSE
    OBVIOUS
  <2>2. Behind(g, n) \subseteq Nat
    BY <1>1 DEF Behind
  <2>3. PICK j \in Behind(g, n) : \A i \in Behind(g, n) : ~ (<<i, j>> \in OpToRel(<, Nat))
    BY <2>1, <2>2, NatLessThanWellFounded, WFMin
  <2>4. /\ j \in 0..(n - 1)
        /\ ~ (Len(g[n - j]) <= Len(g[n]) /\ \A i \in 1..Len(g[n - j]) : g[n][i] = g[n - j][i])
    BY DEF Behind
  <2>5. CASE j = 0
    <3>1. n - j = n /\ n \in 1..n
      BY <1>1, <2>4, <2>5
    <3>2. QED
      BY <1>2, <2>4, <3>1
  <2>6. CASE j # 0
    <3>0. <<j - 1, j>> \in OpToRel(<, Nat)
      BY <1>1, <2>4, <2>6 DEF OpToRel
    <3>1. j - 1 \in 0..(n - 1) /\ n - j \in 1..n /\ n - (j - 1) \in 1..n
      BY <1>1, <2>4, <2>6
    <3>2. PICK a \in 1..n : a = n - j
      BY <3>1
    <3>3. a + 1 = n - (j - 1) /\ a + 1 \in 1..n /\ a + 1 # 1 /\ (a + 1) - 1 = a
      BY <1>1, <2>4, <3>1, <3>2
    <3>4. Len(g[a + 1]) <= Len(g[n]) /\ \A i \in 1..Len(g[a + 1]) : g[n][i] = g[a + 1][i]
      <4>1. j - 1 \notin Behind(g, n)
        BY <2>3, <3>0
      <4>2. Len(g[n - (j - 1)]) <= Len(g[n])
            /\ \A i \in 1..Len(g[n - (j - 1)]) : g[n][i] = g[n - (j - 1)][i]
        BY <3>1, <4>1 DEF Behind
      <4>3. QED
        BY <3>3, <4>2
    <3>5. g[a + 1] = g[a] \o s[a + 1] /\ s[a + 1] \in Seq(X)
      <4>1. s[a + 1] \in Seq(X) /\ g[a + 1] = IF a + 1 = 1 THEN s[a + 1] ELSE g[(a + 1) - 1] \o s[a + 1]
        BY <1>5, <3>3
      <4>2. QED
        BY <3>3, <4>1
    <3>6. PICK u \in Seq(X), v \in Seq(X) : u = g[a] /\ v = s[a + 1]
      BY <1>2, <3>5
    <3>7. g[a + 1] = u \o v
      BY <3>5, <3>6
    <3>8. /\ Len(u \o v) = Len(u) + Len(v) /\ Len(u) \in Nat /\ Len(v) \in Nat
          /\ \A i \in 1..(Len(u) + Len(v)) :
                (u \o v)[i] = IF i <= Len(u) THEN u[i] ELSE v[i - Len(u)]
      BY ConcatProperties, LenProperties
    <3>9. n \in 1..n /\ Len(g[n]) \in Nat
      BY <1>1, <1>2
    <3>10. Len(u) <= Len(g[n])
      BY <3>4, <3>7, <3>8, <3>9
    <3>11. ASSUME NEW i \in 1..Len(u) PROVE g[n][i] = u[i]
      <4>1. i \in 1..(Len(u) + Len(v)) /\ i <= Len(u)
        BY <3>8
      <4>2. QED
        BY <3>4, <3>7, <3>8, <4>1
    <3>12. QED
      BY <2>4, <3>2, <3>6, <3>10, <3>11
  <2>7. QED
    BY <2>5, <2>6
<1>4. QED
  <2>1. n - k \in 0..(n - 1) /\ n - (n - k) = k
    BY <1>1
  <2>2. Len(g[n - (n - k)]) <= Len(g[n]) /\ \A i \in 1..Len(g[n - (n - k)]) : g[n][i] = g[n - (n - k)][i]
    BY <1>3, <2>1 DEF Behind
  <2>3. QED
    BY <2>1, <2>2 DEF n

\* Outside a backslash.
Plainly(p) == [name |-> p, escape |-> FALSE]

\* One character of a name, as it is or after a backslash.
LEMMA ReadPiece ==
    ASSUME NEW text, Len(text) \in Nat, NEW r, IsReading(r, text, Len(text)), NEW k \in Nat,
           NEW p, r[k] = Plainly(p), NEW c
    PROVE  /\ k + 1 <= Len(text) /\ text[k + 1] = c /\ c # Backslash
                => r[k + 1] = Plainly(Append(p, c))
           /\ k + 2 <= Len(text) /\ text[k + 1] = Backslash /\ text[k + 2] = c
                => r[k + 2] = Plainly(Append(p, c))
<1>1. Len(text) \in Nat
  OBVIOUS
<1>2. \A i \in 1..Len(text) : r[i] = Reads(r[i - 1], text[i])
  BY <1>1, ReadingSteps
<1>3. ASSUME k + 1 <= Len(text) PROVE r[k + 1] = Reads(r[k], text[k + 1])
  <2>1. k + 1 \in 1..Len(text) /\ (k + 1) - 1 = k
    BY <1>1, <1>3
  <2>2. QED
    BY <1>2, <2>1
<1>4. ASSUME k + 2 <= Len(text) PROVE k + 1 <= Len(text) /\ r[k + 2] = Reads(r[k + 1], text[k + 2])
  <2>1. k + 2 \in 1..Len(text) /\ (k + 2) - 1 = k + 1 /\ k + 1 <= Len(text)
    BY <1>1, <1>4
  <2>2. QED
    BY <1>2, <2>1
<1>5. ASSUME k + 1 <= Len(text), text[k + 1] = c, c # Backslash
      PROVE  r[k + 1] = Plainly(Append(p, c))
  <2>1. r[k + 1] = Reads(r[k], c)
    BY <1>3, <1>5
  <2>2. QED
    BY <1>5, <2>1 DEF Reads, Plainly
<1>6. ASSUME k + 2 <= Len(text), text[k + 1] = Backslash, text[k + 2] = c
      PROVE  r[k + 2] = Plainly(Append(p, c))
  <2>1. r[k + 1] = Reads(r[k], Backslash) /\ r[k + 2] = Reads(r[k + 1], c)
    BY <1>3, <1>4, <1>6
  <2>2. r[k + 1] = [name |-> p, escape |-> TRUE]
    BY <2>1 DEF Reads, Plainly
  <2>3. r[k + 1].escape = TRUE /\ r[k + 1].name = p
    BY <2>2
  <2>4. QED
    BY <2>1, <2>3 DEF Reads, Plainly
<1>7. QED
  BY <1>5, <1>6

\* How far the reading of a quoted name is not the name.
Misread(g, r, name, n) ==
    {k \in 1..n : r[Len(g[k])] # [name |-> SubSeq(name, 1, k), escape |-> FALSE]}

\* Whatever characters it contains, a name that is quoted (escape_quote) and read with its
\* escapes is the name it was: so SELECT asks for the folder by its name in the table.
THEOREM UnquoteQuote == ASSUME NEW name \in Seq(Characters) PROVE Unquote(Quote(name)) = name
<1> DEFINE s == [k \in DOMAIN name |->
        IF name[k] \in {DQuote, Backslash} THEN <<Backslash, name[k]>> ELSE <<name[k]>>]
           text == Quote(name)
<1>1. DOMAIN name = 1..Len(name) /\ Len(name) \in Nat /\ \A k \in 1..Len(name) : name[k] \in Characters
  BY LenProperties, ElementOfSeq
<1>2. \A k \in 1..Len(name) : s[k] \in Seq(Characters)
  BY <1>1 DEF Backslash
<1>3. s \in Seq(Seq(Characters)) /\ Len(s) = Len(name)
  BY <1>1, <1>2
<1>4. text = FlattenSeq(s)
  BY DEF Quote
<1>5. text \in Seq(Characters) /\ Len(text) \in Nat
  BY QuoteType, LenProperties
<1>11. \A k \in 1..Len(name) :
          s[k] = IF name[k] \in {DQuote, Backslash} THEN <<Backslash, name[k]>> ELSE <<name[k]>>
  BY <1>1
<1> HIDE DEF s, text
<1>6. PICK r : IsReading(r, text, Len(text)) /\ Unquote(text) = r[Len(text)].name
  BY <1>5, UnquoteIs
<1>7. r[0] = [name |-> <<>>, escape |-> FALSE]
  BY <1>5, <1>6, ReadingSteps
<1>12. ASSUME NEW j \in Nat, NEW p, r[j] = Plainly(p), NEW c
       PROVE  /\ j + 1 <= Len(text) /\ text[j + 1] = c /\ c # Backslash
                   => r[j + 1] = Plainly(Append(p, c))
              /\ j + 2 <= Len(text) /\ text[j + 1] = Backslash /\ text[j + 2] = c
                   => r[j + 2] = Plainly(Append(p, c))
  BY <1>5, <1>6, <1>12, ReadPiece
<1>8. CASE name = <<>>
  <2>1. s = <<>>
    BY <1>3, <1>8, EmptySeq
  <2>2. text = <<>> /\ Len(text) = 0
    BY <1>4, <2>1, FlatSimple, EmptySeq
  <2>3. QED
    BY <1>6, <1>7, <1>8, <2>2 DEF text
<1>9. CASE name # <<>>
  <2>1. Len(name) \in Nat \ {0} /\ Len(s) \in Nat \ {0} /\ Len(name) \in 1..Len(name)
    BY <1>1, <1>3, <1>9, EmptySeq
  <2>2. PICK g : IsFlat(g, s, Len(s)) /\ text = g[Len(s)]
    BY <1>4, <2>1, FlatIs
  <2>6. \A b \in 1..Len(s) : Len(g[b]) <= Len(g[Len(s)]) /\ \A i \in 1..Len(g[b]) : g[Len(s)][i] = g[b][i]
    BY <1>3, <2>2, FlatPrefix
  <2>3. Misread(g, r, name, Len(name)) = {}
    <3>1. SUFFICES ASSUME Misread(g, r, name, Len(name)) # {} PROVE FALSE
      OBVIOUS
    <3>2. Misread(g, r, name, Len(name)) \subseteq Nat
      BY <1>1 DEF Misread
    <3>3. PICK k \in Misread(g, r, name, Len(name)) :
            \A j \in Misread(g, r, name, Len(name)) : ~ (<<j, k>> \in OpToRel(<, Nat))
      BY <3>1, <3>2, NatLessThanWellFounded, WFMin
    <3>4. k \in 1..Len(name) /\ r[Len(g[k])] # [name |-> SubSeq(name, 1, k), escape |-> FALSE]
      BY DEF Misread
    <3>5. k \in 1..Len(s) /\ k \in Nat /\ 1 \in Int
      BY <1>1, <1>3, <3>4
    <3>6. /\ g[k] \in Seq(Characters) /\ s[k] \in Seq(Characters)
          /\ g[k] = IF k = 1 THEN s[k] ELSE g[k - 1] \o s[k]
      <4>1. \A b \in 1..Len(s) : /\ g[b] \in Seq(Characters) /\ s[b] \in Seq(Characters)
                                 /\ g[b] = IF b = 1 THEN s[b] ELSE g[b - 1] \o s[b]
        BY <1>3, <2>2, FlatType
      <4>2. QED
        BY <3>5, <4>1
    <3>7. Len(g[k]) <= Len(text) /\ \A i \in 1..Len(g[k]) : text[i] = g[k][i]
      BY <2>2, <2>6, <3>5
    <3>8. PICK u \in Seq(Characters) :
            /\ g[k] = u \o s[k]
            /\ r[Len(u)] = [name |-> SubSeq(name, 1, k - 1), escape |-> FALSE]
      <4>1. CASE k = 1
        <5>1. SubSeq(name, 1, 0) = <<>>
          BY SubSeqEmpty
        <5>2. <<>> \in Seq(Characters) /\ Len(<<>>) = 0 /\ <<>> \o s[k] = s[k]
          BY <3>6, EmptySeq, ConcatEmptySeq
        <5>3. SubSeq(name, 1, k - 1) = <<>> /\ g[k] = <<>> \o s[k]
          BY <3>6, <4>1, <5>1, <5>2
        <5>4. r[Len(<<>>)] = [name |-> SubSeq(name, 1, k - 1), escape |-> FALSE]
          BY <1>7, <5>2, <5>3
        <5>5. QED
          BY <5>2, <5>3, <5>4
      <4>2. CASE k # 1
        <5>1. <<k - 1, k>> \in OpToRel(<, Nat)
          BY <3>4, <3>5, <4>2 DEF OpToRel
        <5>2. k - 1 \in 1..Len(name) /\ k - 1 \in 1..Len(s)
          BY <1>1, <1>3, <3>4, <4>2
        <5>3. r[Len(g[k - 1])] = [name |-> SubSeq(name, 1, k - 1), escape |-> FALSE]
          BY <3>3, <5>1, <5>2 DEF Misread
        <5>4. g[k - 1] \in Seq(Characters)
          BY <1>3, <2>2, <5>2, FlatType
        <5>5. QED
          BY <3>6, <4>2, <5>3, <5>4
      <4>3. QED
        BY <4>1, <4>2
    <3>9. PICK v \in Seq(Characters) : v = s[k]
      BY <3>6
    <3>10. /\ Len(u \o v) = Len(u) + Len(v) /\ Len(u) \in Nat /\ Len(v) \in Nat
           /\ \A i \in 1..(Len(u) + Len(v)) :
                (u \o v)[i] = IF i <= Len(u) THEN u[i] ELSE v[i - Len(u)]
      BY ConcatProperties, LenProperties
    <3>11. ASSUME NEW i \in 1..Len(v) PROVE text[Len(u) + i] = v[i] /\ Len(u) + Len(v) <= Len(text)
      <4>1. Len(u) + i \in 1..(Len(u) + Len(v)) /\ ~ (Len(u) + i <= Len(u)) /\ (Len(u) + i) - Len(u) = i
        BY <3>10
      <4>2. QED
        BY <3>7, <3>8, <3>9, <3>10, <4>1
    <3>12. SubSeq(name, 1, k) = Append(SubSeq(name, 1, k - 1), name[k])
      <4>1. 1 \in 1..Len(name) /\ k \in 1..Len(name) /\ k - 1 \in Int
        BY <1>1, <3>4
      <4>2. SubSeq(name, 1, k) = SubSeq(name, 1, k - 1) \o <<name[k]>>
        BY <4>1, SubSeqRecursiveSecond
      <4>3. \A i \in 1..(k - 1) : name[i] \in Characters
        BY <1>1, <3>4
      <4>4. SubSeq(name, 1, k - 1) \in Seq(Characters) /\ name[k] \in Characters
        BY <1>1, <3>4, <4>1, <4>3, SubSeqProperties
      <4>5. QED
        BY <4>2, <4>4, AppendIsConcat
    <3>13. v = IF name[k] \in {DQuote, Backslash} THEN <<Backslash, name[k]>> ELSE <<name[k]>>
      BY <1>11, <3>4, <3>9
    <3>14. CASE name[k] \in {DQuote, Backslash}
      <4>1. Len(v) = 2 /\ v[1] = Backslash /\ v[2] = name[k]
        BY <3>13, <3>14
      <4>2. /\ Len(u) + 2 <= Len(text) /\ text[Len(u) + 1] = Backslash
            /\ text[Len(u) + 2] = name[k] /\ Len(g[k]) = Len(u) + 2
        BY <3>8, <3>9, <3>10, <3>11, <4>1
      <4>3. r[Len(u) + 2] = [name |-> Append(SubSeq(name, 1, k - 1), name[k]), escape |-> FALSE]
        <5>0. PICK p : p = SubSeq(name, 1, k - 1)
          OBVIOUS
        <5>1. PICK j \in Nat : j = Len(u)
          BY <3>10
        <5>2. r[j] = [name |-> p, escape |-> FALSE]
          BY <3>8, <5>0, <5>1
        <5>3. j + 2 <= Len(text) /\ text[j + 1] = Backslash /\ text[j + 2] = name[k]
          BY <4>2, <5>1
        <5>4. r[j] = Plainly(p)
          BY <5>2 DEF Plainly
        <5>6. r[j + 2] = Plainly(Append(p, name[k]))
          BY <1>12, <5>3, <5>4
        <5>5. QED
          BY <5>0, <5>1, <5>6 DEF Plainly
      <4>4. QED
        BY <3>4, <3>12, <4>2, <4>3
    <3>15. CASE name[k] \notin {DQuote, Backslash}
      <4>1. Len(v) = 1 /\ v[1] = name[k]
        BY <3>13, <3>15
      <4>2. /\ Len(u) + 1 <= Len(text) /\ text[Len(u) + 1] = name[k] /\ Len(g[k]) = Len(u) + 1
        BY <3>8, <3>9, <3>10, <3>11, <4>1
      <4>3. r[Len(u) + 1] = [name |-> Append(SubSeq(name, 1, k - 1), name[k]), escape |-> FALSE]
        <5>0. PICK p : p = SubSeq(name, 1, k - 1)
          OBVIOUS
        <5>1. PICK j \in Nat : j = Len(u)
          BY <3>10
        <5>2. r[j] = [name |-> p, escape |-> FALSE]
          BY <3>8, <5>0, <5>1
        <5>3. j + 1 <= Len(text) /\ text[j + 1] = name[k] /\ name[k] # Backslash
          BY <3>15, <4>2, <5>1
        <5>4. r[j] = Plainly(p)
          BY <5>2 DEF Plainly
        <5>6. r[j + 1] = Plainly(Append(p, name[k]))
          BY <1>12, <5>3, <5>4
        <5>5. QED
          BY <5>0, <5>1, <5>6 DEF Plainly
      <4>4. QED
        BY <3>4, <3>12, <4>2, <4>3
    <3>16. QED
      BY <3>14, <3>15
  <2>4. r[Len(g[Len(name)])] = [name |-> SubSeq(name, 1, Len(name)), escape |-> FALSE]
    BY <2>1, <2>3 DEF Misread
  <2>5. QED
    BY <1>3, <1>6, <2>2, <2>4, SubSeqFull DEF text
<1>10. QED
  BY <1>8, <1>9

\* An injection of the numbers up to that of the mailboxes reaches all of them.
LEMMA InOrder ==
    ASSUME NEW S, IsFiniteSet(S)
    PROVE  /\ Len(SetToSeq(S)) \in Nat /\ DOMAIN SetToSeq(S) = 1..Len(SetToSeq(S))
           /\ \A k \in 1..Len(SetToSeq(S)) : SetToSeq(S)[k] \in S
           /\ \A b \in S : \E k \in 1..Len(SetToSeq(S)) : SetToSeq(S)[k] = b
<1> DEFINE n == Cardinality(S)
           e == SetToSeq(S)
<1>1. n \in Nat /\ ExistsBijection(1..n, S)
  BY FS_CardinalityType
<1>2. PICK f : f \in [1..n -> S] /\ IsInjective(f)
  BY <1>1 DEF ExistsBijection, Bijection, Injection
<1>3. e \in [1..n -> S] /\ IsInjective(e)
  BY <1>2 DEF SetToSeq
<1>4. e \in Injection(1..n, S)
  BY <1>3 DEF Injection
<1>5. Cardinality(1..n) = n
  BY <1>1, FS_Interval
<1>6. e \in Surjection(1..n, S)
  BY <1>4, <1>5, FS_Injection
<1>7. \A b \in S : \E k \in 1..n : e[k] = b
  BY <1>6 DEF Surjection
<1> HIDE DEF n, e
<1>8. Len(e) = n
  BY <1>1, <1>3
<1>9. QED
  BY <1>1, <1>3, <1>7, <1>8 DEF e

-----------------------------------------------------------------------------
(***************************************************************************)
(* What comes over the wire in answer to a command: frames, each a line or  *)
(* a line, the literal it announces and the rest of it.                     *)
(***************************************************************************)
\* A line as LIST writes it.
Proper(line) == \E b \in Mailboxes : \E form \in Forms(b) : line = Listed(b, form)

\* A line that is not tagged, with its literal and the rest of it.
Frame ==
    {f \in Seq(Line) :
        /\ f # <<>>
        /\ f[1].kind # "tagged"
        /\ Len(f) = IF f[1].literal > 0 THEN f[1].literal + 2 ELSE 1
        /\ f[1].kind = "list" => Proper(f[1])}

\* What the client keeps of one.
Response ==
    {r \in [line : Line, body : SUBSET Seq(Line)] : r.line.kind = "list" => Proper(r.line)}

\* What execute makes of a frame, and of many.
Resp(f) ==
    IF f[1].kind = "fetch" /\ f[1].literal > 0
    THEN <<[line |-> f[1], body |-> {SubSeq(f, 2, f[1].literal + 1)}]>>
    ELSE IF f[1].kind \in {"fetch", "list"} THEN <<[line |-> f[1], body |-> {}]>>
    ELSE <<>>
Responses(q) == FlattenSeq([k \in DOMAIN q |-> Resp(q[k])])

\* A frame begins with a line; its responses are responses.
LEMMA FrameType ==
    ASSUME NEW f \in Frame
    PROVE  /\ f \in Seq(Line) /\ f # <<>> /\ Len(f) \in Nat /\ Len(f) >= 1 /\ f[1] \in Line
           /\ Resp(f) \in Seq(Response)
           /\ f[1].literal \in Nat
<1>1. f \in Seq(Line) /\ f # <<>> /\ Len(f) \in Nat /\ Len(f) >= 1 /\ f[1] \in Line
  BY EmptySeq, ElementOfSeq DEF Frame
<1>2. f[1].literal \in Nat
  BY <1>1 DEF Line
<1>3. ASSUME f[1].literal > 0 PROVE SubSeq(f, 2, f[1].literal + 1) \in Seq(Line)
  <2>1. Len(f) = f[1].literal + 2
    BY <1>3 DEF Frame
  <2>2. \A i \in 2..(f[1].literal + 1) : f[i] \in Line
    <3>1. \A i \in 2..(f[1].literal + 1) : i \in 1..Len(f)
      BY <1>2, <2>1
    <3>2. QED
      BY <1>1, <3>1, ElementOfSeq
  <2>3. 2 \in Int /\ f[1].literal + 1 \in Int
    BY <1>2
  <2>4. QED
    BY <2>2, <2>3, SubSeqProperties
<1>4. Resp(f) \in Seq(Response)
  <2>0. f[1].kind = "list" => Proper(f[1])
    BY DEF Frame
  <2>1. f[1].literal > 0 =>
          [line |-> f[1], body |-> {SubSeq(f, 2, f[1].literal + 1)}] \in Response
    BY <1>1, <1>3, <2>0 DEF Response
  <2>2. [line |-> f[1], body |-> {}] \in Response
    BY <1>1, <2>0 DEF Response
  <2>3. QED
    BY <2>1, <2>2 DEF Resp
<1>5. QED
  BY <1>1, <1>2, <1>4

\* No frames, no responses.
LEMMA StreamEmpty == Responses(<<>>) = <<>> /\ <<>> \in Seq(Frame)
<1>1. DOMAIN <<>> = {} /\ <<>> \in Seq(Frame)
  OBVIOUS
<1>2. [k \in DOMAIN <<>> |-> Resp(<<>>[k])] = <<>>
  BY <1>1
<1>3. QED
  BY <1>1, <1>2, FlatSimple DEF Responses

\* Frames are lines, one after the other.
LEMMA StreamType ==
    ASSUME NEW q \in Seq(Frame)
    PROVE  /\ [k \in DOMAIN q |-> Resp(q[k])] \in Seq(Seq(Response))
           /\ Responses(q) \in Seq(Response)
           /\ q \in Seq(Seq(Line)) /\ FlattenSeq(q) \in Seq(Line)
<1>1. DOMAIN q = 1..Len(q) /\ Len(q) \in Nat /\ \A k \in 1..Len(q) : q[k] \in Frame
  BY LenProperties, ElementOfSeq
<1>2. \A k \in 1..Len(q) : Resp(q[k]) \in Seq(Response)
  BY <1>1, FrameType
<1>3. [k \in DOMAIN q |-> Resp(q[k])] \in Seq(Seq(Response))
  BY <1>1, <1>2
<1>4. q \in Seq(Seq(Line))
  BY SeqMonotonic DEF Frame
<1>5. QED
  BY <1>3, <1>4, FlatSeq DEF Responses

\* The first frame comes first, and so do its responses.
LEMMA StreamCons ==
    ASSUME NEW f \in Frame, NEW q \in Seq(Frame)
    PROVE  /\ <<f>> \o q \in Seq(Frame)
           /\ FlattenSeq(<<f>> \o q) = f \o FlattenSeq(q)
           /\ Responses(<<f>> \o q) = Resp(f) \o Responses(q)
<1> DEFINE p == <<f>> \o q
           m == [k \in DOMAIN q |-> Resp(q[k])]
<1>1. <<f>> \in Seq(Frame) /\ Len(<<f>>) = 1 /\ <<f>>[1] = f /\ Len(q) \in Nat /\ DOMAIN q = 1..Len(q)
  BY LenProperties
<1>2. /\ p \in Seq(Frame) /\ Len(p) = 1 + Len(q) /\ DOMAIN p = 1..Len(p)
      /\ \A i \in 1..(1 + Len(q)) : p[i] = IF i <= 1 THEN <<f>>[i] ELSE q[i - 1]
  BY <1>1, ConcatProperties, LenProperties
<1>3. f \in Seq(Line) /\ q \in Seq(Seq(Line)) /\ m \in Seq(Seq(Response)) /\ Resp(f) \in Seq(Response)
  BY FrameType, StreamType
<1>4. FlattenSeq(p) = f \o FlattenSeq(q)
  BY <1>3, FlatCons
<1>5. [k \in DOMAIN p |-> Resp(p[k])] = <<Resp(f)>> \o m
  <2>1. <<Resp(f)>> \in Seq(Seq(Response)) /\ Len(<<Resp(f)>>) = 1 /\ <<Resp(f)>>[1] = Resp(f)
    BY <1>3
  <2>2. Len(m) = Len(q) /\ \A k \in 1..Len(q) : m[k] = Resp(q[k])
    BY <1>1
  <2>3. /\ <<Resp(f)>> \o m \in Seq(Seq(Response)) /\ Len(<<Resp(f)>> \o m) = 1 + Len(q)
        /\ \A i \in 1..(1 + Len(q)) :
              (<<Resp(f)>> \o m)[i] = IF i <= 1 THEN <<Resp(f)>>[i] ELSE m[i - 1]
    BY <1>3, <2>1, <2>2, ConcatProperties
  <2>4. [k \in DOMAIN p |-> Resp(p[k])] \in Seq(Seq(Response))
    BY <1>2, StreamType
  <2>5. Len([k \in DOMAIN p |-> Resp(p[k])]) = 1 + Len(q)
    BY <1>1, <1>2
  <2>6. ASSUME NEW i \in 1..(1 + Len(q))
        PROVE  [k \in DOMAIN p |-> Resp(p[k])][i] = (<<Resp(f)>> \o m)[i]
    <3>1. [k \in DOMAIN p |-> Resp(p[k])][i] = Resp(p[i])
      BY <1>2
    <3>2. CASE i = 1
      BY <1>1, <1>2, <2>1, <2>3, <3>1, <3>2
    <3>3. CASE i # 1
      <4>1. i - 1 \in 1..Len(q) /\ ~ (i <= 1)
        BY <1>1, <3>3
      <4>2. QED
        BY <1>2, <2>2, <2>3, <3>1, <4>1
    <3>4. QED
      BY <3>2, <3>3
  <2>7. QED
    BY <2>3, <2>4, <2>5, <2>6, SeqEqual
<1>6. QED
  BY <1>2, <1>3, <1>4, <1>5, FlatCons DEF Responses

\* There is a first one.
LEMMA StreamHead ==
    ASSUME NEW q \in Seq(Frame), q # <<>>
    PROVE  \E f \in Frame, p \in Seq(Frame) : q = <<f>> \o p
<1>1. Head(q) \in Frame /\ Tail(q) \in Seq(Frame)
  BY HeadTailProperties
<1>2. q \in Seq(Seq(Line))
  BY StreamType
<1>3. q = <<Head(q)>> \o Tail(q)
  BY <1>2, FlatTail
<1>4. QED
  BY <1>1, <1>3

-----------------------------------------------------------------------------
(***************************************************************************)
(* What the server sends.                                                   *)
(***************************************************************************)
\* The messages that can be taken from those sent.
Whole(sent) ==
    FlattenSeq([j \in DOMAIN sent |->
        LET m == sent[j]
        IN IF m.way = "literal" THEN <<[uid |-> m.uid, body |-> m.body]>> ELSE <<>>])

\* What is said in between, as a response and as lines.
Murmur == [line |-> Fetch(2, 0), body |-> {}]
Murmurs == {<<>>, <<Murmur>>}
Chat == {Fetch(2, 0), Piece("exists"), Piece("continuation")}

\* A line of its own is a frame.
LEMMA LineFrame ==
    ASSUME NEW line \in Line, line.kind \notin {"tagged", "list"}, line.literal = 0
    PROVE  /\ <<line>> \in Frame
           /\ Resp(<<line>>) = IF line.kind = "fetch" THEN <<[line |-> line, body |-> {}]>> ELSE <<>>
<1>1. <<line>> \in Seq(Line) /\ <<line>>[1] = line /\ Len(<<line>>) = 1 /\ <<line>> # <<>>
  OBVIOUS
<1>2. QED
  BY <1>1 DEF Frame, Resp

\* So is what is said in between.
LEMMA ChatFrame ==
    ASSUME NEW line \in Chat
    PROVE  /\ line \in Line /\ <<line>> \in Frame /\ Resp(<<line>>) \in Murmurs
           /\ line.literal = 0 /\ line.kind \notin {"tagged", "list"}
<1>1. line \in Line
  BY LineTypes DEF Chat
<1>2. /\ line.literal = 0 /\ line.kind \notin {"tagged", "list"}
      /\ line.kind = "fetch" => line = Fetch(2, 0)
  <2>1. CASE line = Fetch(2, 0)
    BY <2>1 DEF Fetch, Piece
  <2>2. CASE line = Piece("exists")
    BY <2>2 DEF Piece
  <2>3. CASE line = Piece("continuation")
    BY <2>3 DEF Piece
  <2>4. QED
    BY <2>1, <2>2, <2>3 DEF Chat
<1>3. QED
  BY <1>1, <1>2, LineFrame DEF Murmurs, Murmur

\* A message as it is sent, and what becomes of it.
Got(uid, way, text) ==
    [line |-> IF way = "literal" THEN Fetch(uid, Len(text))
              ELSE IF way = "late" THEN Fetch(0, Len(text)) ELSE FetchInline(uid),
     body |-> IF way = "inline" THEN {} ELSE {text}]

\* A message is a frame, however it is sent, and makes one response.
LEMMA SentFrame ==
    ASSUME NEW uid \in Nat, NEW way \in {"literal", "late", "inline"}, NEW text \in Texts
    PROVE  /\ Sent(uid, way, text) \in Frame
           /\ Got(uid, way, text) \in Response
           /\ Resp(Sent(uid, way, text)) = <<Got(uid, way, text)>>
<1>1. text \in Seq(Line) /\ Len(text) \in Nat /\ Len(text) > 0
  BY EmptySeq, LenProperties
<1>2. CASE way = "inline"
  <2>1. Sent(uid, way, text) = <<FetchInline(uid)>>
    BY <1>2 DEF Sent
  <2>2. /\ FetchInline(uid) \in Line /\ FetchInline(uid).kind = "fetch"
        /\ FetchInline(uid).literal = 0
    BY LineTypes DEF FetchInline, Piece
  <2>3. Got(uid, way, text) = [line |-> FetchInline(uid), body |-> {}]
    BY <1>2 DEF Got
  <2>4. PICK l \in Line : l = FetchInline(uid) /\ l.kind = "fetch" /\ l.literal = 0
    BY <2>2
  <2>5. <<l>> \in Frame /\ Resp(<<l>>) = <<[line |-> l, body |-> {}]>>
    BY <2>4, LineFrame
  <2>6. [line |-> l, body |-> {}] \in Response
    BY <2>4 DEF Response
  <2>7. QED
    BY <2>1, <2>3, <2>4, <2>5, <2>6
<1>3. CASE way # "inline"
  <2>1. PICK h \in Line : h = IF way = "literal" THEN Fetch(uid, Len(text)) ELSE Fetch(0, Len(text))
    BY <1>1, LineTypes
  <2>2. h.kind = "fetch" /\ h.literal = Len(text)
    BY <2>1 DEF Fetch, Piece
  <2>3. PICK r \in Line : r = Piece("rest")
    BY LineTypes
  <2>4. Sent(uid, way, text) = (<<h>> \o text) \o <<r>>
    BY <1>3, <2>1, <2>3 DEF Sent
  <2>5. PICK u \in Seq(Line) : u = <<h>> \o text
    <3>1. <<h>> \in Seq(Line)
      OBVIOUS
    <3>2. QED
      BY <1>1, <3>1, ConcatProperties
  <2>6. /\ Len(u) = 1 + Len(text)
        /\ \A i \in 1..(1 + Len(text)) : u[i] = IF i <= 1 THEN h ELSE text[i - 1]
    <3>1. <<h>> \in Seq(Line) /\ Len(<<h>>) = 1 /\ <<h>>[1] = h
      OBVIOUS
    <3>2. /\ Len(u) = Len(<<h>>) + Len(text)
          /\ \A i \in 1..(Len(<<h>>) + Len(text)) :
                u[i] = IF i <= Len(<<h>>) THEN <<h>>[i] ELSE text[i - Len(<<h>>)]
      BY <1>1, <2>5, <3>1, ConcatProperties
    <3>3. \A i \in 1..(1 + Len(text)) : i <= 1 => i = 1
      OBVIOUS
    <3>4. QED
      BY <3>1, <3>2, <3>3
  <2>7. PICK f \in Seq(Line) : f = u \o <<r>>
    <3>1. <<r>> \in Seq(Line)
      OBVIOUS
    <3>2. QED
      BY <3>1, ConcatProperties
  <2>8. /\ Len(f) = Len(text) + 2
        /\ \A i \in 1..(1 + Len(text)) : f[i] = u[i]
    <3>1. <<r>> \in Seq(Line) /\ Len(<<r>>) = 1
      OBVIOUS
    <3>2. /\ Len(f) = Len(u) + Len(<<r>>)
          /\ \A i \in 1..(Len(u) + Len(<<r>>)) :
                f[i] = IF i <= Len(u) THEN u[i] ELSE <<r>>[i - Len(u)]
      BY <2>7, <3>1, ConcatProperties
    <3>3. \A i \in 1..(1 + Len(text)) : i \in 1..(Len(u) + Len(<<r>>)) /\ i <= Len(u)
      BY <1>1, <2>6, <3>1
    <3>4. QED
      BY <1>1, <2>6, <3>1, <3>2, <3>3
  <2>9. f[1] = h /\ \A i \in 1..Len(text) : f[i + 1] = text[i]
    <3>1. 1 \in 1..(1 + Len(text)) /\ \A i \in 1..Len(text) :
             i + 1 \in 1..(1 + Len(text)) /\ ~ (i + 1 <= 1) /\ (i + 1) - 1 = i
      BY <1>1
    <3>2. QED
      BY <2>6, <2>8, <3>1
  <2>10. f \in Frame
    BY <1>1, <2>2, <2>8, <2>9, EmptySeq DEF Frame
  <2>11. SubSeq(f, 2, Len(text) + 1) = text
    <3>1. /\ SubSeq(f, 2, Len(text) + 1) \in Seq(Line)
          /\ Len(SubSeq(f, 2, Len(text) + 1)) = Len(text)
          /\ \A i \in 1..Len(text) : SubSeq(f, 2, Len(text) + 1)[i] = f[i + 1]
      <4>1. \A i \in 2..(Len(text) + 1) : i \in 1..Len(f)
        BY <1>1, <2>8
      <4>2. \A i \in 2..(Len(text) + 1) : f[i] \in Line
        BY <4>1, ElementOfSeq
      <4>3. PICK n \in Nat : n = Len(text) /\ n > 0
        BY <1>1
      <4>4. 2 \in Int /\ n + 1 \in Int /\ 2 <= n + 1 /\ (n + 1) - 2 + 1 = n
        BY <4>3
      <4>5. /\ SubSeq(f, 2, n + 1) \in Seq(Line)
            /\ Len(SubSeq(f, 2, n + 1)) = IF 2 <= n + 1 THEN (n + 1) - 2 + 1 ELSE 0
            /\ \A i \in 1..((n + 1) - 2 + 1) : SubSeq(f, 2, n + 1)[i] = f[2 + i - 1]
        BY <4>2, <4>3, <4>4, SubSeqProperties
      <4>6. \A i \in 1..n : 2 + i - 1 = i + 1
        OBVIOUS
      <4>7. QED
        BY <4>3, <4>4, <4>5, <4>6
    <3>2. QED
      BY <1>1, <2>9, <3>1, SeqEqual
  <2>12. Got(uid, way, text) = [line |-> h, body |-> {text}]
    BY <1>3, <2>1 DEF Got
  <2>13. Resp(f) = <<[line |-> h, body |-> {text}]>>
    BY <1>1, <2>2, <2>9, <2>11 DEF Resp
  <2>14. [line |-> h, body |-> {text}] \in Response
    BY <1>1, <2>2 DEF Response
  <2>15. Sent(uid, way, text) = f
    BY <2>4, <2>5, <2>7
  <2>16. QED
    BY <2>10, <2>12, <2>13, <2>14, <2>15
<1>4. QED
  BY <1>2, <1>3

\* The answer to a fetch, and its responses.
LEMMA FetchStream ==
    ASSUME NEW n \in Nat, NEW text \in [1..n -> Texts], NEW way \in [1..n -> Ways]
    PROVE  /\ [k \in 1..n |-> Sent(k, way[k], text[k])] \in Seq(Frame)
           /\ Responses([k \in 1..n |-> Sent(k, way[k], text[k])])
                = [k \in 1..n |-> Got(k, way[k], text[k])]
           /\ [k \in 1..n |-> Got(k, way[k], text[k])] \in Seq(Response)
<1> DEFINE q == [k \in 1..n |-> Sent(k, way[k], text[k])]
           r == [k \in 1..n |-> Got(k, way[k], text[k])]
           m == [k \in DOMAIN q |-> Resp(q[k])]
<1>1. \A k \in 1..n : k \in Nat /\ way[k] \in {"literal", "late", "inline"} /\ text[k] \in Texts
  BY DEF Ways
<1>2. \A k \in 1..n : q[k] \in Frame /\ r[k] \in Response /\ Resp(q[k]) = <<r[k]>>
  BY <1>1, SentFrame
<1>3. q \in Seq(Frame) /\ r \in Seq(Response) /\ DOMAIN q = 1..n /\ Len(r) = n
  BY <1>2
<1>4. m \in Seq(Seq(Response))
  BY <1>3, StreamType
<1>5. Len(m) = n /\ \A k \in 1..n : m[k] = <<r[k]>>
  BY <1>2, <1>3
<1>6. FlattenSeq(m) = r
  BY <1>3, <1>4, <1>5, FlatSingles
<1>7. QED
  BY <1>3, <1>6 DEF Responses

\* What is said in between is no message and hides none.
Brought(r) ==
    LET m == [uid |-> r.line.uid, body |-> r.body] IN IF IsMessage(m) THEN <<m>> ELSE <<>>

Message == [uid : Nat, body : SUBSET Seq(Line)]

\* Flags changed elsewhere are not taken for a message.
LEMMA MessagesSkip ==
    ASSUME NEW c \in Murmurs, NEW r \in Seq(Response)
    PROVE  /\ c \o r \in Seq(Response) /\ Len(c \o r) = Len(c) + Len(r)
           /\ Messages(c \o r) = Messages(r)
           /\ Len(c) \in Nat /\ \A k \in 1..Len(r) : (c \o r)[Len(c) + k] = r[k]
<1>1. Len(r) \in Nat /\ DOMAIN r = 1..Len(r) /\ \A k \in 1..Len(r) : r[k] \in Response
  BY LenProperties, ElementOfSeq
<1>2. CASE c = <<>>
  <2>1. c \o r = r /\ Len(c) = 0
    BY <1>2, ConcatEmptySeq, EmptySeq
  <2>2. \A k \in 1..Len(r) : Len(c) + k = k
    BY <1>1, <2>1
  <2>3. QED
    BY <1>1, <2>1, <2>2
<1>3. CASE c = <<Murmur>>
  <2>1. Murmur \in Response
    <3>1. Fetch(2, 0) \in Line /\ Fetch(2, 0).kind = "fetch"
      BY LineTypes DEF Fetch, Piece
    <3>2. QED
      BY <3>1 DEF Murmur, Response
  <2>2. c \in Seq(Response) /\ Len(c) = 1 /\ c[1] = Murmur
    BY <1>3, <2>1
  <2>3. /\ c \o r \in Seq(Response) /\ Len(c \o r) = 1 + Len(r) /\ DOMAIN (c \o r) = 1..(1 + Len(r))
        /\ \A i \in 1..(1 + Len(r)) : (c \o r)[i] = IF i <= 1 THEN c[i] ELSE r[i - 1]
    <3>1. \A u, v \in Seq(Response) :
            /\ u \o v \in Seq(Response) /\ Len(u \o v) = Len(u) + Len(v)
            /\ \A i \in 1..(Len(u) + Len(v)) :
                    (u \o v)[i] = IF i <= Len(u) THEN u[i] ELSE v[i - Len(u)]
      BY ConcatProperties
    <3>2. \A u \in Seq(Response) : DOMAIN u = 1..Len(u)
      BY LenProperties
    <3>3. /\ c \o r \in Seq(Response) /\ Len(c \o r) = Len(c) + Len(r)
          /\ \A i \in 1..(Len(c) + Len(r)) :
                  (c \o r)[i] = IF i <= Len(c) THEN c[i] ELSE r[i - Len(c)]
      BY <2>2, <3>1
    <3>4. DOMAIN (c \o r) = 1..Len(c \o r)
      BY <3>2, <3>3
    <3>5. Len(c) = 1
      BY <2>2
    <3>6. QED
      BY <3>3, <3>4, <3>5
  <2>4. PICK s : s = c \o r
    OBVIOUS
  <2>5. /\ s[1] = Murmur
        /\ \A k \in 1..Len(r) : s[1 + k] = r[k]
    <3>1. 1 \in 1..(1 + Len(r)) /\ \A k \in 1..Len(r) :
             1 + k \in 1..(1 + Len(r)) /\ ~ (1 + k <= 1) /\ (1 + k) - 1 = k
      BY <1>1
    <3>2. QED
      BY <2>2, <2>3, <2>4, <3>1
  <2>6. PICK m : m = [k \in 1..Len(r) |-> Brought(r[k])]
    OBVIOUS
  <2>7. m \in Seq(Seq(Message)) /\ Len(m) = Len(r) /\ FlattenSeq(m) = Messages(r)
    <3>1. \A x \in Response : Brought(x) \in Seq(Message)
      <4>1. ASSUME NEW x \in Response PROVE Brought(x) \in Seq(Message)
        <5>1. [uid |-> x.line.uid, body |-> x.body] \in Message
          BY DEF Message, Response, Line
        <5>2. QED
          BY <5>1 DEF Brought
      <4>2. QED
        BY <4>1
    <3>2. m \in Seq(Seq(Message)) /\ Len(m) = Len(r)
      BY <1>1, <2>6, <3>1
    <3>3. QED
      BY <1>1, <2>6, <3>2 DEF Messages, Brought
  <2>8. Brought(Murmur) = <<>>
    <3>1. Murmur.body = {}
      BY DEF Murmur
    <3>2. QED
      BY <3>1 DEF Brought, IsMessage
  <2>9. [k \in 1..(1 + Len(r)) |-> Brought(s[k])] = <<<<>>>> \o m
    <3>1. PICK t : t = [k \in 1..(1 + Len(r)) |-> Brought(s[k])]
      OBVIOUS
    <3>2. <<<<>>>> \in Seq(Seq(Message)) /\ Len(<<<<>>>>) = 1 /\ <<<<>>>>[1] = <<>>
      OBVIOUS
    <3>3. /\ <<<<>>>> \o m \in Seq(Seq(Message)) /\ Len(<<<<>>>> \o m) = 1 + Len(r)
          /\ \A i \in 1..(1 + Len(r)) :
                (<<<<>>>> \o m)[i] = IF i <= 1 THEN <<<<>>>>[i] ELSE m[i - 1]
      BY <2>7, <3>2, ConcatProperties
    <3>4. ASSUME NEW i \in 1..(1 + Len(r)) PROVE t[i] = (<<<<>>>> \o m)[i]
      <4>1. CASE i = 1
        <5>1. t[i] = Brought(s[1])
          BY <3>1, <4>1
        <5>2. (<<<<>>>> \o m)[i] = <<>>
          BY <3>2, <3>3, <4>1
        <5>3. QED
          BY <2>5, <2>8, <5>1, <5>2
      <4>2. CASE i # 1
        <5>1. PICK k \in 1..Len(r) : i = 1 + k /\ i - 1 = k /\ ~ (i <= 1)
          <6>1. i - 1 \in 1..Len(r) /\ i = 1 + (i - 1) /\ ~ (i <= 1)
            BY <1>1, <4>2
          <6>2. QED
            BY <6>1
        <5>2. t[i] = Brought(r[k])
          BY <2>5, <3>1, <5>1
        <5>3. (<<<<>>>> \o m)[i] = Brought(r[k])
          BY <2>6, <3>3, <5>1
        <5>4. QED
          BY <5>2, <5>3
      <4>3. QED
        BY <4>1, <4>2
    <3>5. Len(t) = 1 + Len(r) /\ t = [k \in 1..Len(t) |-> t[k]]
      BY <1>1, <3>1
    <3>6. <<<<>>>> \o m = [k \in 1..(1 + Len(r)) |-> (<<<<>>>> \o m)[k]]
      BY <3>3, LenProperties
    <3>7. QED
      BY <3>1, <3>4, <3>5, <3>6
  <2>10. Messages(c \o r) = FlattenSeq(<<<<>>>> \o m)
    BY <2>3, <2>4, <2>9 DEF Messages, Brought
  <2>11. FlattenSeq(<<<<>>>> \o m) = <<>> \o FlattenSeq(m)
    <3>1. <<>> \in Seq(Message)
      OBVIOUS
    <3>2. QED
      BY <2>7, <3>1, FlatCons
  <2>12. <<>> \o FlattenSeq(m) = FlattenSeq(m)
    <3>1. FlattenSeq(m) \in Seq(Message)
      BY <2>7, FlatSeq
    <3>2. QED
      BY <3>1, ConcatEmptySeq
  <2>13. QED
    BY <2>2, <2>3, <2>4, <2>5, <2>7, <2>10, <2>11, <2>12
<1>4. QED
  BY <1>2, <1>3 DEF Murmurs

\* What the client takes from a fetch is what has been sent, as far as it can be taken.
LEMMA FetchedWhole ==
    ASSUME NEW n \in Nat, NEW text \in [1..n -> Texts], NEW way \in [1..n -> Ways]
    PROVE  Messages([k \in 1..n |-> Got(k, way[k], text[k])])
             = Whole([k \in 1..n |-> [uid |-> k, way |-> way[k], body |-> {text[k]}]])
<1>1. PICK r : r = [k \in 1..n |-> Got(k, way[k], text[k])]
  OBVIOUS
<1>2. PICK s : s = [k \in 1..n |-> [uid |-> k, way |-> way[k], body |-> {text[k]}]]
  OBVIOUS
<1>3. ASSUME NEW k \in 1..n
      PROVE  Brought(r[k]) = IF s[k].way = "literal" THEN <<[uid |-> s[k].uid, body |-> s[k].body]>>
                             ELSE <<>>
  <2>1. r[k] = Got(k, way[k], text[k]) /\ s[k] = [uid |-> k, way |-> way[k], body |-> {text[k]}]
    BY <1>1, <1>2
  <2>2. k # 0 /\ way[k] \in {"literal", "late", "inline"} /\ {text[k]} # {}
    BY DEF Ways
  <2>3. CASE way[k] = "literal"
    <3>1. r[k].line = Fetch(k, Len(text[k])) /\ r[k].body = {text[k]}
      BY <2>1, <2>3 DEF Got
    <3>2. Fetch(k, Len(text[k])).uid = k
      BY DEF Fetch, Piece
    <3>3. [uid |-> r[k].line.uid, body |-> r[k].body] = [uid |-> k, body |-> {text[k]}]
      BY <3>1, <3>2
    <3>4. Brought(r[k]) = <<[uid |-> k, body |-> {text[k]}]>>
      BY <2>2, <3>3 DEF Brought, IsMessage
    <3>5. s[k].way = "literal" /\ s[k].uid = k /\ s[k].body = {text[k]}
      BY <2>1, <2>3
    <3>6. QED
      BY <3>4, <3>5
  <2>4. CASE way[k] = "late"
    <3>3. r[k].line = Fetch(0, Len(text[k]))
      BY <2>1, <2>4 DEF Got
    <3>4. Fetch(0, Len(text[k])).uid = 0
      BY DEF Fetch, Piece
    <3>1. r[k].line.uid = 0
      BY <3>3, <3>4
    <3>2. QED
      BY <2>1, <2>4, <3>1 DEF Brought, IsMessage
  <2>5. CASE way[k] = "inline"
    <3>1. r[k].body = {}
      BY <2>1, <2>5 DEF Got
    <3>2. QED
      BY <2>1, <2>5, <3>1 DEF Brought, IsMessage
  <2>6. QED
    BY <2>2, <2>3, <2>4, <2>5
<1>4. DOMAIN r = 1..n /\ DOMAIN s = 1..n
  BY <1>1, <1>2
<1>5. [k \in DOMAIN r |-> Brought(r[k])]
        = [j \in DOMAIN s |-> IF s[j].way = "literal"
                              THEN <<[uid |-> s[j].uid, body |-> s[j].body]>> ELSE <<>>]
  BY <1>3, <1>4
<1>6. Messages(r) = Whole(s)
  BY <1>5 DEF Messages, Whole, Brought
<1>7. QED
  BY <1>1, <1>2, <1>6

\* The folders a listing names.
Lists(all, b) ==
    \E k \in DOMAIN all :
        NamesFolder(all[k].line) /\ all[k].line.of = b /\ ParseName(all[k].line) = b

\* Nor do they hide a folder.
LEMMA ListsSkip ==
    ASSUME NEW c \in Murmurs, NEW r \in Seq(Response), NEW b, Lists(r, b)
    PROVE  Lists(c \o r, b)
<1>1. PICK k \in 1..Len(r) :
        NamesFolder(r[k].line) /\ r[k].line.of = b /\ ParseName(r[k].line) = b
  BY LenProperties DEF Lists
<1>2. /\ DOMAIN (c \o r) = 1..(Len(c) + Len(r)) /\ Len(c) \in Nat /\ Len(r) \in Nat
      /\ (c \o r)[Len(c) + k] = r[k]
  BY MessagesSkip, LenProperties
<1>3. Len(c) + k \in DOMAIN (c \o r)
  BY <1>2
<1>4. QED
  BY <1>1, <1>2, <1>3 DEF Lists

\* A mailbox as it is listed, and what becomes of it.
ListFrame(b, form) ==
    IF form = "literal" THEN <<Listed(b, "literal"), Piece("text"), Piece("text")>>
    ELSE <<Listed(b, form)>>
ListGot(b, form) == [line |-> Listed(b, form), body |-> {}]

\* A listed mailbox is a frame, with a response that names it unless it is a literal.
LEMMA ListFrameIs ==
    ASSUME NEW b \in Mailboxes, NEW form \in Forms(b)
    PROVE  /\ ListFrame(b, form) \in Frame /\ ListGot(b, form) \in Response
           /\ Resp(ListFrame(b, form)) = <<ListGot(b, form)>>
           /\ form # "literal" => NamesFolder(ListGot(b, form).line)
           /\ ListGot(b, form).line = Listed(b, form) /\ ListGot(b, form).line.of = b
           /\ form \in {"quoted", "atom", "literal"}
<1>1. form \in {"quoted", "atom", "literal"}
  BY DEF Forms
<1>2. PICK l \in Line : /\ l = Listed(b, form) /\ l.kind = "list" /\ l.form = form /\ l.of = b
                        /\ l.literal = IF form = "literal" THEN 1 ELSE 0
  BY <1>1, ListedType
<1>3. Proper(l)
  BY <1>2 DEF Proper
<1>4. ListGot(b, form) = [line |-> l, body |-> {}] /\ ListGot(b, form) \in Response
  BY <1>2, <1>3 DEF ListGot, Response
<1>5. CASE form = "literal"
  <2>1. PICK t \in Line : t = Piece("text")
    BY LineTypes
  <2>2. PICK f : f = <<l, t, t>>
    OBVIOUS
  <2>3. f \in Seq(Line) /\ Len(f) = 3 /\ f[1] = l /\ f # <<>>
    BY <2>2
  <2>4. ListFrame(b, form) = f
    BY <1>2, <1>5, <2>1, <2>2 DEF ListFrame
  <2>5. f \in Frame
    BY <1>2, <1>3, <1>5, <2>3 DEF Frame
  <2>6. Resp(f) = <<[line |-> l, body |-> {}]>>
    BY <1>2, <2>3 DEF Resp
  <2>7. QED
    BY <1>1, <1>2, <1>4, <1>5, <2>4, <2>5, <2>6
<1>6. CASE form # "literal"
  <2>2. PICK f : f = <<l>>
    OBVIOUS
  <2>3. f \in Seq(Line) /\ Len(f) = 1 /\ f[1] = l /\ f # <<>>
    BY <2>2
  <2>4. ListFrame(b, form) = f
    BY <1>2, <1>6, <2>2 DEF ListFrame
  <2>5. f \in Frame
    BY <1>2, <1>3, <1>6, <2>3 DEF Frame
  <2>6. Resp(f) = <<[line |-> l, body |-> {}]>>
    BY <1>2, <2>3 DEF Resp
  <2>7. NamesFolder(l)
    BY <1>1, <1>2, <1>6 DEF NamesFolder
  <2>8. QED
    BY <1>1, <1>2, <1>4, <2>4, <2>5, <2>6, <2>7
<1>7. QED
  BY <1>5, <1>6

\* Every mailbox is in the listing, and what the parser can read of it is not lost.
LEMMA ListStream ==
    ASSUME NEW form, \A b \in Mailboxes : form[b] \in Forms(b)
    PROVE  \E q \in Seq(Frame) :
             /\ q = [k \in DOMAIN SetToSeq(Mailboxes) |->
                        ListFrame(SetToSeq(Mailboxes)[k], form[SetToSeq(Mailboxes)[k]])]
             /\ Responses(q) \in Seq(Response)
             /\ \A b \in Mailboxes : Plain(b) => form[b] = "literal" \/ Lists(Responses(q), b)
<1>1. PICK e : e = SetToSeq(Mailboxes)
  OBVIOUS
<1>2. PICK n \in Nat : n = Len(e)
  BY <1>1, InOrder
<1>3. /\ DOMAIN e = 1..n
      /\ \A k \in 1..n : e[k] \in Mailboxes
      /\ \A b \in Mailboxes : \E k \in 1..n : e[k] = b
  BY <1>1, <1>2, InOrder
<1>4. PICK q : q = [k \in 1..n |-> ListFrame(e[k], form[e[k]])]
  OBVIOUS
<1>5. PICK r : r = [k \in 1..n |-> ListGot(e[k], form[e[k]])]
  OBVIOUS
<1>6. \A k \in 1..n : q[k] \in Frame /\ r[k] \in Response /\ Resp(q[k]) = <<r[k]>>
  BY <1>3, <1>4, <1>5, ListFrameIs
<1>7. q \in Seq(Frame) /\ r \in Seq(Response) /\ DOMAIN q = 1..n /\ Len(r) = n /\ DOMAIN r = 1..n
  BY <1>4, <1>5, <1>6
<1>8. PICK m : m = [k \in DOMAIN q |-> Resp(q[k])]
  OBVIOUS
<1>9. m \in Seq(Seq(Response))
  BY <1>7, <1>8, StreamType
<1>10. Len(m) = n /\ \A k \in 1..n : m[k] = <<r[k]>>
  BY <1>6, <1>7, <1>8
<1>11. FlattenSeq(m) = r
  BY <1>7, <1>9, <1>10, FlatSingles
<1>12. Responses(q) = r
  BY <1>8, <1>11 DEF Responses
<1>13. ASSUME NEW b \in Mailboxes, Plain(b), form[b] # "literal" PROVE Lists(r, b)
  <2>1. PICK k \in 1..n : e[k] = b
    BY <1>3
  <2>2. r[k] = ListGot(b, form[b])
    BY <1>5, <2>1
  <2>3. /\ NamesFolder(r[k].line) /\ r[k].line.of = b /\ r[k].line = Listed(b, form[b])
        /\ form[b] \in {"quoted", "atom"}
    BY <1>13, <2>2, ListFrameIs
  <2>4. ParseName(r[k].line) = b
    BY <1>13, <2>3, ParseListed
  <2>5. QED
    BY <1>7, <2>3, <2>4 DEF Lists
<1>14. QED
  BY <1>1, <1>3, <1>4, <1>7, <1>12, <1>13

-----------------------------------------------------------------------------
(***************************************************************************)
(* Taking lines off the wire.                                               *)
(***************************************************************************)
\* Facts about the joining of two sequences, in the form the steps below apply them.
LEMMA Joins ==
    ASSUME NEW X
    PROVE  \A u, v \in Seq(X) :
             /\ u \o v \in Seq(X) /\ Len(u \o v) = Len(u) + Len(v)
             /\ Len(u) \in Nat /\ Len(v) \in Nat
             /\ \A i \in 1..Len(u) : (u \o v)[i] = u[i]
<1>1. SUFFICES ASSUME NEW u \in Seq(X), NEW v \in Seq(X)
               PROVE  /\ u \o v \in Seq(X) /\ Len(u \o v) = Len(u) + Len(v)
                      /\ Len(u) \in Nat /\ Len(v) \in Nat
                      /\ \A i \in 1..Len(u) : (u \o v)[i] = u[i]
  OBVIOUS
<1>2. Len(u) \in Nat /\ Len(v) \in Nat
  BY LenProperties
<1>3. /\ u \o v \in Seq(X) /\ Len(u \o v) = Len(u) + Len(v)
      /\ \A i \in 1..(Len(u) + Len(v)) : (u \o v)[i] = IF i <= Len(u) THEN u[i] ELSE v[i - Len(u)]
  BY ConcatProperties
<1>4. \A i \in 1..Len(u) : i \in 1..(Len(u) + Len(v)) /\ i <= Len(u)
  BY <1>2
<1>5. QED
  BY <1>2, <1>3, <1>4

\* And of three.
LEMMA Rejoins ==
    ASSUME NEW X
    PROVE  /\ \A u, v, w \in Seq(X) : (u \o v) \o w = u \o (v \o w)
           /\ \A u, v, w \in Seq(X) : u \o v = u \o w => v = w
           /\ \A u \in Seq(X) : u \o <<>> = u /\ <<>> \o u = u
           /\ \A e \in X : <<e>> \in Seq(X)
           /\ \A u \in Seq(X), e \in X : Append(u, e) = u \o <<e>>
<1>1. \A u, v, w \in Seq(X) : (u \o v) \o w = u \o (v \o w)
  BY ConcatAssociative
<1>2. \A u, v, w \in Seq(X) : u \o v = u \o w => v = w
  BY ConcatSimplifications
<1>3. \A u \in Seq(X) : u \o <<>> = u /\ <<>> \o u = u
  BY ConcatEmptySeq
<1>4. \A e \in X : <<e>> \in Seq(X)
  OBVIOUS
<1>5. \A u \in Seq(X), e \in X : Append(u, e) = u \o <<e>>
  BY AppendIsConcat
<1>6. QED
  BY <1>1, <1>2, <1>3, <1>4, <1>5

\* A sequence that is not empty begins with its head.
LEMMA HeadOff ==
    ASSUME NEW X, NEW w \in Seq(X), w # <<>>
    PROVE  /\ Head(w) \in X /\ Tail(w) \in Seq(X) /\ w = <<Head(w)>> \o Tail(w) /\ w[1] = Head(w)
           /\ Len(Tail(w)) = Len(w) - 1 /\ \A i \in 1..Len(Tail(w)) : Tail(w)[i] = w[i + 1]
<1>1. Len(w) \in Nat \ {0}
  BY EmptySeq
<1>2. 1 \in 1..Len(w) /\ Len(w) \in 1..Len(w)
  BY <1>1
<1>3. SubSeq(w, 1, Len(w)) = <<w[1]>> \o SubSeq(w, 1 + 1, Len(w))
  BY <1>2, SubSeqRecursiveFirst
<1>4. SubSeq(w, 1, Len(w)) = w /\ Tail(w) = SubSeq(w, 2, Len(w)) /\ Head(w) = w[1]
  BY SubSeqFull, TailIsSubSeq
<1>5. QED
  BY <1>3, <1>4, HeadTailProperties

\* The first line of what has been cut.
LEMMA FirstOff ==
    ASSUME NEW d \in Seq(Line), NEW v \in Seq(Line), NEW r \in Seq(Line), NEW e \in Seq(Line),
           NEW t \in Seq(Line), Len(d) = 1, Len(e) = 1, (d \o v) \o r = e \o t
    PROVE  d = e
<1>1. v \o r \in Seq(Line)
  BY Joins
<1>2. \A x, y, z \in Seq(Line) : (x \o y) \o z = x \o (y \o z)
  BY Rejoins
<1>3. d \o (v \o r) = e \o t
  BY <1>2
<1>5. \A x, y \in Seq(Line) : \A i \in 1..Len(x) : (x \o y)[i] = x[i]
  BY Joins
<1>6. 1 \in 1..Len(e) /\ 1 \in 1..Len(d)
  OBVIOUS
<1>7. e[1] = d[1]
  <2>1. (e \o t)[1] = e[1]
    BY <1>5, <1>6
  <2>2. (d \o (v \o r))[1] = d[1]
    BY <1>1, <1>5, <1>6
  <2>3. QED
    BY <1>3, <2>1, <2>2
<1>8. e = d
  <2>1. \A i \in 1..Len(e) : i = 1
    OBVIOUS
  <2>2. QED
    BY <1>7, <2>1, SeqEqual
<1>9. QED
  BY <1>8

\* The lines after it.
LEMMA RestOff ==
    ASSUME NEW d \in Seq(Line), NEW v \in Seq(Line), NEW r \in Seq(Line), NEW e \in Seq(Line),
           NEW t \in Seq(Line), Len(d) = 1, Len(e) = 1, (d \o v) \o r = e \o t
    PROVE  v \o r = t
<1>1. d = e
  BY FirstOff
<1>2. v \o r \in Seq(Line)
  BY Joins
<1>3. \A x, y, z \in Seq(Line) : (x \o y) \o z = x \o (y \o z)
  BY Rejoins
<1>4. d \o (v \o r) = d \o t
  BY <1>1, <1>3
<1>5. \A x, y, z \in Seq(Line) : x \o y = x \o z => y = z
  BY Rejoins
<1>6. QED
  BY <1>2, <1>4, <1>5

\* Several lines, and what is left.
LEMMA ManyFirst ==
    ASSUME NEW w \in Seq(Line), NEW r \in Seq(Line), NEW g \in Seq(Line), NEW t \in Seq(Line),
           w \o r = g \o t
    PROVE  \A i \in 1..Len(g) : i <= Len(w) => w[i] = g[i]
<1>1. /\ Len(w) \in Nat /\ Len(g) \in Nat
      /\ \A i \in 1..Len(w) : (w \o r)[i] = w[i]
      /\ \A i \in 1..Len(g) : (g \o t)[i] = g[i]
  BY Joins
<1>2. \A i \in 1..Len(g) : i <= Len(w) => w[i] = g[i]
  <2>1. ASSUME NEW i \in 1..Len(g), i <= Len(w) PROVE w[i] = g[i]
    <3>1. i \in 1..Len(w)
      BY <1>1, <2>1
    <3>2. QED
      BY <1>1, <3>1
  <2>2. QED
    BY <2>1
<1>3. QED
  BY <1>2

\* And what comes after them.
LEMMA ManyRest ==
    ASSUME NEW w \in Seq(Line), NEW r \in Seq(Line), NEW g \in Seq(Line), NEW t \in Seq(Line),
           w \o r = g \o t, Len(g) <= Len(w)
    PROVE  SubSeq(w, Len(g) + 1, Len(w)) \o r = t
<1>20. Len(w) \in Nat /\ Len(g) \in Nat
  BY LenProperties
<1>21. \A i \in 1..Len(g) : i <= Len(w) => w[i] = g[i]
  BY ManyFirst
<1>1. PICK m \in Nat : m = Len(g)
  BY <1>20
<1>2. PICK n \in Nat : n = Len(w) /\ m <= n
  BY <1>20, <1>1
<1>3. 1 \in 1..(n + 1) /\ m \in (1 - 1)..n /\ n \in m..n
  BY <1>2
<1>4. SubSeq(w, 1, m) \o SubSeq(w, m + 1, n) = SubSeq(w, 1, n)
  BY <1>2, <1>3, ConcatAdjacentSubSeq
<1>5. SubSeq(w, 1, n) = w
  BY <1>2, SubSeqFull
<1>6. \A i \in 1..n : w[i] \in Line
  BY <1>2, ElementOfSeq
<1>7. /\ SubSeq(w, 1, m) \in Seq(Line) /\ Len(SubSeq(w, 1, m)) = m
      /\ \A i \in 1..m : SubSeq(w, 1, m)[i] = w[i]
  <2>1. 1 \in Int /\ m \in Int /\ (\A i \in 1..m : w[i] \in Line) /\ m - 1 + 1 = m
    BY <1>2, <1>6
  <2>2. /\ SubSeq(w, 1, m) \in Seq(Line)
        /\ Len(SubSeq(w, 1, m)) = IF 1 <= m THEN m - 1 + 1 ELSE 0
        /\ \A i \in 1..(m - 1 + 1) : SubSeq(w, 1, m)[i] = w[1 + i - 1]
    BY <2>1, SubSeqProperties
  <2>3. \A i \in 1..m : 1 + i - 1 = i
    OBVIOUS
  <2>4. m = IF 1 <= m THEN m - 1 + 1 ELSE 0
    OBVIOUS
  <2>5. QED
    BY <2>1, <2>2, <2>3, <2>4
<1>8. SubSeq(w, m + 1, n) \in Seq(Line)
  <2>1. m + 1 \in Int /\ n \in Int /\ \A i \in (m + 1)..n : w[i] \in Line
    BY <1>6
  <2>2. QED
    BY <2>1, SubSeqProperties
<1>9. SubSeq(w, 1, m) = g
  <2>1. \A i \in 1..m : SubSeq(w, 1, m)[i] = g[i]
    BY <1>21, <1>1, <1>2, <1>7
  <2>2. QED
    BY <1>1, <1>7, <2>1, SeqEqual
<1>10. w \o r = g \o (SubSeq(w, m + 1, n) \o r)
  <2>1. w = g \o SubSeq(w, m + 1, n)
    BY <1>4, <1>5, <1>9
  <2>2. \A u, v, x \in Seq(Line) : (u \o v) \o x = u \o (v \o x)
    BY Rejoins
  <2>3. (g \o SubSeq(w, m + 1, n)) \o r = g \o (SubSeq(w, m + 1, n) \o r)
    BY <1>8, <2>2
  <2>4. QED
    BY <2>1, <2>3
<1>11. SubSeq(w, m + 1, n) \o r \in Seq(Line)
  BY <1>8, Joins
<1>12. SubSeq(w, m + 1, n) \o r = t
  <2>1. \A u, v, x \in Seq(Line) : u \o v = u \o x => v = x
    BY Rejoins
  <2>2. QED
    BY <1>10, <1>11, <2>1
<1>13. QED
  BY <1>1, <1>2, <1>8, <1>12

\* A cut: what was left and what was lost.
LEMMA CutOff ==
    ASSUME NEW X, NEW w \in Seq(X), NEW n \in 0..Len(w)
    PROVE  /\ SubSeq(w, 1, n) \in Seq(X)
           /\ \E x \in Seq(X) : w = SubSeq(w, 1, n) \o x
<1>1. PICK m \in Nat : m = Len(w)
  BY LenProperties
<1>2. 1 \in 1..(m + 1) /\ n \in (1 - 1)..m /\ m \in n..m
  BY <1>1
<1>3. SubSeq(w, 1, n) \o SubSeq(w, n + 1, m) = SubSeq(w, 1, m)
  BY <1>1, <1>2, ConcatAdjacentSubSeq
<1>4. SubSeq(w, 1, m) = w
  BY <1>1, SubSeqFull
<1>5. \A i \in 1..m : w[i] \in X
  BY <1>1, ElementOfSeq
<1>6. SubSeq(w, 1, n) \in Seq(X) /\ SubSeq(w, n + 1, m) \in Seq(X)
  <2>1. n \in Int /\ m \in Int /\ n + 1 \in Int /\ 1 \in Int /\ (\A i \in 1..n : w[i] \in X)
        /\ \A i \in (n + 1)..m : w[i] \in X
    BY <1>1, <1>2, <1>5
  <2>2. QED
    BY <2>1, SubSeqProperties
<1>7. QED
  BY <1>3, <1>4, <1>6

-----------------------------------------------------------------------------
(***************************************************************************)
(* The invariant.                                                           *)
(***************************************************************************)

\* A folder of the table: under a plain name it is its mailbox.
Folder == {f \in [name : Seq(Characters), of : Mailboxes] : Plain(f.of) => f.name = f.of}

\* The types of all variables, with what TypeOK leaves open.
Types ==
    /\ TypeOK
    /\ held \in Line /\ got \in Seq(Response) /\ wire \in Seq(Line)
    /\ wanted \in Seq(Characters)
    /\ folders \subseteq Folder /\ opened \subseteq Folder
    /\ DOMAIN fetched = Tags /\ DOMAIN served = Tags

\* The mailbox on the server is none but the one the client has asked for last.
Current == mailbox \subseteq {Unquote(wanted)}

\* What the responses have to hold for the command to end well.
Serves(all, command, box, sent, names) ==
    /\ command = "fetch" => box # {} /\ Messages(all) = Whole(sent)
    /\ command = "list" => \A b \in Mailboxes : Plain(b) => b \in names \/ Lists(all, b)

\* Nothing has come but what is said in between.
Waiting ==
    /\ pc = "read"
    /\ \/ wire = <<>> /\ got \in Murmurs
       \/ got = <<>> /\ \E line \in Chat : wire = <<line>>
    /\ script[at] # "select" => Current

\* What has not been read yet, and, when the connection has been cut, what was lost.
Pending == IF pc = "literal" THEN <<held>> \o wire ELSE wire

\* The answer with frames q, of which rest has been lost.
Comes(q, ok, rest) ==
    /\ Pending \o rest = FlattenSeq(q) \o <<Tagged(at, ok)>>
    /\ answered[at] = IF ok THEN "ok" ELSE "failed"
    /\ ok => Serves(got \o Responses(q), script[at], mailbox, served[at], spelled)

\* The answer is on its way: whole frames and then the tag.
Answered ==
    /\ owed = "" /\ Current
    /\ \E q \in Seq(Frame) : \E ok \in BOOLEAN : \E rest \in Seq(Line) : Comes(q, ok, rest)

\* The client and the server are at the same command.
Order ==
    /\ owed # "" => Waiting /\ owed = script[at]
    /\ closed => owed = ""
    /\ pc = "write" => wire = <<>> /\ owed = "" /\ Current
    /\ pc = "literal" => held.literal > 0
    /\ pc \in {"read", "literal"} => Waiting \/ Answered
    /\ \A k \in Tags : k >= at => outcome[k] = "none"

\* The three parts of FoldersAreMailboxes, the last with what it rests on.
ListedOnes ==
    \A k \in Tags : script[k] = "list" /\ outcome[k] = "ok" /\ ~ Since(k, "list") =>
        \A b \in Mailboxes :
            Plain(b) => b \in spelled \/ [name |-> b, of |-> b] \in folders
OpenedOnes == \A f \in opened : Unquote(wanted) = f.name
FetchedOnes ==
    \A k \in Tags : script[k] = "fetch" /\ outcome[k] = "ok" /\ ~ Since(k, "select") =>
        mailbox # {} /\ Current

History == OutcomeIsTheAnswer /\ FetchIsExact /\ ListedOnes /\ FetchedOnes

Inv == Types /\ Order /\ History /\ OpenedOnes

\* The folders stand for mailboxes because of what selected them.
LEMMA InvImplies == Inv => FoldersAreMailboxes
<1>1. ASSUME Inv, NEW k \in Tags, script[k] = "fetch", outcome[k] = "ok", ~ Since(k, "select"),
             NEW f \in opened, Plain(f.of)
      PROVE  mailbox = {f.of}
  <2>1. mailbox # {} /\ mailbox \subseteq {Unquote(wanted)}
    BY <1>1 DEF Inv, History, FetchedOnes, Current
  <2>2. Unquote(wanted) = f.name
    BY <1>1 DEF Inv, OpenedOnes
  <2>3. f.name = f.of
    BY <1>1 DEF Inv, Types, Folder
  <2>4. QED
    BY <2>1, <2>2, <2>3
<1>2. QED
  BY <1>1 DEF FoldersAreMailboxes, Inv, History, ListedOnes, OpenedOnes

\* Initially nothing has been sent and nothing noted.
LEMMA Start == Init => Inv
<1> SUFFICES ASSUME Init PROVE Inv
  OBVIOUS
<1>1. script \in Seq(Commands) /\ script # <<>>
  BY DEF Init
<1>2. Len(script) \in Nat /\ Len(script) > 0 /\ Tags = 1..Len(script)
  <2>1. Len(script) \in Nat \ {0}
    BY <1>1, EmptySeq
  <2>2. DOMAIN script = 1..Len(script)
    BY <1>1, LenProperties
  <2>3. QED
    BY <2>1, <2>2 DEF Tags
<1>3. Piece("none") \in Line
  <2>1. <<>> \in Seq(Characters)
    BY EmptySeq
  <2>2. QED
    BY <2>1 DEF Piece, Line
<1>4. Types
  <2>1. TypeOK
    <3>4. PICK n \in Nat : n = Len(script) /\ n > 0 /\ Tags = 1..n
      BY <1>2
    <3>5. 1 \in 1..(n + 1) /\ 1 \in 1..n
      BY <3>4
    <3>1. at = 1 /\ 1 \in 1..(Len(script) + 1) /\ 1 \in Tags
      BY <3>4, <3>5 DEF Init
    <3>2. /\ outcome \in [Tags -> {"none", "ok", "failed", "broken"}]
          /\ answered \in [Tags -> {"none", "ok", "failed"}]
      BY DEF Init
    <3>3. QED
      BY <3>1, <3>2 DEF TypeOK, Init
  <2>2. <<>> \in Seq(Response) /\ <<>> \in Seq(Line) /\ <<>> \in Seq(Characters)
    BY EmptySeq
  <2>3. QED
    BY <1>3, <2>1, <2>2 DEF Types, Init
<1>5. Order
  BY <1>2 DEF Order, Current, Init
<1>6. History
  BY DEF History, OutcomeIsTheAnswer, FetchIsExact, ListedOnes, FetchedOnes, Init
<1>7. OpenedOnes
  BY DEF OpenedOnes, Init
<1>8. QED
  BY <1>4, <1>5, <1>6, <1>7 DEF Inv

\* The commands of the script and their tags.
LEMMA Basics ==
    ASSUME Types
    PROVE  /\ Len(script) \in Nat /\ Tags = 1..Len(script) /\ DOMAIN script = 1..Len(script)
           /\ \A k \in Tags : script[k] \in Commands /\ k \in Nat
           /\ at \in 1..(Len(script) + 1) /\ at \in Nat
<1>1. script \in Seq(Commands)
  BY DEF Types, TypeOK
<1>2. Len(script) \in Nat /\ DOMAIN script = 1..Len(script)
  BY <1>1, LenProperties
<1>3. \A k \in 1..Len(script) : script[k] \in Commands
  BY <1>1, ElementOfSeq
<1>4. at \in 1..(Len(script) + 1)
  BY DEF Types, TypeOK
<1>5. PICK n \in Nat : n = Len(script)
  BY <1>2
<1>6. at \in Nat /\ \A k \in 1..n : k \in Nat
  BY <1>4, <1>5
<1>7. Tags = 1..Len(script)
  BY <1>2 DEF Tags
<1>8. QED
  BY <1>2, <1>3, <1>4, <1>5, <1>6, <1>7

-----------------------------------------------------------------------------
(***************************************************************************)
(* What has been noted is kept.                                             *)
(***************************************************************************)

\* A step that ends no command.
LEMMA Keeps ==
    ASSUME Inv, script' = script, at' = at, at \in Tags,
           outcome' = outcome, fetched' = fetched, folders' = folders,
           pc' \in {"read", "literal"},
           \A k \in Tags : k # at => answered'[k] = answered[k] /\ served'[k] = served[k],
           spelled' = spelled \/ script[at] = "list",
           (mailbox' = mailbox /\ wanted' = wanted) \/ script[at] = "select"
    PROVE  History'
<1>1. Tags' = Tags /\ Tags = 1..Len(script) /\ Len(script) \in Nat /\ at \in Nat
  BY Basics DEF Tags, Inv
<1>2. \A k \in Tags : outcome[k] # "none" => k < at /\ k # at
  <2>1. \A k \in Tags : k >= at => outcome[k] = "none"
    BY DEF Inv, Order
  <2>2. \A k \in Tags : k \in Nat
    BY <1>1
  <2>3. QED
    BY <1>1, <2>1, <2>2
<1>3. OutcomeIsTheAnswer'
  BY <1>1, <1>2 DEF Inv, History, OutcomeIsTheAnswer
<1>4. FetchIsExact'
  BY <1>1, <1>2 DEF Inv, History, FetchIsExact
<1>5. ASSUME NEW k \in Tags, outcome[k] # "none", NEW c, Since(k, c) \/ script[at] = c
      PROVE  Since(k, c)'
  BY <1>1, <1>2, <1>5 DEF Since
<1>6. ListedOnes'
  BY <1>1, <1>5 DEF Inv, History, ListedOnes
<1>7. FetchedOnes'
  BY <1>1, <1>5 DEF Inv, History, FetchedOnes, Current
<1>8. QED
  BY <1>3, <1>4, <1>6, <1>7 DEF History

\* A step that ends one.
LEMMA Grows ==
    ASSUME Inv, script' = script, at \in Tags, at' = at + 1,
           NEW result \in {"ok", "failed", "broken"},
           outcome' = [outcome EXCEPT ![at] = result],
           UNCHANGED <<answered, served, spelled, mailbox, wanted>>,
           result # "broken" => answered[at] = result,
           \A k \in Tags : k # at => fetched'[k] = fetched[k],
           folders' = folders \/ script[at] = "list",
           result = "ok" /\ script[at] = "fetch"
             => mailbox # {} /\ Current /\ fetched'[at] = Whole(served[at]),
           result = "ok" /\ script[at] = "list"
             => \A b \in Mailboxes : Plain(b) => b \in spelled \/ [name |-> b, of |-> b] \in folders'
    PROVE  History'
<1>1. /\ Tags' = Tags /\ Tags = 1..Len(script) /\ Len(script) \in Nat /\ at \in Nat
      /\ DOMAIN outcome = Tags
  BY Basics DEF Tags, Inv, Types, TypeOK
<1>2. /\ \A k \in Tags : outcome[k] # "none" => k < at /\ k # at
      /\ outcome'[at] = result /\ \A k \in Tags : k # at => outcome'[k] = outcome[k]
  <2>1. \A k \in Tags : k >= at => outcome[k] = "none"
    BY DEF Inv, Order
  <2>2. \A k \in Tags : k \in Nat
    BY <1>1
  <2>3. outcome'[at] = result /\ \A k \in Tags : k # at => outcome'[k] = outcome[k]
    BY <1>1
  <2>4. QED
    BY <1>1, <2>1, <2>2, <2>3
<1>3. OutcomeIsTheAnswer'
  BY <1>1, <1>2 DEF Inv, History, OutcomeIsTheAnswer
<1>4. FetchIsExact'
  BY <1>1, <1>2 DEF Inv, History, FetchIsExact, Whole
<1>5. ASSUME NEW k \in Tags, k < at, NEW c, Since(k, c) \/ script[at] = c
      PROVE  Since(k, c)'
  <2>1. PICK j \in Tags : j > k /\ script[j] = c /\ (j < at \/ j = at)
    BY <1>1, <1>5 DEF Since
  <2>2. j < at'
    BY <1>1, <2>1
  <2>3. QED
    BY <1>1, <2>1, <2>2 DEF Since
<1>6. ListedOnes'
  BY <1>1, <1>2, <1>5 DEF Inv, History, ListedOnes
<1>7. FetchedOnes'
  BY <1>1, <1>2, <1>5 DEF Inv, History, FetchedOnes, Current
<1>8. QED
  BY <1>3, <1>4, <1>6, <1>7 DEF History

-----------------------------------------------------------------------------
(***************************************************************************)
(* The steps.                                                               *)
(***************************************************************************)
\* A command is written.
LEMMA WriteStep == ASSUME Inv, Write PROVE Inv'
<1>1. /\ at \in Tags /\ Types /\ pc = "write" /\ wire = <<>> /\ owed = "" /\ Current /\ ~ closed
      /\ \A k \in Tags : k >= at => outcome[k] = "none"
  BY DEF Inv, Types, TypeOK, Order, Write
<1>2. script[at] \in Commands /\ Tags' = Tags
  BY <1>1, Basics DEF Tags, Write
<1>3. /\ wanted' \in Seq(Characters) /\ opened' \subseteq Folder
      /\ \A f \in opened' : Unquote(wanted') = f.name
      /\ script[at] # "select" => wanted' = wanted
  <2>1. CASE script[at] = "select"
    <3>1. PICK f \in folders : wanted' = Quote(f.name) /\ opened' = {f}
      BY <2>1 DEF Write
    <3>2. f \in Folder /\ f.name \in Seq(Characters)
      BY <1>1, <3>1 DEF Types, Folder
    <3>3. QED
      BY <2>1, <3>1, <3>2, QuoteType, UnquoteQuote
  <2>2. CASE script[at] # "select"
    BY <1>1, <2>2 DEF Write, Types, Inv, OpenedOnes
  <2>3. QED
    BY <2>1, <2>2
<1>4. /\ pc' = "read" /\ got' = <<>> /\ owed' = script[at] /\ mailbox' = mailbox /\ wire' = wire
      /\ folders' = folders /\ fetched' = fetched /\ served' = served /\ held' = held
      /\ answered' = answered /\ spelled' = spelled /\ closed' = closed /\ script' = script
      /\ at' = at /\ outcome' = outcome
  BY DEF Write
<1>5. Types'
  <2>1. TypeOK'
    <3>1. \A f \in folders \cup opened' : f.of \in Mailboxes
      BY <1>1, <1>3 DEF Types, Folder
    <3>2. QED
      BY <1>1, <1>2, <1>4, <3>1 DEF Types, TypeOK
  <2>2. <<>> \in Seq(Response)
    BY EmptySeq
  <2>3. QED
    BY <1>1, <1>2, <1>3, <1>4, <2>1, <2>2 DEF Types
<1>6. Waiting'
  BY <1>1, <1>3, <1>4 DEF Waiting, Current, Murmurs
<1>7. Order'
  BY <1>1, <1>2, <1>4, <1>6 DEF Order
<1>8. History'
  BY <1>1, <1>3, <1>4, Keeps
<1>9. OpenedOnes'
  BY <1>3 DEF OpenedOnes
<1>10. QED
  BY <1>5, <1>7, <1>8, <1>9 DEF Inv

\* What stays as it is while the client reads.
LEMMA Still ==
    ASSUME Inv, script' = script, UNCHANGED <<opened, wanted, mailbox>>
    PROVE  OpenedOnes' /\ (Current <=> Current') /\ Tags' = Tags
BY DEF Inv, OpenedOnes, Current, Tags

\* A response more, and the command goes on.
LEMMA GoesOn ==
    ASSUME Inv, pc \in {"read", "literal"}, pc' \in {"read", "literal"},
           UNCHANGED <<script, at, outcome, fetched, folders, opened,
                       owed, wanted, mailbox, answered, served, spelled, closed>>,
           held' \in Line, pc' = "literal" => held'.literal > 0,
           got' \in Seq(Response), wire' \in Seq(Line),
           owed # "" => Waiting', Waiting' \/ Answered'
    PROVE  Inv'
<1>1. at \in Tags /\ Tags' = Tags
  BY DEF Inv, Types, TypeOK, Tags
<1>2. Types'
  <2>1. TypeOK'
    BY <1>1 DEF Inv, Types, TypeOK
  <2>2. QED
    BY <1>1, <2>1 DEF Inv, Types
<1>3. Order'
  BY <1>1 DEF Inv, Order
<1>4. History'
  BY <1>1, Keeps
<1>5. QED
  BY <1>2, <1>3, <1>4, Still DEF Inv

\* A line while nothing but talk has come.
LEMMA ReadMurmur == ASSUME Inv, Waiting, ReadLine PROVE Inv'
<1>1. PICK line \in Chat : wire = <<line>> /\ got = <<>>
  BY DEF Waiting, ReadLine
<1>2. /\ line \in Line /\ <<line>> \in Frame /\ Resp(<<line>>) \in Murmurs
      /\ line.literal = 0 /\ line.kind # "tagged"
  BY ChatFrame
<1>3. Head(wire) = line /\ Tail(wire) = <<>>
  BY <1>1
<1>4. ~ (line.literal > 0)
  BY <1>2
<1>5. /\ wire' = <<>> /\ held' = held /\ Handle(line)
      /\ UNCHANGED <<script, opened, owed, wanted, mailbox, answered, served, spelled, closed>>
  BY <1>3, <1>4 DEF ReadLine
<1>6. /\ pc' = "read" /\ UNCHANGED <<at, outcome, fetched, folders>>
      /\ got' = IF line.kind \in {"fetch", "list"}
                THEN Append(got, [line |-> line, body |-> {}]) ELSE got
  BY <1>2, <1>5 DEF Handle
<1>7. got' = Resp(<<line>>)
  <2>1. <<line>>[1] = line
    OBVIOUS
  <2>2. QED
    BY <1>1, <1>4, <1>6, <2>1 DEF Resp
<1>8. got' \in Murmurs /\ got' \in Seq(Response)
  BY <1>2, <1>7, FrameType
<1>9. Waiting'
  BY <1>5, <1>6, <1>8 DEF Waiting, Current
<1>10. held \in Line /\ <<>> \in Seq(Line) /\ pc = "read"
  BY EmptySeq DEF Inv, Types, Waiting
<1>11. QED
  BY <1>5, <1>6, <1>8, <1>9, <1>10, GoesOn

\* A frame of the answer, read to its end.
LEMMA ReadFrame ==
    ASSUME Inv, pc \in {"read", "literal"}, pc' = "read",
           UNCHANGED <<script, at, held, outcome, fetched, folders, opened,
                       owed, wanted, mailbox, answered, served, spelled, closed>>,
           owed = "", Current,
           NEW f \in Frame, NEW p \in Seq(Frame), NEW ok \in BOOLEAN, NEW rest \in Seq(Line),
           NEW left \in Seq(Line),
           Comes(<<f>> \o p, ok, rest),
           got' = got \o Resp(f), wire' \in Seq(Line),
           wire' \o left = FlattenSeq(p) \o <<Tagged(at, ok)>>
    PROVE  Inv'
<1>1. /\ Resp(f) \in Seq(Response) /\ Responses(p) \in Seq(Response)
      /\ Responses(<<f>> \o p) = Resp(f) \o Responses(p)
      /\ got \in Seq(Response) /\ held \in Line
  BY FrameType, StreamType, StreamCons DEF Inv, Types
<1>2. got' \in Seq(Response) /\ got' \o Responses(p) = got \o Responses(<<f>> \o p)
  <2>1. \A u, v \in Seq(Response) : u \o v \in Seq(Response)
    BY Joins
  <2>2. \A u, v, w \in Seq(Response) : (u \o v) \o w = u \o (v \o w)
    BY Rejoins
  <2>3. (got \o Resp(f)) \o Responses(p) = got \o (Resp(f) \o Responses(p))
    BY <1>1, <2>2
  <2>4. QED
    BY <1>1, <2>1, <2>3
<1>3. Comes(p, ok, left)'
  <2>1. Pending' = wire'
    BY DEF Pending
  <2>2. QED
    BY <1>2, <2>1 DEF Comes
<1>4. Answered'
  BY <1>3, Still DEF Answered
<1>5. QED
  BY <1>1, <1>2, <1>4, GoesOn

\* What the client takes from a response that names a folder.
LEMMA TakenFolder ==
    ASSUME NEW r \in Response, NamesFolder(r.line)
    PROVE  [name |-> ParseName(r.line), of |-> r.line.of] \in Folder
<1>1. r.line.kind = "list" /\ r.line.form \in {"quoted", "atom"}
  BY DEF NamesFolder
<1>2. PICK b \in Mailboxes : \E form \in Forms(b) : r.line = Listed(b, form)
  BY <1>1 DEF Response, Proper
<1>8. PICK form \in Forms(b) : r.line = Listed(b, form)
  BY <1>2
<1>3. form \in {"quoted", "atom", "literal"}
  BY DEF Forms
<1>4. Listed(b, form).of = b /\ Listed(b, form).form = form
  BY <1>3, ListedType
<1>5. form \in {"quoted", "atom"}
  BY <1>1, <1>4, <1>8
<1>6. ParseName(Listed(b, form)) \in Seq(Characters) /\ (Plain(b) => ParseName(Listed(b, form)) = b)
  BY <1>5, ParseListed
<1>7. QED
  BY <1>4, <1>6, <1>8 DEF Folder

\* The next tag.
LEMMA OneMore ==
    \A n \in Nat : \A a \in 1..n :
        /\ a + 1 \in 1..(n + 1) /\ (a # n => a + 1 \in 1..n)
        /\ \A k \in 1..n : k >= a + 1 => k \in Nat /\ k >= a /\ k # a
OBVIOUS

\* The outcome is noted, and the session goes on or ends.
LEMMA EndOf ==
    ASSUME Inv, at \in Tags, NEW result \in {"ok", "failed", "broken"}, GoOn(result),
           UNCHANGED <<script, held, got, opened, owed, wanted, mailbox, answered, served,
                       spelled, closed>>,
           folders' \subseteq Folder, DOMAIN fetched' = Tags,
           wire' \in Seq(Line), owed = "", result # "broken" => Current /\ wire' = <<>>,
           result # "broken" => answered[at] = result,
           \A k \in Tags : k # at => fetched'[k] = fetched[k],
           folders' = folders \/ script[at] = "list",
           result = "ok" /\ script[at] = "fetch"
             => mailbox # {} /\ Current /\ fetched'[at] = Whole(served[at]),
           result = "ok" /\ script[at] = "list"
             => \A b \in Mailboxes : Plain(b) => b \in spelled \/ [name |-> b, of |-> b] \in folders'
    PROVE  Inv'
<1>1. /\ Tags' = Tags /\ Tags = 1..Len(script) /\ at \in Nat
      /\ DOMAIN outcome = Tags /\ script' = script /\ Types
  BY Basics DEF Tags, Inv, Types, TypeOK
<1>0. PICK n \in Nat : n = Len(script)
  BY Basics DEF Inv
<1>2. /\ outcome' = [outcome EXCEPT ![at] = result] /\ at' = at + 1
      /\ pc' \in {"write", "ended"} /\ (at = n => pc' = "ended")
      /\ (result = "broken" => pc' = "ended")
  BY <1>0 DEF GoOn
<1>3. at \in 1..n /\ at' \in 1..(n + 1) /\ (at # n => at' \in 1..n)
  <2>1. at \in 1..n
    BY <1>0, <1>1
  <2>2. at' = at + 1
    BY <1>2
  <2>3. QED
    BY <2>1, <2>2, OneMore
<1>4. Types'
  <2>1. TypeOK'
    <3>1. outcome' \in [Tags' -> {"none", "ok", "failed", "broken"}]
      BY <1>1, <1>2 DEF Types, TypeOK
    <3>2. pc' \in {"write", "read", "literal", "ended"}
          /\ (pc' \in {"read", "write", "literal"} => at' \in Tags')
      BY <1>0, <1>1, <1>2, <1>3
    <3>3. at' \in 1..(Len(script') + 1)
      BY <1>0, <1>1, <1>3
    <3>4. \A f \in folders' \cup opened' : f.of \in Mailboxes
      BY <1>1 DEF Types, Folder
    <3>5. QED
      BY <1>1, <3>1, <3>2, <3>3, <3>4 DEF Types, TypeOK
  <2>2. QED
    BY <1>1, <2>1 DEF Types
<1>5. Order'
  <2>1. \A k \in Tags : k >= at' => outcome'[k] = "none"
    <3>1. \A k \in Tags : k >= at => outcome[k] = "none"
      BY DEF Inv, Order
    <3>2. ASSUME NEW k \in Tags, k >= at' PROVE outcome'[k] = "none"
      <4>1. k \in Nat /\ k >= at /\ k # at
        <5>1. k \in 1..n
          BY <1>0, <1>1
        <5>2. at' = at + 1
          BY <1>2
        <5>3. QED
          BY <1>3, <3>2, <5>1, <5>2, OneMore
      <4>2. QED
        BY <1>1, <1>2, <3>1, <4>1
    <3>3. QED
      BY <3>2
  <2>2. Current <=> Current'
    BY Still
  <2>3. QED
    BY <1>1, <1>2, <2>1, <2>2 DEF Order
<1>6. History'
  BY <1>1, <1>2, Grows
<1>7. OpenedOnes'
  BY <1>1, Still
<1>8. QED
  BY <1>4, <1>5, <1>6, <1>7 DEF Inv

\* The tagged line.
LEMMA ReadTag ==
    ASSUME Inv, pc \in {"read", "literal"}, owed = "", Current,
           NEW result \in {"ok", "failed"}, Take(result), GoOn(result),
           UNCHANGED <<script, held, got, opened, owed, wanted, mailbox, answered, served,
                       spelled, closed>>,
           wire' = <<>>, answered[at] = result,
           result = "ok" => Serves(got, script[at], mailbox, served[at], spelled)
    PROVE  Inv'
<1>1. /\ at \in Tags /\ DOMAIN fetched = Tags /\ got \in Seq(Response) /\ folders \subseteq Folder
      /\ <<>> \in Seq(Line)
  BY EmptySeq DEF Inv, Types, TypeOK
<1>2. \A k \in DOMAIN got : got[k] \in Response
  <2>1. DOMAIN got = 1..Len(got)
    BY <1>1, LenProperties
  <2>2. QED
    BY <1>1, <2>1, ElementOfSeq
<1>3. folders' \subseteq Folder
  BY <1>1, <1>2, TakenFolder DEF Take
<1>4. DOMAIN fetched' = Tags /\ \A k \in Tags : k # at => fetched'[k] = fetched[k]
  BY <1>1 DEF Take
<1>5. folders' = folders \/ script[at] = "list"
  BY DEF Take
<1>6. ASSUME result = "ok", script[at] = "fetch"
      PROVE  mailbox # {} /\ fetched'[at] = Whole(served[at])
  BY <1>1, <1>6 DEF Take, Serves
<1>7. ASSUME result = "ok", script[at] = "list", NEW b \in Mailboxes, Plain(b), b \notin spelled
      PROVE  [name |-> b, of |-> b] \in folders'
  <2>1. Lists(got, b)
    BY <1>7 DEF Serves
  <2>2. PICK k \in DOMAIN got :
          NamesFolder(got[k].line) /\ got[k].line.of = b /\ ParseName(got[k].line) = b
    BY <2>1 DEF Lists
  <2>3. folders' = {[name |-> ParseName(got[j].line), of |-> got[j].line.of] :
                        j \in {i \in DOMAIN got : NamesFolder(got[i].line)}}
    BY <1>7 DEF Take
  <2>4. QED
    BY <2>2, <2>3
<1>8. QED
  BY <1>1, <1>3, <1>4, <1>5, <1>6, <1>7, EndOf

\* A frame, taken apart.
LEMMA FrameApart ==
    ASSUME NEW f \in Frame
    PROVE  \E h \in Line, g \in Seq(Line) :
             /\ f = <<h>> \o g /\ f[1] = h /\ h.kind # "tagged" /\ h.literal \in Nat
             /\ h.literal > 0 => Len(g) = h.literal + 1 /\ Len(f) = h.literal + 2
             /\ ~ (h.literal > 0) => g = <<>> /\ f = <<h>>
             /\ \A i \in 1..Len(g) : g[i] = f[i + 1]
<1>1. f \in Seq(Line) /\ f # <<>> /\ Len(f) \in Nat /\ f[1].literal \in Nat
  BY FrameType
<1>2. /\ Head(f) \in Line /\ Tail(f) \in Seq(Line) /\ f = <<Head(f)>> \o Tail(f) /\ f[1] = Head(f)
      /\ Len(Tail(f)) = Len(f) - 1 /\ \A i \in 1..Len(Tail(f)) : Tail(f)[i] = f[i + 1]
  BY <1>1, HeadOff
<1>3. /\ f[1].kind # "tagged"
      /\ Len(f) = IF f[1].literal > 0 THEN f[1].literal + 2 ELSE 1
  BY DEF Frame
<1>4. PICK h : h = Head(f)
  OBVIOUS
<1>5. PICK g : g = Tail(f)
  OBVIOUS
<1>6. ASSUME ~ (h.literal > 0) PROVE g = <<>> /\ f = <<h>>
  <2>1. Len(f) = 1 /\ Len(g) = 0
    BY <1>2, <1>3, <1>4, <1>5, <1>6
  <2>2. g = <<>>
    BY <1>2, <1>5, <2>1, EmptySeq
  <2>3. <<h>> \in Seq(Line)
    BY <1>2, <1>4
  <2>4. <<h>> \o <<>> = <<h>>
    BY <2>3, ConcatEmptySeq
  <2>5. QED
    BY <1>2, <1>4, <1>5, <2>2, <2>4
<1>7. ASSUME h.literal > 0 PROVE Len(g) = h.literal + 1 /\ Len(f) = h.literal + 2
  <2>1. PICK n \in Nat : n = h.literal
    BY <1>1, <1>2, <1>4
  <2>2. Len(f) = n + 2
    BY <1>2, <1>3, <1>4, <1>7, <2>1
  <2>3. Len(g) = (n + 2) - 1
    BY <1>2, <1>5, <2>2
  <2>4. QED
    BY <2>1, <2>2, <2>3
<1>8. QED
  BY <1>1, <1>2, <1>3, <1>4, <1>5, <1>6, <1>7

\* A line of the answer.
LEMMA ReadAnswer == ASSUME Inv, Answered, pc = "read", ReadLine PROVE Inv'
<1>1. PICK q \in Seq(Frame), ok \in BOOLEAN, rest \in Seq(Line) : Comes(q, ok, rest)
  BY DEF Answered
<1>2. /\ at \in Tags /\ at \in Nat /\ wire \in Seq(Line) /\ wire # <<>> /\ got \in Seq(Response)
      /\ held \in Line /\ owed = "" /\ Current
  BY Basics DEF Inv, Types, TypeOK, Answered, ReadLine
<1>3. PICK t \in Line : t = Tagged(at, ok)
  BY <1>2, LineTypes
<1>4. wire \o rest = FlattenSeq(q) \o <<t>> /\ answered[at] = IF ok THEN "ok" ELSE "failed"
  BY <1>1, <1>3 DEF Comes, Pending
<1>5. <<t>> \in Seq(Line) /\ <<>> \in Seq(Line)
  OBVIOUS
<1>6. Tail(wire) \in Seq(Line) /\ wire = <<Head(wire)>> \o Tail(wire)
  BY <1>2, HeadOff
<1>10. PICK d \in Seq(Line) : d = <<Head(wire)>> /\ Len(d) = 1 /\ d[1] = Head(wire)
  <2>1. \A x \in Line : <<x>> \in Seq(Line) /\ Len(<<x>>) = 1 /\ <<x>>[1] = x
    OBVIOUS
  <2>2. Head(wire) \in Line
    BY <1>2, HeadOff
  <2>3. QED
    BY <2>1, <2>2
<1>11. PICK tail \in Seq(Line) : tail = Tail(wire)
  BY <1>6
<1>12. wire = d \o tail
  BY <1>6, <1>10, <1>11
<1>7. CASE q # <<>>
  <2>1. PICK f \in Frame, p \in Seq(Frame) : q = <<f>> \o p
    BY <1>7, StreamHead
  <2>2. FlattenSeq(q) = f \o FlattenSeq(p) /\ FlattenSeq(p) \in Seq(Line) /\ f \in Seq(Line)
    BY <2>1, StreamCons, StreamType, FrameType
  <2>3. PICK h \in Line, g \in Seq(Line) :
             /\ f = <<h>> \o g /\ f[1] = h /\ h.kind # "tagged" /\ h.literal \in Nat
             /\ ~ (h.literal > 0) => g = <<>> /\ f = <<h>>
    BY FrameApart
  <2>4. PICK y \in Seq(Line) : y = FlattenSeq(p) \o <<t>>
    BY <1>5, <2>2, Joins
  <2>5. g \o y \in Seq(Line) /\ <<h>> \in Seq(Line)
    BY <2>4, Joins
  <2>6. wire \o rest = <<h>> \o (g \o y)
    <3>1. \A u, v, w \in Seq(Line) : (u \o v) \o w = u \o (v \o w)
      BY Rejoins
    <3>2. (f \o FlattenSeq(p)) \o <<t>> = f \o y
      BY <1>5, <2>2, <2>4, <3>1
    <3>3. (<<h>> \o g) \o y = <<h>> \o (g \o y)
      BY <2>4, <2>5, <3>1
    <3>4. QED
      BY <1>4, <2>2, <2>3, <3>2, <3>3
  <2>7. Head(wire) = h /\ Tail(wire) \o rest = g \o y
    <3>1. PICK e \in Seq(Line) : e = <<h>> /\ Len(e) = 1 /\ e[1] = h
      BY <2>5
    <3>2. PICK u \in Seq(Line) : u = g \o y
      BY <2>5
    <3>3. (d \o tail) \o rest = e \o u
      BY <1>12, <2>6, <3>1, <3>2
    <3>4. d = e /\ tail \o rest = u
      <4>1. Len(d) = 1 /\ Len(e) = 1
        BY <1>10, <3>1
      <4>4. d = e
        BY <3>3, <4>1, FirstOff
      <4>5. tail \o rest = u
        BY <3>3, <4>1, RestOff
      <4>6. QED
        BY <4>4, <4>5
    <3>5. QED
      BY <1>10, <1>11, <3>1, <3>2, <3>4
  <2>8. CASE h.literal > 0
    <3>1. /\ wire' = Tail(wire) /\ pc' = "literal" /\ held' = h
          /\ UNCHANGED <<script, at, got, outcome, fetched, folders, opened, owed, wanted,
                         mailbox, answered, served, spelled, closed>>
      BY <2>7, <2>8 DEF ReadLine
    <3>2. Pending' = wire /\ Pending = wire
      BY <1>6, <2>7, <3>1 DEF Pending
    <3>3. Comes(q, ok, rest)'
      BY <1>1, <3>1, <3>2 DEF Comes
    <3>4. Answered'
      BY <1>2, <3>1, <3>3, Still DEF Answered
    <3>5. QED
      BY <1>2, <1>6, <2>8, <3>1, <3>4, GoesOn
  <2>9. CASE ~ (h.literal > 0)
    <3>1. /\ wire' = Tail(wire) /\ Handle(h) /\ held' = held
          /\ UNCHANGED <<script, opened, owed, wanted, mailbox, answered, served, spelled, closed>>
      BY <2>7, <2>9 DEF ReadLine
    <3>2. /\ pc' = "read" /\ UNCHANGED <<at, outcome, fetched, folders>>
          /\ got' = IF h.kind \in {"fetch", "list"}
                    THEN Append(got, [line |-> h, body |-> {}]) ELSE got
      BY <2>3, <3>1 DEF Handle
    <3>3. Resp(f) = IF h.kind \in {"fetch", "list"} THEN <<[line |-> h, body |-> {}]>> ELSE <<>>
      BY <2>3, <2>9 DEF Resp
    <3>4. got' = got \o Resp(f)
      <4>1. CASE h.kind \in {"fetch", "list"}
        <5>1. Resp(f) \in Seq(Response)
          BY FrameType
        <5>2. [line |-> h, body |-> {}] \in Response
          <6>1. <<[line |-> h, body |-> {}]>> \in Seq(Response)
            BY <3>3, <4>1, <5>1
          <6>2. \A e : <<e>> \in Seq(Response) => e \in Response
            OBVIOUS
          <6>3. QED
            BY <6>1, <6>2
        <5>3. \A u \in Seq(Response), e \in Response : Append(u, e) = u \o <<e>>
          BY Rejoins
        <5>4. QED
          BY <1>2, <3>2, <3>3, <4>1, <5>2, <5>3
      <4>2. CASE h.kind \notin {"fetch", "list"}
        BY <1>2, <3>2, <3>3, <4>2, ConcatEmptySeq
      <4>3. QED
        BY <4>1, <4>2
    <3>5. wire' \o rest = FlattenSeq(p) \o <<Tagged(at, ok)>>
      <4>1. g \o y = y
        BY <2>3, <2>4, <2>9, ConcatEmptySeq
      <4>2. QED
        BY <1>3, <2>4, <2>7, <3>1, <4>1
    <3>6. Comes(<<f>> \o p, ok, rest)
      BY <1>1, <2>1
    <3>7. wire' \in Seq(Line)
      BY <1>6, <3>1
    <3>8. QED
      BY <1>2, <3>1, <3>2, <3>4, <3>5, <3>6, <3>7, ReadFrame
  <2>10. QED
    BY <2>8, <2>9
<1>8. CASE q = <<>>
  <2>1. FlattenSeq(q) = <<>> /\ Responses(q) = <<>>
    BY <1>8, FlatSimple, StreamEmpty
  <2>2. wire \o rest = <<t>> \o <<>>
    <3>1. <<>> \o <<t>> = <<t>> /\ <<t>> \o <<>> = <<t>>
      BY <1>5, ConcatEmptySeq
    <3>2. QED
      BY <1>4, <2>1, <3>1
  <2>3. Head(wire) = t /\ Tail(wire) \o rest = <<>>
    <3>1. PICK e \in Seq(Line) : e = <<t>> /\ Len(e) = 1 /\ e[1] = t
      BY <1>5
    <3>2. PICK u \in Seq(Line) : u = <<>>
      BY <1>5
    <3>3. (d \o tail) \o rest = e \o u
      BY <1>12, <2>2, <3>1, <3>2
    <3>4. d = e /\ tail \o rest = u
      <4>1. Len(d) = 1 /\ Len(e) = 1
        BY <1>10, <3>1
      <4>4. d = e
        BY <3>3, <4>1, FirstOff
      <4>5. tail \o rest = u
        BY <3>3, <4>1, RestOff
      <4>6. QED
        BY <4>4, <4>5
    <3>5. QED
      BY <1>10, <1>11, <3>1, <3>2, <3>4
  <2>4. Tail(wire) = <<>>
    BY <1>6, <2>3, ConcatEqualIffEmpty
  <2>5. t.literal = 0 /\ t.kind = "tagged" /\ t.tag = at /\ t.ok = ok
    BY <1>3 DEF Tagged, Piece
  <2>6. ~ (t.literal > 0)
    BY <2>5
  <2>7. /\ wire' = <<>> /\ Handle(t) /\ held' = held
        /\ UNCHANGED <<script, opened, owed, wanted, mailbox, answered, served, spelled, closed>>
    BY <2>3, <2>4, <2>6 DEF ReadLine
  <2>8. PICK result \in {"ok", "failed"} : result = IF ok THEN "ok" ELSE "failed"
    OBVIOUS
  <2>9. Take(result) /\ GoOn(result) /\ got' = got
    BY <2>5, <2>7, <2>8 DEF Handle
  <2>10. answered[at] = result
    BY <1>4, <2>8
  <2>11. ASSUME result = "ok" PROVE Serves(got, script[at], mailbox, served[at], spelled)
    <3>1. ok
      BY <2>8, <2>11
    <3>2. got \o <<>> = got
      BY <1>2, ConcatEmptySeq
    <3>3. QED
      BY <1>1, <2>1, <3>1, <3>2 DEF Comes
  <2>12. QED
    BY <1>2, <2>7, <2>9, <2>10, <2>11, ReadTag
<1>9. QED
  BY <1>7, <1>8

\* A frame whose literal is being read begins with the line that has announced it.
Heads(l, f, w, y) ==
    \E g \in Seq(Line) :
        /\ f[1] = l /\ w = g \o y /\ l.kind # "tagged" /\ l.literal \in Nat
        /\ l.literal > 0 => Len(g) = l.literal + 1 /\ Len(f) = l.literal + 2
        /\ \A i \in 1..Len(g) : g[i] = f[i + 1]

\* A line announces the literal of its own frame.
LEMMA LiteralHead ==
    ASSUME NEW l \in Line, NEW w \in Seq(Line), NEW r \in Seq(Line), NEW f \in Frame,
           NEW y \in Seq(Line), (<<l>> \o w) \o r = f \o y
    PROVE  Heads(l, f, w \o r, y)
<1>1. PICK h \in Line, g \in Seq(Line) :
             /\ f = <<h>> \o g /\ f[1] = h /\ h.kind # "tagged" /\ h.literal \in Nat
             /\ h.literal > 0 => Len(g) = h.literal + 1 /\ Len(f) = h.literal + 2
             /\ \A i \in 1..Len(g) : g[i] = f[i + 1]
  BY FrameApart
<1>0. \A x \in Line : <<x>> \in Seq(Line) /\ Len(<<x>>) = 1 /\ <<x>>[1] = x
  OBVIOUS
<1>2. PICK d \in Seq(Line) : d = <<l>> /\ Len(d) = 1 /\ d[1] = l
  BY <1>0
<1>3. PICK e \in Seq(Line) : e = <<h>> /\ Len(e) = 1 /\ e[1] = h
  BY <1>0
<1>4. Len(d) = 1 /\ Len(e) = 1 /\ d[1] = l /\ e[1] = h
  BY <1>2, <1>3
<1>5. (d \o w) \o r = (e \o g) \o y
  BY <1>1, <1>2, <1>3
<1>6. d = e /\ w \o r = g \o y
  <2>1. (d \o w) \o r = e \o (g \o y)
    <3>1. (e \o g) \o y = e \o (g \o y)
      BY ConcatAssociative
    <3>2. QED
      BY <1>5, <3>1
  <2>2. PICK z \in Seq(Line) : z = g \o y
    BY Joins
  <2>3. (d \o w) \o r = e \o z
    BY <2>1, <2>2
  <2>4. Len(d) = 1 /\ Len(e) = 1
    BY <1>4
  <2>5. d = e
    BY <2>3, <2>4, FirstOff
  <2>6. w \o r = z
    <3>6. \A a, b, c \in Seq(Line) : (a \o b) \o c = a \o (b \o c)
      BY Rejoins
    <3>1. (d \o w) \o r = d \o (w \o r)
      BY <3>6
    <3>2. w \o r \in Seq(Line)
      BY Joins
    <3>3. d \o (w \o r) = d \o z
      BY <2>3, <2>5, <3>1
    <3>4. \A a, b, c \in Seq(Line) : a \o b = a \o c => b = c
      BY Rejoins
    <3>5. QED
      BY <3>2, <3>3, <3>4
  <2>7. QED
    BY <2>2, <2>5, <2>6
<1>7. h = l
  BY <1>4, <1>6
<1>8. QED
  BY <1>1, <1>6, <1>7 DEF Heads

\* The lines of a literal are those of its frame.
LEMMA LiteralLines ==
    ASSUME NEW n \in Nat, NEW w \in Seq(Line), NEW r \in Seq(Line), NEW g \in Seq(Line),
           NEW y \in Seq(Line), w \o r = g \o y, NEW f \in Seq(Line),
           Len(g) = n + 1, Len(f) = n + 2, n <= Len(w), \A i \in 1..Len(g) : g[i] = f[i + 1]
    PROVE  SubSeq(w, 1, n) = SubSeq(f, 2, n + 1)
<1>1. \A i \in 1..Len(g) : i <= Len(w) => w[i] = g[i]
  BY ManyFirst
<1>2. PICK k \in Nat : k = Len(w)
  BY LenProperties
<1>3. \A i \in 1..n : i \in 1..(n + 1) /\ i <= k /\ i \in 1..k
  BY <1>2
<1>4. \A i \in 1..n : w[i] = f[i + 1]
  BY <1>1, <1>2, <1>3
<1>5. \A i \in 1..k : w[i] \in Line
  BY <1>2, ElementOfSeq
<1>6. \A i \in 1..(n + 2) : f[i] \in Line
  BY ElementOfSeq
<1>7. 1 \in Int /\ n \in Int /\ (\A i \in 1..n : w[i] \in Line) /\ n - 1 + 1 = n
  BY <1>3, <1>5
<1>8. /\ SubSeq(w, 1, n) \in Seq(Line)
      /\ Len(SubSeq(w, 1, n)) = IF 1 <= n THEN n - 1 + 1 ELSE 0
      /\ \A i \in 1..(n - 1 + 1) : SubSeq(w, 1, n)[i] = w[1 + i - 1]
  BY <1>7, SubSeqProperties
<1>9. 2 \in Int /\ n + 1 \in Int /\ (\A i \in 2..(n + 1) : f[i] \in Line) /\ (n + 1) - 2 + 1 = n
  BY <1>6
<1>10. /\ SubSeq(f, 2, n + 1) \in Seq(Line)
       /\ Len(SubSeq(f, 2, n + 1)) = IF 2 <= n + 1 THEN (n + 1) - 2 + 1 ELSE 0
       /\ \A i \in 1..((n + 1) - 2 + 1) : SubSeq(f, 2, n + 1)[i] = f[2 + i - 1]
  BY <1>9, SubSeqProperties
<1>11. (n = IF 1 <= n THEN n - 1 + 1 ELSE 0) /\ (n = IF 2 <= n + 1 THEN (n + 1) - 2 + 1 ELSE 0)
  OBVIOUS
<1>12. \A i \in 1..n : 1 + i - 1 = i /\ 2 + i - 1 = i + 1
  OBVIOUS
<1>13. /\ SubSeq(w, 1, n) \in Seq(Line) /\ Len(SubSeq(w, 1, n)) = n
       /\ \A i \in 1..n : SubSeq(w, 1, n)[i] = w[i]
  <2>1. Len(SubSeq(w, 1, n)) = n /\ \A i \in 1..n : SubSeq(w, 1, n)[i] = w[1 + i - 1]
    BY <1>7, <1>8, <1>11
  <2>2. QED
    BY <1>8, <1>12, <2>1
<1>14. /\ SubSeq(f, 2, n + 1) \in Seq(Line) /\ Len(SubSeq(f, 2, n + 1)) = n
       /\ \A i \in 1..n : SubSeq(f, 2, n + 1)[i] = f[i + 1]
  <2>1. Len(SubSeq(f, 2, n + 1)) = n /\ \A i \in 1..n : SubSeq(f, 2, n + 1)[i] = f[2 + i - 1]
    BY <1>9, <1>10, <1>11
  <2>2. QED
    BY <1>10, <1>12, <2>1
<1>15. \A i \in 1..n : SubSeq(w, 1, n)[i] = SubSeq(f, 2, n + 1)[i]
  BY <1>4, <1>13, <1>14
<1>16. QED
  BY <1>13, <1>14, <1>15, SeqEqual

\* Lines that others continue to y.
Begins(x, y) == x \in Seq(Line) /\ \E left \in Seq(Line) : x \o left = y

\* What comes after a literal, though the connection may be cut behind it.
LEMMA LiteralRest ==
    ASSUME NEW n \in Nat, NEW w \in Seq(Line), NEW r \in Seq(Line), NEW g \in Seq(Line),
           NEW y \in Seq(Line), w \o r = g \o y, Len(g) = n + 1, n <= Len(w)
    PROVE  Begins(SubSeq(w, n + 2, Len(w)), y)
<1>1. PICK k \in Nat : k = Len(w) /\ n <= k
  BY LenProperties
<1>5. \A i \in 1..k : w[i] \in Line
  BY <1>1, ElementOfSeq
<1>6. SubSeq(w, n + 2, k) \in Seq(Line)
  <2>1. n + 2 \in Int /\ k \in Int /\ \A i \in (n + 2)..k : w[i] \in Line
    BY <1>5
  <2>2. QED
    BY <2>1, SubSeqProperties
<1>2. CASE k = n
  <2>1. SubSeq(w, n + 2, k) = <<>>
    <3>1. n + 2 \in Int /\ k \in Int /\ k < n + 2
      BY <1>2
    <3>2. QED
      BY <3>1, SubSeqEmpty
  <2>2. <<>> \in Seq(Line) /\ <<>> \o y = y
    BY ConcatEmptySeq, EmptySeq
  <2>3. QED
    BY <1>1, <2>1, <2>2 DEF Begins
<1>3. CASE k # n
  <2>1. Len(g) <= Len(w) /\ Len(g) + 1 = n + 2
    BY <1>1, <1>3
  <2>2. SubSeq(w, Len(g) + 1, Len(w)) \o r = y
    BY <2>1, ManyRest
  <2>3. SubSeq(w, n + 2, k) \o r = y
    BY <1>1, <2>1, <2>2
  <2>4. QED
    BY <1>1, <1>6, <2>3 DEF Begins
<1>4. QED
  BY <1>2, <1>3

\* What has been read of a frame with a literal, as a response.
LEMMA LiteralGot ==
    ASSUME got \in Seq(Response), NEW f \in Frame, NEW n \in Nat, n > 0, held = f[1],
           f[1].kind # "tagged", f[1].literal = n,
           IF held.kind = "fetch"
           THEN /\ pc' = "read"
                /\ got' = Append(got, [line |-> held, body |-> {SubSeq(f, 2, n + 1)}])
                /\ UNCHANGED <<at, outcome, fetched, folders>>
           ELSE Handle(held)
    PROVE  /\ pc' = "read" /\ UNCHANGED <<at, outcome, fetched, folders>>
           /\ got' = got \o Resp(f)
<1>1. \A z : <<z>> \in Seq(Response) => z \in Response
  OBVIOUS
<1>2. \A u \in Seq(Response), x \in Response : Append(u, x) = u \o <<x>>
  BY Rejoins
<1>3. CASE held.kind = "fetch"
  <2>1. Resp(f) = <<[line |-> held, body |-> {SubSeq(f, 2, n + 1)}]>>
    BY <1>3 DEF Resp
  <2>2. PICK x \in Response : x = [line |-> held, body |-> {SubSeq(f, 2, n + 1)}]
    BY <1>1, <2>1, FrameType
  <2>3. got' = Append(got, x) /\ Resp(f) = <<x>>
    BY <1>3, <2>1, <2>2
  <2>4. QED
    BY <1>2, <1>3, <2>3
<1>4. CASE held.kind # "fetch"
  <2>1. Handle(held)
    BY <1>4
  <2>2. /\ pc' = "read" /\ UNCHANGED <<at, outcome, fetched, folders>>
        /\ got' = IF held.kind = "list" THEN Append(got, [line |-> held, body |-> {}]) ELSE got
    BY <1>4, <2>1 DEF Handle
  <2>3. Resp(f) = IF held.kind = "list" THEN <<[line |-> held, body |-> {}]>> ELSE <<>>
    BY <1>4 DEF Resp
  <2>4. CASE held.kind = "list"
    <3>1. PICK x \in Response : x = [line |-> held, body |-> {}]
      BY <1>1, <2>3, <2>4, FrameType
    <3>2. got' = Append(got, x) /\ Resp(f) = <<x>>
      BY <2>2, <2>3, <2>4, <3>1
    <3>3. QED
      BY <1>2, <2>2, <3>2
  <2>5. CASE held.kind # "list"
    BY <2>2, <2>3, <2>5, ConcatEmptySeq
  <2>6. QED
    BY <2>4, <2>5
<1>5. QED
  BY <1>3, <1>4

\* A literal and the rest of its line.
LEMMA LiteralStep == ASSUME Inv, ReadLiteral PROVE Inv'
<1>1. pc = "literal" /\ held.literal > 0 /\ Answered
  BY DEF Inv, Order, Waiting, ReadLiteral
<1>2. PICK q \in Seq(Frame), ok \in BOOLEAN, rest \in Seq(Line) : Comes(q, ok, rest)
  BY <1>1 DEF Answered
<1>3. /\ at \in Tags /\ at \in Nat /\ wire \in Seq(Line) /\ got \in Seq(Response)
      /\ held \in Line /\ owed = "" /\ Current
  BY <1>1, Basics DEF Inv, Types, TypeOK, Answered
<1>4. PICK t \in Line : t = Tagged(at, ok)
  BY <1>3, LineTypes
<1>5. t.literal = 0
  BY <1>4 DEF Tagged, Piece
<1>6. (<<held>> \o wire) \o rest = FlattenSeq(q) \o <<t>>
  BY <1>1, <1>2, <1>4 DEF Comes, Pending
<1>7. <<t>> \in Seq(Line) /\ <<t>>[1] = t /\ Len(<<t>>) = 1 /\ <<t>> # <<>>
  OBVIOUS
<1>8. q # <<>>
  <2>1. SUFFICES ASSUME q = <<>> PROVE FALSE
    OBVIOUS
  <2>2. PICK d \in Seq(Line) : d = <<held>> /\ Len(d) = 1 /\ d[1] = held
    <3>1. \A x \in Line : <<x>> \in Seq(Line) /\ Len(<<x>>) = 1 /\ <<x>>[1] = x
      OBVIOUS
    <3>2. QED
      BY <1>3, <3>1
  <2>3. PICK e \in Seq(Line) : e = <<t>> /\ Len(e) = 1 /\ e[1] = t
    BY <1>7
  <2>4. PICK z \in Seq(Line) : z = <<>> /\ e \o z = e /\ z \o e = e
    BY ConcatEmptySeq, EmptySeq
  <2>5. (d \o wire) \o rest = e \o z
    BY <1>6, <2>1, <2>2, <2>3, <2>4, FlatSimple
  <2>6. Len(d) = 1 /\ Len(e) = 1
    BY <2>2, <2>3
  <2>7. d = e
    BY <1>3, <2>5, <2>6, FirstOff
  <2>8. held = t
    BY <2>2, <2>3, <2>7
  <2>9. QED
    BY <1>1, <1>5, <2>8
<1>9. PICK f \in Frame, p \in Seq(Frame) : q = <<f>> \o p
  BY <1>8, StreamHead
<1>10. PICK y \in Seq(Line) : y = FlattenSeq(p) \o <<t>> /\ (<<held>> \o wire) \o rest = f \o y
  <2>1. FlattenSeq(q) = f \o FlattenSeq(p) /\ FlattenSeq(p) \in Seq(Line) /\ f \in Seq(Line)
    BY <1>9, StreamCons, StreamType, FrameType
  <2>2. PICK y \in Seq(Line) : y = FlattenSeq(p) \o <<t>>
    BY <1>7, <2>1, Joins
  <2>3. \A u, v, w \in Seq(Line) : (u \o v) \o w = u \o (v \o w)
    BY Rejoins
  <2>4. (f \o FlattenSeq(p)) \o <<t>> = f \o y
    BY <1>7, <2>1, <2>2, <2>3
  <2>5. QED
    BY <1>6, <2>1, <2>2, <2>4
<1>22. Heads(held, f, wire \o rest, y)
  BY <1>3, <1>10, LiteralHead
<1>11. PICK g \in Seq(Line) :
         /\ f[1] = held /\ wire \o rest = g \o y /\ held.kind # "tagged" /\ held.literal \in Nat
         /\ held.literal > 0 => Len(g) = held.literal + 1 /\ Len(f) = held.literal + 2
         /\ \A i \in 1..Len(g) : g[i] = f[i + 1]
  BY <1>22 DEF Heads
<1>12. PICK n \in Nat : n = held.literal /\ n > 0
  BY <1>1, <1>11
<1>13. Len(g) = n + 1 /\ Len(f) = n + 2 /\ f \in Seq(Line)
  BY <1>11, <1>12, FrameType
<1>14. n <= Len(wire) /\ wire' = SubSeq(wire, n + 2, Len(wire))
  <2>1. Len(wire) \in Nat /\ (Len(wire) > n \/ Len(wire) = n)
    BY <1>3, <1>12, LenProperties DEF ReadLiteral
  <2>2. QED
    BY <1>12, <2>1 DEF ReadLiteral
<1>15. SubSeq(wire, 1, n) = SubSeq(f, 2, n + 1)
  <2>1. wire \o rest = g \o y /\ \A i \in 1..Len(g) : g[i] = f[i + 1]
    BY <1>11
  <2>2. QED
    BY <1>3, <1>13, <1>14, <2>1, LiteralLines
<1>16. PICK left \in Seq(Line) : wire' \in Seq(Line) /\ wire' \o left = y
  <2>1. wire \o rest = g \o y
    BY <1>11
  <2>2. Begins(SubSeq(wire, n + 2, Len(wire)), y)
    BY <1>3, <1>13, <1>14, <2>1, LiteralRest
  <2>3. QED
    BY <1>14, <2>2 DEF Begins
<1>17. /\ pc' = "read" /\ UNCHANGED <<at, outcome, fetched, folders>>
       /\ got' = got \o Resp(f)
  <2>1. IF held.kind = "fetch"
        THEN /\ pc' = "read"
             /\ got' = Append(got, [line |-> held, body |-> {SubSeq(f, 2, n + 1)}])
             /\ UNCHANGED <<at, outcome, fetched, folders>>
        ELSE Handle(held)
    BY <1>12, <1>15 DEF ReadLiteral
  <2>2. held = f[1] /\ f[1].kind # "tagged" /\ f[1].literal = n
    BY <1>11, <1>12
  <2>3. QED
    BY <1>3, <1>12, <2>1, <2>2, LiteralGot
<1>18. UNCHANGED <<script, held, opened, owed, wanted, mailbox, answered, served, spelled, closed>>
  BY DEF ReadLiteral
<1>19. Comes(<<f>> \o p, ok, rest)
  BY <1>2, <1>9
<1>20. wire' \o left = FlattenSeq(p) \o <<Tagged(at, ok)>>
  BY <1>4, <1>10, <1>16
<1>21. QED
  BY <1>1, <1>3, <1>16, <1>17, <1>18, <1>19, <1>20, ReadFrame

\* A line is read.
LEMMA ReadStep == ASSUME Inv, ReadLine PROVE Inv'
<1>1. pc = "read" /\ (Waiting \/ Answered)
  BY DEF Inv, Order, ReadLine
<1>2. QED
  BY <1>1, ReadMurmur, ReadAnswer

\* The connection ends: nothing is owed any more, and nothing is known of the answer.
LEMMA BrokenStep == ASSUME Inv, Broken PROVE Inv'
<1>1. pc \in {"write", "read", "literal"} /\ closed
  BY DEF Broken, Breaks
<1>2. at \in Tags /\ owed = ""
  BY <1>1 DEF Inv, Types, TypeOK, Order
<1>3. /\ folders' \subseteq Folder /\ DOMAIN fetched' = Tags /\ wire' \in Seq(Line)
      /\ folders' = folders /\ fetched' = fetched
  BY DEF Broken, server, Inv, Types
<1>4. /\ GoOn("broken")
      /\ UNCHANGED <<script, held, got, opened, owed, wanted, mailbox, answered, served,
                     spelled, closed>>
  BY DEF Broken, server
<1>5. QED
  BY <1>2, <1>3, <1>4, EndOf

\* Something is said in between.
LEMMA ChatterStep == ASSUME Inv, Chatter PROVE Inv'
<1>1. Waiting /\ owed # "" /\ wire = <<>> /\ got = <<>> /\ pc = "read"
  BY DEF Inv, Order, Chatter, Waiting
<1>2. PICK line \in Chat : wire' = <<line>>
  BY DEF Chatter, Chat
<1>3. line \in Line /\ \A x \in Line : <<x>> \in Seq(Line)
  BY ChatFrame, Rejoins
<1>4. wire' \in Seq(Line) /\ held \in Line /\ got \in Seq(Response)
  BY <1>2, <1>3 DEF Inv, Types
<1>5. /\ UNCHANGED <<script, at, outcome, fetched, folders, opened, owed, wanted, mailbox,
                     answered, served, spelled, closed>>
      /\ pc' = pc /\ held' = held /\ got' = got
  BY DEF Chatter, client
<1>6. Waiting'
  BY <1>1, <1>2, <1>5 DEF Waiting, Current
<1>7. QED
  BY <1>1, <1>4, <1>5, <1>6, GoesOn

\* What is cut off was on its way.
LEMMA CloseStep == ASSUME Inv, Close PROVE Inv'
<1>1. PICK n \in 0..Len(wire) : wire' = SubSeq(wire, 1, n)
  BY DEF Close
<1>2. wire \in Seq(Line) /\ held \in Line
  BY DEF Inv, Types
<1>3. PICK x \in Seq(Line) : wire' \in Seq(Line) /\ wire = wire' \o x
  <2>1. \A w \in Seq(Line) : \A m \in 0..Len(w) :
          SubSeq(w, 1, m) \in Seq(Line) /\ \E y \in Seq(Line) : w = SubSeq(w, 1, m) \o y
    BY CutOff
  <2>2. SubSeq(wire, 1, n) \in Seq(Line) /\ \E y \in Seq(Line) : wire = SubSeq(wire, 1, n) \o y
    BY <1>2, <2>1
  <2>3. QED
    BY <1>1, <2>2
<1>4. /\ UNCHANGED <<script, at, pc, held, got, outcome, fetched, folders, opened, wanted,
                     mailbox, answered, served, spelled>>
      /\ owed' = "" /\ closed' = TRUE
  BY DEF Close, client
<1>5. wire = <<>> => wire' = <<>>
  BY <1>3, ConcatEqualIffEmpty
<1>6. ASSUME Waiting PROVE Waiting'
  <2>1. CASE wire = <<>> /\ got \in Murmurs
    BY <1>4, <1>5, <1>6, <2>1 DEF Waiting, Current
  <2>2. CASE got = <<>> /\ \E line \in Chat : wire = <<line>>
    <3>1. PICK line \in Chat : wire = <<line>>
      BY <2>2
    <3>2. Len(wire) = 1
      BY <3>1
    <3>3. CASE n = 1
      <4>1. wire' = wire
        BY <1>1, <1>2, <3>2, <3>3, SubSeqFull
      <4>2. QED
        BY <1>4, <1>6, <4>1 DEF Waiting, Current
    <3>4. CASE n # 1
      <4>1. n = 0
        BY <3>2, <3>4
      <4>2. wire' = <<>>
        BY <1>1, <4>1
      <4>3. <<>> \in Murmurs
        BY DEF Murmurs
      <4>4. QED
        BY <1>4, <1>6, <2>2, <4>2, <4>3 DEF Waiting, Current
    <3>5. QED
      BY <3>3, <3>4
  <2>3. QED
    BY <1>6, <2>1, <2>2 DEF Waiting
<1>7. ASSUME Answered PROVE Answered'
  <2>1. PICK q \in Seq(Frame), ok \in BOOLEAN, rest \in Seq(Line) : Comes(q, ok, rest)
    BY <1>7 DEF Answered
  <2>2. x \o rest \in Seq(Line)
    BY Joins
  <2>3. Pending' \o (x \o rest) = Pending \o rest
    <3>1. \A u, v, w \in Seq(Line) : (u \o v) \o w = u \o (v \o w)
      BY Rejoins
    <3>2. \A u, v \in Seq(Line) : u \o v \in Seq(Line)
      BY Joins
    <3>3. wire \o rest = wire' \o (x \o rest)
      BY <1>3, <3>1
    <3>4. CASE pc = "literal"
      <4>1. PICK d \in Seq(Line) : d = <<held>>
        BY <1>2, Rejoins
      <4>2. (d \o wire) \o rest = d \o (wire \o rest)
        BY <1>2, <3>1
      <4>3. (d \o wire') \o (x \o rest) = d \o (wire' \o (x \o rest))
        BY <1>3, <2>2, <3>1
      <4>4. Pending = d \o wire /\ Pending' = d \o wire'
        BY <1>4, <3>4, <4>1 DEF Pending
      <4>5. QED
        BY <3>3, <4>2, <4>3, <4>4
    <3>5. CASE pc # "literal"
      BY <1>4, <3>3, <3>5 DEF Pending
    <3>6. QED
      BY <3>4, <3>5
  <2>4. Comes(q, ok, x \o rest)'
    BY <1>4, <2>1, <2>3 DEF Comes
  <2>5. QED
    BY <1>4, <1>7, <2>2, <2>4 DEF Answered, Current
<1>8. Types'
  <2>1. TypeOK'
    BY <1>4 DEF Inv, Types, TypeOK, Tags
  <2>2. QED
    BY <1>3, <1>4, <2>1 DEF Inv, Types, Tags
<1>9. Order'
  BY <1>4, <1>5, <1>6, <1>7 DEF Inv, Order, Current, Tags
<1>10. History'
  BY <1>4 DEF Inv, History, OutcomeIsTheAnswer, FetchIsExact, ListedOnes, FetchedOnes, Since,
              Current, Tags
<1>11. OpenedOnes'
  BY <1>4 DEF Inv, OpenedOnes
<1>12. QED
  BY <1>8, <1>9, <1>10, <1>11 DEF Inv

\* An answer, after what has been said before it.
LEMMA ReplyStep ==
    ASSUME Inv, owed # "", NEW q \in Seq(Frame), NEW ok \in BOOLEAN,
           Reply(FlattenSeq(q), ok),
           mailbox' \subseteq {Unquote(wanted)}, mailbox' \subseteq Mailboxes,
           spelled' \subseteq Mailboxes, DOMAIN served' = Tags,
           \A k \in Tags : k # at => served'[k] = served[k],
           spelled' = spelled \/ script[at] = "list",
           mailbox' = mailbox \/ script[at] = "select",
           ok => \A c \in Murmurs :
                   Serves(c \o Responses(q), script[at], mailbox', served'[at], spelled')
    PROVE  Inv'
<1>1. Waiting /\ pc = "read" /\ at \in Tags /\ at \in Nat /\ wire \in Seq(Line) /\ held \in Line
  BY Basics DEF Inv, Order, Waiting, Types, TypeOK
<1>2. PICK t \in Line : t = Tagged(at, ok)
  BY <1>1, LineTypes
<1>3. PICK y \in Seq(Line) : y = FlattenSeq(q)
  BY StreamType
<1>4. PICK z \in Seq(Line) : z = y \o <<t>> /\ z = Append(y, t)
  <2>1. <<t>> \in Seq(Line)
    BY Rejoins
  <2>2. \A u, v \in Seq(Line) : u \o v \in Seq(Line)
    BY Joins
  <2>3. \A u \in Seq(Line), e \in Line : Append(u, e) = u \o <<e>>
    BY Rejoins
  <2>4. QED
    BY <2>1, <2>2, <2>3
<1>5. /\ wire' = wire \o z /\ owed' = ""
      /\ answered' = [answered EXCEPT ![at] = IF ok THEN "ok" ELSE "failed"]
      /\ UNCHANGED <<script, at, pc, held, got, outcome, fetched, folders, opened, wanted, closed>>
  BY <1>2, <1>3, <1>4 DEF Reply, client
<1>6. wire' \in Seq(Line)
  <2>1. \A u, v \in Seq(Line) : u \o v \in Seq(Line)
    BY Joins
  <2>2. QED
    BY <1>1, <1>5, <2>1
<1>7. DOMAIN answered = Tags /\ answered \in [Tags -> {"none", "ok", "failed"}]
  BY DEF Inv, Types, TypeOK
<1>8. /\ answered'[at] = IF ok THEN "ok" ELSE "failed"
      /\ answered' \in [Tags -> {"none", "ok", "failed"}]
      /\ \A k \in Tags : k # at => answered'[k] = answered[k]
  BY <1>1, <1>5, <1>7
<1>9. Tags' = Tags
  BY <1>5 DEF Tags
<1>10. PICK e \in Seq(Line) : e = <<>> /\ \A u \in Seq(Line) : u \o e = u /\ e \o u = u
  BY EmptySeq, ConcatEmptySeq
<1>11. \E p \in Seq(Frame) :
         /\ wire' = FlattenSeq(p) \o <<t>>
         /\ ok => Serves(got \o Responses(p), script[at], mailbox', served'[at], spelled')
  <2>1. CASE wire = <<>> /\ got \in Murmurs
    <3>1. wire' = FlattenSeq(q) \o <<t>>
      BY <1>3, <1>4, <1>5, <1>10, <2>1
    <3>2. QED
      BY <2>1, <3>1
  <2>2. CASE got = <<>> /\ \E line \in Chat : wire = <<line>>
    <3>1. PICK line \in Chat : wire = <<line>>
      BY <2>2
    <3>2. wire \in Frame /\ Resp(wire) \in Murmurs
      BY <3>1, ChatFrame
    <3>3. PICK p : p = <<wire>> \o q
      OBVIOUS
    <3>4. /\ p \in Seq(Frame) /\ FlattenSeq(p) = wire \o FlattenSeq(q)
          /\ Responses(p) = Resp(wire) \o Responses(q)
      BY <3>2, <3>3, StreamCons
    <3>5. wire' = FlattenSeq(p) \o <<t>>
      <4>1. \A u, v, w \in Seq(Line) : (u \o v) \o w = u \o (v \o w)
        BY Rejoins
      <4>2. <<t>> \in Seq(Line)
        BY Rejoins
      <4>3. (wire \o y) \o <<t>> = wire \o (y \o <<t>>)
        BY <1>1, <4>1, <4>2
      <4>4. QED
        BY <1>3, <1>4, <1>5, <3>4, <4>3
    <3>6. got \o Responses(p) = Responses(p)
      <4>1. Responses(p) \in Seq(Response)
        BY <3>4, StreamType
      <4>2. QED
        BY <2>2, <4>1, ConcatEmptySeq
    <3>7. ok => Serves(Responses(p), script[at], mailbox', served'[at], spelled')
      BY <3>2, <3>4
    <3>8. QED
      BY <3>4, <3>5, <3>6, <3>7
  <2>3. QED
    BY <1>1, <2>1, <2>2 DEF Waiting
<1>12. Answered'
  <2>1. PICK p \in Seq(Frame) :
         /\ wire' = FlattenSeq(p) \o <<t>>
         /\ ok => Serves(got \o Responses(p), script[at], mailbox', served'[at], spelled')
    BY <1>11
  <2>2. Pending' \o e = wire'
    BY <1>1, <1>5, <1>6, <1>10 DEF Pending
  <2>3. Comes(p, ok, e)'
    BY <1>2, <1>5, <1>8, <2>1, <2>2 DEF Comes
  <2>4. QED
    BY <1>5, <2>3 DEF Answered, Current
<1>13. Types'
  <2>1. TypeOK'
    BY <1>1, <1>5, <1>8, <1>9 DEF Inv, Types, TypeOK
  <2>2. QED
    BY <1>5, <1>6, <1>9, <2>1 DEF Inv, Types
<1>14. Order'
  BY <1>1, <1>5, <1>9, <1>12 DEF Inv, Order
<1>15. History'
  BY <1>1, <1>5, <1>8, Keeps
<1>16. OpenedOnes'
  BY <1>5 DEF Inv, OpenedOnes
<1>17. QED
  BY <1>13, <1>14, <1>15, <1>16 DEF Inv

\* What the server knows before it answers.
LEMMA Asked ==
    ASSUME Inv, owed # ""
    PROVE  /\ script[at] = owed /\ at \in Tags /\ mailbox \subseteq Mailboxes
           /\ spelled \subseteq Mailboxes /\ DOMAIN served = Tags
           /\ owed # "select" => mailbox \subseteq {Unquote(wanted)}
BY DEF Inv, Types, TypeOK, Order, Waiting, Current

\* The mailboxes are listed.
LEMMA ListStep == ASSUME Inv, List PROVE Inv'
<1>1. PICK form \in [Mailboxes -> {"quoted", "atom", "literal"}] :
        /\ \A b \in Mailboxes : form[b] \in Forms(b)
        /\ Reply(FlattenSeq([k \in DOMAIN SetToSeq(Mailboxes) |->
                    LET b == SetToSeq(Mailboxes)[k]
                    IN IF form[b] = "literal"
                       THEN <<Listed(b, "literal"), Piece("text"), Piece("text")>>
                       ELSE <<Listed(b, form[b])>>]), TRUE)
        /\ spelled' = {b \in Mailboxes : form[b] = "literal"}
  BY DEF List
<1>2. PICK q \in Seq(Frame) :
        /\ q = [k \in DOMAIN SetToSeq(Mailboxes) |->
                  ListFrame(SetToSeq(Mailboxes)[k], form[SetToSeq(Mailboxes)[k]])]
        /\ Responses(q) \in Seq(Response)
        /\ \A b \in Mailboxes : Plain(b) => form[b] = "literal" \/ Lists(Responses(q), b)
  BY <1>1, ListStream
<1>3. Reply(FlattenSeq(q), TRUE)
  BY <1>1, <1>2 DEF ListFrame
<1>4. owed = "list" /\ UNCHANGED <<mailbox, served>>
  BY DEF List
<1>5. ASSUME NEW c \in Murmurs
      PROVE  Serves(c \o Responses(q), script[at], mailbox', served'[at], spelled')
  <2>1. \A b \in Mailboxes : Plain(b) => b \in spelled' \/ Lists(c \o Responses(q), b)
    BY <1>1, <1>2, ListsSkip
  <2>2. QED
    BY <1>4, <2>1, Asked DEF Serves
<1>6. QED
  BY <1>1, <1>3, <1>4, <1>5, Asked, ReplyStep

\* A mailbox is selected, or is not there.
LEMMA SelectStep == ASSUME Inv, Select PROVE Inv'
<1>1. PICK line \in Line : line = Piece("status")
  BY LineTypes
<1>2. line.kind = "status" /\ line.literal = 0
  BY <1>1 DEF Piece
<1>3. <<line>> \in Frame
  BY <1>2, LineFrame
<1>4. PICK q \in Seq(Frame) : FlattenSeq(q) = <<line>>
  <2>1. PICK f \in Frame : f = <<line>>
    BY <1>3
  <2>2. <<f>> \in Seq(Frame) /\ FlattenSeq(<<f>>) = f
    BY FlatSimple
  <2>3. QED
    BY <2>1, <2>2
<1>5. (Unquote(wanted) \in Mailboxes) \in BOOLEAN
  OBVIOUS
<1>6. /\ owed = "select" /\ mailbox' = {Unquote(wanted)} \cap Mailboxes
      /\ Reply(FlattenSeq(q), Unquote(wanted) \in Mailboxes) /\ UNCHANGED <<served, spelled>>
  BY <1>1, <1>4 DEF Select
<1>7. \A c \in Murmurs : Serves(c \o Responses(q), script[at], mailbox', served'[at], spelled')
  BY <1>6, Asked DEF Serves
<1>8. QED
  BY <1>5, <1>6, <1>7, Asked, ReplyStep

\* Messages are sent.
LEMMA FetchStep == ASSUME Inv, FetchMessages PROVE Inv'
<1>1. PICK n \in 0..MaxFetch :
        \E text \in [1..n -> Texts], way \in [1..n -> Ways] :
            /\ served' = [served EXCEPT ![at] =
                            [k \in 1..n |-> [uid |-> k, way |-> way[k], body |-> {text[k]}]]]
            /\ Reply(FlattenSeq([k \in 1..n |-> Sent(k, way[k], text[k])]), TRUE)
  BY DEF FetchMessages
<1>2. PICK text \in [1..n -> Texts], way \in [1..n -> Ways] :
        /\ served' = [served EXCEPT ![at] =
                        [k \in 1..n |-> [uid |-> k, way |-> way[k], body |-> {text[k]}]]]
        /\ Reply(FlattenSeq([k \in 1..n |-> Sent(k, way[k], text[k])]), TRUE)
  BY <1>1
<1>3. n \in Nat /\ owed = "fetch" /\ mailbox # {} /\ UNCHANGED <<mailbox, spelled>>
  BY DEF FetchMessages
<1>4. PICK q \in Seq(Frame) : q = [k \in 1..n |-> Sent(k, way[k], text[k])]
  BY <1>3, FetchStream
<1>5. PICK r \in Seq(Response) :
        Responses(q) = r /\ r = [k \in 1..n |-> Got(k, way[k], text[k])]
  BY <1>3, <1>4, FetchStream
<1>6. PICK s : s = [k \in 1..n |-> [uid |-> k, way |-> way[k], body |-> {text[k]}]]
  OBVIOUS
<1>7. Messages(r) = Whole(s)
  <2>1. Messages([k \in 1..n |-> Got(k, way[k], text[k])])
          = Whole([k \in 1..n |-> [uid |-> k, way |-> way[k], body |-> {text[k]}]])
    BY <1>3, FetchedWhole
  <2>2. QED
    BY <1>5, <1>6, <2>1
<1>8. /\ served'[at] = s /\ DOMAIN served' = Tags
      /\ \A k \in Tags : k # at => served'[k] = served[k]
  BY <1>2, <1>3, <1>6, Asked
<1>9. ASSUME NEW c \in Murmurs
      PROVE  Serves(c \o Responses(q), script[at], mailbox', served'[at], spelled')
  <2>1. Messages(c \o Responses(q)) = Messages(r)
    BY <1>5, MessagesSkip
  <2>2. QED
    BY <1>3, <1>7, <1>8, <2>1, Asked DEF Serves
<1>10. Reply(FlattenSeq(q), TRUE)
  BY <1>2, <1>4
<1>11. QED
  BY <1>3, <1>8, <1>9, <1>10, Asked, ReplyStep

\* Flags are changed, and sent along.
LEMMA StoreStep == ASSUME Inv, Store PROVE Inv'
<1>1. PICK line \in Line : line = Fetch(1, 0)
  BY LineTypes
<1>2. line.kind = "fetch" /\ line.literal = 0
  BY <1>1 DEF Fetch, Piece
<1>3. <<line>> \in Frame
  BY <1>2, LineFrame
<1>4. PICK q \in Seq(Frame) : FlattenSeq(q) = <<line>>
  <2>1. PICK f \in Frame : f = <<line>>
    BY <1>3
  <2>2. <<f>> \in Seq(Frame) /\ FlattenSeq(<<f>>) = f
    BY FlatSimple
  <2>3. QED
    BY <2>1, <2>2
<1>5. owed = "store" /\ Reply(FlattenSeq(q), TRUE) /\ UNCHANGED <<mailbox, served, spelled>>
  BY <1>1, <1>4 DEF Store
<1>6. \A c \in Murmurs : Serves(c \o Responses(q), script[at], mailbox', served'[at], spelled')
  BY <1>5, Asked DEF Serves
<1>7. QED
  BY <1>5, <1>6, Asked, ReplyStep

\* A command is refused.
LEMMA RefuseStep == ASSUME Inv, Refuse PROVE Inv'
<1>1. PICK q \in Seq(Frame) : q = <<>> /\ FlattenSeq(q) = <<>>
  BY StreamEmpty, FlatSimple
<1>2. /\ owed # "" /\ Reply(FlattenSeq(q), FALSE) /\ UNCHANGED <<served, spelled>>
      /\ mailbox' = IF owed = "select" THEN {} ELSE mailbox
  BY <1>1 DEF Refuse
<1>3. QED
  BY <1>2, Asked, ReplyStep

\* Every step keeps the invariant.
LEMMA Step == Inv /\ [Next]_vars => Inv'
<1>1. ASSUME Inv, UNCHANGED vars PROVE Inv'
  <2>1. /\ UNCHANGED <<script, at, pc, held, got, outcome, fetched, folders, opened>>
        /\ UNCHANGED <<wire, owed, wanted, mailbox, answered, served, spelled, closed>>
    BY <1>1 DEF vars, client, server
  <2>2. Types'
    BY <1>1, <2>1 DEF Inv, Types, TypeOK, Tags
  <2>3. (Waiting <=> Waiting') /\ (Answered <=> Answered')
    BY <2>1 DEF Waiting, Answered, Comes, Pending, Current
  <2>4. Order'
    BY <1>1, <2>1, <2>3 DEF Inv, Order, Current, Tags
  <2>5. History'
    BY <1>1, <2>1 DEF Inv, History, OutcomeIsTheAnswer, FetchIsExact, ListedOnes, FetchedOnes,
                      Since, Current, Tags
  <2>6. OpenedOnes'
    BY <1>1, <2>1 DEF Inv, OpenedOnes
  <2>7. QED
    BY <2>2, <2>4, <2>5, <2>6 DEF Inv
<1>2. QED
  BY <1>1, WriteStep, ReadStep, LiteralStep, BrokenStep, ListStep, SelectStep, FetchStep, StoreStep,
     RefuseStep, ChatterStep, CloseStep DEF Next, Client, Answer

\* So it always holds.
LEMMA Invariant == Spec => []Inv
BY Start, Step, PTL DEF Spec

-----------------------------------------------------------------------------
(***************************************************************************)
(* What it says of the client.                                              *)
(***************************************************************************)

\* Every variable stays within its type, the command the client is at within its script.
THEOREM TypeCorrect == Spec => []TypeOK
<1>1. Inv => TypeOK
  BY DEF Inv, Types
<1>2. QED
  BY <1>1, Invariant, PTL

\* Whatever a message quotes, whatever is said in between and wherever the connection is
\* cut, an outcome the client notes is the answer the server gave to that command.
THEOREM OutcomesAreAnswers == Spec => []OutcomeIsTheAnswer
<1>1. Inv => OutcomeIsTheAnswer
  BY DEF Inv, History
<1>2. QED
  BY <1>1, Invariant, PTL

\* A fetch that has succeeded has brought in exactly the messages that came as literals
\* after their UIDs, whole and in order, and nothing that is no message.
THEOREM FetchesAreExact == Spec => []FetchIsExact
<1>1. Inv => FetchIsExact
  BY DEF Inv, History
<1>2. QED
  BY <1>1, Invariant, PTL

\* A folder goes to the server by its name in the table, and under a plain name it is listed
\* and selected as the mailbox it stands for.
THEOREM FoldersStandForMailboxes == Spec => []FoldersAreMailboxes
<1>1. QED
  BY InvImplies, Invariant, PTL
=============================================================================
