------------------------ MODULE NetStateFeedbackProofs ------------------------
(***************************************************************************)
(* Theorems about NetStateFeedback, for all values of its constants.  The  *)
(* first part is about its recursive functions, by induction on the number *)
(* of turns of the loops they stand for; then the receiver's record and    *)
(* reports, and the reports of the Zhuge AP.                               *)
(***************************************************************************)
EXTENDS NetStateFeedback, FiniteSetTheorems, SequenceTheorems, NaturalsInduction,
        WellFoundedInduction, TLAPS

LEMMA SmallestNat ==
    ASSUME NEW S \in SUBSET Nat, S # {}
    PROVE  \E x \in S : \A y \in S : x <= y
<1>1. PICK x \in S : \A y \in S : ~(<<y, x>> \in OpToRel(<, Nat))
    BY NatLessThanWellFounded, WFMin, Zenon
<1>2. SUFFICES ASSUME NEW y \in S PROVE x <= y
    OBVIOUS
<1>3. ~(<<y, x>> \in OpToRel(<, Nat))
    BY <1>1
<1>4. ~(y < x)
    BY <1>3, Zenon DEF OpToRel
<1> QED BY <1>4

\* Induction on the numbers up to n, for a set of numbers in the place of a
\* predicate, which the provers cannot instantiate.
LEMMA UpTo ==
    ASSUME NEW n \in Nat, NEW P, 0 \in P, \A k \in 0 .. n - 1 : k \in P => k + 1 \in P
    PROVE  \A k \in 0 .. n : k \in P
<1> DEFINE Bad == {k \in 0 .. n : k \notin P}
<1> SUFFICES ASSUME Bad # {}  PROVE FALSE  OBVIOUS
<1>1. PICK m \in Bad : \A y \in Bad : m <= y
  <2>1. Bad \in SUBSET Nat  OBVIOUS
  <2> QED  BY <2>1, SmallestNat
<1>2. m # 0 /\ m \in 0 .. n /\ m \notin P  OBVIOUS
<1>3. m - 1 \in 0 .. n - 1 /\ m - 1 \notin Bad  BY <1>1, <1>2
<1>4. m - 1 \in P  BY <1>3
<1>5. (m - 1) + 1 = m  BY <1>2
<1> QED  BY <1>2, <1>3, <1>4, <1>5

\* A function defined by recursion on the numbers up to n exists.
\* Both sides of the lemma below are operators: as formulas with a function
\* space the provers cannot instantiate them.
IsStep(step, n, S) == step \in [(1 .. n) \X S -> S]

Recursion(f, n, S, base, step) ==
    f \in [0 .. n -> S] /\ f[0] = base /\ \A k \in 1 .. n : f[k] = step[<<k, f[k - 1]>>]

LEMMA RecursionExists ==
    ASSUME NEW n \in Nat, NEW S, NEW base \in S, NEW step, IsStep(step, n, S)
    PROVE  \E f : Recursion(f, n, S, base, step)
<1> DEFINE Is(m, f) == f[0] = base /\ \A k \in 1 .. m : f[k] = step[<<k, f[k - 1]>>]
           P == {m \in 0 .. n : \E f \in [0 .. m -> S] : Is(m, f)}
<1>1. 0 \in P
  <2> DEFINE f == [k \in 0 .. 0 |-> base]
  <2>1. f \in [0 .. 0 -> S] /\ Is(0, f)  OBVIOUS
  <2> HIDE DEF f, Is
  <2> QED  BY <2>1
<1>2. ASSUME NEW m \in 0 .. n - 1, m \in P  PROVE m + 1 \in P
  <2>1. PICK f \in [0 .. m -> S] : Is(m, f)  BY <1>2
  <2> DEFINE g == [k \in 0 .. m + 1 |-> IF k = m + 1 THEN step[<<m + 1, f[m]>>] ELSE f[k]]
  <2>2. <<m + 1, f[m]>> \in (1 .. n) \X S  BY <2>1
  <2>3. g \in [0 .. m + 1 -> S]  BY <2>1, <2>2 DEF IsStep
  <2>4. g[0] = base  BY <2>1
  <2>5. ASSUME NEW k \in 1 .. m + 1  PROVE g[k] = step[<<k, g[k - 1]>>]
    <3>1. CASE k = m + 1
      <4>1. k - 1 = m /\ g[k] = step[<<k, f[m]>>]  BY <3>1
      <4>2. g[m] = f[m]  OBVIOUS
      <4>3. g[k - 1] = f[m]  BY <4>1, <4>2
      <4> HIDE DEF g
      <4> QED  BY <4>1, <4>3
    <3>2. CASE k \in 1 .. m
      <4>1. g[k] = f[k] /\ g[k - 1] = f[k - 1]  BY <3>2
      <4> QED  BY <2>1, <3>2, <4>1
    <3> QED  BY <3>1, <3>2
  <2>6. Is(m + 1, g)  BY <2>4, <2>5
  <2> HIDE DEF g, Is
  <2> QED  BY <2>3, <2>6
<1>3. n \in P
  <2> HIDE DEF P
  <2> QED  BY <1>1, <1>2, UpTo
<1> QED  BY <1>3 DEF Recursion

\* One turn of the loop that slides the window, and the states between turns.
SlidTurn(s, k, w) ==
    IF w.pass \/ ~Stale(s[k])
    THEN [out |-> Append(w.out, s[k]), gone |-> w.gone, pass |-> FALSE]
    ELSE [out |-> w.out, gone |-> w.gone + 1,
          pass |-> k - 1 - w.gone >= (Len(s) - w.gone) \div 2]

SlidStates(T) == [out : Seq(T), gone : Nat, pass : BOOLEAN]

LEMMA SlidTurnTyped ==
    ASSUME NEW T, NEW s \in Seq(T), NEW k \in 1 .. Len(s), NEW w \in SlidStates(T)
    PROVE  SlidTurn(s, k, w) \in SlidStates(T)
<1>1. w.out \in Seq(T) /\ w.gone \in Nat /\ s[k] \in T  BY ElementOfSeq DEF SlidStates
<1>2. Append(w.out, s[k]) \in Seq(T)  BY <1>1, AppendProperties
<1> QED  BY <1>1, <1>2 DEF SlidTurn, SlidStates

LEMMA SlidWalk ==
    ASSUME NEW T, NEW s \in Seq(T)
    PROVE  \E walk :
              /\ walk[0] = [out |-> <<>>, gone |-> 0, pass |-> FALSE]
              /\ \A k \in 1 .. Len(s) : walk[k] = SlidTurn(s, k, walk[k - 1])
              /\ Slid(s) = walk[Len(s)].out
<1> DEFINE n == Len(s)
           base == [out |-> <<>>, gone |-> 0, pass |-> FALSE]
           step == [x \in (1 .. n) \X SlidStates(T) |-> SlidTurn(s, x[1], x[2])]
           Body(f) == [k \in 0 .. Len(s) |-> IF k = 0 THEN base ELSE SlidTurn(s, k, f[k - 1])]
           walk == CHOOSE f : f = Body(f)
<1>1. n \in Nat  BY LenProperties
<1>2. base \in SlidStates(T)  BY DEF SlidStates
<1>3. IsStep(step, n, SlidStates(T))  BY SlidTurnTyped DEF IsStep
<1>4. PICK f : Recursion(f, n, SlidStates(T), base, step)
  <2> HIDE DEF base, step, n
  <2> QED  BY <1>1, <1>2, <1>3, RecursionExists
<1>5. /\ f \in [0 .. n -> SlidStates(T)] /\ f[0] = base
      /\ \A k \in 1 .. n : f[k] = SlidTurn(s, k, f[k - 1])
  <2>1. /\ f \in [0 .. n -> SlidStates(T)] /\ f[0] = base
        /\ \A k \in 1 .. n : f[k] = step[<<k, f[k - 1]>>]
    <3> HIDE DEF base, step, n
    <3> QED  BY <1>4 DEF Recursion
  <2>2. ASSUME NEW k \in 1 .. n  PROVE f[k] = SlidTurn(s, k, f[k - 1])
    <3>1. f[k - 1] \in SlidStates(T)  BY <1>1, <2>1
    <3>2. <<k, f[k - 1]>> \in (1 .. n) \X SlidStates(T)  BY <3>1
    <3> QED  BY <2>1, <3>2
  <2> QED  BY <2>1, <2>2
<1>6. f = Body(f)
  <2> HIDE DEF base
  <2>1. \A k \in 0 .. n : f[k] = IF k = 0 THEN base ELSE SlidTurn(s, k, f[k - 1])
    BY <1>1, <1>5
  <2> QED  BY <1>5, <2>1
<1>7. walk = Body(walk)
  <2> HIDE DEF Body
  <2> QED  BY <1>6, Zenon
<1>8. Slid(s) = walk[Len(s)].out  BY Zenon DEF Slid, SlidTurn
<1>9. walk[0] = base /\ \A k \in 1 .. n : walk[k] = SlidTurn(s, k, walk[k - 1])
  <2> DEFINE b == Body(walk)
  <2>1. b[0] = base /\ \A k \in 1 .. n : b[k] = SlidTurn(s, k, walk[k - 1])
    <3> HIDE DEF base, walk
    <3> QED  BY <1>1
  <2> HIDE DEF Body, base, walk
  <2> QED  BY <1>7, <2>1, Zenon
<1> HIDE DEF walk
<1> QED  BY <1>8, <1>9

\* The entries of a record, and a record in sending order.
Entries(s) == {s[i] : i \in 1 .. Len(s)}
Ordered(s) == \A i, j \in 1 .. Len(s) : i < j => s[i].n < s[j].n

\* What is appended to a sequence.
LEMMA Appended ==
    ASSUME NEW T, NEW s \in Seq(T), NEW e \in T
    PROVE  /\ Append(s, e) \in Seq(T)
           /\ Len(Append(s, e)) = Len(s) + 1
           /\ \A i \in 1 .. Len(s) : Append(s, e)[i] = s[i]
           /\ Append(s, e)[Len(s) + 1] = e
           /\ Entries(Append(s, e)) = Entries(s) \cup {e}
<1>1. /\ Append(s, e) \in Seq(T) /\ Len(Append(s, e)) = Len(s) + 1
      /\ \A i \in 1 .. Len(s) : Append(s, e)[i] = s[i]
      /\ Append(s, e)[Len(s) + 1] = e
  BY AppendProperties
<1>2. Len(s) \in Nat /\ 1 .. Len(s) + 1 = (1 .. Len(s)) \cup {Len(s) + 1}  BY LenProperties
<1> QED  BY <1>1, <1>2 DEF Entries

LEMMA AppendedOrdered ==
    ASSUME NEW T, \A e \in T : e.n \in Int, NEW s \in Seq(T), NEW e \in T,
           Ordered(s), \A x \in Entries(s) : x.n < e.n
    PROVE  Ordered(Append(s, e))
<1> DEFINE a == Append(s, e)
<1>1. /\ Len(a) = Len(s) + 1 /\ a[Len(s) + 1] = e
      /\ \A i \in 1 .. Len(s) : a[i] = s[i]
  BY Appended
<1>2. Len(s) \in Nat  BY LenProperties
<1> HIDE DEF a
<1>3. SUFFICES ASSUME NEW i \in 1 .. Len(a), NEW j \in 1 .. Len(a), i < j
               PROVE  a[i].n < a[j].n
  BY DEF Ordered, a
<1>4. i \in 1 .. Len(s)  BY <1>1, <1>2, <1>3
<1>5. CASE j = Len(s) + 1  BY <1>1, <1>4, <1>5 DEF Entries
<1>6. CASE j \in 1 .. Len(s)  BY <1>1, <1>3, <1>4, <1>6 DEF Ordered
<1> QED  BY <1>1, <1>2, <1>5, <1>6

\* Sliding keeps the order, and every entry that is not too old.
LEMMA SlidKeeps ==
    ASSUME NEW T, \A e \in T : e.n \in Int, NEW s \in Seq(T), Ordered(s)
    PROVE  /\ Slid(s) \in Seq(T) /\ Ordered(Slid(s))
           /\ Entries(Slid(s)) \subseteq Entries(s)
           /\ \A e \in Entries(s) : ~Stale(e) => e \in Entries(Slid(s))
<1>1. PICK walk : /\ walk[0] = [out |-> <<>>, gone |-> 0, pass |-> FALSE]
                  /\ \A k \in 1 .. Len(s) : walk[k] = SlidTurn(s, k, walk[k - 1])
                  /\ Slid(s) = walk[Len(s)].out
  BY SlidWalk
<1> DEFINE first(k) == {s[i] : i \in 1 .. k}
           P == {k \in 0 .. Len(s) :
                    /\ walk[k] \in SlidStates(T) /\ Ordered(walk[k].out)
                    /\ Entries(walk[k].out) \subseteq first(k)
                    /\ \A e \in first(k) : ~Stale(e) => e \in Entries(walk[k].out)}
<1>2. Len(s) \in Nat  BY LenProperties
<1>3. 0 \in P
  <2>1. walk[0].out = <<>> /\ walk[0] \in SlidStates(T)  BY <1>1 DEF SlidStates
  <2>2. Len(<<>>) = 0  OBVIOUS
  <2> QED  BY <1>2, <2>1, <2>2 DEF Ordered, Entries
<1>4. ASSUME NEW m \in 0 .. Len(s) - 1, m \in P  PROVE m + 1 \in P
  <2> DEFINE k == m + 1
             w == walk[m]
  <2>1. k \in 1 .. Len(s) /\ k - 1 = m /\ s[k] \in T  BY <1>2, ElementOfSeq
  <2>2. /\ w \in SlidStates(T) /\ Ordered(w.out) /\ Entries(w.out) \subseteq first(m)
        /\ \A e \in first(m) : ~Stale(e) => e \in Entries(w.out)
    BY <1>4
  <2>3. walk[k] = SlidTurn(s, k, w)  BY <1>1, <2>1
  <2>4. walk[k] \in SlidStates(T)
    <3> HIDE DEF k, w
    <3> QED  BY <2>1, <2>2, <2>3, SlidTurnTyped
  <2>5. first(k) = first(m) \cup {s[k]}
    <3>1. 1 .. k = (1 .. m) \cup {k}  OBVIOUS
    <3> QED  BY <3>1
  <2>6. w.out \in Seq(T)  BY <2>2 DEF SlidStates
  <2>7. CASE w.pass \/ ~Stale(s[k])
    <3>1. walk[k].out = Append(w.out, s[k])  BY <2>3, <2>7 DEF SlidTurn
    <3> DEFINE o == w.out
               a == Append(o, s[k])
    <3>2. o \in Seq(T) /\ Entries(a) = Entries(o) \cup {s[k]}
      <4> HIDE DEF o, k
      <4>1. o \in Seq(T)  BY <2>6 DEF o
      <4> QED  BY <4>1, <2>1, Appended
    <3>3. \A x \in Entries(o) : x.n < s[k].n
      <4> SUFFICES ASSUME NEW x \in Entries(o)  PROVE x.n < s[k].n  OBVIOUS
      <4>1. PICK i \in 1 .. m : x = s[i]  BY <2>2
      <4>2. i \in 1 .. Len(s) /\ i < k  BY <1>2, <2>1
      <4> HIDE DEF k, o
      <4> QED  BY <2>1, <4>1, <4>2 DEF Ordered
    <3>4. Ordered(a)
      <4>1. Ordered(o)  BY <2>2
      <4> HIDE DEF o, k
      <4> QED  BY <4>1, <3>2, <3>3, <2>1, AppendedOrdered
    <3>5. /\ Entries(a) \subseteq first(k)
          /\ \A e \in first(k) : ~Stale(e) => e \in Entries(a)
      <4> HIDE DEF a, first, k
      <4> QED  BY <2>2, <2>5, <3>2 DEF o
    <3>6. walk[k].out = a  BY <3>1
    <3> HIDE DEF first, a, k, w
    <3>7. /\ Ordered(walk[k].out) /\ Entries(walk[k].out) \subseteq first(k)
          /\ \A e \in first(k) : ~Stale(e) => e \in Entries(walk[k].out)
      BY <3>4, <3>5, <3>6
    <3> QED  BY <2>1, <2>4, <3>7 DEF k
  <2>8. CASE ~w.pass /\ Stale(s[k])
    <3>1. walk[k].out = w.out  BY <2>3, <2>8 DEF SlidTurn
    <3> HIDE DEF first, k, w
    <3> QED  BY <2>1, <2>2, <2>4, <2>5, <2>8, <3>1 DEF k
  <2> QED  BY <2>7, <2>8
<1>5. Len(s) \in P
  <2>1. \A k \in 0 .. Len(s) : k \in P
    <3> HIDE DEF P
    <3> QED  BY <1>2, <1>3, <1>4, UpTo
  <2> QED  BY <1>2, <2>1
<1> QED  BY <1>1, <1>5, ZenonT(60) DEF SlidStates, Entries

\* A sequence t is s with e put behind its k-th entry.
IsSplice(t, s, e, k) ==
    /\ Len(t) = Len(s) + 1
    /\ \A i \in 1 .. Len(s) + 1 :
          t[i] = IF i <= k THEN s[i] ELSE IF i = k + 1 THEN e ELSE s[i - 1]

LEMMA Spliced ==
    ASSUME NEW T, NEW s \in Seq(T), NEW e \in T, NEW k \in 1 .. Len(s)
    PROVE  LET t == SubSeq(s, 1, k) \o <<e>> \o SubSeq(s, k + 1, Len(s))
           IN  t \in Seq(T) /\ IsSplice(t, s, e, k)
<1> DEFINE t == SubSeq(s, 1, k) \o <<e>> \o SubSeq(s, k + 1, Len(s))
           a == SubSeq(s, 1, k)
           b == a \o <<e>>
           c == SubSeq(s, k + 1, Len(s))
<1>1. Len(s) \in Nat  BY LenProperties
<1>2. a \in Seq(T) /\ Len(a) = k /\ \A i \in 1 .. k : a[i] = s[i]
  <2>1. \A i \in 1 .. k : s[i] \in T  BY <1>1, ElementOfSeq
  <2> QED  BY <1>1, <2>1, SubSeqProperties
<1>3. c \in Seq(T) /\ Len(c) = Len(s) - k /\ \A i \in 1 .. Len(s) - k : c[i] = s[k + i]
  <2>1. \A i \in k + 1 .. Len(s) : s[i] \in T  BY <1>1, ElementOfSeq
  <2> QED  BY <1>1, <2>1, SubSeqProperties
<1> HIDE DEF a, c
<1>4. <<e>> \in Seq(T) /\ Len(<<e>>) = 1 /\ <<e>>[1] = e  OBVIOUS
<1>5. b \in Seq(T) /\ Len(b) = k + 1 /\ b[k + 1] = e /\ \A i \in 1 .. k : b[i] = s[i]
  BY <1>2, <1>4, ConcatProperties
<1>6. t = b \o c  BY DEF a, b, c
<1> HIDE DEF b, t
<1>7. /\ t \in Seq(T) /\ Len(t) = Len(b) + Len(c)
      /\ \A i \in 1 .. Len(b) + Len(c) : t[i] = IF i <= Len(b) THEN b[i] ELSE c[i - Len(b)]
  BY <1>3, <1>5, <1>6, ConcatProperties
<1>8. /\ Len(t) = Len(s) + 1
      /\ \A i \in 1 .. Len(s) + 1 : t[i] = IF i <= k + 1 THEN b[i] ELSE c[i - (k + 1)]
  BY <1>1, <1>3, <1>5, <1>7
<1>9. \A i \in k + 2 .. Len(s) + 1 : c[i - (k + 1)] = s[i - 1]
  <2> SUFFICES ASSUME NEW i \in k + 2 .. Len(s) + 1  PROVE c[i - (k + 1)] = s[i - 1]
    OBVIOUS
  <2>1. i - (k + 1) \in 1 .. Len(s) - k /\ k + (i - (k + 1)) = i - 1  BY <1>1
  <2> QED  BY <1>3, <2>1
<1>10. IsSplice(t, s, e, k)
  <2> SUFFICES ASSUME NEW i \in 1 .. Len(s) + 1
               PROVE  t[i] = IF i <= k THEN s[i] ELSE IF i = k + 1 THEN e ELSE s[i - 1]
    BY <1>8 DEF IsSplice
  <2>1. CASE i <= k  BY <1>1, <1>5, <1>8, <2>1
  <2>2. CASE i = k + 1  BY <1>1, <1>5, <1>8, <2>2
  <2>3. CASE i > k + 1  BY <1>1, <1>8, <1>9, <2>3
  <2> QED  BY <1>1, <2>1, <2>2, <2>3
<1> QED  BY <1>7, <1>10 DEF t

LEMMA Fronted ==
    ASSUME NEW T, NEW s \in Seq(T), NEW e \in T
    PROVE  <<e>> \o s \in Seq(T) /\ IsSplice(<<e>> \o s, s, e, 0)
<1> DEFINE h == <<e>>
           t == h \o s
<1>1. Len(s) \in Nat  BY LenProperties
<1>2. h \in Seq(T) /\ Len(h) = 1 /\ h[1] = e  OBVIOUS
<1> HIDE DEF h
<1>3. /\ t \in Seq(T) /\ Len(t) = Len(h) + Len(s)
      /\ \A i \in 1 .. Len(h) + Len(s) : t[i] = IF i <= Len(h) THEN h[i] ELSE s[i - Len(h)]
  BY <1>2, ConcatProperties
<1> HIDE DEF t
<1>4. IsSplice(t, s, e, 0)
  <2> SUFFICES ASSUME NEW i \in 1 .. Len(s) + 1
               PROVE  t[i] = IF i <= 0 THEN s[i] ELSE IF i = 1 THEN e ELSE s[i - 1]
    BY <1>1, <1>2, <1>3 DEF IsSplice
  <2>1. CASE i = 1  BY <1>1, <1>2, <1>3, <2>1
  <2>2. CASE i > 1  BY <1>1, <1>2, <1>3, <2>2
  <2> QED  BY <1>1, <2>1, <2>2
<1> QED  BY <1>3, <1>4 DEF t, h

\* A new entry finds its place, and only that is new.
LEMMA InsertedKeeps ==
    ASSUME NEW T, \A x \in T : x.n \in Int, NEW s \in Seq(T), NEW e \in T, Ordered(s),
           \A x \in Entries(s) :
              /\ x.n # e.n
              /\ LessThan(Id(x.n), Id(e.n)) <=> x.n < e.n
              /\ LessThan(Id(e.n), Id(x.n)) <=> e.n < x.n
    PROVE  /\ Inserted(s, e) \in Seq(T) /\ Len(Inserted(s, e)) = Len(s) + 1
           /\ Ordered(Inserted(s, e))
           /\ Entries(Inserted(s, e)) = Entries(s) \cup {e}
<1> DEFINE t == Inserted(s, e)
           lower == {k \in 1 .. Len(s) : LessThan(Id(s[k].n), Id(e.n))}
           At(k) == /\ t \in Seq(T) /\ IsSplice(t, s, e, k)
                    /\ \A i \in 1 .. k : s[i].n < e.n
                    /\ \A i \in k + 1 .. Len(s) : e.n < s[i].n
<1>1. Len(s) \in Nat /\ \A i \in 1 .. Len(s) : s[i] \in T /\ s[i].n \in Int /\ e.n \in Int
  BY LenProperties, ElementOfSeq
<1>2. \A i \in 1 .. Len(s) :
         /\ s[i].n # e.n
         /\ LessThan(Id(s[i].n), Id(e.n)) <=> s[i].n < e.n
         /\ LessThan(Id(e.n), Id(s[i].n)) <=> e.n < s[i].n
  BY DEF Entries
<1>3. \E k \in 0 .. Len(s) : At(k)
  <2>1. CASE s = <<>> \/ LessThan(Id(e.n), Id(s[1].n))
    <3>1. t = <<e>> \o s  BY <2>1 DEF Inserted
    <3>2. t \in Seq(T) /\ IsSplice(t, s, e, 0)
      <4> HIDE DEF t
      <4> QED  BY <3>1, Fronted
    <3>3. \A i \in 1 .. Len(s) : e.n < s[i].n
      <4> SUFFICES ASSUME NEW i \in 1 .. Len(s)  PROVE e.n < s[i].n  OBVIOUS
      <4>1. s # <<>>  BY <1>1, EmptySeq
      <4>2. e.n < s[1].n  BY <1>1, <1>2, <2>1, <4>1
      <4>3. i = 1 \/ s[1].n < s[i].n  BY <1>1 DEF Ordered
      <4> QED  BY <1>1, <4>2, <4>3
    <3>4. At(0)
      <4> HIDE DEF t
      <4> QED  BY <1>1, <3>2, <3>3
    <3> QED  BY <1>1, <3>4
  <2>2. CASE ~(s = <<>> \/ LessThan(Id(e.n), Id(s[1].n)))
    <3>1. 1 \in 1 .. Len(s)  BY <1>1, <2>2, EmptySeq
    <3>2. 1 \in lower  BY <1>1, <1>2, <2>2, <3>1
    <3> DEFINE back == {x \in Nat : Len(s) - x \in lower}
               k == CHOOSE k \in lower : \A l \in lower : l <= k
    <3>3. PICK x \in back : \A y \in back : x <= y
      <4>1. Len(s) - 1 \in back  BY <1>1, <3>2
      <4> HIDE DEF lower
      <4> QED  BY <4>1, SmallestNat
    <3>4. Len(s) - x \in lower /\ \A l \in lower : l <= Len(s) - x
      <4> SUFFICES ASSUME NEW l \in lower  PROVE l <= Len(s) - x
        BY <3>3
      <4>1. l \in 1 .. Len(s)  OBVIOUS
      <4>2. Len(s) - l \in Nat /\ Len(s) - (Len(s) - l) = l  BY <1>1, <4>1
      <4>3. Len(s) - l \in back
        <5> HIDE DEF lower
        <5> QED  BY <4>2
      <4>4. x <= Len(s) - l /\ x \in Nat  BY <3>3, <4>3
      <4> HIDE DEF back, lower
      <4> QED  BY <1>1, <4>1, <4>4
    <3>5. k \in lower /\ \A l \in lower : l <= k
      <4> HIDE DEF lower
      <4> QED  BY <3>4, Zenon
    <3>6. t = SubSeq(s, 1, k) \o <<e>> \o SubSeq(s, k + 1, Len(s))
      BY <2>2, <3>2, Zenon DEF Inserted
    <3>7. t \in Seq(T) /\ IsSplice(t, s, e, k)
      <4>1. k \in 1 .. Len(s)  BY <3>5
      <4> HIDE DEF t, k
      <4> QED  BY <3>6, <4>1, Spliced
    <3> HIDE DEF k, t
    <3>8. k \in 1 .. Len(s) /\ s[k].n < e.n  BY <1>2, <3>5
    <3>9. \A i \in 1 .. k : s[i].n < e.n
      <4> SUFFICES ASSUME NEW i \in 1 .. k  PROVE s[i].n < e.n  OBVIOUS
      <4>1. i \in 1 .. Len(s) /\ (i = k \/ s[i].n < s[k].n)  BY <1>1, <3>8 DEF Ordered
      <4> QED  BY <1>1, <3>8, <4>1
    <3>10. \A i \in k + 1 .. Len(s) : e.n < s[i].n
      <4> SUFFICES ASSUME NEW i \in k + 1 .. Len(s)  PROVE e.n < s[i].n  OBVIOUS
      <4>1. i \in 1 .. Len(s) /\ i \notin lower  BY <1>1, <3>5, <3>8
      <4>2. ~(s[i].n < e.n) /\ s[i].n # e.n  BY <1>2, <4>1
      <4> QED  BY <1>1, <4>1, <4>2
    <3>11. k \in 0 .. Len(s) /\ At(k)  BY <3>7, <3>8, <3>9, <3>10
    <3> HIDE DEF At
    <3> QED  BY <3>11, Zenon
  <2> QED  BY <2>1, <2>2
<1>4. PICK k \in 0 .. Len(s) : At(k)  BY <1>3
<1>4a. /\ \A i \in 1 .. k : i \in 1 .. Len(s) /\ t[i] = s[i]
       /\ t[k + 1] = e
       /\ \A i \in k + 2 .. Len(s) + 1 : i - 1 \in k + 1 .. Len(s) /\ t[i] = s[i - 1]
       /\ Len(t) = Len(s) + 1
  <2> HIDE DEF t
  <2> QED  BY <1>1, <1>4 DEF IsSplice
<1>4b. /\ \A i \in 1 .. k : s[i].n < e.n
       /\ \A i \in k + 1 .. Len(s) : e.n < s[i].n
  BY <1>4
<1> HIDE DEF t, lower
<1>5. Ordered(t)
  <2> SUFFICES ASSUME NEW i \in 1 .. Len(s) + 1, NEW j \in 1 .. Len(s) + 1, i < j
               PROVE  t[i].n < t[j].n
    BY <1>4a DEF Ordered
  <2>1. CASE j <= k
    <3>1. i \in 1 .. Len(s) /\ j \in 1 .. Len(s) /\ t[i] = s[i] /\ t[j] = s[j]
      BY <1>1, <1>4a, <2>1
    <3> QED  BY <3>1 DEF Ordered
  <2>2. CASE i <= k /\ j = k + 1
    <3>1. t[i] = s[i] /\ s[i].n < e.n /\ t[j] = e  BY <1>1, <1>4a, <1>4b, <2>2
    <3> QED  BY <3>1
  <2>3. CASE i <= k /\ j > k + 1
    <3>1. /\ i \in 1 .. Len(s) /\ j - 1 \in 1 .. Len(s) /\ i < j - 1
          /\ t[i] = s[i] /\ t[j] = s[j - 1]
      BY <1>1, <1>4a, <2>3
    <3> QED  BY <3>1 DEF Ordered
  <2>4. CASE i = k + 1
    <3>1. /\ j - 1 \in k + 1 .. Len(s) /\ t[j] = s[j - 1] /\ t[i] = e
      BY <1>1, <1>4a, <2>4
    <3>2. e.n < s[j - 1].n  BY <1>4b, <3>1
    <3> QED  BY <3>1, <3>2
  <2>5. CASE i > k + 1
    <3>1. i \in k + 2 .. Len(s) + 1 /\ j \in k + 2 .. Len(s) + 1  BY <1>1, <2>5
    <3>2. /\ i - 1 \in 1 .. Len(s) /\ j - 1 \in 1 .. Len(s) /\ i - 1 < j - 1
          /\ t[i] = s[i - 1] /\ t[j] = s[j - 1]
      BY <1>1, <1>4a, <3>1
    <3> QED  BY <3>2 DEF Ordered
  <2> QED  BY <1>1, <2>1, <2>2, <2>3, <2>4, <2>5
<1>6. Entries(t) \subseteq Entries(s) \cup {e}
  <2> SUFFICES ASSUME NEW i \in 1 .. Len(s) + 1  PROVE t[i] \in Entries(s) \cup {e}
    BY <1>4a DEF Entries
  <2>1. \/ i \in 1 .. Len(s) /\ t[i] = s[i]
        \/ t[i] = e
        \/ i - 1 \in 1 .. Len(s) /\ t[i] = s[i - 1]
    BY <1>1, <1>4a
  <2> QED  BY <2>1 DEF Entries
<1>7. Entries(s) \cup {e} \subseteq Entries(t)
  <2>1. t[k + 1] = e /\ k + 1 \in 1 .. Len(s) + 1  BY <1>1, <1>4a
  <2>2. ASSUME NEW i \in 1 .. Len(s)  PROVE \E j \in 1 .. Len(s) + 1 : t[j] = s[i]
    <3>1. CASE i <= k
      <4>1. i \in 1 .. Len(s) + 1 /\ t[i] = s[i]  BY <1>1, <1>4a, <3>1
      <4> QED  BY <4>1
    <3>2. CASE i > k
      <4>1. i + 1 \in 1 .. Len(s) + 1 /\ t[i + 1] = s[(i + 1) - 1] /\ (i + 1) - 1 = i
        BY <1>1, <1>4a, <3>2
      <4> QED  BY <4>1
    <3> QED  BY <3>1, <3>2
  <2> QED  BY <1>4a, <2>1, <2>2 DEF Entries
<1>8. t \in Seq(T)  BY <1>4
<1> QED  BY <1>4a, <1>5, <1>6, <1>7, <1>8 DEF t

\* An integer and its remainder, and a sum with a multiple of the modulus.
LEMMA IntRemainder ==
    ASSUME NEW a \in Int, NEW n \in Nat \ {0}
    PROVE  \E q \in Int : a = n * q + (a % n) /\ a % n \in 0 .. n - 1
<1>1. a = n * (a \div n) + (a % n) /\ a % n \in 0 .. n - 1 /\ a \div n \in Int
  OBVIOUS
<1> QED  BY <1>1

LEMMA SmallRemainder ==
    ASSUME NEW n \in Nat \ {0}, NEW q \in Int, NEW r \in 0 .. n - 1
    PROVE  (n * q + r) % n = r
  OBVIOUS

LEMMA HalfIsHalf == Ids \in Nat \ {0} /\ Half \in Nat \ {0} /\ Ids = Half + Half
<1>1. Ids \in Nat \ {0, 1} /\ Ids % 2 = 0  BY FeedbackAssumption
<1> QED  BY <1>1 DEF Half

\* Ids differ like the numbers they stand for, up to turns of the circle.
LEMMA IdDifference ==
    ASSUME NEW a \in Int, NEW b \in Int, b - a \in 0 .. Ids - 1
    PROVE  /\ Id(a) \in 0 .. Ids - 1 /\ Id(b) \in 0 .. Ids - 1
           /\ (Id(b) - Id(a)) % Ids = b - a
           /\ (b - Id(a)) % Ids = b - a
           /\ (Id(b) + Ids - Id(a)) % Ids = b - a
           /\ b # a => (Id(a) - Id(b)) % Ids = Ids - (b - a)
<1>1. Ids \in Nat \ {0}  BY HalfIsHalf
<1> DEFINE ia == Id(a)
           ib == Id(b)
<1>2. PICK p \in Int : a = Ids * p + ia /\ ia \in 0 .. Ids - 1
  BY <1>1, IntRemainder DEF Id
<1>3. PICK q \in Int : b = Ids * q + ib /\ ib \in 0 .. Ids - 1
  BY <1>1, IntRemainder DEF Id
<1> HIDE DEF ia, ib
<1>4. p - q \in Int /\ q - p - 1 \in Int  BY <1>2, <1>3
<1>5. ib - ia = Ids * (p - q) + (b - a)  BY <1>1, <1>2, <1>3
<1>6. ia - ib = Ids * (q - p - 1) + (Ids - (b - a))  BY <1>1, <1>2, <1>3
<1>7. (ib - ia) % Ids = b - a  BY <1>1, <1>4, <1>5, SmallRemainder
<1>8. b # a => (ia - ib) % Ids = Ids - (b - a)
  <2> SUFFICES ASSUME b # a  PROVE (ia - ib) % Ids = Ids - (b - a)  OBVIOUS
  <2>1. Ids - (b - a) \in 0 .. Ids - 1  BY <1>1
  <2> QED  BY <1>1, <1>4, <1>6, <2>1, SmallRemainder
<1>9. b - ia = Ids * p + (b - a)  BY <1>1, <1>2
<1>10. (b - ia) % Ids = b - a  BY <1>1, <1>2, <1>9, SmallRemainder
<1>11. (ib + Ids - ia) % Ids = b - a
  <2>1. p - q + 1 \in Int /\ ib + Ids - ia = Ids * (p - q + 1) + (b - a)
    BY <1>1, <1>2, <1>3
  <2> QED  BY <1>1, <2>1, SmallRemainder
<1> QED  BY <1>2, <1>3, <1>7, <1>8, <1>10, <1>11 DEF ia, ib

LEMMA IdTyped ==
    ASSUME NEW a \in Int  PROVE Id(a) \in 0 .. Ids - 1
<1>1. Ids \in Nat \ {0}  BY HalfIsHalf
<1>2. a % Ids \in 0 .. Ids - 1  BY <1>1, IntRemainder
<1> QED  BY <1>2 DEF Id

\* Packets less than half a circle apart compare like their numbers.
LEMMA CloseIds ==
    ASSUME NEW a \in Int, NEW b \in Int, b - a < Half, a - b < Half
    PROVE  LessThan(Id(a), Id(b)) <=> a < b
<1>1. Ids \in Nat /\ Half \in Nat /\ Ids = Half + Half  BY HalfIsHalf
<1>2. CASE a < b
  <2>1. b - a \in 0 .. Ids - 1  BY <1>1, <1>2
  <2>2. (Id(b) - Id(a)) % Ids = b - a /\ (Id(a) - Id(b)) % Ids = Ids - (b - a)
    BY <1>2, <2>1, IdDifference
  <2> QED  BY <1>1, <1>2, <2>2 DEF LessThan
<1>3. CASE b < a
  <2>1. a - b \in 0 .. Ids - 1  BY <1>1, <1>3
  <2>2. (Id(a) - Id(b)) % Ids = a - b /\ (Id(b) - Id(a)) % Ids = Ids - (a - b)
    BY <1>3, <2>1, IdDifference
  <2> QED  BY <1>1, <1>3, <2>2 DEF LessThan
<1>4. CASE a = b  BY <1>1, <1>4, IdDifference DEF LessThan
<1> QED  BY <1>2, <1>3, <1>4

\* One turn of the walk that collects samples.
SampleTurn(s, k, t) ==
    IF IsNew(t.last, s[k])
    THEN [last |-> Id(s[k].n), out |-> Append(t.out, s[k].n)]
    ELSE t

SampleStates(T) == [last : 0 .. Ids - 1, out : Seq(T)]

LEMMA SampleTurnTyped ==
    ASSUME NEW T \in SUBSET Int, NEW s, NEW k \in 1 .. Len(s), \A i \in 1 .. Len(s) : s[i].n \in T,
           NEW t \in SampleStates(T)
    PROVE  SampleTurn(s, k, t) \in SampleStates(T)
<1>1. t.out \in Seq(T) /\ s[k].n \in T  BY DEF SampleStates
<1>2. Append(t.out, s[k].n) \in Seq(T)  BY <1>1, AppendProperties
<1>3. Id(s[k].n) \in 0 .. Ids - 1
  <2>1. s[k].n \in Int  BY <1>1
  <2> QED  BY <2>1, IdTyped
<1> QED  BY <1>1, <1>2, <1>3 DEF SampleTurn, SampleStates

LEMMA SampleWalk ==
    ASSUME NEW T \in SUBSET Int, NEW s, Len(s) \in Nat, \A i \in 1 .. Len(s) : s[i].n \in T,
           lastFeedback \in 0 .. Ids - 1
    PROVE  \E take :
              /\ take[0] = [last |-> lastFeedback, out |-> <<>>]
              /\ \A k \in 1 .. Len(s) : take[k] = SampleTurn(s, k, take[k - 1])
              /\ Samples(s) = take[Len(s)]
<1> DEFINE n == Len(s)
           base == [last |-> lastFeedback, out |-> <<>>]
           step == [x \in (1 .. n) \X SampleStates(T) |-> SampleTurn(s, x[1], x[2])]
           Body(f) == [k \in 0 .. Len(s) |-> IF k = 0 THEN base ELSE SampleTurn(s, k, f[k - 1])]
           take == CHOOSE f : f = Body(f)
<1>1. n \in Nat  OBVIOUS
<1>2. base \in SampleStates(T)  BY DEF SampleStates
<1>3. IsStep(step, n, SampleStates(T))
  <2> SUFFICES ASSUME NEW k \in 1 .. n, NEW t \in SampleStates(T)
               PROVE  SampleTurn(s, k, t) \in SampleStates(T)
    BY DEF IsStep
  <2> QED  BY SampleTurnTyped
<1>4. PICK f : Recursion(f, n, SampleStates(T), base, step)
  <2> HIDE DEF base, step, n
  <2> QED  BY <1>1, <1>2, <1>3, RecursionExists
<1>5. /\ f \in [0 .. n -> SampleStates(T)] /\ f[0] = base
      /\ \A k \in 1 .. n : f[k] = SampleTurn(s, k, f[k - 1])
  <2>1. /\ f \in [0 .. n -> SampleStates(T)] /\ f[0] = base
        /\ \A k \in 1 .. n : f[k] = step[<<k, f[k - 1]>>]
    <3> HIDE DEF base, step, n
    <3> QED  BY <1>4 DEF Recursion
  <2>2. ASSUME NEW k \in 1 .. n  PROVE f[k] = SampleTurn(s, k, f[k - 1])
    <3>1. f[k - 1] \in SampleStates(T)  BY <1>1, <2>1
    <3>2. <<k, f[k - 1]>> \in (1 .. n) \X SampleStates(T)  BY <3>1
    <3> QED  BY <2>1, <3>2
  <2> QED  BY <2>1, <2>2
<1>6. f = Body(f)
  <2> HIDE DEF base
  <2>1. \A k \in 0 .. n : f[k] = IF k = 0 THEN base ELSE SampleTurn(s, k, f[k - 1])
    BY <1>1, <1>5
  <2> QED  BY <1>5, <2>1
<1>7. take = Body(take)
  <2> HIDE DEF Body
  <2> QED  BY <1>6, Zenon
<1>8. Samples(s) = take[Len(s)]  BY Zenon DEF Samples, SampleTurn
<1>9. take[0] = base /\ \A k \in 1 .. n : take[k] = SampleTurn(s, k, take[k - 1])
  <2> DEFINE b == Body(take)
  <2>1. b[0] = base /\ \A k \in 1 .. n : b[k] = SampleTurn(s, k, take[k - 1])
    <3> HIDE DEF base, take
    <3> QED  BY <1>1
  <2> HIDE DEF Body, base, take
  <2> QED  BY <1>7, <2>1, Zenon
<1> HIDE DEF take
<1> QED  BY <1>8, <1>9

\* The latest packet of a report, if it has one.
TopOf(out) == IF out = <<>> THEN top ELSE out[Len(out)]

Advancing(out) ==
    \A j \in 1 .. Len(out) : out[j] > (IF j = 1 THEN top ELSE out[j - 1])

\* The samples of a report, when everything is within half a circle, are later
\* than what was reported, in order, and reach the latest packet in the record.
LEMMA SamplesAdvance ==
    ASSUME NEW T \in SUBSET Int, NEW s, Len(s) \in Nat, \A i \in 1 .. Len(s) : s[i].n \in T,
           top \in Int, lastFeedback = Id(top),
           \A x, y \in T \cup {top} : x - y < Half
    PROVE  /\ Samples(s).out \in Seq(T)
           /\ Samples(s).last = Id(TopOf(Samples(s).out))
           /\ Advancing(Samples(s).out)
           /\ TopOf(Samples(s).out) \in T \cup {top} /\ TopOf(Samples(s).out) >= top
           /\ \A i \in 1 .. Len(s) : s[i].n <= TopOf(Samples(s).out)
<1>1. PICK take : /\ take[0] = [last |-> lastFeedback, out |-> <<>>]
                  /\ \A k \in 1 .. Len(s) : take[k] = SampleTurn(s, k, take[k - 1])
                  /\ Samples(s) = take[Len(s)]
  <2>1. lastFeedback \in 0 .. Ids - 1  BY IdTyped
  <2> QED  BY <2>1, SampleWalk
<1> DEFINE P == {k \in 0 .. Len(s) :
                    /\ take[k] \in SampleStates(T)
                    /\ take[k].last = Id(TopOf(take[k].out))
                    /\ Advancing(take[k].out)
                    /\ TopOf(take[k].out) \in T \cup {top} /\ TopOf(take[k].out) >= top
                    /\ \A i \in 1 .. k : s[i].n <= TopOf(take[k].out)}
<1>2. 0 \in P
  <2>1. take[0].out = <<>> /\ take[0].last = Id(top)  BY <1>1
  <2>2. take[0] \in SampleStates(T)  BY <1>1, IdTyped DEF SampleStates
  <2>3. TopOf(<<>>) = top /\ Len(<<>>) = 0  BY DEF TopOf
  <2> QED  BY <2>1, <2>2, <2>3 DEF Advancing
<1>3. ASSUME NEW m \in 0 .. Len(s) - 1, m \in P  PROVE m + 1 \in P
  <2> DEFINE k == m + 1
             t == take[m]
             u == take[k]
             o == t.out
             x == s[k].n
  <2>0. \A z \in T \cup {top} : z \in Int  OBVIOUS
  <2>1. k \in 1 .. Len(s) /\ k - 1 = m /\ x \in T /\ x \in Int
    <3>1. k \in 1 .. Len(s) /\ k - 1 = m  OBVIOUS
    <3> HIDE DEF k
    <3>2. s[k].n \in T  BY <3>1
    <3> QED  BY <2>0, <3>1, <3>2
  <2>2. /\ t \in SampleStates(T) /\ t.last = Id(TopOf(o)) /\ Advancing(o)
        /\ TopOf(o) \in T \cup {top} /\ TopOf(o) >= top /\ TopOf(o) \in Int
        /\ \A i \in 1 .. m : s[i].n <= TopOf(o) /\ s[i].n \in Int
    <3>1. \A i \in 1 .. m : i \in 1 .. Len(s)  OBVIOUS
    <3> QED  BY <1>3, <2>0, <3>1
  <2>3. u = SampleTurn(s, k, t)  BY <1>1, <2>1
  <2>4. u \in SampleStates(T) /\ o \in Seq(T)
    <3> HIDE DEF k, t, u
    <3>1. u \in SampleStates(T)  BY <2>1, <2>2, <2>3, SampleTurnTyped
    <3> QED  BY <3>1, <2>2 DEF SampleStates
  <2>5. IsNew(t.last, s[k]) <=> TopOf(o) < x
    <3>1. x - TopOf(o) < Half /\ TopOf(o) - x < Half  BY <2>1, <2>2
    <3> HIDE DEF k, t, u, x, o
    <3>2. LessThan(Id(TopOf(o)), Id(x)) <=> TopOf(o) < x  BY <2>1, <2>2, <3>1, CloseIds
    <3> QED  BY <2>2, <3>2 DEF IsNew, x
  <2>6. \A i \in 1 .. k : i \in 1 .. m \/ i = k  OBVIOUS
  <2>7. CASE IsNew(t.last, s[k])
    <3> DEFINE a == Append(o, x)
    <3>1. u.out = a /\ u.last = Id(x)  BY <2>3, <2>7 DEF SampleTurn
    <3> HIDE DEF k, t, u, x, o
    <3>2. /\ a \in Seq(T) /\ Len(a) = Len(o) + 1 /\ a[Len(o) + 1] = x /\ Len(o) \in Nat
          /\ \A i \in 1 .. Len(o) : a[i] = o[i]
      BY <2>1, <2>4, AppendProperties, LenProperties
    <3>3. a # <<>>  BY <3>2, EmptySeq
    <3> HIDE DEF a
    <3>4. TopOf(a) = x  BY <3>2, <3>3 DEF TopOf
    <3>5. Advancing(a)
      <4> SUFFICES ASSUME NEW j \in 1 .. Len(o) + 1
                   PROVE  a[j] > (IF j = 1 THEN top ELSE a[j - 1])
        BY <3>2 DEF Advancing
      <4>1. CASE j \in 1 .. Len(o)
        <5>1. o[j] > (IF j = 1 THEN top ELSE o[j - 1])  BY <2>2, <4>1 DEF Advancing
        <5>2. a[j] = o[j] /\ (j # 1 => a[j - 1] = o[j - 1])  BY <3>2, <4>1
        <5> QED  BY <5>1, <5>2
      <4>2. CASE j = Len(o) + 1 /\ Len(o) = 0
        <5>1. o = <<>>  BY <2>4, <4>2, EmptySeq
        <5>2. TopOf(o) = top  BY <5>1 DEF TopOf
        <5> QED  BY <2>5, <2>7, <3>2, <4>2, <5>2
      <4>3. CASE j = Len(o) + 1 /\ Len(o) # 0
        <5>1. o # <<>>  BY <2>4, <4>3, EmptySeq
        <5>2. TopOf(o) = o[Len(o)]  BY <5>1 DEF TopOf
        <5>3. a[j - 1] = o[Len(o)] /\ a[j] = x /\ j # 1  BY <3>2, <4>3
        <5> QED  BY <2>5, <2>7, <5>2, <5>3
      <4> QED  BY <3>2, <4>1, <4>2, <4>3
    <3>6. \A i \in 1 .. k : s[i].n <= x
      <4> SUFFICES ASSUME NEW i \in 1 .. k  PROVE s[i].n <= x  OBVIOUS
      <4>1. CASE i \in 1 .. m
        <5>1. s[i].n <= TopOf(o) /\ s[i].n \in Int  BY <2>2, <4>1
        <5>2. TopOf(o) < x  BY <2>5, <2>7
        <5> QED  BY <2>1, <2>2, <5>1, <5>2
      <4>2. CASE i = k  BY <2>1, <4>2 DEF x
      <4> QED  BY <2>6, <4>1, <4>2
    <3>7. x \in T \cup {top} /\ x >= top  BY <2>1, <2>2, <2>5, <2>7
    <3>8. k \in P  BY <2>1, <2>4, <3>1, <3>4, <3>5, <3>6, <3>7 DEF u
    <3> QED  BY <3>8 DEF k
  <2>8. CASE ~IsNew(t.last, s[k])
    <3>1. u = t  BY <2>3, <2>8 DEF SampleTurn
    <3>2. x <= TopOf(o)  BY <2>1, <2>2, <2>5, <2>8
    <3> HIDE DEF k, t, u, o
    <3>3. \A i \in 1 .. k : s[i].n <= TopOf(o)  BY <2>1, <2>2, <2>6, <3>2
    <3>4. u.out = o  BY <3>1 DEF o
    <3>5. k \in P  BY <2>1, <2>2, <3>1, <3>3, <3>4 DEF u
    <3> QED  BY <3>5 DEF k
  <2> QED  BY <2>7, <2>8
<1>4. Len(s) \in P
  <2>1. \A k \in 0 .. Len(s) : k \in P
    <3> HIDE DEF P
    <3> QED  BY <1>2, <1>3, UpTo
  <2> QED  BY <2>1
<1> QED  BY <1>1, <1>4 DEF SampleStates

\* One turn of the loop that counts losses.
LossTurn(s, k, v) ==
    IF k = 1 THEN 0
    ELSE IF (Id(s[k].n) - Id(s[k - 1].n)) % Ids = 1 THEN v
    ELSE (v + Id(s[k].n) - Id(s[k - 1].n) - 1) % Wide

LEMMA WideIsWide == Wide \in Nat \ {0} /\ Ids <= Wide
<1>1. Ids \in Nat \ {0}  BY HalfIsHalf
<1>2. \A i \in Nat \ {0} : i * i \in Nat \ {0} /\ i <= i * i  OBVIOUS
<1> QED  BY <1>1, <1>2 DEF Wide

LEMMA LossTurnTyped ==
    ASSUME NEW s, NEW k \in 1 .. Len(s), \A i \in 1 .. Len(s) : s[i].n \in Int, NEW v \in Nat
    PROVE  LossTurn(s, k, v) \in Nat
<1>1. CASE k = 1  BY <1>1 DEF LossTurn
<1>2. CASE k # 1
  <2>1. k - 1 \in 1 .. Len(s)  BY <1>2
  <2>2. Id(s[k].n) \in 0 .. Ids - 1 /\ Id(s[k - 1].n) \in 0 .. Ids - 1  BY <2>1, IdTyped
  <2> DEFINE d == v + Id(s[k].n) - Id(s[k - 1].n) - 1
  <2>3. d \in Int  BY <2>2, HalfIsHalf
  <2> HIDE DEF d
  <2>4. d % Wide \in 0 .. Wide - 1  BY <2>3, WideIsWide, IntRemainder
  <2> QED  BY <1>2, <2>4, WideIsWide DEF LossTurn, d
<1> QED  BY <1>1, <1>2

LEMMA LossWalk ==
    ASSUME NEW s, Len(s) \in Nat, \A i \in 1 .. Len(s) : s[i].n \in Int
    PROVE  \E sum :
              /\ sum[0] = 0
              /\ \A k \in 1 .. Len(s) : sum[k] = LossTurn(s, k, sum[k - 1])
              /\ Losses(s) = sum[Len(s)]
<1> DEFINE n == Len(s)
           step == [x \in (1 .. n) \X Nat |-> LossTurn(s, x[1], x[2])]
           Body(f) == [k \in 0 .. Len(s) |->
                         IF k <= 1 THEN 0
                         ELSE IF (Id(s[k].n) - Id(s[k - 1].n)) % Ids = 1 THEN f[k - 1]
                         ELSE (f[k - 1] + Id(s[k].n) - Id(s[k - 1].n) - 1) % Wide]
           sum == CHOOSE f : f = Body(f)
<1>1. n \in Nat  OBVIOUS
<1>2. 0 \in Nat  OBVIOUS
<1>3. IsStep(step, n, Nat)
  <2> SUFFICES ASSUME NEW k \in 1 .. n, NEW v \in Nat  PROVE LossTurn(s, k, v) \in Nat
    BY DEF IsStep
  <2> QED  BY LossTurnTyped
<1>4. PICK f : Recursion(f, n, Nat, 0, step)
  <2> HIDE DEF step, n
  <2> QED  BY <1>1, <1>2, <1>3, RecursionExists
<1>5. /\ f \in [0 .. n -> Nat] /\ f[0] = 0
      /\ \A k \in 1 .. n : f[k] = LossTurn(s, k, f[k - 1])
  <2>1. f \in [0 .. n -> Nat] /\ f[0] = 0 /\ \A k \in 1 .. n : f[k] = step[<<k, f[k - 1]>>]
    <3> HIDE DEF step, n
    <3> QED  BY <1>4 DEF Recursion
  <2>2. ASSUME NEW k \in 1 .. n  PROVE f[k] = LossTurn(s, k, f[k - 1])
    <3>1. f[k - 1] \in Nat  BY <1>1, <2>1
    <3>2. <<k, f[k - 1]>> \in (1 .. n) \X Nat  BY <3>1
    <3> QED  BY <2>1, <3>2
  <2> QED  BY <2>1, <2>2
<1>6. \A g : \A k \in 0 .. n : Body(g)[k] = IF k = 0 THEN 0 ELSE LossTurn(s, k, g[k - 1])
  BY <1>1 DEF LossTurn
<1>7. f = Body(f)
  <2>1. \A k \in 0 .. n : f[k] = Body(f)[k]
    <3> HIDE DEF Body
    <3> QED  BY <1>1, <1>5, <1>6
  <2>2. f \in [0 .. n -> Nat]  BY <1>5
  <2>3. Body(f) = [k \in 0 .. n |-> Body(f)[k]]  OBVIOUS
  <2> HIDE DEF Body
  <2> QED  BY <2>1, <2>2, <2>3
<1>8. sum = Body(sum)
  <2> HIDE DEF Body
  <2> QED  BY <1>7, Zenon
<1>9. Losses(s) = sum[Len(s)]  BY Zenon DEF Losses
<1> HIDE DEF sum, Body
<1>10. sum[0] = 0 /\ \A k \in 1 .. n : sum[k] = LossTurn(s, k, sum[k - 1])
  <2>1. \A k \in 0 .. n : sum[k] = IF k = 0 THEN 0 ELSE LossTurn(s, k, sum[k - 1])
    BY <1>6, <1>8, Zenon
  <2> QED  BY <1>1, <2>1
<1> QED  BY <1>9, <1>10

LEMMA LossesTyped ==
    ASSUME NEW s, Len(s) \in Nat, \A i \in 1 .. Len(s) : s[i].n \in Int
    PROVE  Losses(s) \in Nat
<1>1. PICK sum : /\ sum[0] = 0
                 /\ \A k \in 1 .. Len(s) : sum[k] = LossTurn(s, k, sum[k - 1])
                 /\ Losses(s) = sum[Len(s)]
  BY LossWalk
<1> DEFINE P == {k \in 0 .. Len(s) : sum[k] \in Nat}
<1>2. 0 \in P  BY <1>1
<1>3. ASSUME NEW m \in 0 .. Len(s) - 1, m \in P  PROVE m + 1 \in P
  <2>1. m + 1 \in 1 .. Len(s) /\ (m + 1) - 1 = m  OBVIOUS
  <2>2. sum[m + 1] = LossTurn(s, m + 1, sum[m])  BY <1>1, <2>1
  <2>3. sum[m] \in Nat  BY <1>3
  <2>4. LossTurn(s, m + 1, sum[m]) \in Nat  BY <2>1, <2>3, LossTurnTyped
  <2> QED  BY <2>1, <2>2, <2>4
<1>4. \A k \in 0 .. Len(s) : k \in P
  <2> HIDE DEF P
  <2> QED  BY <1>2, <1>3, UpTo
<1> QED  BY <1>1, <1>4

\* Between packets whose ids do not wrap around, ids are as far apart as packets.
LEMMA NoWrap ==
    ASSUME NEW a \in Int, NEW b \in Int, NEW c \in Int, a <= c, c <= b, b - a < Ids,
           Id(a) <= Id(b)
    PROVE  Id(c) - Id(a) = c - a
<1>1. Ids \in Nat \ {0}  BY HalfIsHalf
<1> DEFINE ia == Id(a)
           ib == Id(b)
<1>2. PICK p \in Int : a = Ids * p + ia /\ ia \in 0 .. Ids - 1
  BY <1>1, IntRemainder DEF Id
<1>3. ib \in 0 .. Ids - 1 /\ (ib - ia) % Ids = b - a
  <2>1. b - a \in 0 .. Ids - 1  BY <1>1
  <2> QED  BY <2>1, IdDifference
<1>4. ia <= ib  OBVIOUS
<1> HIDE DEF ia, ib
<1>5. ib - ia = b - a
  <2>1. ib - ia \in 0 .. Ids - 1 /\ 0 \in Int  BY <1>1, <1>2, <1>3, <1>4
  <2>2. (Ids * 0 + (ib - ia)) % Ids = ib - ia  BY <1>1, <2>1, SmallRemainder
  <2> QED  BY <1>1, <1>2, <1>3, <2>2
<1>6. c = Ids * p + (ia + (c - a)) /\ ia + (c - a) \in 0 .. Ids - 1
  BY <1>1, <1>2, <1>3, <1>5
<1>7. c % Ids = ia + (c - a)  BY <1>1, <1>2, <1>6, SmallRemainder
<1> QED  BY <1>2, <1>7 DEF Id, ia

\* The losses of an ordered record whose ids do not wrap around.
LEMMA LossesCounted ==
    ASSUME NEW s, Len(s) \in Nat \ {0}, \A i \in 1 .. Len(s) : s[i].n \in Int, Ordered(s),
           s[Len(s)].n - s[1].n < Ids, Id(s[1].n) <= Id(s[Len(s)].n)
    PROVE  Losses(s) = s[Len(s)].n - s[1].n + 1 - Len(s)
<1>1. PICK sum : /\ sum[0] = 0
                 /\ \A k \in 1 .. Len(s) : sum[k] = LossTurn(s, k, sum[k - 1])
                 /\ Losses(s) = sum[Len(s)]
  BY LossWalk
<1> DEFINE count(k) == s[k].n - s[1].n + 1 - k
           P == {k \in 0 .. Len(s) : k = 0 \/ (sum[k] = count(k) /\ count(k) >= 0)}
<1>2. 0 \in P  OBVIOUS
<1>3. ASSUME NEW m \in 0 .. Len(s) - 1, m \in P  PROVE m + 1 \in P
  <2>1. m + 1 \in 1 .. Len(s) /\ (m + 1) - 1 = m  OBVIOUS
  <2>2. sum[m + 1] = LossTurn(s, m + 1, sum[m])  BY <1>1, <2>1
  <2>3. CASE m = 0
    <3>1. sum[1] = 0  BY <2>2, <2>3 DEF LossTurn
    <3>2. count(1) = 0  BY <2>1, <2>3
    <3> QED  BY <2>1, <2>3, <3>1, <3>2
  <2>4. CASE m # 0
    <3> DEFINE a == s[1].n
               b == s[Len(s)].n
               c == s[m].n
               d == s[m + 1].n
    <3>1. 1 \in 1 .. Len(s) /\ m \in 1 .. Len(s) /\ Len(s) \in 1 .. Len(s)  BY <2>1, <2>4
    <3>2. a \in Int /\ b \in Int /\ c \in Int /\ d \in Int  BY <2>1, <3>1
    <3>3. a <= c /\ c < d /\ d <= b
      <4>1. m = 1 \/ a < c  BY <2>4, <3>1 DEF Ordered
      <4>2. c < d  BY <2>1, <3>1 DEF Ordered
      <4>3. m + 1 = Len(s) \/ d < b  BY <2>1, <3>1 DEF Ordered
      <4> QED  BY <3>2, <4>1, <4>2, <4>3
    <3>4. sum[m] = c - a + 1 - m /\ sum[m] >= 0  BY <1>3, <2>4
    <3>5. b - a < Ids /\ Id(a) <= Id(b)  OBVIOUS
    <3>6. LossTurn(s, m + 1, sum[m]) =
             IF (Id(d) - Id(c)) % Ids = 1 THEN sum[m] ELSE (sum[m] + Id(d) - Id(c) - 1) % Wide
      BY <2>1, <2>4 DEF LossTurn
    <3>6a. m \in Nat \ {0}  BY <2>4
    <3> HIDE DEF a, b, c, d
    <3>7. Id(c) - Id(a) = c - a /\ Id(d) - Id(a) = d - a
      <4>1. a <= d /\ c <= b  BY <3>2, <3>3
      <4> QED  BY <3>2, <3>3, <3>5, <4>1, NoWrap
    <3>8. Id(a) \in Int /\ Id(c) \in Int /\ Id(d) \in Int
      <4>1. Id(a) \in 0 .. Ids - 1 /\ Id(c) \in 0 .. Ids - 1 /\ Id(d) \in 0 .. Ids - 1
        BY <3>2, IdTyped
      <4> QED  BY <4>1, HalfIsHalf
    <3>9. (Id(d) - Id(c)) % Ids = d - c
      <4>1. d - c \in 0 .. Ids - 1  BY <3>2, <3>3, <3>5, HalfIsHalf
      <4> QED  BY <3>2, <4>1, IdDifference
    <3> DEFINE e == d - a + 1 - (m + 1)
    <3>10. e >= 0 /\ e \in 0 .. Wide - 1
      BY <3>2, <3>3, <3>4, <3>5, <3>6a, HalfIsHalf, WideIsWide
    <3>11. sum[m] + Id(d) - Id(c) - 1 = e
      <4> DEFINE v == sum[m]
                 ia == Id(a)
                 ic == Id(c)
                 id == Id(d)
      <4>1. ic - ia = c - a /\ id - ia = d - a  BY <3>7
      <4>2. v = c - a + 1 - m  BY <3>4
      <4>3. ia \in Int /\ ic \in Int /\ id \in Int  BY <3>8
      <4> HIDE DEF v, ia, ic, id
      <4>4. v + id - ic - 1 = e  BY <3>2, <3>6a, <4>1, <4>2, <4>3
      <4> QED  BY <4>4 DEF v, ic, id
    <3>12. e % Wide = e
      <4> HIDE DEF e
      <4>1. 0 \in Int /\ Wide * 0 + e = e  BY <3>10, WideIsWide
      <4> QED  BY <3>10, <4>1, WideIsWide, SmallRemainder
    <3>13. d - c = 1 => sum[m] = e  BY <3>2, <3>4, <3>6a
    <3>14. sum[m + 1] = e
      <4> HIDE DEF e
      <4> QED  BY <2>2, <3>6, <3>9, <3>11, <3>12, <3>13
    <3>15. count(m + 1) = e  BY DEF a, d
    <3> QED  BY <2>1, <3>10, <3>14, <3>15
  <2> QED  BY <2>3, <2>4
<1>4. \A k \in 0 .. Len(s) : k \in P
  <2> HIDE DEF P
  <2> QED  BY <1>2, <1>3, UpTo
<1> QED  BY <1>1, <1>4

\* The types of the receiver's state.
RecTypeOK ==
    /\ now \in 0 .. MaxTime /\ sent \in 0 .. MaxSent /\ flight \subseteq 0 .. sent - 1
    /\ running \in BOOLEAN
    /\ record \in Seq([n : 0 .. sent - 1, rt : 0 .. now])
    /\ bytes \in Nat /\ timer \in {Off} \cup now .. now + Interval
    /\ lastFeedback \in 0 .. Ids - 1
    /\ stats \in [pkts : Nat, losses : Nat]
    /\ samples \in Seq(0 .. sent - 1) /\ pending \subseteq [n : 0 .. sent - 1, rt : 0 .. now]
    /\ top \in -1 .. sent - 1

\* The receiver's inductive invariant: everything it compares is less than half
\* a circle of ids apart, the server's guards see to that, and no packet is both
\* on its way and recorded.
RecInv ==
    /\ RecTypeOK /\ RecordOrdered /\ NothingSkipped
    /\ lastFeedback = Id(top) /\ sent - top <= Half
    /\ \A n \in flight : sent - n <= Half
    /\ \A e \in Entries(record) : sent - e.n <= Half /\ e.n \notin flight

LEMMA RecInitial == Init => RecInv
<1> SUFFICES ASSUME Init  PROVE RecInv  OBVIOUS
<1>1. /\ now = 0 /\ sent = 0 /\ flight = {} /\ running = TRUE /\ record = <<>> /\ bytes = 0
      /\ timer = Off /\ lastFeedback = Ids - 1 /\ stats = [pkts |-> 0, losses |-> 0]
      /\ samples = <<>> /\ top = -1 /\ pending = {}
  BY DEF Init
<1>2. Ids \in Nat \ {0} /\ Half \in Nat \ {0}  BY HalfIsHalf
<1>3. Id(-1) = Ids - 1
  <2>1. -1 = Ids * (-1) + (Ids - 1) /\ Ids - 1 \in 0 .. Ids - 1 /\ -1 \in Int  BY <1>2
  <2> QED  BY <1>2, <2>1, SmallRemainder DEF Id
<1>4. Len(<<>>) = 0  OBVIOUS
<1>5. Entries(record) = {}  BY <1>1, <1>4 DEF Entries
<1>6. RecTypeOK  BY <1>1, <1>2, FeedbackAssumption DEF RecTypeOK
<1>7. RecordOrdered /\ NothingSkipped  BY <1>1, <1>4 DEF RecordOrdered, NothingSkipped
<1> QED  BY <1>1, <1>2, <1>3, <1>5, <1>6, <1>7 DEF RecInv

\* A packet sent leaves everything less than half a circle behind.
LEMMA RecSend ==
    ASSUME RecInv, NEW isData \in BOOLEAN, Send(isData)
    PROVE  RecInv'
<1>1. /\ sent < MaxSent /\ sent' = sent + 1 /\ flight' = flight \cup {sent}
      /\ \A n \in flight : sent - n < Half
      /\ \A i \in 1 .. Len(record) : sent - record[i].n < Half
      /\ (sent - lastFeedback) % Ids < Half
      /\ UNCHANGED <<now, receiverVars>>
  BY DEF Send
<1>2. /\ sent \in Nat /\ sent' \in 0 .. MaxSent /\ 0 .. sent - 1 \subseteq 0 .. sent' - 1
      /\ now \in Nat /\ top \in -1 .. sent - 1 /\ Half \in Nat \ {0} /\ Ids \in Nat \ {0}
  BY <1>1, HalfIsHalf, FeedbackAssumption DEF RecInv, RecTypeOK
<1>3. UNCHANGED <<now, running, record, bytes, timer, lastFeedback, stats, samples, top, pending>>
  BY <1>1 DEF receiverVars
<1>4. RecTypeOK'
  <2> DEFINE A == 0 .. sent - 1
             B == 0 .. sent' - 1
             S == [n : A, rt : 0 .. now]
             T == [n : B, rt : 0 .. now]
  <2>1. A \subseteq B /\ S \subseteq T /\ sent \in B  BY <1>1, <1>2
  <2>2. record \in Seq(S) /\ pending \subseteq S /\ samples \in Seq(A) /\ flight \subseteq A
    BY DEF RecInv, RecTypeOK
  <2>3. /\ record' \in Seq(T) /\ pending' \subseteq T /\ samples' \in Seq(B)
        /\ flight' \subseteq B
    <3> HIDE DEF A, B, S, T
    <3> QED  BY <1>1, <1>3, <2>1, <2>2, SeqMonotonic
  <2>4. top' \in -1 .. sent' - 1  BY <1>1, <1>2, <1>3
  <2> QED  BY <1>2, <1>3, <2>3, <2>4 DEF RecInv, RecTypeOK
<1>5. sent' - top <= Half
  <2>1. sent - top \in 0 .. Ids - 1  BY <1>2, HalfIsHalf DEF RecInv
  <2>2. (sent - Id(top)) % Ids = sent - top  BY <1>2, <2>1, IdDifference
  <2> QED  BY <1>1, <1>2, <2>2 DEF RecInv
<1>6. \A n \in flight' : sent' - n <= Half
  <2> SUFFICES ASSUME NEW n \in flight'  PROVE sent' - n <= Half  OBVIOUS
  <2>1. n = sent \/ (n \in flight /\ n \in 0 .. sent - 1)  BY <1>1 DEF RecInv, RecTypeOK
  <2> QED  BY <1>1, <1>2, <2>1
<1>7. \A e \in Entries(record) : sent' - e.n <= Half /\ e.n \notin flight'
  <2> SUFFICES ASSUME NEW i \in 1 .. Len(record)
               PROVE  sent' - record[i].n <= Half /\ record[i].n \notin flight'
    BY DEF Entries
  <2>1. record[i] \in [n : 0 .. sent - 1, rt : 0 .. now]
    BY ElementOfSeq DEF RecInv, RecTypeOK
  <2>2. record[i].n \in 0 .. sent - 1 /\ record[i].n \notin flight
    BY <2>1 DEF RecInv, Entries
  <2>3. sent - record[i].n < Half  BY <1>1
  <2> QED  BY <1>1, <1>2, <2>2, <2>3, SMTT(30)
<1>8. RecordOrdered' /\ NothingSkipped'
  BY <1>3 DEF RecInv, RecordOrdered, NothingSkipped
<1>9. Entries(record)' = Entries(record)  BY <1>3 DEF Entries
<1> QED  BY <1>3, <1>4, <1>5, <1>6, <1>7, <1>8, <1>9 DEF RecInv

\* A packet received is put into its place, and what is young stays.
LEMMA RecReceive ==
    ASSUME RecInv, NEW n \in flight, Receive(n)
    PROVE  RecInv'
<1> DEFINE T == [n : 0 .. sent - 1, rt : 0 .. now]
           slid == Slid(record)
           e == [n |-> n, rt |-> now]
<1>1. /\ running /\ flight' = flight \ {n}
      /\ record' = Inserted(slid, e)
      /\ bytes' = bytes - (Len(record) - Len(slid)) + 1
      /\ timer' = IF record = <<>> /\ timer = Off THEN now + Interval ELSE timer
      /\ pending' = IF n > top THEN pending \cup {e} ELSE pending
      /\ UNCHANGED <<now, sent, running, lastFeedback, stats, samples, top>>
  BY DEF Receive, BytesAfter
<1>2. /\ record \in Seq(T) /\ Ordered(record) /\ bytes = Len(record) /\ Len(record) \in Nat
      /\ now \in Nat /\ sent \in Nat /\ n \in 0 .. sent - 1 /\ Half \in Nat /\ sent - n <= Half
      /\ Interval \in Nat
  BY LenProperties, HalfIsHalf, FeedbackAssumption DEF RecInv, RecTypeOK, RecordOrdered, Ordered
<1>3. e \in T /\ \A x \in T : x.n \in Int /\ x.n <= sent - 1  BY <1>2
<1>4. /\ slid \in Seq(T) /\ Ordered(slid) /\ Entries(slid) \subseteq Entries(record)
      /\ \A x \in Entries(record) : ~Stale(x) => x \in Entries(slid)
  <2> HIDE DEF T
  <2> QED  BY <1>2, <1>3, SlidKeeps
<1>5. Entries(slid) \subseteq T
  <2> HIDE DEF T
  <2>1. \A i \in 1 .. Len(slid) : slid[i] \in T  BY <1>4, ElementOfSeq
  <2> QED  BY <2>1 DEF Entries
<1> HIDE DEF slid
<1>6. \A x \in Entries(slid) :
         /\ x.n # e.n
         /\ LessThan(Id(x.n), Id(e.n)) <=> x.n < e.n
         /\ LessThan(Id(e.n), Id(x.n)) <=> e.n < x.n
  <2> SUFFICES ASSUME NEW x \in Entries(slid)
               PROVE  /\ x.n # n
                      /\ LessThan(Id(x.n), Id(n)) <=> x.n < n
                      /\ LessThan(Id(n), Id(x.n)) <=> n < x.n
    OBVIOUS
  <2>1. sent - x.n <= Half /\ x.n \notin flight  BY <1>4 DEF RecInv
  <2>2. x.n \in Int /\ x.n <= sent - 1 /\ n \in Int  BY <1>2, <1>3, <1>5
  <2>3. x.n - n < Half /\ n - x.n < Half  BY <1>2, <2>1, <2>2
  <2> QED  BY <2>1, <2>2, <2>3, CloseIds
<1>7. /\ record' \in Seq(T) /\ Len(record') = Len(slid) + 1 /\ Ordered(record')
      /\ Entries(record') = Entries(slid) \cup {e}
  <2> HIDE DEF T, e
  <2> QED  BY <1>1, <1>3, <1>4, <1>6, InsertedKeeps
<1>8. Len(slid) \in Nat  BY <1>4, LenProperties
<1>9. bytes' = Len(record')  BY <1>1, <1>2, <1>7, <1>8
<1>10. RecordOrdered'  BY <1>7, <1>9 DEF RecordOrdered, Ordered
<1>11. pending' \subseteq T  BY <1>1, <1>3 DEF RecInv, RecTypeOK
<1>12. RecTypeOK'
  <2>1. record' \in Seq([n : 0 .. sent' - 1, rt : 0 .. now'])
        /\ pending' \subseteq [n : 0 .. sent' - 1, rt : 0 .. now']
    BY <1>1, <1>7, <1>11
  <2>2. bytes' \in Nat  BY <1>7, <1>8, <1>9
  <2>3. flight' \subseteq 0 .. sent' - 1  BY <1>1 DEF RecInv, RecTypeOK
  <2>4. timer' \in {Off} \cup now' .. now' + Interval
    BY <1>1, <1>2 DEF RecInv, RecTypeOK
  <2> QED  BY <1>1, <2>1, <2>2, <2>3, <2>4 DEF RecInv, RecTypeOK
<1>13. NothingSkipped'
  <2> SUFFICES ASSUME NEW p \in pending', p.rt >= now - Window
               PROVE  p \in Entries(record')
    BY <1>1 DEF NothingSkipped, Entries
  <2>1. CASE p = e  BY <1>7, <2>1
  <2>2. CASE p \in pending
    <3>1. p \in Entries(record)  BY <2>2 DEF RecInv, NothingSkipped, Entries
    <3>2. p.rt \in Int /\ Window \in Int
      BY <2>2, FeedbackAssumption DEF RecInv, RecTypeOK
    <3>3. ~Stale(p)  BY <1>2, <3>2 DEF Stale
    <3> QED  BY <1>4, <1>7, <3>1, <3>3
  <2> QED  BY <1>1, <2>1, <2>2
<1>14. \A x \in Entries(record') : sent' - x.n <= Half /\ x.n \notin flight'
  <2> SUFFICES ASSUME NEW x \in Entries(record')
               PROVE  sent - x.n <= Half /\ x.n \notin flight'
    BY <1>1
  <2>1. CASE x = e  BY <1>1, <1>2, <2>1
  <2>2. CASE x \in Entries(slid)  BY <1>1, <1>4, <2>2 DEF RecInv
  <2> QED  BY <1>7, <2>1, <2>2
<1>15. \A m \in flight' : sent' - m <= Half  BY <1>1 DEF RecInv
<1>16. Entries(record)' = Entries(record')  BY DEF Entries
<1> QED  BY <1>1, <1>10, <1>12, <1>13, <1>14, <1>15, <1>16 DEF RecInv

\* What a report is made from, in a state of the invariant.
LEMMA ReportSound ==
    ASSUME RecInv
    PROVE  LET out == Samples(record).out
           IN  /\ out \in Seq(0 .. sent - 1) /\ Samples(record).last = Id(TopOf(out))
               /\ Advancing(out) /\ TopOf(out) \in -1 .. sent - 1
               /\ sent - TopOf(out) <= Half
               /\ \A x \in Entries(record) : x.n <= TopOf(out)
<1> DEFINE T == {x \in 0 .. sent - 1 : sent - x <= Half}
           out == Samples(record).out
<1>1. /\ sent \in Nat /\ top \in -1 .. sent - 1 /\ sent - top <= Half /\ lastFeedback = Id(top)
      /\ record \in Seq([n : 0 .. sent - 1, rt : 0 .. now]) /\ Half \in Nat
  BY HalfIsHalf DEF RecInv, RecTypeOK
<1>2. Len(record) \in Nat  BY <1>1, LenProperties
<1>3. \A i \in 1 .. Len(record) : record[i].n \in T
  <2> SUFFICES ASSUME NEW i \in 1 .. Len(record)  PROVE record[i].n \in T  OBVIOUS
  <2>1. record[i] \in [n : 0 .. sent - 1, rt : 0 .. now]  BY <1>1, ElementOfSeq
  <2>2. sent - record[i].n <= Half  BY DEF RecInv, Entries
  <2> QED  BY <2>1, <2>2
<1>4. T \in SUBSET Int /\ \A x, y \in T \cup {top} : x - y < Half
  <2>1. \A x \in T \cup {top} : x \in Int /\ x <= sent - 1 /\ sent - x <= Half  BY <1>1
  <2> QED  BY <1>1, <2>1
<1>5. T \subseteq 0 .. sent - 1 /\ top \in Int  BY <1>1
<1>6. \A x \in T \cup {top} : x \in -1 .. sent - 1 /\ sent - x <= Half  BY <1>1
<1> HIDE DEF T
<1>7. /\ out \in Seq(T) /\ Samples(record).last = Id(TopOf(out)) /\ Advancing(out)
      /\ TopOf(out) \in T \cup {top}
      /\ \A i \in 1 .. Len(record) : record[i].n <= TopOf(out)
  BY <1>1, <1>2, <1>3, <1>4, <1>5, SamplesAdvance
<1>8. out \in Seq(0 .. sent - 1)
  <2> DEFINE U == 0 .. sent - 1
  <2>1. T \subseteq U  BY <1>5
  <2> HIDE DEF U, out
  <2>2. out \in Seq(U)  BY <1>7, <2>1, SeqMonotonic
  <2> QED  BY <2>2 DEF U
<1>9. \A x \in Entries(record) : x.n <= TopOf(out)  BY <1>7 DEF Entries
<1> QED  BY <1>6, <1>7, <1>8, <1>9

LEMMA SpanTyped == RecTypeOK => Span(record) \in Nat
<1> SUFFICES ASSUME RecTypeOK  PROVE Span(record) \in Nat  OBVIOUS
<1>1. CASE Len(record) > 1
  <2> DEFINE a == Id(record[1].n)
             b == Id(record[Len(record)].n)
  <2>1. Len(record) \in Nat /\ 1 \in 1 .. Len(record) /\ Len(record) \in 1 .. Len(record)
    BY <1>1, LenProperties DEF RecTypeOK
  <2>2. record[1] \in [n : 0 .. sent - 1, rt : 0 .. now]
        /\ record[Len(record)] \in [n : 0 .. sent - 1, rt : 0 .. now]
    BY <2>1, ElementOfSeq DEF RecTypeOK
  <2>3. record[1].n \in Int /\ record[Len(record)].n \in Int  BY <2>2
  <2>4. a \in 0 .. Ids - 1 /\ b \in 0 .. Ids - 1  BY <2>3, IdTyped
  <2> HIDE DEF a, b
  <2>5. b - a + 1 \in Int /\ Ids \in Nat \ {0}  BY <2>4, HalfIsHalf
  <2>6. (b - a + 1) % Ids \in 0 .. Ids - 1  BY <2>5, IntRemainder
  <2> QED  BY <1>1, <2>5, <2>6 DEF Span, a, b
<1> QED  BY <1>1 DEF Span

\* A report moves top to the latest packet it has.
LEMMA RecFeedback == RecInv /\ Feedback_NetState => RecInv'
<1> SUFFICES ASSUME RecInv, Feedback_NetState  PROVE RecInv'  OBVIOUS
<1> DEFINE out == Samples(record).out
<1>1. /\ running /\ timer = now
      /\ lastFeedback' = Samples(record).last /\ samples' = out
      /\ top' = TopOf(out) /\ pending' = {p \in pending : p.n > top'}
      /\ stats' = [pkts |-> Span(record), losses |-> Losses(record)]
      /\ timer' = now + Interval
      /\ UNCHANGED <<now, sent, flight, running, record, bytes>>
  BY DEF Feedback_NetState, TopOf
<1>2. /\ out \in Seq(0 .. sent - 1) /\ Samples(record).last = Id(TopOf(out))
      /\ TopOf(out) \in -1 .. sent - 1 /\ sent - TopOf(out) <= Half
  BY ReportSound
<1> HIDE DEF out
<1>3. Span(record) \in Nat  BY SpanTyped DEF RecInv
<1>4. Losses(record) \in Nat
  <2>1. Len(record) \in Nat  BY LenProperties DEF RecInv, RecTypeOK
  <2>2. \A i \in 1 .. Len(record) : record[i].n \in Int
    <3>1. \A i \in 1 .. Len(record) : record[i] \in [n : 0 .. sent - 1, rt : 0 .. now]
      BY ElementOfSeq DEF RecInv, RecTypeOK
    <3> QED  BY <3>1
  <2> QED  BY <2>1, <2>2, LossesTyped
<1>5. lastFeedback' \in 0 .. Ids - 1
  <2>1. TopOf(out) \in Int  BY <1>2
  <2> QED  BY <1>1, <1>2, <2>1, IdTyped
<1>6. timer' \in {Off} \cup now' .. now' + Interval
  BY <1>1, FeedbackAssumption DEF RecInv, RecTypeOK
<1>7. RecTypeOK'
  <2>1. /\ now' = now /\ sent' = sent /\ flight' = flight /\ running' = running
        /\ record' = record /\ bytes' = bytes /\ samples' = out /\ top' = TopOf(out)
        /\ pending' \subseteq pending
    BY <1>1
  <2> QED  BY <1>1, <1>2, <1>3, <1>4, <1>5, <1>6, <2>1 DEF RecInv, RecTypeOK
<1>8. RecordOrdered' /\ NothingSkipped'
  BY <1>1 DEF RecInv, RecordOrdered, NothingSkipped
<1>9. Entries(record)' = Entries(record)  BY <1>1 DEF Entries
<1> QED  BY <1>1, <1>2, <1>7, <1>8, <1>9 DEF RecInv

LEMMA RecTick == RecInv /\ Tick => RecInv'
<1> SUFFICES ASSUME RecInv, Tick  PROVE RecInv'  OBVIOUS
<1>1. /\ now < MaxTime /\ timer # now /\ now' = now + 1
      /\ UNCHANGED <<sent, flight, receiverVars>>
  BY DEF Tick
<1>2. UNCHANGED <<sent, flight, running, record, bytes, timer, lastFeedback, stats, samples, top,
                  pending>>
  BY <1>1 DEF receiverVars
<1>3. now \in Nat /\ now' \in 0 .. MaxTime /\ 0 .. now \subseteq 0 .. now'
  BY <1>1, FeedbackAssumption DEF RecInv, RecTypeOK
<1>4. timer' \in {Off} \cup now' .. now' + Interval
  BY <1>1, <1>2, FeedbackAssumption DEF RecInv, RecTypeOK, Off
<1>5. RecTypeOK'
  <2> DEFINE A == 0 .. sent - 1
             S == [n : A, rt : 0 .. now]
             T == [n : A, rt : 0 .. now']
  <2>1. S \subseteq T  BY <1>3
  <2>2. record \in Seq(S) /\ pending \subseteq S  BY DEF RecInv, RecTypeOK
  <2>3. record' \in Seq(T) /\ pending' \subseteq T
    <3> HIDE DEF A, S, T
    <3> QED  BY <1>2, <2>1, <2>2, SeqMonotonic
  <2> QED  BY <1>2, <1>3, <1>4, <2>3 DEF RecInv, RecTypeOK
<1>6. NothingSkipped'
  <2> SUFFICES ASSUME NEW p \in pending, p.rt >= now' - Window
               PROVE  \E i \in 1 .. Len(record) : record[i] = p
    BY <1>2 DEF NothingSkipped
  <2>1. p.rt \in Int /\ Window \in Int  BY FeedbackAssumption DEF RecInv, RecTypeOK
  <2>2. p.rt >= now - Window  BY <1>1, <1>3, <2>1
  <2> QED  BY <2>2 DEF RecInv, NothingSkipped
<1>7. RecordOrdered'  BY <1>2 DEF RecInv, RecordOrdered
<1>8. Entries(record)' = Entries(record)  BY <1>2 DEF Entries
<1> QED  BY <1>2, <1>5, <1>6, <1>7, <1>8 DEF RecInv

\* No other step touches what the receiver reports.
LEMMA RecOthers ==
    ASSUME RecInv, UNCHANGED <<now, sent, record, bytes, lastFeedback, stats, samples, top, pending>>,
           flight' \subseteq flight,
           \/ UNCHANGED <<running, timer>>
           \/ running' = FALSE /\ timer' = Off
    PROVE  RecInv'
<1>1. RecTypeOK'  BY DEF RecInv, RecTypeOK
<1>2. RecordOrdered' /\ NothingSkipped'  BY DEF RecInv, RecordOrdered, NothingSkipped
<1>3. Entries(record)' = Entries(record)  BY DEF Entries
<1> QED  BY <1>1, <1>2, <1>3 DEF RecInv

LEMMA RecStep == RecInv /\ [Next]_vars => RecInv'
<1> SUFFICES ASSUME RecInv, [Next]_vars  PROVE RecInv'  OBVIOUS
<1>1. CASE \E isData \in BOOLEAN : Send(isData)  BY <1>1, RecSend
<1>2. CASE \E n \in flight : Receive(n)  BY <1>2, RecReceive
<1>3. CASE \E n \in flight : Lose(n)  BY <1>3, RecOthers DEF Lose, receiverVars
<1>4. CASE Feedback_NetState  BY <1>4, RecFeedback
<1>5. CASE StopRunning  BY <1>5, RecOthers DEF StopRunning
<1>6. CASE UpdateTxRate  BY <1>6, RecOthers DEF UpdateTxRate, receiverVars
<1>7. CASE Sendback  BY <1>7, RecOthers DEF Sendback, receiverVars
<1>8. CASE Tick  BY <1>8, RecTick
<1>9. CASE UNCHANGED vars  BY <1>9, RecOthers DEF vars, receiverVars
<1> QED  BY <1>1, <1>2, <1>3, <1>4, <1>5, <1>6, <1>7, <1>8, <1>9 DEF Next

\* The types of the AP's state.
ApTypeOK ==
    /\ rates \in BOOLEAN /\ apLast \in 0 .. Ids - 1
    /\ held \subseteq [n : 0 .. sent - 1, data : BOOLEAN] /\ Cardinality(held) <= 1
    /\ apReport \in [n : Nat, before : Nat, gap : 0 .. Ids - 1]

LEMMA ApTypeInitial == Init => ApTypeOK
<1> SUFFICES ASSUME Init  PROVE ApTypeOK  OBVIOUS
<1>1. Ids \in Nat \ {0} /\ Cardinality({}) = 0  BY HalfIsHalf, FS_EmptySet
<1>2. /\ rates = FALSE /\ held = {} /\ apLast = 0
      /\ apReport = [n |-> 0, before |-> 0, gap |-> 0]
  BY DEF Init
<1>3. held \subseteq [n : 0 .. sent - 1, data : BOOLEAN] /\ Cardinality(held) <= 1
  BY <1>1, <1>2
<1>4. apLast \in 0 .. Ids - 1 /\ 0 \in 0 .. Ids - 1  BY <1>1, <1>2
<1>5. apReport \in [n : Nat, before : Nat, gap : 0 .. Ids - 1]  BY <1>2, <1>4
<1> QED  BY <1>2, <1>3, <1>4, <1>5 DEF ApTypeOK

LEMMA ApTypeStep ==
    ASSUME ApTypeOK, sent \in Nat, [Next]_vars
    PROVE  ApTypeOK'
<1>1. CASE \E isData \in BOOLEAN : Send(isData)
  <2>1. PICK isData \in BOOLEAN : Send(isData)  BY <1>1
  <2>2. /\ sent' = sent + 1 /\ UNCHANGED <<rates, apLast, apReport>>
        /\ held' = IF held = {} THEN {[n |-> sent, data |-> isData]} ELSE held
    BY <2>1 DEF Send
  <2>3. held' \subseteq [n : 0 .. sent' - 1, data : BOOLEAN]  BY <2>2 DEF ApTypeOK
  <2>4. Cardinality(held') <= 1
    <3>1. Cardinality({[n |-> sent, data |-> isData]}) = 1  BY FS_Singleton
    <3> QED  BY <2>2, <3>1 DEF ApTypeOK
  <2> QED  BY <2>2, <2>3, <2>4 DEF ApTypeOK
<1>2. CASE Sendback
  <2>1. PICK h \in held :
           LET reports == rates /\ h.data /\ IsLater(Id(h.n))
           IN  /\ held' = {}
               /\ apLast' = IF reports THEN Id(h.n) ELSE apLast
               /\ apReport' = IF reports
                              THEN [n |-> h.n, before |-> apReport.n, gap |-> Gap(Id(h.n))]
                              ELSE apReport
               /\ UNCHANGED <<sent, rates>>
    BY <1>2 DEF Sendback
  <2>2. h.n \in Nat /\ apLast \in 0 .. Ids - 1 /\ Ids \in Nat \ {0}  BY HalfIsHalf DEF ApTypeOK
  <2>3. Id(h.n) \in 0 .. Ids - 1  BY <2>2, IdTyped
  <2>4. Gap(Id(h.n)) \in 0 .. Ids - 1
    <3>1. Id(h.n) + Ids - apLast \in Int  BY <2>2, <2>3
    <3> QED  BY <2>2, <3>1, IntRemainder DEF Gap
  <2>5. Cardinality(held') <= 1 /\ held' \subseteq [n : 0 .. sent' - 1, data : BOOLEAN]
    BY <2>1, FS_EmptySet
  <2>6. apLast' \in 0 .. Ids - 1  BY <2>1, <2>2, <2>3
  <2>7. apReport' \in [n : Nat, before : Nat, gap : 0 .. Ids - 1]
    BY <2>1, <2>2, <2>4 DEF ApTypeOK
  <2> QED  BY <2>1, <2>5, <2>6, <2>7 DEF ApTypeOK
<1>3. CASE UpdateTxRate  BY <1>3 DEF UpdateTxRate, ApTypeOK
<1>4. CASE UNCHANGED <<sent, apVars>>  BY <1>4 DEF apVars, ApTypeOK
<1>5. CASE \E n \in flight : Receive(n) \/ Lose(n)  BY <1>4, <1>5 DEF Receive, Lose
<1>6. CASE Feedback_NetState \/ StopRunning \/ Tick
  BY <1>4, <1>6 DEF Feedback_NetState, StopRunning, Tick
<1>7. CASE UNCHANGED vars  BY <1>4, <1>7 DEF vars
<1> QED  BY <1>1, <1>2, <1>3, <1>5, <1>6, <1>7 DEF Next

LEMMA RecIsInvariant == Spec => []RecInv
  BY RecInitial, RecStep, PTL DEF Spec

\* The receiver's record is typed and in sending order, "history should be
\* ordered", and bytes_in_wnd is what is in it, whatever is lost, late, retired,
\* or passed over by the erasing loop of OnSocketRecv_receiver.
THEOREM RecordIsSound == Spec => []RecordSound
<1> DEFINE Inv == RecInv /\ ApTypeOK
<1>1. Init => Inv  BY RecInitial, ApTypeInitial
<1>2. Inv /\ [Next]_vars => Inv'
  <2> SUFFICES ASSUME RecInv, ApTypeOK, [Next]_vars  PROVE RecInv' /\ ApTypeOK'  OBVIOUS
  <2>1. sent \in Nat  BY DEF RecInv, RecTypeOK
  <2> QED  BY <2>1, RecStep, ApTypeStep
<1>3. Inv => RecordSound
  BY DEF RecInv, RecTypeOK, ApTypeOK, RecordSound, FeedbackTypeOK
<1> QED  BY <1>1, <1>2, <1>3, PTL DEF Spec

\* An arrival that no later packet overtook into a report stays in m_record for
\* the whole of its window.
THEOREM NothingIsSkipped == Spec => []NothingSkipped
<1>1. RecInv => NothingSkipped  BY DEF RecInv
<1> QED  BY <1>1, RecIsInvariant, PTL

\* m_recv_sample starts behind what was reported before and is in sending order.
THEOREM SamplesMoveOn == Spec => ReportsAdvance
<1> DEFINE Moves == samples' # samples =>
                      \A j \in 1 .. Len(samples') :
                         samples'[j] > (IF j = 1 THEN top ELSE samples'[j - 1])
<1>1. RecInv /\ [Next]_vars => [Moves]_vars
  <2> SUFFICES ASSUME RecInv, Next  PROVE Moves  OBVIOUS
  <2>1. CASE Feedback_NetState
    <3>1. samples' = Samples(record).out  BY <2>1 DEF Feedback_NetState
    <3>2. Advancing(Samples(record).out)  BY ReportSound
    <3> QED  BY <3>1, <3>2 DEF Advancing
  <2>2. CASE ~Feedback_NetState
    <3>1. samples' = samples
      BY <2>2 DEF Next, Send, Receive, Lose, StopRunning, UpdateTxRate, Sendback, Tick, receiverVars
    <3> QED  BY <3>1
  <2> QED  BY <2>1, <2>2
<1> QED  BY <1>1, RecIsInvariant, PTL DEF Spec, ReportsAdvance

\* losses_in_wnd and pkts_in_wnd count the packets between the ends of the
\* window, as long as the ids in it do not wrap around.
THEOREM LossesAreExact == Spec => LossesExact
<1> DEFINE last == Len(record)
           Exact == stats' # stats /\ last > 1 /\ Id(record[1].n) < Id(record[last].n) =>
                      /\ stats'.pkts = record[last].n - record[1].n + 1
                      /\ stats'.losses = stats'.pkts - last
<1>1. RecInv /\ [Next]_vars => [Exact]_vars
  <2> SUFFICES ASSUME RecInv, Next, stats' # stats, last > 1,
                      Id(record[1].n) < Id(record[last].n)
               PROVE  /\ stats'.pkts = record[last].n - record[1].n + 1
                      /\ stats'.losses = stats'.pkts - last
    OBVIOUS
  <2> DEFINE a == record[1].n
             b == record[last].n
  <2>1. Feedback_NetState
    BY DEF Next, Send, Receive, Lose, StopRunning, UpdateTxRate, Sendback, Tick, receiverVars
  <2>2. stats' = [pkts |-> Span(record), losses |-> Losses(record)]
    BY <2>1 DEF Feedback_NetState
  <2>3. Len(record) \in Nat \ {0} /\ 1 \in 1 .. Len(record) /\ Len(record) \in 1 .. Len(record)
    BY LenProperties DEF RecInv, RecTypeOK
  <2>4. \A i \in 1 .. Len(record) : record[i].n \in 0 .. sent - 1
    <3>1. \A i \in 1 .. Len(record) : record[i] \in [n : 0 .. sent - 1, rt : 0 .. now]
      BY ElementOfSeq DEF RecInv, RecTypeOK
    <3> QED  BY <3>1
  <2>5. a \in Int /\ b \in Int /\ a < b /\ b < sent /\ sent - a <= Half /\ sent \in Int
    <3>1. a \in 0 .. sent - 1 /\ b \in 0 .. sent - 1 /\ sent \in Int
      BY <2>3, <2>4 DEF RecInv, RecTypeOK
    <3>2. a < b  BY <2>3 DEF RecInv, RecordOrdered
    <3>3. sent - a <= Half  BY <2>3 DEF RecInv, Entries
    <3> QED  BY <3>1, <3>2, <3>3
  <2>6. b - a < Ids - 1 /\ Ids \in Nat \ {0}
    <3>1. Ids \in Nat \ {0} /\ Half \in Nat \ {0} /\ Ids = Half + Half  BY HalfIsHalf
    <3> HIDE DEF a, b
    <3> QED  BY <2>5, <3>1
  <2>7. Losses(record) = b - a + 1 - Len(record)
    <3>1. \A i \in 1 .. Len(record) : record[i].n \in Int  BY <2>4
    <3>2. b - a < Ids /\ Id(a) <= Id(b)
      <4>1. Id(a) \in 0 .. Ids - 1 /\ Id(b) \in 0 .. Ids - 1  BY <2>5, IdTyped
      <4>2. Id(a) < Id(b)  OBVIOUS
      <4> HIDE DEF a, b
      <4> QED  BY <2>5, <2>6, <4>1, <4>2
    <3>3. Ordered(record)  BY DEF RecInv, RecordOrdered, Ordered
    <3> QED  BY <2>3, <3>1, <3>2, <3>3, LossesCounted
  <2>8. Span(record) = b - a + 1
    <3>1. Id(b) - Id(a) = b - a
      <4>1. Id(a) \in 0 .. Ids - 1 /\ Id(b) \in 0 .. Ids - 1  BY <2>5, IdTyped
      <4>2. Id(a) < Id(b)  OBVIOUS
      <4> HIDE DEF a, b
      <4>3. Id(a) <= Id(b) /\ a <= b /\ b <= b /\ b - a < Ids  BY <2>5, <2>6, <4>1, <4>2
      <4> QED  BY <2>5, <4>3, NoWrap
    <3>2. Span(record) = (Id(b) - Id(a) + 1) % Ids  BY DEF Span
    <3> HIDE DEF a, b
    <3>3. b - a + 1 \in 0 .. Ids - 1 /\ Ids * 0 + (b - a + 1) = b - a + 1 /\ 0 \in Int
      BY <2>5, <2>6
    <3>4. (b - a + 1) % Ids = b - a + 1
      <4> DEFINE r == b - a + 1
      <4> HIDE DEF r
      <4>1. r \in 0 .. Ids - 1 /\ Ids * 0 + r = r /\ 0 \in Int  BY <3>3 DEF r
      <4>2. r % Ids = r  BY <2>6, <4>1, SmallRemainder
      <4> QED  BY <4>2 DEF r
    <3> QED  BY <3>1, <3>2, <3>4
  <2> HIDE DEF a, b
  <2>9. /\ stats'.pkts = b - a + 1 /\ stats'.losses = stats'.pkts - Len(record)
    BY <2>2, <2>3, <2>5, <2>7, <2>8
  <2> QED  BY <2>9 DEF a, b
<1> QED  BY <1>1, RecIsInvariant, PTL DEF Spec, LossesExact

\* The AP's last id is that of its last report, which is no further behind the
\* server than the ids can tell; the packet held for Sendback is not older.
ApInv ==
    /\ sent \in Nat
    /\ apReport \in [n : Nat, before : Nat, gap : Nat]
    /\ apLast = Id(apReport.n)
    /\ apReport.n <= sent /\ sent - apReport.n <= Half
    /\ \A h \in held : h.n \in Nat /\ apReport.n <= h.n /\ h.n < sent
    /\ ApGapExact

LEMMA ApInitial == Init => ApInv
<1> SUFFICES ASSUME Init  PROVE ApInv  OBVIOUS
<1>1. Half \in Nat  BY HalfIsHalf
<1>2. Id(0) = 0
  <2>1. Ids \in Nat \ {0}  BY FeedbackAssumption
  <2> QED  BY <2>1 DEF Id
<1>3. /\ sent = 0 /\ held = {} /\ apLast = 0
      /\ apReport = [n |-> 0, before |-> 0, gap |-> 0]
  BY DEF Init
<1> QED  BY <1>1, <1>2, <1>3 DEF ApInv, ApGapExact

\* The server's guard on ids keeps the packets it counts within half a circle.
LEMMA SendKeeps ==
    ASSUME ApInv, NEW isData \in BOOLEAN, Send(isData)
    PROVE  ApInv'
<1>1. /\ sent \in Nat /\ apReport.n \in Nat /\ apLast = Id(apReport.n)
      /\ apReport.n <= sent /\ sent - apReport.n <= Half
  BY DEF ApInv
<1>2. (sent - apLast) % Ids < Half /\ sent' = sent + 1
  BY DEF Send
<1>3. apLast' = apLast /\ apReport' = apReport
  BY DEF Send
<1>4. sent - apReport.n < Half
  <2>1. sent - apReport.n \in 0 .. Ids - 1  BY <1>1, HalfIsHalf
  <2>2. (sent - apLast) % Ids = sent - apReport.n  BY <1>1, <2>1, IdDifference
  <2> QED  BY <1>2, <2>2
<1>5. sent' \in Nat /\ apReport.n <= sent' /\ sent' - apReport.n <= Half
  BY <1>1, <1>2, <1>4, HalfIsHalf
<1>6. \A h \in held' : h.n \in Nat /\ apReport.n <= h.n /\ h.n < sent'
  <2> SUFFICES ASSUME NEW h \in held'
               PROVE  h.n \in Nat /\ apReport.n <= h.n /\ h.n < sent'
    OBVIOUS
  <2>1. h \in held \/ h = [n |-> sent, data |-> isData]  BY DEF Send
  <2>2. CASE h \in held  BY <2>2, <1>1, <1>2 DEF ApInv
  <2>3. CASE h = [n |-> sent, data |-> isData]
    <3>1. h.n = sent  BY <2>3
    <3> QED  BY <3>1, <1>1, <1>2
  <2> QED  BY <2>1, <2>2, <2>3
<1>7. ApGapExact'  BY <1>3 DEF ApInv, ApGapExact
<1> QED  BY <1>1, <1>3, <1>5, <1>6, <1>7 DEF ApInv

\* A report goes from the packet of the last one to the held packet.
LEMMA SendbackKeeps == ApInv /\ Sendback => ApInv'
<1> SUFFICES ASSUME ApInv, Sendback  PROVE ApInv'  OBVIOUS
<1>1. PICK h \in held :
         LET reports == rates /\ h.data /\ IsLater(Id(h.n))
         IN  /\ held' = {} /\ sent' = sent
             /\ apLast' = IF reports THEN Id(h.n) ELSE apLast
             /\ apReport' = IF reports
                            THEN [n |-> h.n, before |-> apReport.n, gap |-> Gap(Id(h.n))]
                            ELSE apReport
  BY DEF Sendback
<1>2. /\ sent \in Nat /\ apReport.n \in Nat /\ apLast = Id(apReport.n)
      /\ h.n \in Nat /\ apReport.n <= h.n /\ h.n < sent /\ sent - apReport.n <= Half
  BY DEF ApInv
<1>3. h.n - apReport.n \in 0 .. Ids - 1 /\ sent - h.n <= Half /\ h.n <= sent
  BY <1>2, HalfIsHalf
<1>4. Gap(Id(h.n)) = h.n - apReport.n  BY <1>2, <1>3, IdDifference DEF Gap
<1>5. CASE apReport' = apReport /\ apLast' = apLast
  BY <1>1, <1>5 DEF ApInv, ApGapExact
<1>6. CASE /\ apReport' = [n |-> h.n, before |-> apReport.n, gap |-> Gap(Id(h.n))]
           /\ apLast' = Id(h.n)
  <2>1. apReport' \in [n : Nat, before : Nat, gap : Nat]  BY <1>2, <1>3, <1>4, <1>6
  <2>2. apReport'.n = h.n /\ apReport'.before = apReport.n /\ apReport'.gap = h.n - apReport.n
    BY <1>4, <1>6
  <2>3. ApGapExact'  BY <1>2, <2>2 DEF ApGapExact
  <2> QED  BY <1>1, <1>2, <1>3, <1>6, <2>1, <2>2, <2>3 DEF ApInv
<1> QED  BY <1>1, <1>5, <1>6

\* No other step touches the AP's reports.
LEMMA OthersKeep ==
    ASSUME ApInv, sent' = sent, held' = held, apLast' = apLast, apReport' = apReport
    PROVE  ApInv'
  BY DEF ApInv, ApGapExact

\* The AP's reports follow the sending order although ids wrap around, and the
\* loss_seq of Sendback is the exact distance of two reports in packets.
THEOREM GapIsExact == Spec => []ApGapExact
<1>1. Init => ApInv  BY ApInitial
<1>2. ApInv /\ [Next]_vars => ApInv'
  <2> SUFFICES ASSUME ApInv, [Next]_vars  PROVE ApInv'  OBVIOUS
  <2>1. CASE \E isData \in BOOLEAN : Send(isData)  BY <2>1, SendKeeps
  <2>2. CASE Sendback  BY <2>2, SendbackKeeps
  <2>3. CASE \E n \in flight : Receive(n) \/ Lose(n)
    BY <2>3, OthersKeep DEF Receive, Lose, apVars
  <2>4. CASE Feedback_NetState \/ StopRunning
    BY <2>4, OthersKeep DEF Feedback_NetState, StopRunning, apVars
  <2>5. CASE UpdateTxRate \/ Tick
    BY <2>5, OthersKeep DEF UpdateTxRate, Tick, apVars
  <2>6. CASE UNCHANGED vars  BY <2>6, OthersKeep DEF vars, apVars
  <2> QED  BY <2>1, <2>2, <2>3, <2>4, <2>5, <2>6 DEF Next
<1>3. ApInv => ApGapExact  BY DEF ApInv
<1> QED  BY <1>1, <1>2, <1>3, PTL DEF Spec
===============================================================================
