-------------------------- MODULE LedgerLines_proofs --------------------------
(***************************************************************************)
(* What a sum over ledger lines is, for any finite set of accounts: the    *)
(* sum of opposite lines is opposite, and lines that each balance add up   *)
(* to a balance.  The library's induction theorems take a predicate as a   *)
(* parameter; the two inductions here take the set of the cases that hold. *)
(***************************************************************************)
EXTENDS LedgerLines, WellFoundedInduction, FiniteSetTheorems, TLAPS

\* A set of natural numbers has a least element.
LEMMA LeastNatural ==
  ASSUME NEW T \in SUBSET Nat, T # {}
  PROVE  \E n \in T : \A m \in T : n =< m
<1>1. PICK n \in T : \A m \in T : ~(<<m, n>> \in OpToRel(<, Nat))
  BY NatLessThanWellFounded, WFMin
<1>2. \A m \in T : ~(m < n)
  BY <1>1 DEF OpToRel
<1>3. n \in Nat /\ \A m \in T : m \in Nat
  OBVIOUS
<1>4. \A m \in T : n =< m
  BY <1>2, <1>3
<1>5. QED BY <1>4

\* Induction over the natural numbers.
LEMMA CountingUp ==
  ASSUME NEW Good \in SUBSET Nat, 0 \in Good, \A n \in Good : n + 1 \in Good
  PROVE  Good = Nat
<1> SUFFICES ASSUME Nat \ Good # {} PROVE FALSE
  OBVIOUS
<1>1. PICK n \in Nat \ Good : \A m \in Nat \ Good : n =< m
  BY LeastNatural
<1>2. n - 1 \in Nat /\ ~(n =< n - 1) /\ (n - 1) + 1 = n
  BY <1>1
<1>3. n - 1 \in Good
  BY <1>1, <1>2
<1>4. QED BY <1>1, <1>2, <1>3

-----------------------------------------------------------------------------
\* The element a sum takes next, and one step of the sum of f over s.
Pick(s) == CHOOSE x \in s : TRUE

Unfold(f, g, s) == IF s = {} THEN 0 ELSE f[Pick(s)] + g[s \ {Pick(s)}]

\* The sums of f over the subsets of its domain.
Partial(f) == CHOOSE g : g = [s \in SUBSET DOMAIN f |-> Unfold(f, g, s)]

LEMMA SumIsPartial ==
  ASSUME NEW f
  PROVE  SumOf(f) = Partial(f)[DOMAIN f]
BY DEF SumOf, FoldFunction, FoldFunctionOnSet, MapThenFoldSet, Partial, Unfold, Pick

\* Taking one element from a finite set.
LEMMA PickOne ==
  ASSUME NEW s, IsFiniteSet(s), s # {}
  PROVE  /\ Pick(s) \in s /\ Pick(s) \notin s \ {Pick(s)}
         /\ IsFiniteSet(s \ {Pick(s)})
         /\ Cardinality(s) \in Nat /\ Cardinality(s \ {Pick(s)}) = Cardinality(s) - 1
<1>1. Pick(s) \in s
  BY DEF Pick
<1>2. QED BY <1>1, FS_RemoveElement, FS_CardinalityType

\* Induction over the finite subsets of a set, in the order of a sum.
LEMMA TakingOne ==
  ASSUME NEW S, IsFiniteSet(S), NEW Good, {} \in Good,
         \A s \in SUBSET S : s # {} /\ s \ {Pick(s)} \in Good => s \in Good
  PROVE  \A s \in SUBSET S : s \in Good
<1> DEFINE sizes == {Cardinality(s) : s \in {t \in SUBSET S : t \notin Good}}
<1>1. \A s \in SUBSET S : IsFiniteSet(s) /\ Cardinality(s) \in Nat
  BY FS_Subset, FS_CardinalityType
<1>2. SUFFICES ASSUME sizes # {} PROVE FALSE
  OBVIOUS
<1>3. sizes \in SUBSET Nat
  BY <1>1
<1>4. PICK n \in sizes : \A m \in sizes : n =< m
  BY <1>2, <1>3, LeastNatural
<1>5. PICK s \in SUBSET S : s \notin Good /\ n = Cardinality(s)
  BY <1>4
<1>6. s # {}
  BY <1>5
<1> DEFINE t == s \ {Pick(s)}
<1>7. Cardinality(t) = n - 1 /\ n \in Nat
  BY <1>1, <1>5, <1>6, PickOne
<1>8. t \in SUBSET S /\ t \notin Good
  BY <1>5, <1>6
<1>9. Cardinality(t) \in sizes
  BY <1>8
<1>10. n =< n - 1
  BY <1>4, <1>7, <1>9
<1>11. QED BY <1>7, <1>10

\* The sums of f over its subsets of at most n elements exist.
SumsUpTo(f, n) ==
  \E g : \A s \in SUBSET DOMAIN f : Cardinality(s) =< n => g[s] = Unfold(f, g, s)

LEMMA SumsExist ==
  ASSUME NEW f, IsFiniteSet(DOMAIN f)
  PROVE  \A n \in Nat : SumsUpTo(f, n)
<1> DEFINE Good == {n \in Nat : SumsUpTo(f, n)}
<1>1. \A s \in SUBSET DOMAIN f : IsFiniteSet(s) /\ Cardinality(s) \in Nat
  BY FS_Subset, FS_CardinalityType
<1>2. 0 \in Good
  <2> DEFINE g == [s \in SUBSET DOMAIN f |-> 0]
  <2>1. \A s \in SUBSET DOMAIN f : Cardinality(s) =< 0 => s = {}
    BY <1>1, FS_EmptySet
  <2>2. \A s \in SUBSET DOMAIN f : Cardinality(s) =< 0 => g[s] = Unfold(f, g, s)
    BY <2>1 DEF Unfold
  <2>3. QED BY <2>2 DEF SumsUpTo
<1>3. ASSUME NEW n \in Good PROVE n + 1 \in Good
  <2>1. PICK g : \A s \in SUBSET DOMAIN f : Cardinality(s) =< n => g[s] = Unfold(f, g, s)
    BY DEF SumsUpTo
  <2> DEFINE h == [s \in SUBSET DOMAIN f |-> Unfold(f, g, s)]
  <2>2. ASSUME NEW s \in SUBSET DOMAIN f, Cardinality(s) =< n + 1
        PROVE  h[s] = Unfold(f, h, s)
    <3>1. CASE s = {}
      BY <3>1 DEF Unfold
    <3>2. CASE s # {}
      <4> DEFINE t == s \ {Pick(s)}
      <4>1. t \in SUBSET DOMAIN f /\ Cardinality(t) =< n
        BY <1>1, <2>2, <3>2, PickOne
      <4>2. h[t] = g[t]
        BY <2>1, <4>1
      <4>3. QED BY <3>2, <4>2 DEF Unfold
    <3>3. QED BY <3>1, <3>2
  <2> HIDE DEF h
  <2>3. SumsUpTo(f, n + 1)
    BY <2>2 DEF SumsUpTo
  <2>4. QED BY <2>3
<1>4. Good = Nat
  BY <1>2, <1>3, CountingUp
<1>5. QED BY <1>4

\* The sums of f unfold as a sum does: one element, and the sum of the rest.
LEMMA SumUnfolds ==
  ASSUME NEW f, IsFiniteSet(DOMAIN f)
  PROVE  \A s \in SUBSET DOMAIN f : Partial(f)[s] = Unfold(f, Partial(f), s)
<1> DEFINE n == Cardinality(DOMAIN f)
<1>1. n \in Nat /\ \A s \in SUBSET DOMAIN f : Cardinality(s) =< n
  BY FS_Subset, FS_CardinalityType
<1>2. PICK g : \A s \in SUBSET DOMAIN f : g[s] = Unfold(f, g, s)
  BY <1>1, SumsExist DEF SumsUpTo
<1> DEFINE h == [s \in SUBSET DOMAIN f |-> g[s]]
<1>3. \A s \in SUBSET DOMAIN f : h[s] = Unfold(f, h, s)
  BY <1>2 DEF Unfold
<1>4. h = [s \in SUBSET DOMAIN f |-> Unfold(f, h, s)]
  BY <1>3
<1> HIDE DEF h
<1>5. Partial(f) = [s \in SUBSET DOMAIN f |-> Unfold(f, Partial(f), s)]
  BY <1>4 DEF Partial
<1>6. QED BY <1>5

\* The sum over nothing, and over one element and the rest.
LEMMA SumOfNone ==
  ASSUME NEW f, IsFiniteSet(DOMAIN f)
  PROVE  Partial(f)[{}] = 0
BY SumUnfolds DEF Unfold

LEMMA SumTakesOne ==
  ASSUME NEW D, IsFiniteSet(D), NEW f, DOMAIN f = D, NEW s \in SUBSET D, s # {}
  PROVE  /\ Pick(s) \in D /\ s \ {Pick(s)} \in SUBSET D
         /\ Partial(f)[s] = f[Pick(s)] + Partial(f)[s \ {Pick(s)}]
<1>1. Pick(s) \in s
  BY DEF Pick
<1>2. QED BY <1>1, SumUnfolds DEF Unfold

\* A sum of integers is an integer.
LEMMA PartialType ==
  ASSUME NEW D, IsFiniteSet(D), NEW f \in [D -> Int]
  PROVE  \A s \in SUBSET D : Partial(f)[s] \in Int
<1> DEFINE Good == {s \in SUBSET D : Partial(f)[s] \in Int}
<1>1. {} \in Good
  BY SumOfNone
<1>2. ASSUME NEW s \in SUBSET D, s # {}, s \ {Pick(s)} \in Good PROVE s \in Good
  BY <1>2, SumTakesOne
<1> HIDE DEF Good
<1>3. \A s \in SUBSET D : s \in Good
  BY <1>1, <1>2, TakingOne
<1>4. QED BY <1>3 DEF Good
LEMMA SumType ==
  ASSUME NEW D, IsFiniteSet(D), NEW f \in [D -> Int]
  PROVE  SumOf(f) \in Int
BY PartialType, SumIsPartial

\* The sum of nothing but zeros is zero.
LEMMA SumOfZeros ==
  ASSUME NEW D, IsFiniteSet(D), NEW f, DOMAIN f = D, \A x \in D : f[x] = 0
  PROVE  SumOf(f) = 0
<1> DEFINE Good == {s \in SUBSET D : Partial(f)[s] = 0}
<1>1. {} \in Good
  BY SumOfNone
<1>2. ASSUME NEW s \in SUBSET D, s # {}, s \ {Pick(s)} \in Good PROVE s \in Good
  BY <1>2, SumTakesOne
<1> HIDE DEF Good
<1>3. D \in Good
  BY <1>1, <1>2, TakingOne
<1>4. QED BY <1>3, SumIsPartial DEF Good

\* A sum and the sum of the opposite amounts cancel out.
LEMMA SumOfOpposites ==
  ASSUME NEW D, IsFiniteSet(D), NEW f \in [D -> Int],
         NEW g \in [D -> Int], \A x \in D : g[x] = -f[x]
  PROVE  SumOf(f) + SumOf(g) = 0
<1> DEFINE Good == {s \in SUBSET D : Partial(f)[s] + Partial(g)[s] = 0}
<1>1. {} \in Good /\ \A s \in SUBSET D : s # {} /\ s \ {Pick(s)} \in Good => s \in Good
  <2>1. {} \in Good
    BY SumOfNone
  <2>2. ASSUME NEW s \in SUBSET D, s # {}, s \ {Pick(s)} \in Good PROVE s \in Good
    <3> DEFINE x == Pick(s)
               t == s \ {Pick(s)}
    <3>1. ASSUME NEW k \in [D -> Int]
          PROVE  x \in D /\ t \in SUBSET D /\ Partial(k)[s] = k[x] + Partial(k)[t]
      BY <2>2, SumTakesOne
    <3>2. /\ x \in D /\ t \in SUBSET D
          /\ Partial(f)[s] = f[x] + Partial(f)[t]
          /\ Partial(g)[s] = g[x] + Partial(g)[t]
      BY <3>1
    <3>3. /\ Partial(f)[t] + Partial(g)[t] = 0
          /\ Partial(f)[t] \in Int /\ Partial(g)[t] \in Int /\ f[x] \in Int
      BY <2>2, <3>2, PartialType
    <3>4. g[x] = -f[x]
      BY <3>2
    <3> HIDE DEF x, t
    <3>5. QED BY <3>2, <3>3, <3>4
  <2>3. QED BY <2>1, <2>2
<1> HIDE DEF Good
<1>2. D \in Good
  BY <1>1, TakingOne
<1>3. QED BY <1>2, SumIsPartial DEF Good

\* The sum of two sums, element by element.
LEMMA SumOfPairs ==
  ASSUME NEW D, IsFiniteSet(D), NEW f \in [D -> Int], NEW g \in [D -> Int],
         NEW h \in [D -> Int], \A x \in D : h[x] = f[x] + g[x]
  PROVE  SumOf(h) = SumOf(f) + SumOf(g)
<1> DEFINE Good == {s \in SUBSET D : Partial(h)[s] = Partial(f)[s] + Partial(g)[s]}
<1>1. {} \in Good /\ \A s \in SUBSET D : s # {} /\ s \ {Pick(s)} \in Good => s \in Good
  <2>1. {} \in Good
    BY SumOfNone
  <2>2. ASSUME NEW s \in SUBSET D, s # {}, s \ {Pick(s)} \in Good PROVE s \in Good
    <3> DEFINE x == Pick(s)
               t == s \ {Pick(s)}
    <3>1. ASSUME NEW k \in [D -> Int]
          PROVE  x \in D /\ t \in SUBSET D /\ Partial(k)[s] = k[x] + Partial(k)[t]
      BY <2>2, SumTakesOne
    <3>2. /\ x \in D /\ t \in SUBSET D
          /\ Partial(f)[s] = f[x] + Partial(f)[t]
          /\ Partial(g)[s] = g[x] + Partial(g)[t]
          /\ Partial(h)[s] = h[x] + Partial(h)[t]
      BY <3>1
    <3>3. /\ Partial(h)[t] = Partial(f)[t] + Partial(g)[t]
          /\ Partial(f)[t] \in Int /\ Partial(g)[t] \in Int
          /\ f[x] \in Int /\ g[x] \in Int
      BY <2>2, <3>2, PartialType
    <3>4. h[x] = f[x] + g[x]
      BY <3>2
    <3> HIDE DEF x, t
    <3>5. QED BY <3>2, <3>3, <3>4
  <2>3. QED BY <2>1, <2>2
<1> HIDE DEF Good
<1>2. D \in Good
  BY <1>1, TakingOne
<1>3. QED BY <1>2, SumIsPartial DEF Good

\* The sum of the columns is the sum of the rows.
LEMMA SumOfSums ==
  ASSUME NEW P, IsFiniteSet(P), NEW D, IsFiniteSet(D), NEW r \in [P -> [D -> Int]]
  PROVE  SumOf([a \in D |-> SumOf([p \in P |-> r[p][a]])]) = SumOf([p \in P |-> SumOf(r[p])])
<1> DEFINE Column(a) == [p \in P |-> r[p][a]]
           Totals == [p \in P |-> SumOf(r[p])]
           Columns(s) == [a \in D |-> Partial(Column(a))[s]]
           Good == {s \in SUBSET P : SumOf(Columns(s)) = Partial(Totals)[s]}
<1>1. \A a \in D : Column(a) \in [P -> Int] /\ DOMAIN Column(a) = P
  OBVIOUS
<1>2. {} \in Good
  <2>1. \A a \in D : Partial(Column(a))[{}] = 0
    BY <1>1, SumOfNone
  <2>2. Partial(Totals)[{}] = 0
    BY SumOfNone
  <2>3. SumOf(Columns({})) = 0
    BY <2>1, SumOfZeros
  <2>4. QED BY <2>2, <2>3
<1>3. ASSUME NEW s \in SUBSET P, s # {}, s \ {Pick(s)} \in Good PROVE s \in Good
  <2> DEFINE x == Pick(s)
             t == s \ {Pick(s)}
  <2> HIDE DEF Column
  <2>1. x \in P /\ t \in SUBSET P
    BY <1>3 DEF Pick
  <2>2. ASSUME NEW f, DOMAIN f = P PROVE Partial(f)[s] = f[x] + Partial(f)[t]
    BY <1>3, <2>2, SumTakesOne
  <2>3. \A a \in D : Partial(Column(a))[s] = Column(a)[x] + Partial(Column(a))[t]
    BY <1>1, <2>2
  <2>4. Partial(Totals)[s] = Totals[x] + Partial(Totals)[t]
    BY <2>2
  <2>5. \A a \in D : Partial(Column(a))[s] \in Int /\ Partial(Column(a))[t] \in Int
    BY <1>1, <2>1, PartialType
  <2>6. Columns(s) \in [D -> Int] /\ Columns(t) \in [D -> Int] /\ r[x] \in [D -> Int]
    BY <2>1, <2>5
  <2>7. \A a \in D : Columns(s)[a] = r[x][a] + Columns(t)[a]
    BY <2>1, <2>3 DEF Column
  <2>8. SumOf(Columns(s)) = SumOf(r[x]) + SumOf(Columns(t))
    <3> HIDE DEF Columns, x, t
    <3>1. QED BY <2>6, <2>7, SumOfPairs
  <2>9. SumOf(Columns(t)) = Partial(Totals)[t]
    BY <1>3
  <2>10. QED BY <2>1, <2>4, <2>8, <2>9
<1>4. SumOf(Columns(P)) = Partial(Totals)[P]
  <2> HIDE DEF Good
  <2>1. P \in Good
    BY <1>2, <1>3, TakingOne
  <2>2. QED BY <2>1 DEF Good
<1>5. \A a \in D : Partial(Column(a))[P] = SumOf(Column(a))
  BY <1>1, SumIsPartial
<1>6. Columns(P) = [a \in D |-> SumOf(Column(a))]
  BY <1>5
<1>7. Partial(Totals)[P] = SumOf(Totals)
  BY SumIsPartial
<1>8. QED BY <1>4, <1>6, <1>7

-----------------------------------------------------------------------------
\* The lines that carry whole paise, of any size.
IntLines == [Accounts -> Int]

LEMMA LinesAreInt ==
  /\ LineSet \subseteq IntLines /\ NoLines \in IntLines
  /\ \A lines \in IntLines : Flipped(lines) \in IntLines
<1>1. LineSet \subseteq IntLines
  BY AmountsAssumption DEF LineSet, IntLines
<1>2. NoLines \in IntLines
  BY DEF NoLines, IntLines
<1>3. \A lines \in IntLines : Flipped(lines) \in IntLines
  BY DEF Flipped, IntLines
<1>4. QED BY <1>1, <1>2, <1>3

\* No lines balance, and a reversal of balanced lines balances.
LEMMA NoLinesBalance == Balanced(NoLines)
BY AccountsAssumption, SumOfZeros DEF Balanced, NoLines

LEMMA FlippedBalance ==
  ASSUME NEW lines \in IntLines, Balanced(lines)
  PROVE  Balanced(Flipped(lines))
<1>1. Flipped(lines) \in IntLines /\ \A a \in Accounts : Flipped(lines)[a] = -lines[a]
  BY LinesAreInt DEF Flipped
<1>2. SumOf(lines) + SumOf(Flipped(lines)) = 0
  BY <1>1, AccountsAssumption, SumOfOpposites DEF IntLines
<1>3. SumOf(lines) = 0 /\ SumOf(Flipped(lines)) \in Int
  BY <1>1, AccountsAssumption, SumType DEF Balanced, IntLines
<1>4. SumOf(Flipped(lines)) = 0
  BY <1>2, <1>3
<1>5. QED BY <1>4 DEF Balanced

\* The total of postings is a whole amount for each account.
LEMMA TotalType ==
  ASSUME NEW postings, IsFiniteSet(postings), \A p \in postings : p[2] \in IntLines
  PROVE  TotalOf(postings) \in IntLines
<1>1. ASSUME NEW a \in Accounts PROVE SumOf([p \in postings |-> p[2][a]]) \in Int
  <2>1. [p \in postings |-> p[2][a]] \in [postings -> Int]
    BY DEF IntLines
  <2>2. QED BY <2>1, SumType
<1>2. QED BY <1>1 DEF TotalOf, IntLines

\* The total of postings that balance balances: a trial balance agrees.
LEMMA TotalBalances ==
  ASSUME NEW postings, IsFiniteSet(postings),
         \A p \in postings : p[2] \in IntLines /\ Balanced(p[2])
  PROVE  Balanced(TotalOf(postings))
<1> DEFINE r == [p \in postings |-> p[2]]
<1>1. r \in [postings -> [Accounts -> Int]]
  BY DEF IntLines
<1>2. TotalOf(postings) = [a \in Accounts |-> SumOf([p \in postings |-> r[p][a]])]
  BY DEF TotalOf
<1>3. \A p \in postings : SumOf(r[p]) = 0
  BY DEF Balanced
<1> HIDE DEF r
<1>4. SumOf(TotalOf(postings)) = SumOf([p \in postings |-> SumOf(r[p])])
  BY <1>1, <1>2, AccountsAssumption, SumOfSums
<1>5. SumOf([p \in postings |-> SumOf(r[p])]) = 0
  BY <1>3, SumOfZeros
<1>6. QED BY <1>4, <1>5 DEF Balanced
=============================================================================
