---------------------------- MODULE ADParserProofs ----------------------------
(***************************************************************************)
(* Theorems about ADParser for any functions, any trace and any cuts of it  *)
(* into IO steps.                                                           *)
(***************************************************************************)
EXTENDS ADParser, WellFoundedInduction, TLAPS

-----------------------------------------------------------------------------
(* Induction over the natural numbers, for sets.                            *)

LEMMA LeastOne ==
  ASSUME NEW T, T \subseteq Nat, T # {}
  PROVE  \E m \in T : \A x \in T : m <= x
<1> DEFINE R == OpToRel(<, Nat)
<1>1. IsWellFoundedOn(R, Nat)
  BY NatLessThanWellFounded
<1>2. PICK m \in T : \A y \in T : ~(<<y, m>> \in R)
  <2> HIDE DEF R
  <2> QED
    BY <1>1, WFMin
<1>3. \A y \in T : ~(y < m)
  BY <1>2 DEF OpToRel
<1> QED
  BY <1>3

(* Whatever holds of 0 and goes from each number to the next, up to n.      *)
LEMMA UpTo ==
  ASSUME NEW n \in Nat, NEW S, 0 \in S, \A k \in 0 .. n - 1 : k \in S => k + 1 \in S
  PROVE  \A k \in 0 .. n : k \in S
<1> DEFINE T == (0 .. n) \ S
<1>1. SUFFICES ASSUME T # {} PROVE FALSE
  OBVIOUS
<1>2. PICK m \in T : \A x \in T : m <= x
  <2>1. T \subseteq Nat
    OBVIOUS
  <2> HIDE DEF T
  <2> QED
    BY <1>1, <2>1, LeastOne
<1>3. m \in Nat /\ m # 0 /\ m <= n /\ m \notin S
  BY <1>2
<1>4. m - 1 \in 0 .. n - 1 /\ m - 1 \in S
  BY <1>2, <1>3
<1>5. (m - 1) + 1 \in S
  BY <1>4
<1> QED
  BY <1>3, <1>5

(* A set of numbers up to n has a largest one.                              *)
LEMMA LargestOne ==
  ASSUME NEW n \in Nat, NEW S, S \subseteq 0 .. n, S # {}
  PROVE  /\ Max(S) \in S
         /\ \A x \in S : x <= Max(S)
<1> DEFINE T == {n - x : x \in S}
<1>1. PICK m \in T : \A x \in T : m <= x
  <2>1. \A x \in S : n - x \in Nat
    OBVIOUS
  <2>2. T \subseteq Nat /\ T # {}
    BY <2>1
  <2> HIDE DEF T
  <2> QED
    BY <2>2, LeastOne
<1>2. PICK x \in S : m = n - x
  BY <1>1
<1>3. \A y \in S : x >= y
  <2>1. \A y \in S : m <= n - y
    BY <1>1
  <2> QED
    BY <1>2, <2>1
<1> QED
  BY <1>2, <1>3 DEF Max

LEMMA MaxIs ==
  ASSUME NEW S, S \subseteq Nat, NEW m \in S, \A x \in S : x <= m
  PROVE  Max(S) = m
<1>1. m \in S /\ \A y \in S : m >= y
  OBVIOUS
<1>2. Max(S) \in S /\ \A y \in S : Max(S) >= y
  BY <1>1 DEF Max
<1>3. Max(S) \in Nat /\ Max(S) >= m /\ m >= Max(S)
  BY <1>1, <1>2
<1> QED
  BY <1>3

-----------------------------------------------------------------------------
(* A recursive function on 0 .. n exists.  Each definition by a recursive   *)
(* function below is the value of one: the function chosen by the           *)
(* definition agrees with the one that exists.                              *)
Follows(f, n, U, a, G) ==
  /\ f \in [0 .. n -> U]
  /\ f[0] = a
  /\ \A i \in 1 .. n : f[i] = G[<<i, f[i - 1]>>]

LEMMA Recursion ==
  ASSUME NEW n \in Nat, NEW U, NEW a \in U, NEW G \in [(1 .. n) \X U -> U]
  PROVE  \E f : Follows(f, n, U, a, G)
<1> DEFINE Good(f, m) == f[0] = a /\ \A i \in 1 .. m : f[i] = G[<<i, f[i - 1]>>]
           Defined == {m \in 0 .. n : \E f \in [0 .. m -> U] : Good(f, m)}
<1>1. 0 \in Defined
  <2>1. [i \in 0 .. 0 |-> a] \in [0 .. 0 -> U] /\ Good([i \in 0 .. 0 |-> a], 0)
    OBVIOUS
  <2> HIDE DEF Good
  <2> QED
    BY <2>1
<1>2. ASSUME NEW m \in 0 .. n - 1, m \in Defined PROVE m + 1 \in Defined
  <2>1. PICK f \in [0 .. m -> U] : Good(f, m)
    BY <1>2
  <2> DEFINE g == [i \in 0 .. m + 1 |-> IF i <= m THEN f[i] ELSE G[<<m + 1, f[m]>>]]
  <2>0. f[m] \in U /\ G[<<m + 1, f[m]>>] \in U
    <3>1. <<m + 1, f[m]>> \in (1 .. n) \X U
      OBVIOUS
    <3> QED
      BY <3>1
  <2>1a. (\A i \in 0 .. m : g[i] = f[i]) /\ g[m + 1] = G[<<m + 1, f[m]>>]
    OBVIOUS
  <2>2. g \in [0 .. m + 1 -> U] /\ (\A i \in 0 .. m : g[i] = f[i]) /\ g[m + 1] = G[<<m + 1, g[m]>>]
    <3>1. \A i \in 0 .. m + 1 : (IF i <= m THEN f[i] ELSE G[<<m + 1, f[m]>>]) \in U
      BY <2>0
    <3>2. g \in [0 .. m + 1 -> U]
      BY <3>1
    <3>3. m \in 0 .. m
      OBVIOUS
    <3> HIDE DEF g
    <3> QED
      BY <2>1a, <3>2, <3>3
  <2> HIDE DEF g
  <2>3. ASSUME NEW i \in 1 .. m + 1 PROVE g[i] = G[<<i, g[i - 1]>>]
    <3>1. CASE i = m + 1
      BY <2>2, <3>1
    <3>2. CASE i \in 1 .. m
      BY <2>1, <2>2, <3>2
    <3> QED
      BY <3>1, <3>2
  <2>4. Good(g, m + 1)
    BY <2>1, <2>2, <2>3
  <2> QED
    BY <2>2, <2>4
<1>3. n \in Defined
  <2>1. \A k \in 0 .. n - 1 : k \in Defined => k + 1 \in Defined
    BY <1>2
  <2> HIDE DEF Defined
  <2> QED
    BY <1>1, <2>1, UpTo
<1> QED
  BY <1>3 DEF Follows

-----------------------------------------------------------------------------
(* The rows of a sequence that are in a set.                                *)

Keeps(kept, rows, S, n) ==
  /\ kept[0] = <<>>
  /\ \A i \in 1 .. n :
       kept[i] = IF rows[i] \in S THEN Append(kept[i - 1], rows[i]) ELSE kept[i - 1]

LEMMA OnlyUnfolds ==
  ASSUME NEW T, NEW rows \in Seq(T), NEW S
  PROVE  \E kept \in [0 .. Len(rows) -> Seq(T)] :
           Keeps(kept, rows, S, Len(rows)) /\ Only(rows, S) = kept[Len(rows)]
<1>0. PICK n \in Nat : n = Len(rows)
  OBVIOUS
<1> DEFINE Body(f, i) == IF i = 0 THEN <<>>
                         ELSE IF rows[i] \in S THEN Append(f[i - 1], rows[i]) ELSE f[i - 1]
           F == CHOOSE f : f = [i \in 0 .. n |-> Body(f, i)]
           G == [x \in (1 .. n) \X Seq(T) |->
                   IF rows[x[1]] \in S THEN Append(x[2], rows[x[1]]) ELSE x[2]]
<1>1. Only(rows, S) = F[n]
  BY <1>0 DEF Only
<1>2. <<>> \in Seq(T) /\ G \in [(1 .. n) \X Seq(T) -> Seq(T)]
  BY <1>0
<1>3. PICK f : Follows(f, n, Seq(T), <<>>, G)
  <2> HIDE DEF G
  <2> QED
    BY <1>2, Recursion
<1>3a. f \in [0 .. n -> Seq(T)] /\ f[0] = <<>>
  BY <1>3 DEF Follows
<1>4. \A i \in 0 .. n : f[i] = Body(f, i)
  <2>1. ASSUME NEW i \in 1 .. n PROVE f[i] = Body(f, i)
    <3>1. <<i, f[i - 1]>> \in (1 .. n) \X Seq(T)
      BY <1>3a
    <3>2. f[i] = G[<<i, f[i - 1]>>]
      BY <1>3 DEF Follows
    <3> QED
      BY <3>1, <3>2
  <2>2. f[0] = Body(f, 0)
    BY <1>3a
  <2>3. \A i \in 0 .. n : i = 0 \/ i \in 1 .. n
    OBVIOUS
  <2> HIDE DEF Body
  <2> QED
    BY <2>1, <2>2, <2>3
<1>5. F = [i \in 0 .. n |-> Body(F, i)]
  <2>1. f = [i \in 0 .. n |-> Body(f, i)]
    <3>1. f = [i \in 0 .. n |-> f[i]]
      BY <1>3a
    <3> HIDE DEF Body
    <3> QED
      BY <1>4, <3>1
  <2> HIDE DEF Body
  <2> QED
    BY <2>1
<1>6. \A i \in 0 .. n : F[i] = Body(F, i)
  <2> HIDE DEF Body, F
  <2> QED
    BY <1>5
<1>7. F = f
  <2> DEFINE Same == {i \in 0 .. n : F[i] = f[i]}
  <2> HIDE DEF F
  <2>1. 0 \in Same
    BY <1>3a, <1>6
  <2>2. ASSUME NEW k \in 0 .. n - 1, F[k] = f[k] PROVE F[k + 1] = f[k + 1]
    <3>1. k + 1 \in 0 .. n /\ k + 1 # 0 /\ (k + 1) - 1 = k
      OBVIOUS
    <3>2. F[k + 1] = Body(F, k + 1) /\ f[k + 1] = Body(f, k + 1)
      BY <1>4, <1>6, <3>1
    <3>3. Body(F, k + 1) = Body(f, k + 1)
      BY <2>2, <3>1
    <3> QED
      BY <3>2, <3>3
  <2>3. \A k \in 0 .. n : k \in Same
    <3>1. \A k \in 0 .. n - 1 : k \in Same => k + 1 \in Same
      BY <2>2
    <3> HIDE DEF Same
    <3> QED
      BY <2>1, <3>1, UpTo
  <2>4. F = [i \in 0 .. n |-> F[i]]
    <3> HIDE DEF Body
    <3> QED
      BY <1>5, <1>6
  <2>5. f = [i \in 0 .. n |-> f[i]]
    BY <1>3a
  <2> QED
    BY <2>3, <2>4, <2>5
<1>8. ASSUME NEW i \in 1 .. n
      PROVE  f[i] = IF rows[i] \in S THEN Append(f[i - 1], rows[i]) ELSE f[i - 1]
  <2>1. i \in 0 .. n /\ i # 0
    OBVIOUS
  <2>2. f[i] = Body(f, i)
    BY <1>4, <2>1
  <2> QED
    BY <2>1, <2>2
<1>9. Keeps(f, rows, S, n)
  BY <1>3a, <1>8 DEF Keeps
<1> QED
  <2> HIDE DEF F
  <2> QED
    BY <1>0, <1>1, <1>3a, <1>7, <1>9

(* They are some of the rows, in their order, and all of those in the set:  *)
(* at says where the rows kept were.                                        *)
PartOf(out, rows, S, at) ==
  /\ at \in [DOMAIN out -> DOMAIN rows]
  /\ \A i \in DOMAIN out : out[i] = rows[at[i]] /\ rows[at[i]] \in S
  /\ \A i, j \in DOMAIN out : i < j => at[i] < at[j]
  /\ \A k \in DOMAIN rows : rows[k] \in S => \E i \in DOMAIN out : at[i] = k

LEMMA OnlyIs ==
  ASSUME NEW T, NEW rows \in Seq(T), NEW S
  PROVE  /\ Only(rows, S) \in Seq(T)
         /\ \E at : PartOf(Only(rows, S), rows, S, at)
<1>0. PICK n \in Nat : n = Len(rows) /\ DOMAIN rows = 1 .. n
  OBVIOUS
<1>1. PICK kept \in [0 .. n -> Seq(T)] : Keeps(kept, rows, S, n) /\ Only(rows, S) = kept[n]
  BY <1>0, OnlyUnfolds
<1> DEFINE Is(m, at) ==
             /\ \A i \in 1 .. Len(kept[m]) : kept[m][i] = rows[at[i]] /\ rows[at[i]] \in S
             /\ \A i, j \in 1 .. Len(kept[m]) : i < j => at[i] < at[j]
             /\ \A k \in 1 .. m : rows[k] \in S => \E i \in 1 .. Len(kept[m]) : at[i] = k
           Good == {m \in 0 .. n : \E at \in [1 .. Len(kept[m]) -> 1 .. m] : Is(m, at)}
<1>2. 0 \in Good
  <2>1. Len(kept[0]) = 0
    BY <1>1 DEF Keeps
  <2> DEFINE none == [i \in 1 .. 0 |-> i]
  <2>2. none \in [1 .. Len(kept[0]) -> 1 .. 0]
    BY <2>1
  <2>3. Is(0, none)
    BY <2>1
  <2>4. 0 \in 0 .. n
    OBVIOUS
  <2> HIDE DEF Is, none
  <2> QED
    BY <2>2, <2>3, <2>4
<1>3. ASSUME NEW m \in 0 .. n - 1, m \in Good PROVE m + 1 \in Good
  <2>1. PICK at \in [1 .. Len(kept[m]) -> 1 .. m] : Is(m, at)
    BY <1>3
  <2>2. kept[m] \in Seq(T) /\ Len(kept[m]) \in Nat /\ rows[m + 1] \in T
    <3>1. m \in 0 .. n /\ m + 1 \in 1 .. n
      OBVIOUS
    <3>2. kept[m] \in Seq(T)
      BY <1>1, <3>1
    <3>3. rows[m + 1] \in T
      BY <1>0, <3>1
    <3> QED
      BY <3>2, <3>3
  <2>2a. m + 1 \in 1 .. n /\ (m + 1) - 1 = m
    OBVIOUS
  <2>2b. kept[m + 1] = IF rows[m + 1] \in S THEN Append(kept[m], rows[m + 1]) ELSE kept[m]
    BY <1>1, <2>2a DEF Keeps
  <2>3. CASE rows[m + 1] \notin S
    <3>1. kept[m + 1] = kept[m]
      BY <2>2b, <2>3
    <3>2. at \in [1 .. Len(kept[m + 1]) -> 1 .. m + 1]
      BY <2>1, <3>1
    <3>3. \A k \in 1 .. m + 1 : rows[k] \in S => k \in 1 .. m
      <4>1. \A k \in 1 .. m + 1 : k = m + 1 \/ k \in 1 .. m
        OBVIOUS
      <4> QED
        BY <2>3, <4>1
    <3>4. Is(m + 1, at)
      BY <2>1, <3>1, <3>3
    <3> HIDE DEF Is
    <3> QED
      BY <3>2, <3>4
  <2>4. CASE rows[m + 1] \in S
    <3>1. kept[m + 1] = Append(kept[m], rows[m + 1])
      BY <2>2b, <2>4
    <3> DEFINE L == Len(kept[m])
               to == [i \in 1 .. L + 1 |-> IF i <= L THEN at[i] ELSE m + 1]
    <3>2. Len(kept[m + 1]) = L + 1 /\ kept[m + 1][L + 1] = rows[m + 1]
      BY <2>2, <3>1
    <3>3. \A i \in 1 .. L : kept[m + 1][i] = kept[m][i]
      BY <2>2, <3>1
    <3>4. to \in [1 .. L + 1 -> 1 .. m + 1]
      BY <2>1, <2>2, SMTT(30)
    <3>6. L \in Nat
      BY <2>2
    <3>5a. \A i \in 1 .. L : i \in 1 .. L + 1 /\ i <= L /\ at[i] <= m
      <4>1. \A i \in 1 .. L : at[i] \in 1 .. m
        BY <2>1
      <4> HIDE DEF L
      <4> QED
        BY <3>6, <4>1
    <3>5b. L + 1 \in 1 .. L + 1 /\ ~(L + 1 <= L)
      BY <3>6
    <3>5. (\A i \in 1 .. L : to[i] = at[i] /\ to[i] <= m) /\ to[L + 1] = m + 1
      <4> HIDE DEF L
      <4> QED
        BY <3>5a, <3>5b
    <3> HIDE DEF L, to
    <3>7. \A i \in 1 .. L + 1 : i \in 1 .. L \/ i = L + 1
      BY <3>6
    <3>8. \A i \in 1 .. L + 1 : kept[m + 1][i] = rows[to[i]] /\ rows[to[i]] \in S
      BY <2>1, <2>4, <3>2, <3>3, <3>5, <3>7 DEF L
    <3>9. \A i, j \in 1 .. L + 1 : i < j => to[i] < to[j]
      <4>1. \A i, j \in 1 .. L : i < j => to[i] < to[j]
        BY <2>1, <3>5 DEF L
      <4>2. ASSUME NEW i \in 1 .. L PROVE to[i] < to[L + 1]
        <5>1. to[i] \in 1 .. m + 1 /\ to[i] <= m
          BY <3>4, <3>5, <3>6
        <5> QED
          BY <3>5, <5>1
      <4>3. \A i, j \in 1 .. L + 1 : i < j => i \in 1 .. L /\ (j \in 1 .. L \/ j = L + 1)
        BY <3>6
      <4> QED
        BY <4>1, <4>2, <4>3
    <3>10. ASSUME NEW k \in 1 .. m + 1, rows[k] \in S PROVE \E i \in 1 .. L + 1 : to[i] = k
      <4>1. CASE k = m + 1
        BY <3>5, <3>6, <4>1
      <4>2. CASE k \in 1 .. m
        <5>1. PICK i \in 1 .. L : at[i] = k
          BY <2>1, <3>10, <4>2 DEF L
        <5>2. i \in 1 .. L + 1
          BY <3>6
        <5> QED
          BY <3>5, <5>1, <5>2
      <4> QED
        BY <4>1, <4>2
    <3>11. Is(m + 1, to)
      BY <3>2, <3>8, <3>9, <3>10
    <3> HIDE DEF Is
    <3> QED
      BY <3>2, <3>4, <3>11
  <2> QED
    BY <2>3, <2>4
<1>4. n \in Good
  <2>1. \A k \in 0 .. n - 1 : k \in Good => k + 1 \in Good
    BY <1>3
  <2> HIDE DEF Good
  <2>2. \A k \in 0 .. n : k \in Good
    BY <1>2, <2>1, UpTo
  <2> QED
    BY <2>2
<1>5. PICK at \in [1 .. Len(kept[n]) -> 1 .. n] : Is(n, at)
  BY <1>4
<1>6. kept[n] \in Seq(T) /\ DOMAIN kept[n] = 1 .. Len(kept[n])
  BY <1>1
<1> DEFINE out == Only(rows, S)
<1>7. out = kept[n]
  BY <1>1
<1> HIDE DEF out
<1>8. out \in Seq(T) /\ at \in [DOMAIN out -> DOMAIN rows]
  BY <1>0, <1>5, <1>6, <1>7
<1>9. /\ \A i \in DOMAIN out : out[i] = rows[at[i]] /\ rows[at[i]] \in S
      /\ \A i, j \in DOMAIN out : i < j => at[i] < at[j]
      /\ \A k \in DOMAIN rows : rows[k] \in S => \E i \in DOMAIN out : at[i] = k
  BY <1>0, <1>5, <1>6, <1>7
<1>10. PartOf(out, rows, S, at)
  BY <1>8, <1>9 DEF PartOf
<1> QED
  BY <1>8, <1>10 DEF out

(* A table is ordered if its rows come in the order they were written.      *)
Ordered(rows) == \A i, j \in DOMAIN rows : i < j => rows[i].id < rows[j].id

LEMMA OnlyRange ==
  ASSUME NEW T, NEW rows \in Seq(T), NEW S
  PROVE  Only(rows, S) \in Seq(T) /\ Range(Only(rows, S)) = Range(rows) \cap S
<1> DEFINE out == Only(rows, S)
<1>1. PICK at : PartOf(out, rows, S, at)
  BY OnlyIs
<1>2. out \in Seq(T)
  BY OnlyIs
<1> HIDE DEF out
<1>3. \A r \in Range(out) : r \in Range(rows) \cap S
  BY <1>1 DEF Range, PartOf
<1>4. \A r \in Range(rows) \cap S : r \in Range(out)
  BY <1>1 DEF Range, PartOf
<1>5. Range(out) = Range(rows) \cap S
  BY <1>3, <1>4
<1> QED
  BY <1>2, <1>5 DEF out

LEMMA OnlyOrdered ==
  ASSUME NEW T, NEW rows \in Seq(T), NEW S, Ordered(rows)
  PROVE  Ordered(Only(rows, S))
<1> DEFINE out == Only(rows, S)
<1>1. PICK at : PartOf(out, rows, S, at)
  BY OnlyIs
<1> HIDE DEF out
<1>2. Ordered(out)
  BY <1>1 DEF Ordered, PartOf
<1> QED
  BY <1>2 DEF out

-----------------------------------------------------------------------------
(* Parts and sums of sequences.                                             *)

LEMMA TakenAndHeld ==
  ASSUME NEW T, NEW s \in Seq(T), NEW k \in 0 .. Len(s)
  PROVE  /\ Taken(s, k) \in Seq(T) /\ Len(Taken(s, k)) = k
         /\ Held(s, k) \in Seq(T) /\ Len(Held(s, k)) = Len(s) - k
         /\ \A i \in 1 .. k : Taken(s, k)[i] = s[i]
         /\ \A i \in 1 .. Len(s) - k : Held(s, k)[i] = s[i + k]
BY DEF Taken, Held

LEMMA PartsRange ==
  ASSUME NEW T, NEW s \in Seq(T), NEW k \in 0 .. Len(s)
  PROVE  Range(s) = Range(Taken(s, k)) \cup Range(Held(s, k))
<1>1. \A i \in 1 .. Len(s) : i \in 1 .. k \/ (i - k \in 1 .. Len(s) - k /\ (i - k) + k = i)
  OBVIOUS
<1>2. \A i \in 1 .. k : i \in 1 .. Len(s)
  OBVIOUS
<1>3. \A i \in 1 .. Len(s) - k : i + k \in 1 .. Len(s)
  OBVIOUS
<1> DEFINE a == Taken(s, k)
           b == Held(s, k)
<1>4. /\ DOMAIN a = 1 .. k /\ DOMAIN b = 1 .. Len(s) - k /\ DOMAIN s = 1 .. Len(s)
      /\ \A i \in 1 .. k : a[i] = s[i]
      /\ \A i \in 1 .. Len(s) - k : b[i] = s[i + k]
  <2>1. /\ a \in Seq(T) /\ Len(a) = k
        /\ b \in Seq(T) /\ Len(b) = Len(s) - k
        /\ \A i \in 1 .. k : a[i] = s[i]
        /\ \A i \in 1 .. Len(s) - k : b[i] = s[i + k]
    BY TakenAndHeld
  <2> HIDE DEF a, b
  <2> QED
    BY <2>1
<1> HIDE DEF a, b
<1>5. \A i \in DOMAIN s : s[i] \in Range(a) \cup Range(b)
  <2> SUFFICES ASSUME NEW i \in 1 .. Len(s) PROVE s[i] \in Range(a) \cup Range(b)
    BY <1>4
  <2>1. CASE i \in 1 .. k
    BY <1>4, <2>1 DEF Range
  <2>2. CASE i - k \in 1 .. Len(s) - k /\ (i - k) + k = i
    <3>1. b[i - k] = s[i]
      BY <1>4, <2>2
    <3> QED
      BY <1>4, <2>2, <3>1 DEF Range
  <2> QED
    BY <1>1, <2>1, <2>2
<1>6. \A r \in Range(a) \cup Range(b) : r \in Range(s)
  BY <1>2, <1>3, <1>4 DEF Range
<1> QED
  BY <1>5, <1>6 DEF Range, a, b

LEMMA OrderedParts ==
  ASSUME NEW T, NEW s \in Seq(T), NEW k \in 0 .. Len(s), Ordered(s),
         \A r \in Range(s) : r.id \in Nat
  PROVE  /\ Ordered(Taken(s, k)) /\ Ordered(Held(s, k))
         /\ \A a \in Range(Taken(s, k)), b \in Range(Held(s, k)) : a.id < b.id
<1> DEFINE u == Taken(s, k)
           v == Held(s, k)
<1>1. /\ DOMAIN u = 1 .. k /\ DOMAIN v = 1 .. Len(s) - k /\ DOMAIN s = 1 .. Len(s)
      /\ \A i \in 1 .. k : u[i] = s[i]
      /\ \A i \in 1 .. Len(s) - k : v[i] = s[i + k]
  <2>1. /\ u \in Seq(T) /\ Len(u) = k
        /\ v \in Seq(T) /\ Len(v) = Len(s) - k
        /\ \A i \in 1 .. k : u[i] = s[i]
        /\ \A i \in 1 .. Len(s) - k : v[i] = s[i + k]
    BY TakenAndHeld
  <2> HIDE DEF u, v
  <2> QED
    BY <2>1
<1> HIDE DEF u, v
<1>2. Ordered(u)
  <2>1. \A i \in 1 .. k : i \in 1 .. Len(s)
    OBVIOUS
  <2> QED
    BY <1>1, <2>1 DEF Ordered
<1>3. Ordered(v)
  <2>1. \A i \in 1 .. Len(s) - k : i + k \in 1 .. Len(s)
    OBVIOUS
  <2>2. \A i, j \in 1 .. Len(s) - k : i < j => i + k < j + k
    OBVIOUS
  <2> QED
    BY <1>1, <2>1, <2>2 DEF Ordered
<1>4. ASSUME NEW i \in 1 .. k, NEW j \in 1 .. Len(s) - k PROVE u[i].id < v[j].id
  <2>1. i \in 1 .. Len(s) /\ j + k \in 1 .. Len(s) /\ i < j + k
    OBVIOUS
  <2>2. s[i].id < s[j + k].id
    BY <1>1, <2>1 DEF Ordered
  <2> QED
    BY <1>1, <2>2
<1>5. \A a \in Range(u), b \in Range(v) : a.id < b.id
  BY <1>1, <1>4 DEF Range
<1> QED
  BY <1>2, <1>3, <1>5 DEF u, v

LEMMA AppendRange ==
  ASSUME NEW T, NEW s \in Seq(T), NEW r \in T
  PROVE  /\ Append(s, r) \in Seq(T)
         /\ Range(Append(s, r)) = Range(s) \cup {r}
<1> DEFINE u == Append(s, r)
<1>1. /\ u \in Seq(T) /\ DOMAIN u = 1 .. Len(s) + 1 /\ DOMAIN s = 1 .. Len(s) /\ Len(s) \in Nat
      /\ u[Len(s) + 1] = r /\ \A i \in 1 .. Len(s) : u[i] = s[i]
  OBVIOUS
<1> HIDE DEF u
<1>2. \A i \in 1 .. Len(s) + 1 : i = Len(s) + 1 \/ i \in 1 .. Len(s)
  BY <1>1
<1>3. \A i \in 1 .. Len(s) : i \in 1 .. Len(s) + 1
  BY <1>1
<1>4. Len(s) + 1 \in 1 .. Len(s) + 1
  BY <1>1
<1>5. \A x \in Range(u) : x \in Range(s) \cup {r}
  BY <1>1, <1>2 DEF Range
<1>6. \A x \in Range(s) \cup {r} : x \in Range(u)
  BY <1>1, <1>3, <1>4 DEF Range
<1>7. Range(u) = Range(s) \cup {r}
  BY <1>5, <1>6
<1> QED
  BY <1>1, <1>7 DEF u

LEMMA AppendOrdered ==
  ASSUME NEW T, NEW s \in Seq(T), NEW r \in T, Ordered(s), \A x \in Range(s) : x.id < r.id
  PROVE  Ordered(Append(s, r))
<1> DEFINE u == Append(s, r)
<1>1. /\ u \in Seq(T) /\ DOMAIN u = 1 .. Len(s) + 1 /\ DOMAIN s = 1 .. Len(s) /\ Len(s) \in Nat
      /\ u[Len(s) + 1] = r /\ \A i \in 1 .. Len(s) : u[i] = s[i]
  OBVIOUS
<1> HIDE DEF u
<1>2. \A i, j \in 1 .. Len(s) + 1 : i < j => i \in 1 .. Len(s) /\ (j \in 1 .. Len(s) \/ j = Len(s) + 1)
  BY <1>1
<1>3. \A i \in 1 .. Len(s) : s[i].id < r.id
  BY <1>1 DEF Range
<1>4. Ordered(u)
  BY <1>1, <1>2, <1>3 DEF Ordered
<1> QED
  BY <1>4 DEF u

LEMMA ConcatIs ==
  ASSUME NEW T, NEW s \in Seq(T), NEW t \in Seq(T)
  PROVE  /\ s \o t \in Seq(T) /\ Len(s \o t) = Len(s) + Len(t)
         /\ \A i \in 1 .. Len(s) : (s \o t)[i] = s[i]
         /\ \A i \in 1 .. Len(t) : (s \o t)[Len(s) + i] = t[i]
OBVIOUS

LEMMA ConcatRange ==
  ASSUME NEW T, NEW s \in Seq(T), NEW t \in Seq(T)
  PROVE  Range(s \o t) = Range(s) \cup Range(t)
<1> DEFINE u == s \o t
<1>1. /\ DOMAIN u = 1 .. Len(s) + Len(t) /\ DOMAIN s = 1 .. Len(s) /\ DOMAIN t = 1 .. Len(t)
      /\ Len(s) \in Nat /\ Len(t) \in Nat
      /\ \A i \in 1 .. Len(s) : u[i] = s[i]
      /\ \A i \in 1 .. Len(t) : u[Len(s) + i] = t[i]
  <2>1. /\ u \in Seq(T) /\ Len(u) = Len(s) + Len(t)
        /\ \A i \in 1 .. Len(s) : u[i] = s[i]
        /\ \A i \in 1 .. Len(t) : u[Len(s) + i] = t[i]
    BY ConcatIs
  <2> HIDE DEF u
  <2> QED
    BY <2>1
<1> HIDE DEF u
<1>2. \A i \in 1 .. Len(s) + Len(t) :
        i \in 1 .. Len(s) \/ (i - Len(s) \in 1 .. Len(t) /\ Len(s) + (i - Len(s)) = i)
  BY <1>1
<1>3. \A i \in 1 .. Len(s) : i \in 1 .. Len(s) + Len(t)
  BY <1>1
<1>4. \A i \in 1 .. Len(t) : Len(s) + i \in 1 .. Len(s) + Len(t)
  BY <1>1
<1>5. ASSUME NEW i \in DOMAIN u PROVE u[i] \in Range(s) \cup Range(t)
  <2>1. CASE i \in 1 .. Len(s)
    BY <1>1, <2>1 DEF Range
  <2>2. CASE i - Len(s) \in 1 .. Len(t) /\ Len(s) + (i - Len(s)) = i
    <3>1. u[i] = t[i - Len(s)]
      BY <1>1, <2>2
    <3> QED
      BY <1>1, <2>2, <3>1 DEF Range
  <2> QED
    BY <1>1, <1>2, <2>1, <2>2
<1>6. \A x \in Range(s) \cup Range(t) : x \in Range(u)
  BY <1>1, <1>3, <1>4 DEF Range
<1>7. Range(u) = Range(s) \cup Range(t)
  BY <1>5, <1>6 DEF Range
<1> QED
  BY <1>7 DEF u

LEMMA ConcatOrdered ==
  ASSUME NEW T, NEW s \in Seq(T), NEW t \in Seq(T), Ordered(s), Ordered(t),
         \A a \in Range(s), b \in Range(t) : a.id < b.id
  PROVE  Ordered(s \o t)
<1> DEFINE u == s \o t
<1>1. /\ DOMAIN u = 1 .. Len(s) + Len(t) /\ DOMAIN s = 1 .. Len(s) /\ DOMAIN t = 1 .. Len(t)
      /\ Len(s) \in Nat /\ Len(t) \in Nat
      /\ \A i \in 1 .. Len(s) : u[i] = s[i]
      /\ \A i \in 1 .. Len(t) : u[Len(s) + i] = t[i]
  <2>1. /\ u \in Seq(T) /\ Len(u) = Len(s) + Len(t)
        /\ \A i \in 1 .. Len(s) : u[i] = s[i]
        /\ \A i \in 1 .. Len(t) : u[Len(s) + i] = t[i]
    BY ConcatIs
  <2> HIDE DEF u
  <2> QED
    BY <2>1
<1> HIDE DEF u
<1>2. \A i \in 1 .. Len(s), j \in 1 .. Len(t) : s[i].id < t[j].id
  BY <1>1 DEF Range
<1>3. ASSUME NEW i \in DOMAIN u, NEW j \in DOMAIN u, i < j PROVE u[i].id < u[j].id
  <2>1. CASE j \in 1 .. Len(s)
    <3>1. i \in 1 .. Len(s)
      BY <1>1, <1>3, <2>1
    <3> QED
      BY <1>1, <1>3, <2>1, <3>1 DEF Ordered
  <2>2. CASE i \in 1 .. Len(s) /\ j \notin 1 .. Len(s)
    <3>1. j - Len(s) \in 1 .. Len(t) /\ Len(s) + (j - Len(s)) = j
      BY <1>1, <2>2
    <3>2. u[j] = t[j - Len(s)]
      BY <1>1, <3>1
    <3> QED
      BY <1>1, <1>2, <2>2, <3>1, <3>2
  <2>3. CASE i \notin 1 .. Len(s)
    <3>1. i - Len(s) \in 1 .. Len(t) /\ Len(s) + (i - Len(s)) = i
      BY <1>1, <2>3
    <3>2. j - Len(s) \in 1 .. Len(t) /\ Len(s) + (j - Len(s)) = j /\ i - Len(s) < j - Len(s)
      BY <1>1, <1>3, <2>3
    <3>3. u[i] = t[i - Len(s)] /\ u[j] = t[j - Len(s)]
      BY <1>1, <3>1, <3>2
    <3> QED
      BY <1>1, <3>1, <3>2, <3>3 DEF Ordered
  <2> QED
    BY <2>1, <2>2, <2>3
<1>4. Ordered(u)
  BY <1>3 DEF Ordered
<1> QED
  BY <1>4 DEF u

-----------------------------------------------------------------------------
(* The trace, the tables and what was handed over.                          *)

FuncKinds == {"ENTRY", "EXIT"}
CounterKinds == DataKind \ {"comm"}
Rows == [id : Nat, type : FuncKinds \cup DataKind, fid : Func \cup {"none"},
         call : Nat, ts : 0 .. MaxTime]

Written ==
  /\ now \in 0 .. MaxTime
  /\ trace \in Seq(Rows) /\ Len(trace) <= MaxEvents
  /\ \A k \in DOMAIN trace : trace[k].id = k /\ trace[k].ts <= now
  /\ \A k, l \in DOMAIN trace : k < l => trace[k].ts <= trace[l].ts

(* A table holds what is left of its kinds of rows: the latest.             *)
Remains(table, kinds) ==
  /\ table \in Seq(Rows) /\ Ordered(table)
  /\ Range(table) \subseteq {r \in Range(trace) : r.type \in kinds}
  /\ \A r \in Range(trace), q \in Range(table) :
       r.type \in kinds /\ q.id <= r.id => r \in Range(table)

(* While the trace is written, nothing was handed over.                     *)
Untouched ==
  /\ calls = <<>> /\ stack = <<>> /\ commStack = <<>> /\ counterStack = <<>>
  /\ counters = <<>> /\ nodeState = NoState
  /\ Range(trace) = Range(func) \cup Range(comm) \cup Range(counter)

TraceInv ==
  /\ Written
  /\ Remains(func, FuncKinds)
  /\ Remains(comm, {"comm"} \cap DataKind)
  /\ Remains(counter, CounterKinds)
  /\ step \in -1 .. MaxSteps - 1 /\ running \in BOOLEAN /\ known \subseteq Func
  /\ step = -1 /\ running => Untouched

LEMMA KindsDiffer ==
  /\ FuncKinds \cap DataKind = {} /\ FuncKinds \cap Watched = {} /\ "comm" \notin Watched
  /\ "nonsense" \notin FuncKinds \cup DataKind
BY ADParserAssumption DEF FuncKinds

LEMMA RowFields ==
  ASSUME NEW r \in Rows
  PROVE  /\ r.id \in Nat /\ r.ts \in 0 .. MaxTime /\ r.call \in Nat
         /\ r.type \in FuncKinds \cup DataKind
BY DEF Rows

LEMMA RowsIn ==
  ASSUME NEW table \in Seq(Rows)
  PROVE  Range(table) \subseteq Rows
BY DEF Range

(* Two rows of the trace with one id are one.                               *)
LEMMA OneId ==
  ASSUME Written, NEW r \in Range(trace), NEW q \in Range(trace), r.id = q.id
  PROVE  r = q
BY DEF Written, Range

(* What comes earlier in the trace is no later.                             *)
LEMMA Earlier ==
  ASSUME Written, NEW r \in Range(trace), NEW q \in Range(trace), r.id < q.id
  PROVE  r.ts <= q.ts
BY DEF Written, Range

LEMMA HoldRemains ==
  ASSUME Written, NEW table, NEW kinds, Remains(table, kinds), NEW k \in 0 .. Len(table)
  PROVE  Remains(Held(table, k), kinds)
<1>1. table \in Seq(Rows) /\ Ordered(table) /\ \A r \in Range(table) : r.id \in Nat
  BY RowsIn, RowFields DEF Remains
<1>2. Held(table, k) \in Seq(Rows)
  BY <1>1, TakenAndHeld
<1>3. Range(table) = Range(Taken(table, k)) \cup Range(Held(table, k))
  BY <1>1, PartsRange
<1>4. /\ Ordered(Held(table, k))
      /\ \A a \in Range(Taken(table, k)), b \in Range(Held(table, k)) : a.id < b.id
  BY <1>1, OrderedParts
<1>5. ASSUME NEW r \in Range(trace), NEW q \in Range(Held(table, k)),
             r.type \in kinds, q.id <= r.id
      PROVE  r \in Range(Held(table, k))
  <2>1. r \in Range(table)
    BY <1>3, <1>5 DEF Remains
  <2>2. r \notin Range(Taken(table, k))
    <3>1. r.id \in Nat /\ q.id \in Nat
      BY <1>1, <1>3, <2>1
    <3> QED
      BY <1>4, <1>5, <3>1
  <2> QED
    BY <1>3, <2>1, <2>2
<1>6. Range(Held(table, k)) \subseteq {r \in Range(trace) : r.type \in kinds}
  BY <1>3 DEF Remains
<1> QED
  BY <1>2, <1>4, <1>5, <1>6 DEF Remains

(* A row that was written joins its table, the others stay.                 *)
LEMMA AppendRemains ==
  ASSUME Written, NEW row \in Rows, row.id = Len(trace) + 1, trace' = Append(trace, row),
         NEW table, NEW kinds, Remains(table, kinds)
  PROVE  /\ row.type \in kinds => /\ Append(table, row) \in Seq(Rows)
                                  /\ Ordered(Append(table, row))
                                  /\ Range(Append(table, row)) \subseteq {r \in Range(trace') : r.type \in kinds}
                                  /\ \A r \in Range(trace'), q \in Range(Append(table, row)) :
                                       r.type \in kinds /\ q.id <= r.id => r \in Range(Append(table, row))
         /\ row.type \notin kinds => /\ Range(table) \subseteq {r \in Range(trace') : r.type \in kinds}
                                     /\ \A r \in Range(trace'), q \in Range(table) :
                                          r.type \in kinds /\ q.id <= r.id => r \in Range(table)
<1>1. trace \in Seq(Rows) /\ table \in Seq(Rows) /\ Len(trace) \in Nat
  BY DEF Written, Remains
<1>2. Range(trace') = Range(trace) \cup {row}
  BY <1>1, AppendRange
<1>3. Append(table, row) \in Seq(Rows) /\ Range(Append(table, row)) = Range(table) \cup {row}
  BY <1>1, AppendRange
<1>4. \A r \in Range(trace) : r.id \in Nat /\ r.id <= Len(trace) /\ r.id < row.id
  <2>1. \A k \in 1 .. Len(trace) : trace[k].id = k
    BY <1>1 DEF Written
  <2> QED
    BY <1>1, <2>1 DEF Range
<1>5. Range(table) \subseteq {r \in Range(trace) : r.type \in kinds}
  BY DEF Remains
<1>6. ASSUME row.type \in kinds PROVE Ordered(Append(table, row))
  <2>1. \A x \in Range(table) : x.id < row.id
    BY <1>4, <1>5
  <2>2. Ordered(table)
    BY DEF Remains
  <2> QED
    BY <1>1, <2>1, <2>2, AppendOrdered
<1>7. ASSUME row.type \in kinds, NEW r \in Range(trace'), NEW q \in Range(Append(table, row)),
             r.type \in kinds, q.id <= r.id
      PROVE  r \in Range(Append(table, row))
  <2>1. CASE r = row
    BY <1>3, <2>1
  <2>2. CASE r \in Range(trace)
    <3>1. q \in Range(table)
      BY <1>3, <1>4, <1>7, <2>2, RowFields
    <3> QED
      BY <1>3, <1>7, <2>2, <3>1 DEF Remains
  <2> QED
    BY <1>2, <2>1, <2>2
<1>8. ASSUME row.type \notin kinds, NEW r \in Range(trace'), NEW q \in Range(table),
             r.type \in kinds, q.id <= r.id
      PROVE  r \in Range(table)
  BY <1>2, <1>8 DEF Remains
<1> QED
  BY <1>2, <1>3, <1>5, <1>6, <1>7, <1>8

LEMMA TraceInvInit == Init => TraceInv
<1> SUFFICES ASSUME Init PROVE TraceInv
  OBVIOUS
<1> USE DEF Init
<1>1. Written
  BY ADParserAssumption DEF Written
<1>2. Range(<<>>) = {}
  BY DEF Range
<1>3. \A kinds : Remains(<<>>, kinds)
  BY <1>2 DEF Remains, Ordered
<1>4. Untouched
  BY <1>2 DEF Untouched
<1>5. step \in -1 .. MaxSteps - 1
  BY ADParserAssumption
<1> QED
  BY <1>1, <1>3, <1>4, <1>5 DEF TraceInv

(* The rows the actions of the program write.                               *)
LEMMA TimesAre ==
  ASSUME Written, NEW ts \in Times
  PROVE  ts \in 0 .. MaxTime /\ now <= ts
<1>1. CASE trace = <<>>
  BY <1>1 DEF Times, Written
<1>2. CASE trace # <<>>
  <2>1. now \in 0 .. MaxTime /\ ts \in now .. Min({now + 1, MaxTime})
    BY <1>2 DEF Times, Written
  <2>2. Min({now + 1, MaxTime}) <= MaxTime /\ Min({now + 1, MaxTime}) \in Nat
    <3>1. MaxTime \in Nat /\ now + 1 \in Nat
      BY <2>1, ADParserAssumption
    <3>2. CASE now + 1 <= MaxTime
      <4>1. now + 1 \in {now + 1, MaxTime} /\ \A y \in {now + 1, MaxTime} : now + 1 <= y
        BY <3>1, <3>2
      <4>2. Min({now + 1, MaxTime}) \in {now + 1, MaxTime}
            /\ \A y \in {now + 1, MaxTime} : Min({now + 1, MaxTime}) <= y
        BY <4>1 DEF Min
      <4> QED
        BY <3>1, <4>2
    <3>3. CASE ~(now + 1 <= MaxTime)
      <4>1. MaxTime \in {now + 1, MaxTime} /\ \A y \in {now + 1, MaxTime} : MaxTime <= y
        BY <3>1, <3>3
      <4>2. Min({now + 1, MaxTime}) \in {now + 1, MaxTime}
            /\ \A y \in {now + 1, MaxTime} : Min({now + 1, MaxTime}) <= y
        BY <4>1 DEF Min
      <4> QED
        BY <3>1, <4>2
    <3> QED
      BY <3>2, <3>3
  <2> QED
    BY <2>1, <2>2, ADParserAssumption
<1> QED
  BY <1>1, <1>2

LEMMA WriteWritten ==
  ASSUME Written, NEW row \in Rows, row.id = Len(trace) + 1, now <= row.ts, Write(row)
  PROVE  Written' /\ Range(trace') = Range(trace) \cup {row}
<1>1. trace \in Seq(Rows) /\ Len(trace) \in Nat /\ trace' = Append(trace, row) /\ now' = row.ts
  BY DEF Written, Write
<1>2. trace' \in Seq(Rows) /\ Range(trace') = Range(trace) \cup {row}
  BY <1>1, AppendRange
<1>3. /\ DOMAIN trace' = 1 .. Len(trace) + 1 /\ DOMAIN trace = 1 .. Len(trace)
      /\ trace'[Len(trace) + 1] = row /\ \A i \in 1 .. Len(trace) : trace'[i] = trace[i]
  BY <1>1
<1>4. \A i \in 1 .. Len(trace) + 1 : i = Len(trace) + 1 \/ i \in 1 .. Len(trace)
  BY <1>1
<1>5. \A i \in 1 .. Len(trace) : trace[i].id = i /\ trace[i].ts \in 0 .. MaxTime /\ trace[i].ts <= row.ts
  <2>1. ASSUME NEW i \in 1 .. Len(trace)
        PROVE trace[i].id = i /\ trace[i].ts \in 0 .. MaxTime /\ trace[i].ts <= now
    <3>1. trace[i] \in Rows
      BY <1>1
    <3> QED
      BY <1>3, <3>1, RowFields DEF Written
  <2>2. now \in Int /\ row.ts \in Int
    BY RowFields DEF Written
  <2> QED
    BY <2>1, <2>2
<1>6. row.ts \in 0 .. MaxTime
  BY RowFields
<1>7. \A k \in DOMAIN trace' : trace'[k].id = k /\ trace'[k].ts <= row.ts
  BY <1>3, <1>4, <1>5, <1>6
<1>8. \A k, l \in 1 .. Len(trace) + 1 : k < l => k \in 1 .. Len(trace) /\ (l \in 1 .. Len(trace) \/ l = Len(trace) + 1)
  BY <1>1
<1>9. \A k, l \in DOMAIN trace' : k < l => trace'[k].ts <= trace'[l].ts
  BY <1>3, <1>5, <1>8 DEF Written
<1>10. Len(trace') <= MaxEvents
  BY <1>1, ADParserAssumption DEF Write
<1> QED
  BY <1>1, <1>2, <1>6, <1>7, <1>9, <1>10 DEF Written

ProgCall == [fid : Func, entry : 0 .. MaxTime, exit : {Open} \cup 0 .. MaxTime, within : SUBSET Nat]

LEMMA EntryRow ==
  ASSUME Written, prog \in Seq(ProgCall), NEW ts \in Times, NEW f \in Func
  PROVE  /\ Row("ENTRY", f, Len(prog) + 1, ts) \in Rows
         /\ Row("ENTRY", f, Len(prog) + 1, ts).id = Len(trace) + 1
         /\ now <= Row("ENTRY", f, Len(prog) + 1, ts).ts
<1>1. ts \in 0 .. MaxTime /\ now <= ts
  BY TimesAre
<1>2. Len(prog) + 1 \in Nat /\ Len(trace) + 1 \in Nat
  BY DEF Written
<1> QED
  BY <1>1, <1>2 DEF Row, Rows, FuncKinds

LEMMA LastOpen ==
  ASSUME prog \in Seq(ProgCall), OpenCalls # {}
  PROVE  /\ Max(OpenCalls) \in OpenCalls
         /\ \A p \in OpenCalls : p <= Max(OpenCalls)
<1>1. OpenCalls \subseteq 0 .. Len(prog) /\ Len(prog) \in Nat
  BY DEF OpenCalls
<1> QED
  BY <1>1, LargestOne

LEMMA ExitRow ==
  ASSUME Written, prog \in Seq(ProgCall), NEW ts \in Times, OpenCalls # {},
         NEW p, p = Max(OpenCalls)
  PROVE  /\ p \in DOMAIN prog /\ prog[p].exit = Open
         /\ Row("EXIT", prog[p].fid, p, ts) \in Rows
         /\ Row("EXIT", prog[p].fid, p, ts).id = Len(trace) + 1
         /\ now <= Row("EXIT", prog[p].fid, p, ts).ts
<1>1. ts \in 0 .. MaxTime /\ now <= ts
  BY TimesAre
<1>2. p \in DOMAIN prog /\ prog[p].exit = Open
  BY LastOpen DEF OpenCalls
<1>3. prog[p] \in ProgCall /\ p \in Nat
  BY <1>2
<1>4. prog[p].fid \in Func /\ Len(trace) + 1 \in Nat
  BY <1>3 DEF Written, ProgCall
<1> QED
  BY <1>1, <1>2, <1>3, <1>4 DEF Row, Rows, FuncKinds

LEMMA DataRow ==
  ASSUME Written, NEW ts \in Times, NEW k \in DataKind
  PROVE  /\ Row(k, "none", 0, ts) \in Rows
         /\ Row(k, "none", 0, ts).id = Len(trace) + 1 /\ Row(k, "none", 0, ts).type = k
         /\ now <= Row(k, "none", 0, ts).ts
<1>1. ts \in 0 .. MaxTime /\ now <= ts
  BY TimesAre
<1>2. Len(trace) + 1 \in Nat
  BY DEF Written
<1> QED
  BY <1>1, <1>2 DEF Row, Rows

(* What remains of a table when a row was written that is not for it; and   *)
(* when it is.                                                              *)
LEMMA RemainsOther ==
  ASSUME Written, NEW row \in Rows, row.id = Len(trace) + 1, Write(row), NEW kinds,
         row.type \notin kinds
  PROVE  /\ Remains(func, kinds) /\ func' = func => Remains(func, kinds)'
         /\ Remains(comm, kinds) /\ comm' = comm => Remains(comm, kinds)'
         /\ Remains(counter, kinds) /\ counter' = counter => Remains(counter, kinds)'
<1>1. trace' = Append(trace, row)
  BY DEF Write
<1>2. ASSUME NEW table, Remains(table, kinds)
      PROVE  /\ table \in Seq(Rows) /\ Ordered(table)
             /\ Range(table) \subseteq {r \in Range(trace') : r.type \in kinds}
             /\ \A r \in Range(trace'), q \in Range(table) :
                  r.type \in kinds /\ q.id <= r.id => r \in Range(table)
  BY <1>1, <1>2, AppendRemains DEF Remains
<1>3. ASSUME Remains(func, kinds), func' = func PROVE Remains(func, kinds)'
  BY <1>2, <1>3 DEF Remains
<1>4. ASSUME Remains(comm, kinds), comm' = comm PROVE Remains(comm, kinds)'
  BY <1>2, <1>4 DEF Remains
<1>5. ASSUME Remains(counter, kinds), counter' = counter PROVE Remains(counter, kinds)'
  BY <1>2, <1>5 DEF Remains
<1> QED
  BY <1>3, <1>4, <1>5

LEMMA RemainsOwn ==
  ASSUME Written, NEW row \in Rows, row.id = Len(trace) + 1, Write(row), NEW kinds,
         row.type \in kinds
  PROVE  /\ Remains(func, kinds) /\ func' = Append(func, row) =>
              Remains(func, kinds)' /\ Range(func') = Range(func) \cup {row}
         /\ Remains(comm, kinds) /\ comm' = Append(comm, row) =>
              Remains(comm, kinds)' /\ Range(comm') = Range(comm) \cup {row}
         /\ Remains(counter, kinds) /\ counter' = Append(counter, row) =>
              Remains(counter, kinds)' /\ Range(counter') = Range(counter) \cup {row}
<1>1. trace' = Append(trace, row)
  BY DEF Write
<1>2. ASSUME NEW table, Remains(table, kinds)
      PROVE  /\ Append(table, row) \in Seq(Rows) /\ Ordered(Append(table, row))
             /\ Range(Append(table, row)) \subseteq {r \in Range(trace') : r.type \in kinds}
             /\ \A r \in Range(trace'), q \in Range(Append(table, row)) :
                  r.type \in kinds /\ q.id <= r.id => r \in Range(Append(table, row))
             /\ Range(Append(table, row)) = Range(table) \cup {row}
  <2>1. table \in Seq(Rows)
    BY <1>2 DEF Remains
  <2> QED
    BY <1>1, <1>2, <2>1, AppendRemains, AppendRange
<1>3. ASSUME Remains(func, kinds), func' = Append(func, row)
      PROVE  Remains(func, kinds)' /\ Range(func') = Range(func) \cup {row}
  BY <1>2, <1>3 DEF Remains
<1>4. ASSUME Remains(comm, kinds), comm' = Append(comm, row)
      PROVE  Remains(comm, kinds)' /\ Range(comm') = Range(comm) \cup {row}
  BY <1>2, <1>4 DEF Remains
<1>5. ASSUME Remains(counter, kinds), counter' = Append(counter, row)
      PROVE  Remains(counter, kinds)' /\ Range(counter') = Range(counter) \cup {row}
  BY <1>2, <1>5 DEF Remains
<1> QED
  BY <1>3, <1>4, <1>5

(* A step of the program writes one row, to the table of its kind.          *)
Writes(row) ==
  /\ Write(row) /\ row.id = Len(trace) + 1 /\ now <= row.ts
  /\ \/ row.type \in FuncKinds /\ func' = Append(func, row) /\ comm' = comm /\ counter' = counter
     \/ row.type \in {"comm"} \cap DataKind /\ comm' = Append(comm, row) /\ func' = func /\ counter' = counter
     \/ row.type \in CounterKinds /\ counter' = Append(counter, row) /\ func' = func /\ comm' = comm

LEMMA TraceInvWrite ==
  ASSUME TraceInv, prog \in Seq(ProgCall), NEW ts \in Times,
         \/ \E f \in Func : TraceEntry(f, ts)
         \/ TraceExit(ts)
         \/ \E k \in DataKind : TraceData(k, ts)
  PROVE  TraceInv'
<1>1. Written /\ Remains(func, FuncKinds) /\ Remains(comm, {"comm"} \cap DataKind)
      /\ Remains(counter, CounterKinds)
  BY DEF TraceInv
<1>2. \E row \in Rows : Writes(row)
  <2>1. ASSUME NEW f \in Func, TraceEntry(f, ts) PROVE \E row \in Rows : Writes(row)
    <3> DEFINE row == Row("ENTRY", f, Len(prog) + 1, ts)
    <3>1. row \in Rows /\ row.id = Len(trace) + 1 /\ now <= row.ts
      BY <1>1, EntryRow
    <3>2. row.type \in FuncKinds
      BY DEF Row, FuncKinds
    <3>3. Write(row) /\ func' = Append(func, row) /\ comm' = comm /\ counter' = counter
      BY <2>1 DEF TraceEntry
    <3> HIDE DEF row
    <3> QED
      BY <3>1, <3>2, <3>3 DEF Writes
  <2>2. ASSUME TraceExit(ts) PROVE \E row \in Rows : Writes(row)
    <3> DEFINE p == Max(OpenCalls)
               row == Row("EXIT", prog[p].fid, p, ts)
    <3>0. OpenCalls # {}
      BY <2>2 DEF TraceExit
    <3>1. row \in Rows /\ row.id = Len(trace) + 1 /\ now <= row.ts
      BY <1>1, <3>0, ExitRow
    <3>2. row.type \in FuncKinds
      BY DEF Row, FuncKinds
    <3>3. Write(row) /\ func' = Append(func, row) /\ comm' = comm /\ counter' = counter
      BY <2>2 DEF TraceExit
    <3> HIDE DEF row
    <3> QED
      BY <3>1, <3>2, <3>3 DEF Writes
  <2>3. ASSUME NEW k \in DataKind, TraceData(k, ts) PROVE \E row \in Rows : Writes(row)
    <3> DEFINE row == Row(k, "none", 0, ts)
    <3>1. row \in Rows /\ row.id = Len(trace) + 1 /\ now <= row.ts /\ row.type = k
      BY <1>1, DataRow
    <3>2. Write(row) /\ func' = func
      BY <2>3 DEF TraceData
    <3>3. CASE k = "comm"
      <4>1. comm' = Append(comm, row) /\ counter' = counter
        BY <2>3, <3>3 DEF TraceData
      <4> HIDE DEF row
      <4> QED
        BY <3>1, <3>2, <3>3, <4>1 DEF Writes
    <3>4. CASE k # "comm"
      <4>1. counter' = Append(counter, row) /\ comm' = comm
        BY <2>3, <3>4 DEF TraceData
      <4>2. row.type \in CounterKinds
        BY <3>1, <3>4 DEF CounterKinds
      <4> HIDE DEF row
      <4> QED
        BY <3>1, <3>2, <4>1, <4>2 DEF Writes
    <3> QED
      BY <3>3, <3>4
  <2> QED
    BY <2>1, <2>2, <2>3
<1>3a. PICK row \in Rows : Writes(row)
  BY <1>2
<1>3. /\ Write(row) /\ row.id = Len(trace) + 1 /\ now <= row.ts
      /\ \/ row.type \in FuncKinds /\ func' = Append(func, row) /\ comm' = comm /\ counter' = counter
         \/ row.type \in {"comm"} \cap DataKind /\ comm' = Append(comm, row) /\ func' = func /\ counter' = counter
         \/ row.type \in CounterKinds /\ counter' = Append(counter, row) /\ func' = func /\ comm' = comm
  BY <1>3a DEF Writes
<1>4. Written' /\ Range(trace') = Range(trace) \cup {row}
  BY <1>1, <1>3, WriteWritten
<1>5. /\ step = -1 /\ running /\ step' = step /\ running' = running /\ known' = known
      /\ UNCHANGED <<eventVars, monitorVars>>
  BY <1>3 DEF Write
<1>6. Untouched
  BY <1>5 DEF TraceInv
<1>7. calls' = <<>> /\ stack' = <<>> /\ commStack' = <<>> /\ counterStack' = <<>>
      /\ counters' = <<>> /\ nodeState' = NoState
  BY <1>5, <1>6 DEF Untouched, eventVars, dataVars, monitorVars
<1>8. step' \in -1 .. MaxSteps - 1 /\ running' \in BOOLEAN /\ known' \subseteq Func
  BY <1>5 DEF TraceInv
<1>9. FuncKinds \cap ({"comm"} \cap DataKind) = {} /\ FuncKinds \cap CounterKinds = {}
      /\ ({"comm"} \cap DataKind) \cap CounterKinds = {}
  BY KindsDiffer DEF CounterKinds
<1>10. /\ Remains(func, FuncKinds)' /\ Remains(comm, {"comm"} \cap DataKind)' /\ Remains(counter, CounterKinds)'
       /\ Range(func') \cup Range(comm') \cup Range(counter') =
            Range(func) \cup Range(comm) \cup Range(counter) \cup {row}
  <2>1. CASE row.type \in FuncKinds /\ func' = Append(func, row) /\ comm' = comm /\ counter' = counter
    <3>1. row.type \notin {"comm"} \cap DataKind /\ row.type \notin CounterKinds
      BY <1>9, <2>1
    <3>2. Remains(func, FuncKinds)' /\ Range(func') = Range(func) \cup {row}
      BY <1>1, <1>3, <2>1, RemainsOwn
    <3>3. Remains(comm, {"comm"} \cap DataKind)' /\ Remains(counter, CounterKinds)'
      BY <1>1, <1>3, <2>1, <3>1, RemainsOther
    <3> QED
      BY <2>1, <3>2, <3>3
  <2>2. CASE row.type \in {"comm"} \cap DataKind /\ comm' = Append(comm, row) /\ func' = func /\ counter' = counter
    <3>1. row.type \notin FuncKinds /\ row.type \notin CounterKinds
      BY <1>9, <2>2
    <3>2. Remains(comm, {"comm"} \cap DataKind)' /\ Range(comm') = Range(comm) \cup {row}
      BY <1>1, <1>3, <2>2, RemainsOwn
    <3>3. Remains(func, FuncKinds)' /\ Remains(counter, CounterKinds)'
      BY <1>1, <1>3, <2>2, <3>1, RemainsOther
    <3> QED
      BY <2>2, <3>2, <3>3
  <2>3. CASE row.type \in CounterKinds /\ counter' = Append(counter, row) /\ func' = func /\ comm' = comm
    <3>1. row.type \notin FuncKinds /\ row.type \notin {"comm"} \cap DataKind
      BY <1>9, <2>3
    <3>2. Remains(counter, CounterKinds)' /\ Range(counter') = Range(counter) \cup {row}
      BY <1>1, <1>3, <2>3, RemainsOwn
    <3>3. Remains(func, FuncKinds)' /\ Remains(comm, {"comm"} \cap DataKind)'
      BY <1>1, <1>3, <2>3, <3>1, RemainsOther
    <3> QED
      BY <2>3, <3>2, <3>3
  <2> QED
    BY <1>3, <2>1, <2>2, <2>3
<1>11. Range(trace') = Range(func') \cup Range(comm') \cup Range(counter')
  BY <1>4, <1>6, <1>10 DEF Untouched
<1>12. Untouched'
  BY <1>7, <1>11 DEF Untouched, NoState
<1> QED
  BY <1>4, <1>8, <1>10, <1>12 DEF TraceInv, FuncKinds, CounterKinds

LEMMA TraceInvStep ==
  ASSUME TraceInv, NEW f \in 0 .. Len(func), NEW c \in 0 .. Len(comm), NEW n \in 0 .. Len(counter),
         IOStep(f, c, n)
  PROVE  TraceInv'
<1>1. /\ Written /\ Remains(func, FuncKinds) /\ Remains(comm, {"comm"} \cap DataKind)
      /\ Remains(counter, CounterKinds) /\ step \in -1 .. MaxSteps - 1
  BY DEF TraceInv
<1>2. /\ Remains(Held(func, f), FuncKinds) /\ Remains(Held(comm, c), {"comm"} \cap DataKind)
      /\ Remains(Held(counter, n), CounterKinds)
  BY <1>1, HoldRemains
<1>3. /\ func' = Held(func, f) /\ comm' = Held(comm, c) /\ counter' = Held(counter, n)
      /\ trace' = trace /\ now' = now /\ running' = running
  BY DEF IOStep, traceVars
<1>4. /\ Remains(func, FuncKinds)' /\ Remains(comm, {"comm"} \cap DataKind)'
      /\ Remains(counter, CounterKinds)' /\ Written'
  BY <1>1, <1>2, <1>3 DEF Remains, FuncKinds, CounterKinds, Written, Rows
<1>5. step' \in 0 .. MaxSteps - 1 /\ known' \subseteq Func
  BY <1>1, ADParserAssumption, SMTT(30) DEF IOStep, BeginStep, UpdateAttributes
<1>6. running' \in BOOLEAN /\ step' # -1 /\ step' \in -1 .. MaxSteps - 1
  BY <1>3, <1>5 DEF TraceInv
<1> QED
  BY <1>4, <1>5, <1>6 DEF TraceInv

LEMMA TraceInvOther ==
  ASSUME TraceInv,
         \/ \E f \in 0 .. Len(func), c \in 0 .. Len(comm), n \in 0 .. Len(counter) :
              IOStepDisordered(f, c, n)
         \/ EndOfStream
         \/ UNCHANGED vars
  PROVE  TraceInv' /\ UNCHANGED <<traceVars, tables, eventVars, monitorVars>> /\ known \subseteq known'
<1> DEFINE Kept == UNCHANGED <<traceVars, tables, eventVars, monitorVars>>
<1>2. ASSUME Kept PROVE Written' /\ Remains(func, FuncKinds)'
                        /\ Remains(comm, {"comm"} \cap DataKind)' /\ Remains(counter, CounterKinds)'
  BY <1>2 DEF traceVars, tables, TraceInv, Written, Remains, Rows, FuncKinds, CounterKinds
<1>1. CASE UNCHANGED vars
  <2>1. Kept /\ known' = known /\ running' = running /\ step' = step
    BY <1>1 DEF vars
  <2>2. Untouched => Untouched'
    BY <2>1 DEF Untouched, traceVars, tables, eventVars, dataVars, monitorVars
  <2> QED
    BY <1>2, <2>1, <2>2 DEF TraceInv
<1>3. CASE \E f \in 0 .. Len(func), c \in 0 .. Len(comm), n \in 0 .. Len(counter) :
              IOStepDisordered(f, c, n)
  <2>1. Kept /\ running' = FALSE /\ step' = step + 1 /\ known' \subseteq Func /\ known \subseteq known'
        /\ step + 1 < MaxSteps
    BY <1>3, ADParserAssumption DEF IOStepDisordered, BeginStep, UpdateAttributes
  <2>2. step \in -1 .. MaxSteps - 1
    BY DEF TraceInv
  <2>3. step' \in -1 .. MaxSteps - 1
    BY <2>1, <2>2, ADParserAssumption
  <2> QED
    BY <1>2, <2>1, <2>3 DEF TraceInv
<1>4. CASE EndOfStream
  <2>1. Kept /\ running' = FALSE /\ step' = -1 /\ known' = known
    BY <1>4 DEF EndOfStream
  <2>2. step' \in -1 .. MaxSteps - 1 /\ known' \subseteq Func
    BY <2>1, ADParserAssumption DEF TraceInv
  <2> QED
    BY <1>2, <2>1, <2>2 DEF TraceInv
<1> QED
  BY <1>1, <1>3, <1>4

-----------------------------------------------------------------------------
(* The calls of the program: E and X say where in the trace each begins and *)
(* ends, a call that has not ended at the end of everything.                *)

Never == MaxEvents + 1

Begins(E, X) == \A p \in DOMAIN prog :
  /\ E[p] \in DOMAIN trace /\ E[p] < X[p]
  /\ trace[E[p]].type = "ENTRY" /\ trace[E[p]].call = p
  /\ trace[E[p]].fid = prog[p].fid /\ trace[E[p]].ts = prog[p].entry

Ends(X) == \A p \in DOMAIN prog :
  /\ prog[p].exit = Open => X[p] = Never
  /\ prog[p].exit # Open =>
       /\ X[p] \in DOMAIN trace
       /\ trace[X[p]].type = "EXIT" /\ trace[X[p]].call = p
       /\ trace[X[p]].fid = prog[p].fid /\ trace[X[p]].ts = prog[p].exit

NoOther(E, X) == \A k \in DOMAIN trace :
  /\ trace[k].type = "ENTRY" => trace[k].call \in DOMAIN prog /\ E[trace[k].call] = k
  /\ trace[k].type = "EXIT"  => trace[k].call \in DOMAIN prog /\ X[trace[k].call] = k

InTurn(E) == \A p, q \in DOMAIN prog : p < q => E[p] < E[q]

Nested(X) == \A q \in DOMAIN prog : \A p \in prog[q].within :
  /\ p \in DOMAIN prog /\ p < q
  /\ X[q] < X[p] \/ (X[q] = Never /\ X[p] = Never)

Apart(E, X) == \A p, q \in DOMAIN prog : p < q /\ p \notin prog[q].within => X[p] < E[q]

ProgIs(E, X) ==
  /\ prog \in Seq(ProgCall)
  /\ E \in [DOMAIN prog -> Nat] /\ X \in [DOMAIN prog -> Nat]
  /\ Begins(E, X) /\ Ends(X) /\ NoOther(E, X) /\ InTurn(E) /\ Nested(X) /\ Apart(E, X)

ProgInv == \E E, X : ProgIs(E, X)

LEMMA ProgInvInit == Init => ProgInv
<1> SUFFICES ASSUME Init PROVE ProgInv
  OBVIOUS
<1> DEFINE none == [p \in DOMAIN prog |-> 0]
<1>1. prog = <<>> /\ trace = <<>> /\ DOMAIN prog = {} /\ DOMAIN trace = {}
  BY DEF Init
<1>2. none \in [DOMAIN prog -> Nat]
  OBVIOUS
<1> HIDE DEF none
<1>3. ProgIs(none, none)
  BY <1>1, <1>2 DEF ProgIs, Begins, Ends, NoOther, InTurn, Nested, Apart
<1> QED
  BY <1>3 DEF ProgInv

LEMMA ProgInvEntry ==
  ASSUME Written, NEW E, NEW X, ProgIs(E, X), NEW ts \in Times, NEW f \in Func, TraceEntry(f, ts)
  PROVE  ProgInv'
<1> DEFINE row == Row("ENTRY", f, Len(prog) + 1, ts)
           call == [fid |-> f, entry |-> ts, exit |-> Open, within |-> OpenCalls]
           L == Len(prog)
           N == Len(trace)
<1>0. PICK D, Y : /\ D = [p \in 1 .. L + 1 |-> IF p = L + 1 THEN N + 1 ELSE E[p]]
                  /\ Y = [p \in 1 .. L + 1 |-> IF p = L + 1 THEN Never ELSE X[p]]
  OBVIOUS
<1>1. /\ prog \in Seq(ProgCall) /\ L \in Nat /\ DOMAIN prog = 1 .. L
      /\ trace \in Seq(Rows) /\ N \in Nat /\ DOMAIN trace = 1 .. N /\ N < MaxEvents
      /\ trace' = Append(trace, row) /\ prog' = Append(prog, call)
  BY DEF ProgIs, Written, TraceEntry, Write
<1>2. ts \in 0 .. MaxTime /\ OpenCalls \in SUBSET Nat
  BY <1>1, TimesAre DEF OpenCalls
<1>3. call \in ProgCall /\ call.fid = f /\ call.entry = ts /\ call.exit = Open /\ call.within = OpenCalls
  BY <1>2 DEF ProgCall
<1>4. row \in Rows /\ row.type = "ENTRY" /\ row.fid = f /\ row.ts = ts /\ row.call = L + 1
  BY <1>1, EntryRow DEF Row
<1> HIDE DEF row, call
<1>5. /\ DOMAIN trace' = 1 .. N + 1 /\ trace'[N + 1] = row /\ \A k \in 1 .. N : trace'[k] = trace[k]
      /\ DOMAIN prog' = 1 .. L + 1 /\ prog'[L + 1] = call /\ \A p \in 1 .. L : prog'[p] = prog[p]
      /\ prog' \in Seq(ProgCall)
  BY <1>1, <1>3, <1>4
<1> HIDE DEF L, N
<1>6. /\ \A p \in 1 .. L : p \in 1 .. L + 1 /\ p # L + 1 /\ p < L + 1
      /\ \A p \in 1 .. L + 1 : p = L + 1 \/ p \in 1 .. L
      /\ L + 1 \in 1 .. L + 1
      /\ \A k \in 1 .. N : k \in 1 .. N + 1 /\ k # N + 1 /\ k < N + 1
      /\ \A k \in 1 .. N + 1 : k = N + 1 \/ k \in 1 .. N
      /\ N + 1 \in 1 .. N + 1 /\ Never \in Nat /\ N + 1 < Never
  BY <1>1, ADParserAssumption DEF Never
<1>7. /\ \A p \in 1 .. L : E[p] \in Nat /\ X[p] \in Nat
      /\ \A p \in 1 .. L : D[p] = E[p] /\ Y[p] = X[p]
      /\ D[L + 1] = N + 1 /\ Y[L + 1] = Never
  BY <1>0, <1>1, <1>6 DEF ProgIs
<1>8. D \in [1 .. L + 1 -> Nat] /\ Y \in [1 .. L + 1 -> Nat]
  <2>1. \A p \in 1 .. L + 1 : D[p] \in Nat /\ Y[p] \in Nat
    <3>1. N + 1 \in Nat /\ Never \in Nat
      BY <1>1, <1>6
    <3> QED
      BY <1>6, <1>7, <3>1
  <2> QED
    BY <1>0, <2>1
<1>9. ASSUME NEW p \in 1 .. L + 1
      PROVE  /\ D[p] \in 1 .. N + 1 /\ D[p] < Y[p]
             /\ trace'[D[p]].type = "ENTRY" /\ trace'[D[p]].call = p
             /\ trace'[D[p]].fid = prog'[p].fid /\ trace'[D[p]].ts = prog'[p].entry
  <2>1. CASE p = L + 1
    BY <1>3, <1>4, <1>5, <1>6, <1>7, <2>1
  <2>2. CASE p \in 1 .. L
    <3>1. /\ E[p] \in 1 .. N /\ E[p] < X[p]
          /\ trace[E[p]].type = "ENTRY" /\ trace[E[p]].call = p
          /\ trace[E[p]].fid = prog[p].fid /\ trace[E[p]].ts = prog[p].entry
      BY <1>1, <2>2 DEF ProgIs, Begins
    <3>2. D[p] = E[p] /\ Y[p] = X[p] /\ prog'[p] = prog[p] /\ trace'[E[p]] = trace[E[p]]
          /\ E[p] \in 1 .. N + 1
      BY <1>5, <1>6, <1>7, <2>2, <3>1
    <3> QED
      BY <3>1, <3>2
  <2> QED
    BY <1>6, <2>1, <2>2
<1>10. ASSUME NEW p \in 1 .. L + 1, prog'[p].exit = Open PROVE Y[p] = Never
  BY <1>1, <1>5, <1>6, <1>7, <1>10 DEF ProgIs, Ends
<1>11. ASSUME NEW p \in 1 .. L + 1, prog'[p].exit # Open
       PROVE  /\ Y[p] \in 1 .. N + 1
              /\ trace'[Y[p]].type = "EXIT" /\ trace'[Y[p]].call = p
              /\ trace'[Y[p]].fid = prog'[p].fid /\ trace'[Y[p]].ts = prog'[p].exit
  <2>1. p \in 1 .. L
    BY <1>3, <1>5, <1>6, <1>11
  <2> QED
    <3>1. Y[p] = X[p] /\ prog'[p] = prog[p]
      BY <1>5, <1>7, <2>1
    <3>2. /\ X[p] \in 1 .. N
          /\ trace[X[p]].type = "EXIT" /\ trace[X[p]].call = p
          /\ trace[X[p]].fid = prog[p].fid /\ trace[X[p]].ts = prog[p].exit
      BY <1>1, <1>11, <2>1, <3>1 DEF ProgIs, Ends
    <3>3. trace'[X[p]] = trace[X[p]] /\ X[p] \in 1 .. N + 1
      BY <1>5, <1>6, <3>2
    <3> QED
      BY <3>1, <3>2, <3>3
<1>12. ASSUME NEW k \in 1 .. N + 1
       PROVE  /\ trace'[k].type = "ENTRY" => trace'[k].call \in 1 .. L + 1 /\ D[trace'[k].call] = k
              /\ trace'[k].type = "EXIT"  => trace'[k].call \in 1 .. L + 1 /\ Y[trace'[k].call] = k
  <2>1. CASE k = N + 1
    BY <1>4, <1>5, <1>6, <1>7, <2>1
  <2>2. CASE k \in 1 .. N
    <3>1. trace'[k] = trace[k]
      BY <1>5, <2>2
    <3>2. /\ trace[k].type = "ENTRY" => trace[k].call \in 1 .. L /\ E[trace[k].call] = k
          /\ trace[k].type = "EXIT"  => trace[k].call \in 1 .. L /\ X[trace[k].call] = k
      BY <1>1, <2>2 DEF ProgIs, NoOther
    <3> QED
      BY <1>6, <1>7, <3>1, <3>2
  <2> QED
    BY <1>6, <2>1, <2>2
<1>13. ASSUME NEW p \in 1 .. L + 1, NEW q \in 1 .. L + 1, p < q PROVE D[p] < D[q]
  <2>1. p \in 1 .. L
    BY <1>1, <1>13
  <2>2. CASE q = L + 1
    <3>1. E[p] \in 1 .. N
      BY <1>1, <2>1 DEF ProgIs, Begins
    <3> QED
      BY <1>1, <1>6, <1>7, <2>1, <2>2, <3>1
  <2>3. CASE q \in 1 .. L
    BY <1>1, <1>7, <1>13, <2>1, <2>3 DEF ProgIs, InTurn
  <2> QED
    BY <1>6, <2>2, <2>3
<1>14. ASSUME NEW q \in 1 .. L + 1, NEW p \in prog'[q].within
       PROVE  /\ p \in 1 .. L + 1 /\ p < q
              /\ Y[q] < Y[p] \/ (Y[q] = Never /\ Y[p] = Never)
  <2>1. CASE q = L + 1
    <3>1. p \in 1 .. L /\ prog[p].exit = Open
      BY <1>1, <1>3, <1>5, <1>14, <2>1 DEF OpenCalls
    <3>2. X[p] = Never
      BY <1>1, <3>1 DEF ProgIs, Ends
    <3>3. p < q
      BY <1>1, <2>1, <3>1
    <3> QED
      BY <1>6, <1>7, <2>1, <3>1, <3>2, <3>3
  <2>2. CASE q \in 1 .. L
    <3>1. p \in prog[q].within
      BY <1>5, <1>14, <2>2
    <3>2. p \in 1 .. L /\ p < q /\ (X[q] < X[p] \/ (X[q] = Never /\ X[p] = Never))
      BY <1>1, <2>2, <3>1 DEF ProgIs, Nested
    <3> QED
      BY <1>6, <1>7, <2>2, <3>2
  <2> QED
    BY <1>6, <2>1, <2>2
<1>15. ASSUME NEW p \in 1 .. L + 1, NEW q \in 1 .. L + 1, p < q, p \notin prog'[q].within
       PROVE  Y[p] < D[q]
  <2>1. p \in 1 .. L
    BY <1>1, <1>15
  <2>2. CASE q = L + 1
    <3>1. prog[p].exit # Open
      BY <1>1, <1>3, <1>5, <1>15, <2>1, <2>2 DEF OpenCalls
    <3>2. X[p] \in 1 .. N
      BY <1>1, <2>1, <3>1 DEF ProgIs, Ends
    <3> QED
      BY <1>1, <1>6, <1>7, <2>1, <2>2, <3>2
  <2>3. CASE q \in 1 .. L
    BY <1>1, <1>5, <1>7, <1>15, <2>1, <2>3 DEF ProgIs, Apart
  <2> QED
    BY <1>6, <2>2, <2>3
<1>16. Begins(D, Y)' /\ Ends(Y)'
  BY <1>5, <1>9, <1>10, <1>11 DEF Begins, Ends, Open, Never
<1>17. NoOther(D, Y)' /\ InTurn(D)' /\ Apart(D, Y)'
  BY <1>5, <1>12, <1>13, <1>15 DEF NoOther, InTurn, Apart
<1>18. Nested(Y)'
  BY <1>5, <1>14 DEF Nested, Never
<1>19. ProgIs(D, Y)'
  BY <1>5, <1>8, <1>16, <1>17, <1>18 DEF ProgIs, ProgCall, Open
<1> QED
  BY <1>19 DEF ProgInv

LEMMA ProgInvExit ==
  ASSUME Written, NEW E, NEW X, ProgIs(E, X), NEW ts \in Times, TraceExit(ts)
  PROVE  ProgInv'
<1>0. PICK o : o = Max(OpenCalls)
  OBVIOUS
<1> DEFINE row == Row("EXIT", prog[o].fid, o, ts)
           L == Len(prog)
           N == Len(trace)
<1>1. /\ prog \in Seq(ProgCall) /\ L \in Nat /\ DOMAIN prog = 1 .. L
      /\ trace \in Seq(Rows) /\ N \in Nat /\ DOMAIN trace = 1 .. N /\ N < MaxEvents
      /\ trace' = Append(trace, row) /\ prog' = [prog EXCEPT ![o].exit = ts]
      /\ OpenCalls # {}
  BY <1>0 DEF ProgIs, Written, TraceExit, Write
<1>2. ts \in 0 .. MaxTime /\ ts # Open
  BY <1>1, TimesAre DEF Open
<1>3. /\ o \in 1 .. L /\ prog[o].exit = Open
      /\ \A p \in 1 .. L : prog[p].exit = Open => p <= o
  BY <1>0, <1>1, LastOpen DEF OpenCalls
<1>4. row \in Rows /\ row.type = "EXIT" /\ row.fid = prog[o].fid /\ row.ts = ts /\ row.call = o
  BY <1>0, <1>1, ExitRow DEF Row
<1> HIDE DEF row
<1>5. /\ DOMAIN trace' = 1 .. N + 1 /\ trace'[N + 1] = row /\ \A k \in 1 .. N : trace'[k] = trace[k]
  BY <1>1, <1>4
<1>5a. \A p \in 1 .. L : prog[p] \in ProgCall
  BY <1>1
<1>5b. /\ DOMAIN prog' = 1 .. L /\ prog'[o].exit = ts
       /\ \A p \in 1 .. L : /\ prog'[p].fid = prog[p].fid /\ prog'[p].entry = prog[p].entry
                            /\ prog'[p].within = prog[p].within
                            /\ p # o => prog'[p].exit = prog[p].exit
  BY <1>1, <1>3, <1>5a DEF ProgCall
<1>5c. prog' \in Seq(ProgCall)
  <2>1. [prog[o] EXCEPT !.exit = ts] \in ProgCall
    BY <1>2, <1>3, <1>5a DEF ProgCall
  <2> QED
    BY <1>1, <1>3, <2>1
<1>6. PICK Y : Y = [X EXCEPT ![o] = N + 1]
  OBVIOUS
<1>7. /\ \A k \in 1 .. N : k \in 1 .. N + 1 /\ k # N + 1 /\ k < N + 1
      /\ \A k \in 1 .. N + 1 : k = N + 1 \/ k \in 1 .. N
      /\ N + 1 \in 1 .. N + 1 /\ N + 1 \in Nat /\ N + 1 < Never /\ Never \in Nat
  BY <1>1, ADParserAssumption DEF Never
<1>8. /\ E \in [1 .. L -> Nat] /\ X \in [1 .. L -> Nat] /\ Y \in [1 .. L -> Nat]
      /\ Y[o] = N + 1 /\ \A p \in 1 .. L : p # o => Y[p] = X[p]
  BY <1>1, <1>3, <1>6, <1>7 DEF ProgIs
<1>8a. X[o] = Never
  BY <1>1, <1>3 DEF ProgIs, Ends
<1>9. ASSUME NEW p \in 1 .. L
      PROVE  /\ E[p] \in 1 .. N + 1 /\ E[p] < Y[p]
             /\ trace'[E[p]].type = "ENTRY" /\ trace'[E[p]].call = p
             /\ trace'[E[p]].fid = prog'[p].fid /\ trace'[E[p]].ts = prog'[p].entry
  <2>1. /\ E[p] \in 1 .. N /\ E[p] < X[p]
        /\ trace[E[p]].type = "ENTRY" /\ trace[E[p]].call = p
        /\ trace[E[p]].fid = prog[p].fid /\ trace[E[p]].ts = prog[p].entry
    BY <1>1 DEF ProgIs, Begins
  <2>2. trace'[E[p]] = trace[E[p]] /\ E[p] \in 1 .. N + 1 /\ E[p] < N + 1
    BY <1>5, <1>7, <2>1
  <2>3. E[p] < Y[p]
    BY <1>8, <2>1, <2>2
  <2> QED
    BY <1>5b, <2>1, <2>2, <2>3
<1>10. ASSUME NEW p \in 1 .. L, prog'[p].exit = Open PROVE Y[p] = Never
  <2>1. p # o /\ prog[p].exit = Open
    BY <1>2, <1>5b, <1>10
  <2> QED
    BY <1>1, <1>8, <2>1 DEF ProgIs, Ends
<1>11. ASSUME NEW p \in 1 .. L, prog'[p].exit # Open
       PROVE  /\ Y[p] \in 1 .. N + 1
              /\ trace'[Y[p]].type = "EXIT" /\ trace'[Y[p]].call = p
              /\ trace'[Y[p]].fid = prog'[p].fid /\ trace'[Y[p]].ts = prog'[p].exit
  <2>1. CASE p = o
    BY <1>4, <1>5, <1>5b, <1>7, <1>8, <2>1
  <2>2. CASE p # o
    <3>1. /\ X[p] \in 1 .. N
          /\ trace[X[p]].type = "EXIT" /\ trace[X[p]].call = p
          /\ trace[X[p]].fid = prog[p].fid /\ trace[X[p]].ts = prog[p].exit
      BY <1>1, <1>5b, <1>11, <2>2 DEF ProgIs, Ends
    <3>2. trace'[X[p]] = trace[X[p]] /\ X[p] \in 1 .. N + 1 /\ Y[p] = X[p]
      BY <1>5, <1>7, <1>8, <2>2, <3>1
    <3> QED
      BY <1>5b, <2>2, <3>1, <3>2
  <2> QED
    BY <2>1, <2>2
<1>12. ASSUME NEW k \in 1 .. N + 1
       PROVE  /\ trace'[k].type = "ENTRY" => trace'[k].call \in 1 .. L /\ E[trace'[k].call] = k
              /\ trace'[k].type = "EXIT"  => trace'[k].call \in 1 .. L /\ Y[trace'[k].call] = k
  <2>1. CASE k = N + 1
    BY <1>3, <1>4, <1>5, <1>8, <2>1
  <2>2. CASE k \in 1 .. N
    <3>1. trace'[k] = trace[k]
      BY <1>5, <2>2
    <3>2. /\ trace[k].type = "ENTRY" => trace[k].call \in 1 .. L /\ E[trace[k].call] = k
          /\ trace[k].type = "EXIT"  => trace[k].call \in 1 .. L /\ X[trace[k].call] = k
      BY <1>1, <2>2 DEF ProgIs, NoOther
    <3>3. k # Never
      BY <1>7, <2>2 DEF Never
    <3>4. trace[k].type = "EXIT" => trace[k].call # o
      BY <1>8a, <3>2, <3>3
    <3> QED
      BY <1>8, <3>1, <3>2, <3>4
  <2> QED
    BY <1>7, <2>1, <2>2
<1>13. ASSUME NEW p \in 1 .. L, NEW q \in 1 .. L, p < q PROVE E[p] < E[q]
  BY <1>1, <1>13 DEF ProgIs, InTurn
<1>14. ASSUME NEW q \in 1 .. L, NEW p \in prog'[q].within
       PROVE  /\ p \in 1 .. L /\ p < q
              /\ Y[q] < Y[p] \/ (Y[q] = Never /\ Y[p] = Never)
  <2>1. p \in prog[q].within
    BY <1>5b
  <2>2. p \in 1 .. L /\ p < q /\ (X[q] < X[p] \/ (X[q] = Never /\ X[p] = Never))
    BY <1>1, <2>1 DEF ProgIs, Nested
  <2>3. CASE q = o
    <3>1. p # o /\ Y[p] = X[p] /\ Y[q] = N + 1 /\ X[q] = Never /\ X[p] \in Nat
      BY <1>3, <1>8, <1>8a, <2>2, <2>3
    <3> QED
      BY <1>7, <2>2, <3>1
  <2>4. CASE p = o /\ q # o
    <3>1. prog[q].exit # Open
      BY <1>3, <2>2, <2>4
    <3>2. X[q] \in 1 .. N
      BY <1>1, <3>1 DEF ProgIs, Ends
    <3> QED
      BY <1>7, <1>8, <2>2, <2>4, <3>2
  <2>5. CASE p # o /\ q # o
    BY <1>8, <2>2, <2>5
  <2> QED
    BY <2>3, <2>4, <2>5
<1>15. ASSUME NEW p \in 1 .. L, NEW q \in 1 .. L, p < q, p \notin prog'[q].within
       PROVE  Y[p] < E[q]
  <2>1. X[p] < E[q]
    BY <1>1, <1>5b, <1>15 DEF ProgIs, Apart
  <2>2. p # o
    <3>1. E[q] \in 1 .. N
      BY <1>1 DEF ProgIs, Begins
    <3> QED
      BY <1>7, <1>8a, <2>1, <3>1
  <2> QED
    BY <1>8, <2>1, <2>2
<1>16. Begins(E, Y)' /\ Ends(Y)'
  BY <1>5, <1>5b, <1>9, <1>10, <1>11 DEF Begins, Ends, Open, Never
<1>17. NoOther(E, Y)' /\ InTurn(E)' /\ Apart(E, Y)'
  BY <1>5, <1>5b, <1>12, <1>13, <1>15 DEF NoOther, InTurn, Apart
<1>18. Nested(Y)'
  BY <1>5b, <1>14 DEF Nested, Never
<1>19. ProgIs(E, Y)'
  BY <1>5b, <1>5c, <1>8, <1>16, <1>17, <1>18 DEF ProgIs, ProgCall, Open
<1> QED
  BY <1>19 DEF ProgInv

LEMMA ProgInvData ==
  ASSUME Written, NEW E, NEW X, ProgIs(E, X), NEW ts \in Times, NEW k \in DataKind, TraceData(k, ts)
  PROVE  ProgInv'
<1> DEFINE row == Row(k, "none", 0, ts)
           N == Len(trace)
<1>1. /\ prog' = prog /\ trace \in Seq(Rows) /\ N \in Nat /\ DOMAIN trace = 1 .. N
      /\ trace' = Append(trace, row)
  BY DEF Written, TraceData, Write
<1>2. row \in Rows /\ row.type # "ENTRY" /\ row.type # "EXIT"
  BY DataRow, KindsDiffer DEF FuncKinds
<1> HIDE DEF row
<1>3. /\ DOMAIN trace' = 1 .. N + 1 /\ trace'[N + 1] = row /\ \A i \in 1 .. N : trace'[i] = trace[i]
      /\ \A i \in 1 .. N + 1 : i = N + 1 \/ i \in 1 .. N
      /\ \A i \in 1 .. N : i \in 1 .. N + 1
  BY <1>1, <1>2
<1>4. Begins(E, X)'
  BY <1>1, <1>3 DEF ProgIs, Begins
<1>5. Ends(X)'
  BY <1>1, <1>3 DEF ProgIs, Ends, Open, Never
<1>6. NoOther(E, X)'
  <2>1. ASSUME NEW i \in 1 .. N + 1
        PROVE  /\ trace'[i].type = "ENTRY" => trace'[i].call \in DOMAIN prog /\ E[trace'[i].call] = i
               /\ trace'[i].type = "EXIT"  => trace'[i].call \in DOMAIN prog /\ X[trace'[i].call] = i
    <3>1. CASE i = N + 1
      BY <1>2, <1>3, <3>1
    <3>2. CASE i \in 1 .. N
      BY <1>1, <1>3, <3>2 DEF ProgIs, NoOther
    <3> QED
      BY <1>3, <3>1, <3>2
  <2> QED
    BY <1>1, <1>3, <2>1 DEF NoOther
<1>7. InTurn(E)' /\ Nested(X)' /\ Apart(E, X)'
  BY <1>1 DEF ProgIs, InTurn, Nested, Apart, Never
<1>8. ProgIs(E, X)'
  BY <1>1, <1>4, <1>5, <1>6, <1>7 DEF ProgIs, ProgCall, Open
<1> QED
  BY <1>8 DEF ProgInv

LEMMA ProgInvKept ==
  ASSUME NEW E, NEW X, ProgIs(E, X), UNCHANGED traceVars
  PROVE  ProgIs(E, X)'
<1>1. prog' = prog /\ trace' = trace
  BY DEF traceVars
<1> QED
  BY <1>1 DEF ProgIs, Begins, Ends, NoOther, InTurn, Nested, Apart, ProgCall, Open, Never

(* The trace, the calls of the program and the tables, in every state.      *)
LEMMA TracesStep ==
  ASSUME TraceInv, ProgInv, [Next]_vars
  PROVE  TraceInv' /\ ProgInv'
<1>1. PICK E, X : ProgIs(E, X)
  BY DEF ProgInv
<1>2. Written /\ prog \in Seq(ProgCall)
  BY <1>1 DEF TraceInv, ProgIs
<1>3. ASSUME NEW ts \in Times, NEW f \in Func, TraceEntry(f, ts)
      PROVE  TraceInv' /\ ProgInv'
  BY <1>1, <1>2, <1>3, TraceInvWrite, ProgInvEntry
<1>4. ASSUME NEW ts \in Times, TraceExit(ts)
      PROVE  TraceInv' /\ ProgInv'
  BY <1>1, <1>2, <1>4, TraceInvWrite, ProgInvExit
<1>5. ASSUME NEW ts \in Times, NEW k \in DataKind, TraceData(k, ts)
      PROVE  TraceInv' /\ ProgInv'
  BY <1>1, <1>2, <1>5, TraceInvWrite, ProgInvData
<1>6. ASSUME NEW f \in 0 .. Len(func), NEW c \in 0 .. Len(comm), NEW n \in 0 .. Len(counter),
             IOStep(f, c, n)
      PROVE  TraceInv' /\ ProgInv'
  <2>1. UNCHANGED traceVars
    BY <1>6 DEF IOStep
  <2> QED
    BY <1>1, <1>6, <2>1, TraceInvStep, ProgInvKept DEF ProgInv
<1>7. ASSUME \/ \E f \in 0 .. Len(func), c \in 0 .. Len(comm), n \in 0 .. Len(counter) :
                  IOStepDisordered(f, c, n)
             \/ EndOfStream
             \/ UNCHANGED vars
      PROVE  TraceInv' /\ ProgInv'
  BY <1>1, <1>7, TraceInvOther, ProgInvKept DEF ProgInv
<1> QED
  BY <1>3, <1>4, <1>5, <1>6, <1>7 DEF Next

-----------------------------------------------------------------------------
(* What is handed over.                                                     *)

LEMMA NothingYet ==
  ASSUME TraceInv, Untouched
  PROVE  HandedOver = {}
<1>1. \A r \in Range(func) : r.type \notin DataKind
  BY KindsDiffer DEF TraceInv, Remains
<1> QED
  BY <1>1 DEF HandedOver, Untouched

LEMMA HandedOverBefore ==
  ASSUME TraceInv, NEW r \in HandedOver
  PROVE  /\ r \in Rows /\ r \in Range(trace) /\ r.type \in DataKind
         /\ r.type = "comm" => \A q \in Range(comm) : r.id < q.id
         /\ r.type # "comm" => \A q \in Range(counter) : r.id < q.id
<1>1. /\ r \in Range(trace) /\ r.type \in DataKind /\ r \notin Range(comm) /\ r \notin Range(counter)
      /\ trace \in Seq(Rows) /\ comm \in Seq(Rows) /\ counter \in Seq(Rows)
      /\ Remains(comm, {"comm"} \cap DataKind) /\ Remains(counter, CounterKinds)
  BY DEF HandedOver, TraceInv, Written, Remains
<1>2. /\ r \in Rows /\ r.id \in Int
      /\ \A q \in Range(comm) \cup Range(counter) : q.id \in Int
  BY <1>1, RowsIn, RowFields
<1>3. ASSUME r.type = "comm", NEW q \in Range(comm) PROVE r.id < q.id
  <2>1. ~(q.id <= r.id)
    BY <1>1, <1>3 DEF Remains
  <2> QED
    BY <1>2, <2>1
<1>4. ASSUME r.type # "comm", NEW q \in Range(counter) PROVE r.id < q.id
  <2>1. ~(q.id <= r.id)
    BY <1>1, <1>4 DEF Remains, CounterKinds
  <2> QED
    BY <1>2, <2>1
<1> QED
  BY <1>1, <1>2, <1>3, <1>4

LEMMA StepHandsOver ==
  ASSUME TraceInv, NEW f \in 0 .. Len(func), NEW c \in 0 .. Len(comm), NEW n \in 0 .. Len(counter),
         IOStep(f, c, n)
  PROVE  HandedOver' = HandedOver \cup Range(Taken(comm, c)) \cup Range(Taken(counter, n))
<1>1. /\ comm \in Seq(Rows) /\ counter \in Seq(Rows) /\ Ordered(comm) /\ Ordered(counter)
      /\ Range(comm) \subseteq {r \in Range(trace) : r.type \in {"comm"} \cap DataKind}
      /\ Range(counter) \subseteq {r \in Range(trace) : r.type \in CounterKinds}
  BY DEF TraceInv, Remains
<1>2. comm' = Held(comm, c) /\ counter' = Held(counter, n) /\ trace' = trace
  BY DEF IOStep, traceVars
<1>3. /\ Range(comm) = Range(Taken(comm, c)) \cup Range(Held(comm, c))
      /\ Range(counter) = Range(Taken(counter, n)) \cup Range(Held(counter, n))
  BY <1>1, PartsRange
<1>4. \A r \in Range(comm) \cup Range(counter) : r.id \in Nat
  BY <1>1, RowsIn, RowFields
<1>5. /\ \A a \in Range(Taken(comm, c)), b \in Range(Held(comm, c)) : a.id < b.id
      /\ \A a \in Range(Taken(counter, n)), b \in Range(Held(counter, n)) : a.id < b.id
  BY <1>1, <1>4, OrderedParts
<1>6. /\ Range(Taken(comm, c)) \cap Range(Held(comm, c)) = {}
      /\ Range(Taken(counter, n)) \cap Range(Held(counter, n)) = {}
  BY <1>3, <1>4, <1>5
<1>7. Range(comm) \cap Range(counter) = {}
  BY <1>1 DEF CounterKinds
<1> QED
  BY <1>1, <1>2, <1>3, <1>6, <1>7 DEF HandedOver, CounterKinds

-----------------------------------------------------------------------------
(* Monitoring.  The counters collected are the latest that were handed over *)
(* of those watched: their last sample of a kind is the latest of all.      *)

MonitorInv ==
  /\ counters \in Seq(Rows) /\ Ordered(counters)
  /\ Range(counters) \subseteq Monitored
  /\ \A r \in Range(counters), q \in Monitored : r.id <= q.id => q \in Range(counters)
  /\ NodeStateIsLatest

LEMMA MonitorUntouched ==
  ASSUME TraceInv, Untouched
  PROVE  MonitorInv
<1>1. Monitored = {} /\ counters = <<>> /\ nodeState = NoState
  BY NothingYet DEF Monitored, Untouched
<1>2. Range(<<>>) = {}
  BY DEF Range
<1>3. ASSUME NEW cid \in Watched
      PROVE  nodeState[cid] = Max({Unassigned} \cup {r.id : r \in {r \in Monitored : r.type = cid}})
  <2>1. {Unassigned} \cup {r.id : r \in {r \in Monitored : r.type = cid}} = {0}
    BY <1>1 DEF Unassigned
  <2>2. Max({0}) = 0
    BY MaxIs
  <2>3. nodeState[cid] = 0
    BY <1>1 DEF NoState, Unassigned
  <2> QED
    BY <2>1, <2>2, <2>3
<1> QED
  BY <1>1, <1>2, <1>3 DEF MonitorInv, NodeStateIsLatest, Ordered

LEMMA LastIsMost ==
  ASSUME NEW s \in Seq(Rows), Ordered(s), s # <<>>
  PROVE  /\ Last(s) \in Range(s)
         /\ \A r \in Range(s) : r.id <= Last(s).id
<1>1. Len(s) \in Nat /\ Len(s) \in DOMAIN s /\ Last(s) = s[Len(s)] /\ DOMAIN s = 1 .. Len(s)
  BY DEF Last
<1>2. \A i \in DOMAIN s : s[i].id \in Nat
  BY RowFields
<1>3. ASSUME NEW i \in DOMAIN s PROVE s[i].id <= s[Len(s)].id
  <2>1. CASE i = Len(s)
    BY <1>2, <2>1
  <2>2. CASE i # Len(s)
    <3>1. i < Len(s)
      BY <1>1, <2>2
    <3> QED
      BY <1>1, <1>2, <3>1 DEF Ordered
  <2> QED
    BY <2>1, <2>2
<1> QED
  BY <1>1, <1>3 DEF Range

LEMMA MonitorStep ==
  ASSUME TraceInv, MonitorInv,
         NEW f \in 0 .. Len(func), NEW c \in 0 .. Len(comm), NEW n \in 0 .. Len(counter),
         IOStep(f, c, n)
  PROVE  MonitorInv'
<1> DEFINE table == Taken(counter, n)
           new == {r \in Range(table) : r.type \in Watched}
           all == AddCounters(counters, table)
<1>1. /\ counter \in Seq(Rows) /\ Ordered(counter) /\ counters \in Seq(Rows) /\ Ordered(counters)
      /\ Range(counter) \subseteq {r \in Range(trace) : r.type \in CounterKinds}
  BY DEF TraceInv, Remains, MonitorInv
<1>2. table \in Seq(Rows) /\ Ordered(table) /\ Range(table) \subseteq Range(counter)
  <2>1. \A r \in Range(counter) : r.id \in Nat
    BY <1>1, RowsIn, RowFields
  <2> QED
    BY <1>1, <2>1, TakenAndHeld, PartsRange, OrderedParts
<1>3. \A r \in Range(Taken(comm, c)) : r.type = "comm"
  <2>1. comm \in Seq(Rows) /\ \A r \in Range(comm) : r.type = "comm"
    BY DEF TraceInv, Remains
  <2> QED
    BY <2>1, PartsRange
<1>4. Monitored' = Monitored \cup new
  <2>1. HandedOver' = HandedOver \cup Range(Taken(comm, c)) \cup Range(table)
    BY StepHandsOver
  <2> HIDE DEF table
  <2> QED
    BY <1>3, <2>1, KindsDiffer DEF Monitored
<1> HIDE DEF table
<1>5. /\ Only(table, new) \in Seq(Rows) /\ Range(Only(table, new)) = new
      /\ Ordered(Only(table, new))
  BY <1>2, OnlyRange, OnlyOrdered
<1>6. \A r \in Range(counters) \cup Monitored, q \in new : r.id < q.id
  <2>1. \A r \in Monitored : r \in HandedOver /\ r.type # "comm"
    BY KindsDiffer DEF Monitored
  <2> QED
    BY <1>2, <2>1, HandedOverBefore DEF MonitorInv
<1>7. all = counters \o Only(table, new)
  BY DEF AddCounters
<1> HIDE DEF all
<1>8. all \in Seq(Rows) /\ Range(all) = Range(counters) \cup new /\ Ordered(all)
  <2>1. \A a \in Range(counters), b \in Range(Only(table, new)) : a.id < b.id
    BY <1>5, <1>6
  <2> HIDE DEF new
  <2> QED
    BY <1>1, <1>5, <1>7, <2>1, ConcatIs, ConcatRange, ConcatOrdered
<1>9. \A r \in Monitored \cup new : r \in Rows /\ r.id \in Nat
  BY <1>2, HandedOverBefore, RowsIn, RowFields DEF Monitored
<1>10. Range(all) \subseteq Monitored'
  BY <1>4, <1>8 DEF MonitorInv
<1>11. ASSUME NEW r \in Range(all), NEW q \in Monitored', r.id <= q.id PROVE q \in Range(all)
  <2>1. CASE q \in new
    BY <1>8, <2>1
  <2>2. CASE q \in Monitored
    <3>1. r.id \in Int /\ q.id \in Int
      BY <1>4, <1>9, <1>10
    <3>2. r \notin new
      BY <1>6, <1>11, <2>2, <3>1
    <3> QED
      BY <1>8, <1>11, <2>2, <3>2 DEF MonitorInv
  <2> QED
    BY <1>4, <2>1, <2>2
<1>12. nodeState' = ExtractCounters(nodeState, all) /\ (counters' = all \/ counters' = <<>>)
  BY DEF IOStep, CountersOfStep, all, table
<1>13. ASSUME NEW cid \in Watched
       PROVE  nodeState'[cid] = Max({Unassigned} \cup {r.id : r \in {r \in Monitored' : r.type = cid}})
  <2> DEFINE samples == ByIndex(all, cid)
             ids == {Unassigned} \cup {r.id : r \in {r \in Monitored' : r.type = cid}}
  <2>1. samples \in Seq(Rows) /\ Range(samples) = {r \in Range(all) : r.type = cid} /\ Ordered(samples)
    BY <1>8, OnlyRange, OnlyOrdered DEF ByIndex
  <2>2. nodeState'[cid] = IF samples = <<>> THEN nodeState[cid] ELSE Last(samples).id
    BY <1>12 DEF ExtractCounters
  <2> HIDE DEF samples
  <2>3. CASE samples = <<>>
    <3>1. Range(samples) = {}
      BY <2>3 DEF Range
    <3>2. {r \in Monitored' : r.type = cid} = {r \in Monitored : r.type = cid}
      BY <1>4, <1>8, <2>1, <3>1
    <3> QED
      BY <2>2, <2>3, <3>2 DEF MonitorInv, NodeStateIsLatest
  <2>4. CASE samples # <<>>
    <3>1. /\ Last(samples) \in Range(samples)
          /\ \A r \in Range(samples) : r.id <= Last(samples).id
      BY <2>1, <2>4, LastIsMost
    <3>2. Last(samples) \in Monitored' /\ Last(samples).type = cid /\ Last(samples) \in Range(all)
          /\ Last(samples).id \in Nat
      BY <1>4, <1>9, <1>10, <2>1, <3>1
    <3>3. ASSUME NEW r \in Monitored', r.type = cid PROVE r.id <= Last(samples).id
      <4>1. r.id \in Nat
        BY <1>4, <1>9
      <4>2. CASE r.id <= Last(samples).id
        BY <4>2
      <4>3. CASE Last(samples).id <= r.id
        <5>1. r \in Range(samples)
          BY <1>11, <2>1, <3>2, <3>3, <4>3
        <5> QED
          BY <3>1, <5>1
      <4> QED
        BY <3>2, <4>1, <4>2, <4>3
    <3>4. ids \subseteq Nat /\ Last(samples).id \in ids /\ \A x \in ids : x <= Last(samples).id
      BY <1>4, <1>9, <3>2, <3>3 DEF Unassigned
    <3> HIDE DEF ids
    <3>5. Max(ids) = Last(samples).id
      BY <3>4, MaxIs
    <3> QED
      BY <2>2, <2>4, <3>5 DEF ids
  <2> QED
    BY <2>3, <2>4
<1>14. NodeStateIsLatest'
  BY <1>13 DEF NodeStateIsLatest, Unassigned
<1>15. CASE counters' = all
  BY <1>8, <1>10, <1>11, <1>14, <1>15 DEF MonitorInv, Rows, FuncKinds
<1>16. CASE counters' = <<>>
  <2>1. Range(<<>>) = {} /\ Ordered(<<>>) /\ <<>> \in Seq(Rows)
    BY DEF Range, Ordered
  <2> QED
    BY <1>14, <1>16, <2>1 DEF MonitorInv, Rows, FuncKinds
<1> QED
  BY <1>12, <1>15, <1>16

LEMMA MonitorKept ==
  ASSUME MonitorInv, UNCHANGED <<traceVars, tables, monitorVars>>
  PROVE  MonitorInv'
<1>1. trace' = trace /\ comm' = comm /\ counter' = counter /\ counters' = counters /\ nodeState' = nodeState
  BY DEF traceVars, tables, monitorVars
<1>2. HandedOver' = HandedOver
  BY <1>1 DEF HandedOver
<1>3. Monitored' = Monitored
  BY <1>2 DEF Monitored
<1> QED
  BY <1>1, <1>3 DEF MonitorInv, NodeStateIsLatest, Rows, FuncKinds, Unassigned

THEOREM TracesAndMonitor == Spec => [](TraceInv /\ ProgInv /\ MonitorInv)
<1>1. Init => TraceInv /\ ProgInv /\ MonitorInv
  <2> SUFFICES ASSUME Init PROVE TraceInv /\ ProgInv /\ MonitorInv
    OBVIOUS
  <2>1. TraceInv /\ ProgInv
    BY TraceInvInit, ProgInvInit
  <2>2. Untouched
    BY <2>1 DEF TraceInv, Init
  <2> QED
    BY <2>1, <2>2, MonitorUntouched
<1>1a. TraceInv /\ Untouched => MonitorInv
  BY MonitorUntouched
<1>1b. (TraceInv /\ Untouched => MonitorInv)'
  BY <1>1a, PTL
<1>2. TraceInv /\ ProgInv /\ MonitorInv /\ [Next]_vars => (TraceInv /\ ProgInv /\ MonitorInv)'
  <2> SUFFICES ASSUME TraceInv, ProgInv, MonitorInv, [Next]_vars
               PROVE  (TraceInv /\ ProgInv /\ MonitorInv)'
    OBVIOUS
  <2>1. TraceInv' /\ ProgInv'
    BY TracesStep
  <2>2. ASSUME \E ts \in Times : \/ \E f \in Func : TraceEntry(f, ts)
                                 \/ TraceExit(ts)
                                 \/ \E k \in DataKind : TraceData(k, ts)
        PROVE  MonitorInv'
    <3>1. step = -1 /\ running /\ step' = step /\ running' = running
      BY <2>2 DEF TraceEntry, TraceExit, TraceData, Write
    <3>2. TraceInv' /\ Untouched'
      BY <2>1, <3>1 DEF TraceInv
    <3> QED
      BY <1>1b, <3>2
  <2>3. ASSUME NEW f \in 0 .. Len(func), NEW c \in 0 .. Len(comm), NEW n \in 0 .. Len(counter),
               IOStep(f, c, n)
        PROVE  MonitorInv'
    BY <2>3, MonitorStep
  <2>4. ASSUME \/ \E f \in 0 .. Len(func), c \in 0 .. Len(comm), n \in 0 .. Len(counter) :
                    IOStepDisordered(f, c, n)
               \/ EndOfStream
               \/ UNCHANGED vars
        PROVE  MonitorInv'
    BY <2>4, TraceInvOther, MonitorKept
  <2> QED
    BY <2>1, <2>2, <2>3, <2>4 DEF Next
<1> QED
  BY <1>1, <1>2, PTL DEF Spec

(* The node state is the latest sample of each watched counter: ADMonitoring *)
(* takes "the most recent (end of list)" of what ADCounter collected.        *)
THEOREM NodeStateLatest == Spec => []NodeStateIsLatest
<1>1. MonitorInv => NodeStateIsLatest
  BY DEF MonitorInv
<1> QED
  BY <1>1, TracesAndMonitor, PTL

-----------------------------------------------------------------------------
(* The function table of a step: put in order, without the rows that are    *)
(* dropped.                                                                 *)

LEMMA ByTimeUnfolds ==
  ASSUME NEW T, NEW rows \in Seq(T)
  PROVE  \E before \in [0 .. MaxTime + 1 -> Seq(T)] :
           /\ before[0] = <<>>
           /\ \A t \in 1 .. MaxTime + 1 : before[t] = before[t - 1] \o AtTime(rows, t - 1)
           /\ ByTime(rows) = before[MaxTime + 1]
<1>0. PICK n \in Nat : n = MaxTime + 1
  BY ADParserAssumption
<1> DEFINE Body(f, i) == IF i = 0 THEN <<>> ELSE f[i - 1] \o AtTime(rows, i - 1)
           F == CHOOSE f : f = [i \in 0 .. n |-> Body(f, i)]
           G == [x \in (1 .. n) \X Seq(T) |-> x[2] \o AtTime(rows, x[1] - 1)]
<1>1. ByTime(rows) = F[n]
  BY <1>0 DEF ByTime
<1>2. <<>> \in Seq(T) /\ G \in [(1 .. n) \X Seq(T) -> Seq(T)]
  <2>1. \A t : AtTime(rows, t) \in Seq(T)
    BY OnlyRange DEF AtTime
  <2>2. \A s \in Seq(T) : \A t : s \o AtTime(rows, t) \in Seq(T)
    BY <2>1, ConcatIs
  <2> QED
    BY <2>2
<1>3. PICK f : Follows(f, n, Seq(T), <<>>, G)
  <2> HIDE DEF G
  <2> QED
    BY <1>2, Recursion
<1>4. f \in [0 .. n -> Seq(T)] /\ f[0] = <<>>
  BY <1>3 DEF Follows
<1>5. \A i \in 0 .. n : f[i] = Body(f, i)
  <2>1. ASSUME NEW i \in 1 .. n PROVE f[i] = Body(f, i)
    <3>1. <<i, f[i - 1]>> \in (1 .. n) \X Seq(T)
      BY <1>4
    <3>2. f[i] = G[<<i, f[i - 1]>>]
      BY <1>3 DEF Follows
    <3>3. G[<<i, f[i - 1]>>] = f[i - 1] \o AtTime(rows, i - 1)
      BY <3>1
    <3>4. i # 0
      OBVIOUS
    <3> HIDE DEF G
    <3> QED
      BY <3>2, <3>3, <3>4
  <2>2. f[0] = Body(f, 0)
    BY <1>4
  <2>3. \A i \in 0 .. n : i = 0 \/ i \in 1 .. n
    OBVIOUS
  <2> HIDE DEF Body
  <2> QED
    BY <2>1, <2>2, <2>3
<1>6. F = [i \in 0 .. n |-> Body(F, i)]
  <2>1. f = [i \in 0 .. n |-> Body(f, i)]
    <3>1. f = [i \in 0 .. n |-> f[i]]
      BY <1>4
    <3> HIDE DEF Body
    <3> QED
      BY <1>5, <3>1
  <2> HIDE DEF Body
  <2> QED
    BY <2>1
<1>7. F = [i \in 0 .. n |-> F[i]] /\ \A i \in 0 .. n : F[i] = Body(F, i)
  <2> HIDE DEF Body, F
  <2> QED
    BY <1>6
<1>8. F = f
  <2> DEFINE Same == {i \in 0 .. n : F[i] = f[i]}
  <2> HIDE DEF F
  <2>1. 0 \in Same
    <3>1. 0 \in 0 .. n
      OBVIOUS
    <3>2. F[0] = Body(F, 0)
      <4> HIDE DEF Body
      <4> QED
        BY <1>7, <3>1
    <3> QED
      BY <1>4, <3>1, <3>2
  <2>2. ASSUME NEW k \in 0 .. n - 1, F[k] = f[k] PROVE F[k + 1] = f[k + 1]
    <3>1. k + 1 \in 0 .. n /\ k + 1 # 0 /\ (k + 1) - 1 = k
      OBVIOUS
    <3>2. F[k + 1] = Body(F, k + 1) /\ f[k + 1] = Body(f, k + 1)
      BY <1>5, <1>7, <3>1
    <3> QED
      BY <2>2, <3>1, <3>2
  <2>3. \A k \in 0 .. n : k \in Same
    <3>1. \A k \in 0 .. n - 1 : k \in Same => k + 1 \in Same
      BY <2>2
    <3> HIDE DEF Same
    <3> QED
      BY <2>1, <3>1, UpTo
  <2>4. f = [i \in 0 .. n |-> f[i]]
    BY <1>4
  <2> QED
    BY <1>7, <2>3, <2>4
<1>9. ASSUME NEW i \in 1 .. n PROVE f[i] = f[i - 1] \o AtTime(rows, i - 1)
  <2>1. i \in 0 .. n /\ i # 0
    OBVIOUS
  <2>2. f[i] = Body(f, i)
    BY <1>5, <2>1
  <2> QED
    BY <2>1, <2>2
<1> QED
  <2> HIDE DEF F
  <2> QED
    BY <1>0, <1>1, <1>4, <1>8, <1>9

(* In order of time, rows of one time in the order they had.                *)
Follow(rows, r, q) == \E x, y \in DOMAIN rows : x < y /\ rows[x] = r /\ rows[y] = q

Stable(w, rows) ==
  \A a, b \in DOMAIN w : a < b =>
    \/ w[a].ts < w[b].ts
    \/ w[a].ts = w[b].ts /\ Follow(rows, w[a], w[b])

LEMMA ByTimeIs ==
  ASSUME NEW T, NEW rows \in Seq(T), \A r \in Range(rows) : r.ts \in 0 .. MaxTime
  PROVE  /\ ByTime(rows) \in Seq(T) /\ Range(ByTime(rows)) = Range(rows)
         /\ Stable(ByTime(rows), rows)
<1>0. PICK n \in Nat : n = MaxTime + 1
  BY ADParserAssumption
<1>1. PICK before \in [0 .. n -> Seq(T)] :
         /\ before[0] = <<>>
         /\ \A t \in 1 .. n : before[t] = before[t - 1] \o AtTime(rows, t - 1)
         /\ ByTime(rows) = before[n]
  BY <1>0, ByTimeUnfolds
<1> DEFINE Is(t) == /\ Range(before[t]) = {r \in Range(rows) : r.ts < t}
                    /\ Stable(before[t], rows)
           Good == {t \in 0 .. n : Is(t)}
<1>2. 0 \in Good
  <2>1. Range(<<>>) = {} /\ Stable(<<>>, rows)
    BY DEF Range, Stable
  <2>2. {r \in Range(rows) : r.ts < 0} = {}
    OBVIOUS
  <2> QED
    BY <1>1, <2>1, <2>2
<1>3. ASSUME NEW m \in 0 .. n - 1, Is(m) PROVE Is(m + 1)
  <2> DEFINE u == before[m]
             v == AtTime(rows, m)
             w == before[m + 1]
  <2>1. u \in Seq(T) /\ w = u \o v
    <3>1. m \in 0 .. n /\ m + 1 \in 1 .. n /\ (m + 1) - 1 = m
      OBVIOUS
    <3> QED
      BY <1>1, <3>1
  <2>2. v \in Seq(T) /\ Range(v) = {r \in Range(rows) : r.ts = m}
    BY OnlyRange DEF AtTime
  <2>3a. PICK S, at : PartOf(v, rows, S, at)
    BY OnlyIs DEF AtTime
  <2>3. /\ at \in [DOMAIN v -> DOMAIN rows]
        /\ \A i \in DOMAIN v : v[i] = rows[at[i]]
        /\ \A i, j \in DOMAIN v : i < j => at[i] < at[j]
    BY <2>3a DEF PartOf
  <2> HIDE DEF u, v, w
  <2>4. Range(w) = {r \in Range(rows) : r.ts < m + 1}
    <3>1. Range(w) = Range(u) \cup Range(v)
      BY <2>1, <2>2, ConcatRange
    <3>2. Range(u) = {r \in Range(rows) : r.ts < m}
      BY <1>3 DEF u
    <3>3. \A r \in Range(rows) : r.ts < m + 1 <=> r.ts < m \/ r.ts = m
      <4>1. \A r \in Range(rows) : r.ts \in Int
        OBVIOUS
      <4> QED
        BY <4>1, SMTT(30)
    <3> QED
      BY <2>2, <3>1, <3>2, <3>3
  <2>5. ASSUME NEW a \in DOMAIN w, NEW b \in DOMAIN w, a < b
        PROVE  \/ w[a].ts < w[b].ts
               \/ w[a].ts = w[b].ts /\ Follow(rows, w[a], w[b])
    <3>1. /\ Len(u) \in Nat /\ Len(v) \in Nat /\ DOMAIN u = 1 .. Len(u) /\ DOMAIN v = 1 .. Len(v)
          /\ DOMAIN w = 1 .. Len(u) + Len(v)
          /\ \A i \in 1 .. Len(u) : w[i] = u[i]
          /\ \A i \in 1 .. Len(v) : w[Len(u) + i] = v[i]
      <4>1. /\ w \in Seq(T) /\ Len(w) = Len(u) + Len(v)
            /\ \A i \in 1 .. Len(u) : w[i] = u[i]
            /\ \A i \in 1 .. Len(v) : w[Len(u) + i] = v[i]
        BY <2>1, <2>2, ConcatIs
      <4> QED
        BY <2>1, <2>2, <4>1
    <3>2. CASE b \in 1 .. Len(u)
      <4>1. a \in 1 .. Len(u)
        BY <2>5, <3>1, <3>2
      <4>2. Stable(u, rows)
        BY <1>3 DEF u
      <4>3. w[a] = u[a] /\ w[b] = u[b]
        BY <3>1, <3>2, <4>1
      <4>4. \/ u[a].ts < u[b].ts
            \/ u[a].ts = u[b].ts /\ Follow(rows, u[a], u[b])
        BY <2>5, <3>1, <3>2, <4>1, <4>2 DEF Stable
      <4> QED
        BY <4>3, <4>4
    <3>3. CASE a \in 1 .. Len(u) /\ b \notin 1 .. Len(u)
      <4>1. b - Len(u) \in 1 .. Len(v) /\ Len(u) + (b - Len(u)) = b
        BY <3>1, <3>3
      <4>2. w[a] = u[a] /\ w[b] = v[b - Len(u)]
        BY <3>1, <3>3, <4>1
      <4>3. w[a] \in Range(u) /\ w[b] \in Range(v)
        BY <3>1, <3>3, <4>1, <4>2 DEF Range
      <4>4. w[a].ts < m /\ w[b].ts = m
        BY <1>3, <2>2, <4>3 DEF u
      <4> QED
        BY <4>4
    <3>4. CASE a \notin 1 .. Len(u)
      <4>1. /\ a - Len(u) \in 1 .. Len(v) /\ Len(u) + (a - Len(u)) = a
            /\ b - Len(u) \in 1 .. Len(v) /\ Len(u) + (b - Len(u)) = b
            /\ a - Len(u) < b - Len(u)
        <5>1. a \in 1 .. Len(u) + Len(v) /\ b \in 1 .. Len(u) + Len(v) /\ ~(a <= Len(u)) /\ a < b
          BY <2>5, <3>1, <3>4
        <5>2. PICK x, y \in Nat : x = Len(u) /\ y = Len(v)
          BY <3>1
        <5>3. a \in 1 .. x + y /\ b \in 1 .. x + y /\ ~(a <= x) /\ a < b
          BY <5>1, <5>2
        <5>4. /\ a - x \in 1 .. y /\ x + (a - x) = a
              /\ b - x \in 1 .. y /\ x + (b - x) = b
              /\ a - x < b - x
          BY <5>3
        <5> QED
          BY <5>2, <5>4
      <4>2. w[a] = v[a - Len(u)] /\ w[b] = v[b - Len(u)]
        BY <3>1, <4>1
      <4>3. w[a] \in Range(v) /\ w[b] \in Range(v)
        BY <3>1, <4>1, <4>2 DEF Range
      <4>4. w[a].ts = w[b].ts
        BY <2>2, <4>3
      <4>5. /\ at[a - Len(u)] \in DOMAIN rows /\ at[b - Len(u)] \in DOMAIN rows
            /\ at[a - Len(u)] < at[b - Len(u)]
            /\ rows[at[a - Len(u)]] = w[a] /\ rows[at[b - Len(u)]] = w[b]
        BY <2>3, <3>1, <4>1, <4>2
      <4> QED
        BY <4>4, <4>5 DEF Follow
    <3> QED
      BY <3>2, <3>3, <3>4
  <2>6. Stable(w, rows)
    BY <2>5 DEF Stable
  <2> QED
    BY <2>4, <2>6 DEF w
<1>4. Is(n)
  <2>1. \A k \in 0 .. n - 1 : k \in Good => k + 1 \in Good
    <3>1. \A k \in 0 .. n - 1 : k + 1 \in 0 .. n
      OBVIOUS
    <3> HIDE DEF Is
    <3> QED
      BY <1>3, <3>1
  <2>2. \A k \in 0 .. n : k \in Good
    <3> HIDE DEF Good
    <3> QED
      BY <1>2, <2>1, UpTo
  <2>3. n \in 0 .. n
    OBVIOUS
  <2> HIDE DEF Is
  <2> QED
    BY <2>2, <2>3
<1>5. {r \in Range(rows) : r.ts < n} = Range(rows)
  BY <1>0, ADParserAssumption
<1> QED
  BY <1>0, <1>1, <1>4, <1>5

AnyRows == Rows \cup {Nonsense}

LEMMA AnyRow ==
  /\ \A r \in AnyRows : r.ts \in 0 .. MaxTime
  /\ \A r \in AnyRows : r.type # "nonsense" <=> r \in Rows
<1>1. Nonsense.ts = MaxTime /\ Nonsense.type = "nonsense"
  BY DEF Nonsense
<1>2. \A r \in Rows : r.ts \in 0 .. MaxTime /\ r.type # "nonsense"
  BY RowFields, KindsDiffer
<1> QED
  BY <1>1, <1>2, ADParserAssumption DEF AnyRows

(* Rows of one time are in the order they were written.                     *)
Gathered(table) ==
  \A x, y \in DOMAIN table :
    x < y /\ table[x] \in Rows /\ table[y] \in Rows /\ table[x].ts = table[y].ts
      => table[x].id < table[y].id

LEMMA DisorderedIs ==
  ASSUME Written, NEW rows \in Seq(Rows), Ordered(rows), NEW t \in Disordered(rows)
  PROVE  t \in Seq(Rows) /\ Range(t) = Range(rows) /\ Gathered(t)
<1>1. CASE t = rows
  BY <1>1 DEF Gathered, Ordered
<1>2. CASE t # rows
  <2>1. PICK ij \in (DOMAIN rows) \X (DOMAIN rows) :
           /\ t = Swapped(rows, ij[1], ij[2])
           /\ ij[1] < ij[2]
           /\ \A k \in (ij[1] + 1) .. ij[2] : rows[k].ts # rows[ij[1]].ts
           /\ \A k \in ij[1] .. (ij[2] - 1) : rows[k].ts # rows[ij[2]].ts
    BY <1>2 DEF Disordered
  <2>2. PICK i \in DOMAIN rows, j \in DOMAIN rows :
           /\ t = Swapped(rows, i, j)
           /\ i < j
           /\ \A k \in (i + 1) .. j : rows[k].ts # rows[i].ts
           /\ \A k \in i .. (j - 1) : rows[k].ts # rows[j].ts
    BY <2>1
  <2>3. /\ DOMAIN t = DOMAIN rows /\ t[i] = rows[j] /\ t[j] = rows[i]
        /\ \A k \in DOMAIN rows : k # i /\ k # j => t[k] = rows[k]
        /\ t \in Seq(Rows)
    BY <2>2 DEF Swapped
  <2>4. DOMAIN rows = 1 .. Len(rows) /\ Len(rows) \in Nat
    OBVIOUS
  <2>5. Range(t) = Range(rows)
    <3>1. \A k \in DOMAIN t : t[k] \in Range(rows)
      BY <2>3 DEF Range
    <3>2. \A k \in DOMAIN rows : rows[k] \in Range(t)
      BY <2>3 DEF Range
    <3> QED
      BY <3>1, <3>2 DEF Range
  <2>6. ASSUME NEW x \in DOMAIN t, NEW y \in DOMAIN t, x < y, t[x].ts = t[y].ts
        PROVE  t[x].id < t[y].id
    <3>1. CASE x # i /\ x # j /\ y # i /\ y # j
      BY <2>3, <2>6, <3>1 DEF Ordered
    <3>2. CASE x = i
      <4>1. y # j
        <5>1. j \in (i + 1) .. j
          BY <2>2, <2>4
        <5> QED
          BY <2>2, <2>3, <2>6, <3>2, <5>1
      <4>2. t[x] = rows[j] /\ t[y] = rows[y] /\ y # i
        BY <2>3, <2>4, <2>6, <3>2, <4>1
      <4>3. y \notin i .. (j - 1)
        BY <2>2, <2>6, <4>2
      <4>4. j < y
        BY <2>3, <2>4, <2>6, <3>2, <4>1, <4>3
      <4> QED
        BY <2>3, <4>2, <4>4 DEF Ordered
    <3>3. CASE x = j
      <4>1. y # i /\ y # j /\ i < y
        BY <2>2, <2>3, <2>4, <2>6, <3>3
      <4>2. t[x] = rows[i] /\ t[y] = rows[y]
        BY <2>3, <3>3, <4>1
      <4> QED
        BY <2>3, <4>1, <4>2 DEF Ordered
    <3>4. CASE y = i /\ x # i /\ x # j
      <4>1. t[x] = rows[x] /\ t[y] = rows[j] /\ x < j
        BY <2>2, <2>3, <2>4, <2>6, <3>4
      <4> QED
        BY <2>3, <4>1 DEF Ordered
    <3>5. CASE y = j /\ x # i /\ x # j
      <4>1. t[x] = rows[x] /\ t[y] = rows[i]
        BY <2>3, <3>5
      <4>2. x \notin (i + 1) .. j
        BY <2>2, <2>6, <4>1
      <4>3. x < i
        BY <2>3, <2>4, <2>6, <3>5, <4>2
      <4> QED
        BY <2>3, <4>1, <4>3 DEF Ordered
    <3> QED
      BY <3>1, <3>2, <3>3, <3>4, <3>5
  <2> QED
    BY <2>3, <2>5, <2>6 DEF Gathered
<1> QED
  BY <1>1, <1>2

LEMMA FuncTableIs ==
  ASSUME Written, NEW rows \in Seq(Rows), Ordered(rows), NEW table \in FuncTables(rows)
  PROVE  /\ table \in Seq(AnyRows) /\ Gathered(table)
         /\ \A r : r \in Range(rows) <=> r \in Range(table) /\ r \in Rows
<1>1. PICK junk \in {<<>>, <<Nonsense>>}, t \in Disordered(rows) : table = junk \o t
  BY DEF FuncTables
<1>2. t \in Seq(Rows) /\ Range(t) = Range(rows) /\ Gathered(t)
  BY DisorderedIs
<1>3. Range(rows) \subseteq Rows
  BY RowsIn
<1>4. CASE junk = <<>>
  <2>1. table = t
    BY <1>1, <1>2, <1>4
  <2>2. table \in Seq(AnyRows)
    BY <1>2, <2>1 DEF AnyRows
  <2> QED
    BY <1>2, <1>3, <2>1, <2>2
<1>5. CASE junk = <<Nonsense>>
  <2>1. junk \in Seq(AnyRows) /\ t \in Seq(AnyRows) /\ Len(junk) = 1 /\ junk[1] = Nonsense
    BY <1>2, <1>5 DEF AnyRows
  <2>2. /\ table \in Seq(AnyRows) /\ Len(table) = 1 + Len(t) /\ Len(t) \in Nat
        /\ table[1] = Nonsense
        /\ \A i \in 1 .. Len(t) : table[1 + i] = t[i]
    <3>1. /\ junk \o t \in Seq(AnyRows) /\ Len(junk \o t) = Len(junk) + Len(t)
          /\ \A i \in 1 .. Len(junk) : (junk \o t)[i] = junk[i]
          /\ \A i \in 1 .. Len(t) : (junk \o t)[Len(junk) + i] = t[i]
      <4>1. junk \in Seq(AnyRows) /\ t \in Seq(AnyRows)
        BY <2>1
      <4>2. junk \o t \in Seq(AnyRows) /\ Len(junk \o t) = Len(junk) + Len(t)
        BY <4>1
      <4>3. \A i \in 1 .. Len(junk) : (junk \o t)[i] = junk[i]
        BY <4>1
      <4>4. \A i \in 1 .. Len(t) : (junk \o t)[Len(junk) + i] = t[i]
        BY <4>1
      <4> QED
        BY <4>2, <4>3, <4>4
    <3>2. 1 \in 1 .. Len(junk) /\ Len(t) \in Nat
      BY <2>1
    <3> QED
      BY <1>1, <2>1, <3>1, <3>2
  <2>3. Nonsense \notin Rows
    BY AnyRow DEF AnyRows, Nonsense
  <2>4. Range(table) = {Nonsense} \cup Range(t)
    <3>1. Range(table) = Range(junk) \cup Range(t)
      BY <1>1, <2>1, ConcatRange
    <3>2. Range(junk) = {Nonsense}
      BY <2>1, <1>5 DEF Range
    <3> QED
      BY <3>1, <3>2
  <2>5. Gathered(table)
    <3> SUFFICES ASSUME NEW x \in DOMAIN table, NEW y \in DOMAIN table,
                        x < y, table[x] \in Rows, table[y] \in Rows, table[x].ts = table[y].ts
                 PROVE  table[x].id < table[y].id
      BY DEF Gathered
    <3>1. x # 1 /\ y # 1
      BY <2>2, <2>3
    <3>2. x - 1 \in 1 .. Len(t) /\ y - 1 \in 1 .. Len(t) /\ 1 + (x - 1) = x /\ 1 + (y - 1) = y
      BY <2>2, <3>1
    <3>3. table[x] = t[x - 1] /\ table[y] = t[y - 1] /\ x - 1 < y - 1
      BY <2>2, <3>2
    <3>4. x - 1 \in DOMAIN t /\ y - 1 \in DOMAIN t
      BY <2>1, <3>2
    <3> QED
      BY <1>2, <3>3, <3>4 DEF Gathered
  <2> QED
    BY <1>2, <1>3, <2>2, <2>3, <2>4, <2>5
<1> QED
  BY <1>4, <1>5

LEMMA OrderedByTime ==
  ASSUME Written, NEW v \in Seq(Rows), Range(v) \subseteq Range(trace),
         \A x, y \in DOMAIN v : x < y => v[x].ts < v[y].ts \/ v[x].id < v[y].id
  PROVE  Ordered(v)
<1> SUFFICES ASSUME NEW x \in DOMAIN v, NEW y \in DOMAIN v, x < y, v[x].ts < v[y].ts
             PROVE  v[x].id < v[y].id
  BY DEF Ordered
<1>1. v[x] \in Range(trace) /\ v[y] \in Range(trace) /\ v[x] \in Rows /\ v[y] \in Rows
  BY DEF Range
<1>2. v[x].id \in Nat /\ v[y].id \in Nat /\ v[x].ts \in Nat /\ v[y].ts \in Nat
  BY <1>1, RowFields
<1>3. v[y].id < v[x].id => v[y].ts <= v[x].ts
  BY <1>1, Earlier
<1>4. v[y].id = v[x].id => v[y].ts = v[x].ts
  BY <1>1, OneId
<1> QED
  BY <1>2, <1>3, <1>4

(* fetchFuncData hands on, in the order of the trace, the rows of the step  *)
(* whose function is known, whatever rows are swapped or mixed in.          *)
LEMMA FetchedIs ==
  ASSUME Written, NEW rows \in Seq(Rows), Ordered(rows), Range(rows) \subseteq Range(trace),
         NEW table \in FuncTables(rows)
  PROVE  /\ Fetched(table) \in Seq(Rows) /\ Ordered(Fetched(table))
         /\ Range(Fetched(table)) = {r \in Range(rows) : r.fid \in known'}
<1>1. /\ table \in Seq(AnyRows) /\ Gathered(table)
      /\ \A r : r \in Range(rows) <=> r \in Range(table) /\ r \in Rows
  BY FuncTableIs
<1> DEFINE w == IF InOrder(table) THEN table ELSE ByTime(table)
           v == Valid(w)
<1>2. /\ ByTime(table) \in Seq(AnyRows) /\ Range(ByTime(table)) = Range(table)
      /\ Stable(ByTime(table), table)
  <2>1. \A r \in Range(table) : r.ts \in 0 .. MaxTime
    BY <1>1, AnyRow DEF Range
  <2> QED
    BY <1>1, <2>1, ByTimeIs
<1>3. w \in Seq(AnyRows) /\ Range(w) = Range(table)
  BY <1>1, <1>2
<1>4. PICK N : N = {r \in Range(w) : r.type # "nonsense"}
  OBVIOUS
<1>5. v = Only(w, N)
  BY <1>4 DEF Valid
<1>6. PICK at : PartOf(v, w, N, at)
  <2> HIDE DEF w, v
  <2> QED
    BY <1>3, <1>5, OnlyIs
<1>7. v \in Seq(AnyRows) /\ Range(v) = Range(w) \cap N
  <2> HIDE DEF w, v
  <2> QED
    BY <1>3, <1>5, OnlyRange
<1>8. N = Range(rows)
  <2>1. \A r \in Range(w) : r \in AnyRows
    BY <1>3 DEF Range
  <2> HIDE DEF w
  <2> QED
    BY <1>1, <1>3, <1>4, <2>1, AnyRow
<1>9. Range(v) = Range(rows) /\ v \in Seq(Rows)
  <2>1. Range(v) = Range(rows)
    BY <1>4, <1>7, <1>8
  <2>2. \A i \in DOMAIN v : v[i] \in Rows
    BY <1>1, <2>1 DEF Range
  <2> HIDE DEF v
  <2>3. v \in Seq(Rows)
    BY <1>7, <2>2
  <2> QED
    BY <2>1, <2>3
<1>10. ASSUME NEW x \in DOMAIN v, NEW y \in DOMAIN v, x < y
       PROVE  v[x].ts < v[y].ts \/ v[x].id < v[y].id
  <2>1. v[x] \in Rows /\ v[y] \in Rows /\ v[x].ts \in Int /\ v[y].ts \in Int
    BY <1>9, RowFields
  <2> HIDE DEF v
  <2>2. /\ at[x] \in DOMAIN w /\ at[y] \in DOMAIN w /\ at[x] < at[y]
        /\ v[x] = w[at[x]] /\ v[y] = w[at[y]]
    BY <1>6, <1>10 DEF PartOf
  <2>3. CASE InOrder(table)
    <3>1. v[x].ts <= v[y].ts
      <4>1. v = Valid(table)
        BY <2>3 DEF v
      <4> QED
        BY <1>10, <2>3, <4>1 DEF InOrder
    <3>2. w = table
      BY <2>3
    <3> HIDE DEF w
    <3>3. v[x].ts = v[y].ts => v[x].id < v[y].id
      BY <1>1, <2>1, <2>2, <3>2 DEF Gathered
    <3> QED
      BY <2>1, <3>1, <3>3
  <2>4. CASE ~InOrder(table)
    <3>1. w = ByTime(table)
      BY <2>4
    <3> HIDE DEF w
    <3>2. v[x].ts < v[y].ts \/ (v[x].ts = v[y].ts /\ Follow(table, v[x], v[y]))
      BY <1>2, <2>2, <3>1 DEF Stable
    <3>3. v[x].ts = v[y].ts /\ Follow(table, v[x], v[y]) => v[x].id < v[y].id
      BY <1>1, <2>1 DEF Gathered, Follow
    <3> QED
      BY <3>2, <3>3
  <2> QED
    BY <2>3, <2>4
<1>11. Ordered(v)
  <2> HIDE DEF v
  <2> QED
    BY <1>9, <1>10, OrderedByTime
<1>12. PICK K : K = {r \in Range(v) : r.fid \in known'}
  OBVIOUS
<1>13. Fetched(table) = Only(v, K)
  BY <1>12 DEF Fetched
<1> HIDE DEF v
<1>14. /\ Only(v, K) \in Seq(Rows) /\ Range(Only(v, K)) = Range(v) \cap K /\ Ordered(Only(v, K))
  BY <1>9, <1>11, OnlyRange, OnlyOrdered
<1> QED
  BY <1>9, <1>12, <1>13, <1>14

-----------------------------------------------------------------------------
(* Interweaving.                                                            *)

LoopState == [func : Seq(Rows), comm : Seq(Rows), counter : Seq(Rows),
              lastEntry : Nat, hasCorrid : BOOLEAN, out : Seq(Rows)]

Rest(s) == Range(s.func) \cup Range(s.comm) \cup Range(s.counter)
Left(s) == Len(s.func) + Len(s.comm) + Len(s.counter)

LEMMA HeadAndTail ==
  ASSUME NEW s \in Seq(Rows), Ordered(s), s # <<>>
  PROVE  /\ Head(s) \in Rows /\ Tail(s) \in Seq(Rows) /\ Len(Tail(s)) = Len(s) - 1
         /\ Range(s) = {Head(s)} \cup Range(Tail(s))
         /\ Ordered(Tail(s))
         /\ \A r \in Range(Tail(s)) : Head(s).id < r.id
<1> DEFINE h == Head(s)
           u == Tail(s)
<1>1. /\ h \in Rows /\ u \in Seq(Rows) /\ Len(u) = Len(s) - 1 /\ Len(s) \in Nat /\ 1 <= Len(s)
      /\ h = s[1] /\ \A i \in 1 .. Len(s) - 1 : u[i] = s[i + 1]
  OBVIOUS
<1>2. DOMAIN u = 1 .. Len(s) - 1 /\ DOMAIN s = 1 .. Len(s)
  BY <1>1
<1> HIDE DEF h, u
<1>3. /\ \A i \in 1 .. Len(s) - 1 : i + 1 \in 1 .. Len(s) /\ 1 < i + 1
      /\ \A i \in 1 .. Len(s) : i = 1 \/ (i - 1 \in 1 .. Len(s) - 1 /\ (i - 1) + 1 = i)
      /\ \A i, j \in 1 .. Len(s) - 1 : i < j => i + 1 < j + 1
      /\ 1 \in 1 .. Len(s)
  BY <1>1
<1>4. \A i \in DOMAIN s : s[i] \in {h} \cup Range(u)
  <2> SUFFICES ASSUME NEW i \in 1 .. Len(s), i # 1 PROVE s[i] \in Range(u)
    BY <1>1, <1>2
  <2>1. i - 1 \in 1 .. Len(s) - 1 /\ u[i - 1] = s[i]
    BY <1>1, <1>3
  <2> QED
    BY <1>2, <2>1 DEF Range
<1>5. \A r \in {h} \cup Range(u) : r \in Range(s)
  BY <1>1, <1>2, <1>3 DEF Range
<1>6. Range(s) = {h} \cup Range(u)
  BY <1>4, <1>5 DEF Range
<1>7. \A a, b \in 1 .. Len(s) : a < b => s[a].id < s[b].id
  BY <1>2 DEF Ordered
<1>8. ASSUME NEW i \in DOMAIN u, NEW j \in DOMAIN u, i < j PROVE u[i].id < u[j].id
  <2>1. i + 1 \in 1 .. Len(s) /\ j + 1 \in 1 .. Len(s) /\ i + 1 < j + 1
    BY <1>2, <1>3, <1>8
  <2>2. u[i] = s[i + 1] /\ u[j] = s[j + 1]
    BY <1>1, <1>2
  <2> QED
    BY <1>7, <2>1, <2>2
<1>9. ASSUME NEW i \in DOMAIN u PROVE h.id < u[i].id
  <2>1. i + 1 \in 1 .. Len(s) /\ 1 < i + 1 /\ 1 \in 1 .. Len(s)
    BY <1>2, <1>3
  <2>2. u[i] = s[i + 1]
    BY <1>1, <1>2
  <2> QED
    BY <1>1, <1>7, <2>1, <2>2
<1>10. Ordered(u) /\ \A r \in Range(u) : h.id < r.id
  BY <1>8, <1>9 DEF Ordered, Range
<1> QED
  BY <1>1, <1>6, <1>10 DEF h, u

(* Of three heads one is first: the earliest, and of equal ones the first.  *)
LEMMA OneIsFirst ==
  ASSUME NEW e1 \in BOOLEAN, NEW e2 \in BOOLEAN, NEW e3 \in BOOLEAN,
         NEW t1 \in Int, NEW t2 \in Int, NEW t3 \in Int, e1 \/ e2 \/ e3
  PROVE  \/ e1 /\ (~e2 \/ t1 <= t2) /\ (~e3 \/ t1 <= t3)
         \/ e2 /\ (~e1 \/ t2 < t1) /\ (~e3 \/ t2 <= t3)
         \/ e3 /\ (~e1 \/ t3 < t1) /\ (~e2 \/ t3 < t2)
OBVIOUS

First(s, p, i) ==
  /\ s[p[i]] # <<>>
  /\ \A j \in 1 .. 3 :
       \/ s[p[j]] = <<>>
       \/ Head(s[p[i]]).ts < Head(s[p[j]]).ts
       \/ Head(s[p[i]]).ts = Head(s[p[j]]).ts /\ i <= j

LEMMA EarliestIs ==
  ASSUME NEW s \in LoopState, Left(s) # 0
  PROVE  \E i \in 1 .. 3 : First(s, Priority(s), i) /\ Earliest(s) = Priority(s)[i]
<1>0. PICK p : p = Priority(s)
  OBVIOUS
<1>1. p = <<"func", "comm", "counter">> \/ p = <<"comm", "counter", "func">>
  BY <1>0 DEF Priority
<1>2. s.func \in Seq(Rows) /\ s.comm \in Seq(Rows) /\ s.counter \in Seq(Rows)
  BY DEF LoopState
<1>3. s.func # <<>> \/ s.comm # <<>> \/ s.counter # <<>>
  <2> SUFFICES ASSUME s.func = <<>>, s.comm = <<>>, s.counter = <<>> PROVE FALSE
    OBVIOUS
  <2>1. Len(<<>>) = 0
    OBVIOUS
  <2> QED
    BY <2>1 DEF Left
<1>4. \A r \in Rows : r.ts \in Int
  BY RowFields
<1>5. \E i \in 1 .. 3 : First(s, p, i)
  <2>1. ASSUME NEW a \in Seq(Rows), NEW b \in Seq(Rows), NEW c \in Seq(Rows),
               a # <<>> \/ b # <<>> \/ c # <<>>
        PROVE  \/ a # <<>> /\ (b = <<>> \/ Head(a).ts <= Head(b).ts) /\ (c = <<>> \/ Head(a).ts <= Head(c).ts)
               \/ b # <<>> /\ (a = <<>> \/ Head(b).ts < Head(a).ts) /\ (c = <<>> \/ Head(b).ts <= Head(c).ts)
               \/ c # <<>> /\ (a = <<>> \/ Head(c).ts < Head(a).ts) /\ (b = <<>> \/ Head(c).ts < Head(b).ts)
    <3>1. \A u \in Seq(Rows) : u # <<>> => Head(u).ts \in Int
      BY <1>4
    <3>2. PICK x \in Int, y \in Int, z \in Int :
             /\ a # <<>> => x = Head(a).ts
             /\ b # <<>> => y = Head(b).ts
             /\ c # <<>> => z = Head(c).ts
      <4>1. \E x \in Int : a # <<>> => x = Head(a).ts
        BY <3>1
      <4>2. \E y \in Int : b # <<>> => y = Head(b).ts
        BY <3>1
      <4>3. \E z \in Int : c # <<>> => z = Head(c).ts
        BY <3>1
      <4> QED
        BY <4>1, <4>2, <4>3
    <3>3. PICK e1 \in BOOLEAN, e2 \in BOOLEAN, e3 \in BOOLEAN :
            (e1 <=> a # <<>>) /\ (e2 <=> b # <<>>) /\ (e3 <=> c # <<>>)
      OBVIOUS
    <3>4. \/ e1 /\ (~e2 \/ x <= y) /\ (~e3 \/ x <= z)
          \/ e2 /\ (~e1 \/ y < x) /\ (~e3 \/ y <= z)
          \/ e3 /\ (~e1 \/ z < x) /\ (~e2 \/ z < y)
      BY <2>1, <3>3
    <3> QED
      BY <3>2, <3>3, <3>4
  <2>2. /\ p[1] \in {"func", "comm", "counter"} /\ p[2] \in {"func", "comm", "counter"}
        /\ p[3] \in {"func", "comm", "counter"}
        /\ {p[1], p[2], p[3]} = {"func", "comm", "counter"}
    BY <1>1
  <2>3. s[p[1]] \in Seq(Rows) /\ s[p[2]] \in Seq(Rows) /\ s[p[3]] \in Seq(Rows)
    BY <1>2, <2>2
  <2>4. s[p[1]] # <<>> \/ s[p[2]] # <<>> \/ s[p[3]] # <<>>
    BY <1>1, <1>3
  <2>5. \A j \in 1 .. 3 : j = 1 \/ j = 2 \/ j = 3
    OBVIOUS
  <2>6. \A u \in Seq(Rows) : u # <<>> => Head(u).ts \in Int
    BY <1>4
  <2> DEFINE a == s[p[1]]
             b == s[p[2]]
             c == s[p[3]]
  <2>7. \/ a # <<>> /\ (b = <<>> \/ Head(a).ts <= Head(b).ts) /\ (c = <<>> \/ Head(a).ts <= Head(c).ts)
        \/ b # <<>> /\ (a = <<>> \/ Head(b).ts < Head(a).ts) /\ (c = <<>> \/ Head(b).ts <= Head(c).ts)
        \/ c # <<>> /\ (a = <<>> \/ Head(c).ts < Head(a).ts) /\ (b = <<>> \/ Head(c).ts < Head(b).ts)
    <3> HIDE DEF a, b, c
    <3> QED
      BY <2>1, <2>3, <2>4 DEF a, b, c
  <2>8. a # <<>> => Head(a).ts \in Int
    BY <2>3, <2>6
  <2>9. b # <<>> => Head(b).ts \in Int
    BY <2>3, <2>6
  <2>10. c # <<>> => Head(c).ts \in Int
    BY <2>3, <2>6
  <2>11. CASE a # <<>> /\ (b = <<>> \/ Head(a).ts <= Head(b).ts) /\ (c = <<>> \/ Head(a).ts <= Head(c).ts)
    <3>1. First(s, p, 1)
      BY <2>5, <2>8, <2>9, <2>10, <2>11 DEF First
    <3> QED
      BY <3>1
  <2>12. CASE b # <<>> /\ (a = <<>> \/ Head(b).ts < Head(a).ts) /\ (c = <<>> \/ Head(b).ts <= Head(c).ts)
    <3>1. First(s, p, 2)
      BY <2>5, <2>8, <2>9, <2>10, <2>12 DEF First
    <3> QED
      BY <3>1
  <2>13. CASE c # <<>> /\ (a = <<>> \/ Head(c).ts < Head(a).ts) /\ (b = <<>> \/ Head(c).ts < Head(b).ts)
    <3>1. First(s, p, 3)
      BY <2>5, <2>8, <2>9, <2>10, <2>13 DEF First
    <3> QED
      BY <3>1
  <2> QED
    BY <2>7, <2>11, <2>12, <2>13
<1>6. Earliest(s) = p[CHOOSE i \in 1 .. 3 : First(s, p, i)]
  BY <1>0 DEF Earliest, First
<1> QED
  BY <1>0, <1>5, <1>6

(* Where an EXIT is next, what came at the same time was taken before it:   *)
(* the edge case of getEvents that lets a second event in never arises.     *)
THEOREM NeverClaims ==
  ASSUME NEW s \in LoopState, Left(s) # 0
  PROVE  ~ClaimsCorrid(s)
<1> SUFFICES ASSUME ClaimsCorrid(s) PROVE FALSE
  OBVIOUS
<1>1. /\ s.func # <<>> /\ Head(s.func).type = "EXIT" /\ s.counter # <<>>
      /\ Head(s.func).ts = Head(s.counter).ts /\ Earliest(s) = "func"
  BY DEF ClaimsCorrid
<1>2. Priority(s) = <<"comm", "counter", "func">>
  BY <1>1 DEF Priority
<1>3. PICK i \in 1 .. 3 : First(s, Priority(s), i) /\ Earliest(s) = Priority(s)[i]
  BY EarliestIs
<1>4. i = 3
  BY <1>1, <1>2, <1>3
<1>5. Priority(s)[2] = "counter" /\ Priority(s)[3] = "func"
  BY <1>2
<1>6. Head(s.func).ts \in Int
  BY <1>1, RowFields DEF LoopState
<1>7. Head(s.func).ts < Head(s.counter).ts
  BY <1>1, <1>3, <1>4, <1>5, <1>6 DEF First
<1> QED
  BY <1>1, <1>6, <1>7

(* One iteration moves one row, the earliest; an EXIT only if no data event *)
(* of its time is left.                                                     *)
Moves(s, t, from) ==
  /\ s[from] # <<>> /\ t \in LoopState
  /\ t[from] = Tail(s[from]) /\ t.out = Append(s.out, Head(s[from]))
  /\ \A k \in {"func", "comm", "counter"} : k # from => t[k] = s[k]
  /\ \A k \in {"func", "comm", "counter"} : s[k] # <<>> => Head(s[from]).ts <= Head(s[k]).ts
  /\ Head(s[from]).type = "EXIT" /\ from = "func" =>
       \A k \in {"comm", "counter"} : s[k] # <<>> => Head(s[from]).ts < Head(s[k]).ts

LEMMA IterationMoves ==
  ASSUME NEW s \in LoopState, Left(s) # 0
  PROVE  \E from \in {"func", "comm", "counter"} : Moves(s, Iteration(s), from)
<1>1. PICK i \in 1 .. 3 : First(s, Priority(s), i) /\ Earliest(s) = Priority(s)[i]
  BY EarliestIs
<1>2. PICK p : p = Priority(s)
  OBVIOUS
<1>3. p = <<"func", "comm", "counter">> \/ p = <<"comm", "counter", "func">>
  BY <1>2 DEF Priority
<1>4. PICK from : from = Earliest(s)
  OBVIOUS
<1>5. from \in {"func", "comm", "counter"} /\ from = p[i]
  BY <1>1, <1>2, <1>3, <1>4
<1>6. s[from] # <<>> /\ s[from] \in Seq(Rows)
  BY <1>1, <1>2, <1>5 DEF First, LoopState
<1>7. Head(s[from]) \in Rows /\ Tail(s[from]) \in Seq(Rows) /\ Head(s[from]).ts \in Nat
  BY <1>6, RowFields
<1> DEFINE row == Head(s[from])
           t == Iteration(s)
<1>8. t = [s EXCEPT ![from] = Tail(@),
                    !.out = Append(@, row),
                    !.lastEntry = IF row.type = "ENTRY" THEN row.ts ELSE @,
                    !.hasCorrid = CASE row.type = "ENTRY"  -> FALSE
                                    [] row.type = "corrid" -> TRUE
                                    [] OTHER               -> @]
  BY <1>4, NeverClaims DEF Iteration
<1>9. (CASE row.type = "ENTRY" -> FALSE [] row.type = "corrid" -> TRUE [] OTHER -> s.hasCorrid) \in BOOLEAN
  BY DEF LoopState
<1>10. (IF row.type = "ENTRY" THEN row.ts ELSE s.lastEntry) \in Nat
  BY <1>7 DEF LoopState
<1>11. Append(s.out, row) \in Seq(Rows)
  BY <1>7 DEF LoopState
<1>12. /\ t \in LoopState /\ t[from] = Tail(s[from]) /\ t.out = Append(s.out, row)
       /\ \A k \in {"func", "comm", "counter"} : k # from => t[k] = s[k]
  <2>1. CASE from = "func"
    BY <1>7, <1>8, <1>9, <1>10, <1>11, <2>1 DEF LoopState
  <2>2. CASE from = "comm"
    BY <1>7, <1>8, <1>9, <1>10, <1>11, <2>2 DEF LoopState
  <2>3. CASE from = "counter"
    BY <1>7, <1>8, <1>9, <1>10, <1>11, <2>3 DEF LoopState
  <2> QED
    BY <1>5, <2>1, <2>2, <2>3
<1> HIDE DEF t, row
<1>13. \A j \in 1 .. 3 : s[p[j]] # <<>> =>
         \/ Head(s[from]).ts < Head(s[p[j]]).ts
         \/ Head(s[from]).ts = Head(s[p[j]]).ts /\ i <= j
  BY <1>1, <1>2, <1>5 DEF First
<1>14. \A k \in {"func", "comm", "counter"} : \E j \in 1 .. 3 : p[j] = k
  <2>1. \/ p[1] = "func" /\ p[2] = "comm" /\ p[3] = "counter"
        \/ p[1] = "comm" /\ p[2] = "counter" /\ p[3] = "func"
    <3>1. CASE p = <<"func", "comm", "counter">>
      BY <3>1
    <3>2. CASE p = <<"comm", "counter", "func">>
      BY <3>2
    <3> QED
      BY <1>3, <3>1, <3>2
  <2>2. 1 \in 1 .. 3 /\ 2 \in 1 .. 3 /\ 3 \in 1 .. 3
    OBVIOUS
  <2> QED
    BY <2>1, <2>2
<1>15. ASSUME NEW k \in {"func", "comm", "counter"}, s[k] # <<>>
       PROVE  Head(s[from]).ts <= Head(s[k]).ts
  <2>1. Head(s[k]).ts \in Nat
    BY <1>15, RowFields DEF LoopState
  <2> QED
    BY <1>7, <1>13, <1>14, <1>15, <2>1
<1>16. ASSUME Head(s[from]).type = "EXIT", from = "func", NEW k \in {"comm", "counter"}, s[k] # <<>>
       PROVE  Head(s[from]).ts < Head(s[k]).ts
  <2>1. Priority(s) = <<"comm", "counter", "func">>
    BY <1>16 DEF Priority
  <2>2. i = 3
    <3>1. p[1] = "comm" /\ p[2] = "counter"
      BY <1>2, <2>1
    <3>2. i = 1 \/ i = 2 \/ i = 3
      OBVIOUS
    <3> QED
      BY <1>5, <1>16, <3>1, <3>2
  <2>3. PICK j \in 1 .. 2 : p[j] = k
    BY <1>2, <2>1
  <2> QED
    BY <1>13, <1>16, <2>2, <2>3
<1> QED
  BY <1>5, <1>6, <1>12, <1>15, <1>16 DEF Moves, t, row

(* The rows taken and those left, as they are to be.                        *)
TableOf(r) == IF r.type \in FuncKinds THEN "func" ELSE IF r.type = "comm" THEN "comm" ELSE "counter"

Woven(a, b) ==
  /\ a.ts <= b.ts
  /\ TableOf(a) = TableOf(b) => a.id < b.id
  /\ a.type = "EXIT" /\ b.type \notin FuncKinds => a.ts < b.ts

Three == {"func", "comm", "counter"}

IsTable(s, k) == s \in Seq(Rows) /\ Ordered(s) /\ Range(s) \subseteq {r \in Range(trace) : TableOf(r) = k}

LoopInv(s, all) ==
  /\ s \in LoopState
  /\ \A k \in Three : IsTable(s[k], k)
  /\ Range(s.out) \cup Rest(s) = all
  /\ \A a \in Range(s.out), r \in Rest(s) : Woven(a, r)
  /\ \A x, y \in DOMAIN s.out : x < y => Woven(s.out[x], s.out[y])

LEMMA HeadEarliest ==
  ASSUME Written, NEW s, NEW k, IsTable(s, k), s # <<>>
  PROVE  \A r \in Range(s) : Head(s).ts <= r.ts
<1>1. /\ Head(s) \in Rows /\ Range(s) = {Head(s)} \cup Range(Tail(s))
      /\ \A r \in Range(Tail(s)) : Head(s).id < r.id
  BY HeadAndTail DEF IsTable
<1>2. \A r \in Range(s) : r \in Range(trace)
  BY DEF IsTable
<1>3. Head(s).ts \in Int
  BY <1>1, RowFields
<1> QED
  BY <1>1, <1>2, <1>3, Earlier

LEMMA LoopStep ==
  ASSUME Written, NEW s, NEW t, NEW all, LoopInv(s, all), NEW from \in Three, Moves(s, t, from)
  PROVE  LoopInv(t, all) /\ Left(t) = Left(s) - 1
<1> DEFINE row == Head(s[from])
<1>1. /\ s \in LoopState /\ t \in LoopState /\ s[from] # <<>>
      /\ t[from] = Tail(s[from]) /\ t.out = Append(s.out, row)
      /\ \A k \in Three : k # from => t[k] = s[k]
      /\ \A k \in Three : IsTable(s[k], k)
      /\ s.out \in Seq(Rows)
  BY DEF Moves, LoopInv, Three, LoopState
<1>2. /\ row \in Rows /\ Tail(s[from]) \in Seq(Rows) /\ Len(Tail(s[from])) = Len(s[from]) - 1
      /\ Range(s[from]) = {row} \cup Range(Tail(s[from]))
      /\ Ordered(Tail(s[from]))
      /\ \A r \in Range(Tail(s[from])) : row.id < r.id
  BY <1>1, HeadAndTail DEF IsTable
<1> HIDE DEF row
<1>3. /\ \A k \in Three : IsTable(t[k], k)
      /\ row \in Range(trace) /\ TableOf(row) = from
  <2>1. IsTable(t[from], from)
    BY <1>1, <1>2 DEF IsTable
  <2>2. row \in Range(trace) /\ TableOf(row) = from
    BY <1>1, <1>2 DEF IsTable
  <2> QED
    BY <1>1, <2>1, <2>2
<1>4. Rest(s) = {row} \cup Rest(t)
  <2>1. CASE from = "func"
    BY <1>1, <1>2, <2>1 DEF Rest, Three
  <2>2. CASE from = "comm"
    BY <1>1, <1>2, <2>2 DEF Rest, Three
  <2>3. CASE from = "counter"
    BY <1>1, <1>2, <2>3 DEF Rest, Three
  <2> QED
    BY <2>1, <2>2, <2>3 DEF Three
<1>5. ASSUME NEW r \in Rest(t) PROVE Woven(row, r)
  <2>1. PICK k \in Three : r \in Range(t[k])
    BY DEF Rest, Three
  <2>2. TableOf(r) = k /\ r \in Range(trace) /\ r \in Range(s[k]) /\ r \in Rows
    <3>1. TableOf(r) = k /\ r \in Range(trace)
      BY <1>3, <2>1 DEF IsTable
    <3>2. r \in Range(s[k])
      BY <1>1, <1>2, <2>1
    <3> QED
      BY <3>1, <3>2, RowsIn DEF Written
  <2>3. s[k] # <<>>
    BY <2>2 DEF Range
  <2>4. Head(s[k]).ts <= r.ts /\ Head(s[k]) \in Rows
    <3>1. IsTable(s[k], k)
      BY <1>1
    <3> QED
      BY <2>2, <2>3, <3>1, HeadEarliest, HeadAndTail DEF IsTable
  <2>5. row.ts <= Head(s[k]).ts
    BY <2>3 DEF Moves, Three, row
  <2>6. row.ts \in Int /\ r.ts \in Int /\ Head(s[k]).ts \in Int
    BY <1>2, <2>2, <2>4, RowFields
  <2>7. TableOf(row) = TableOf(r) => row.id < r.id
    BY <1>1, <1>2, <1>3, <2>1, <2>2
  <2>8. ASSUME row.type = "EXIT", r.type \notin FuncKinds PROVE row.ts < r.ts
    <3>1. from = "func"
      BY <1>3, <2>8 DEF TableOf, FuncKinds
    <3>2. k \in {"comm", "counter"}
      BY <2>2, <2>8 DEF TableOf
    <3>3. row.ts < Head(s[k]).ts
      BY <2>3, <2>8, <3>1, <3>2 DEF Moves, row
    <3> QED
      BY <2>4, <2>6, <3>3
  <2> QED
    BY <2>4, <2>5, <2>6, <2>7, <2>8 DEF Woven
<1>6. Range(t.out) = Range(s.out) \cup {row}
  BY <1>1, <1>2, AppendRange
<1>7. Range(t.out) \cup Rest(t) = all
  BY <1>4, <1>6 DEF LoopInv
<1>8. \A a \in Range(t.out), r \in Rest(t) : Woven(a, r)
  BY <1>4, <1>5, <1>6 DEF LoopInv
<1>9. ASSUME NEW x \in DOMAIN t.out, NEW y \in DOMAIN t.out, x < y PROVE Woven(t.out[x], t.out[y])
  <2>1. /\ DOMAIN t.out = 1 .. Len(s.out) + 1 /\ DOMAIN s.out = 1 .. Len(s.out) /\ Len(s.out) \in Nat
        /\ t.out[Len(s.out) + 1] = row /\ \A i \in 1 .. Len(s.out) : t.out[i] = s.out[i]
    BY <1>1, <1>2
  <2>2. x \in 1 .. Len(s.out) /\ (y \in 1 .. Len(s.out) \/ y = Len(s.out) + 1)
    BY <1>9, <2>1
  <2>3. CASE y \in 1 .. Len(s.out)
    BY <1>9, <2>1, <2>2, <2>3 DEF LoopInv
  <2>4. CASE y = Len(s.out) + 1
    <3>1. t.out[x] \in Range(s.out) /\ row \in Rest(s)
      BY <1>4, <2>1, <2>2 DEF Range
    <3> QED
      BY <2>1, <2>4, <3>1 DEF LoopInv
  <2> QED
    BY <2>2, <2>3, <2>4
<1>10. Left(t) = Left(s) - 1
  <2>1. \A k \in Three : Len(s[k]) \in Nat
    BY <1>1 DEF IsTable
  <2>2. s.func = s["func"] /\ s.comm = s["comm"] /\ s.counter = s["counter"]
    OBVIOUS
  <2>3. CASE from = "func"
    <3>1. Len(t.func) = Len(s.func) - 1 /\ t.comm = s.comm /\ t.counter = s.counter
      BY <1>1, <1>2, <2>3 DEF Three
    <3> QED
      BY <2>1, <3>1 DEF Left, Three
  <2>4. CASE from = "comm"
    <3>1. Len(t.comm) = Len(s.comm) - 1 /\ t.func = s.func /\ t.counter = s.counter
      BY <1>1, <1>2, <2>4 DEF Three
    <3> QED
      BY <2>1, <3>1 DEF Left, Three
  <2>5. CASE from = "counter"
    <3>1. Len(t.counter) = Len(s.counter) - 1 /\ t.func = s.func /\ t.comm = s.comm
      BY <1>1, <1>2, <2>5 DEF Three
    <3> QED
      BY <2>1, <3>1 DEF Left, Three
  <2> QED
    BY <2>3, <2>4, <2>5 DEF Three
<1> QED
  BY <1>1, <1>3, <1>7, <1>8, <1>9, <1>10 DEF LoopInv

(* getEvents: every row of the three tables, woven together.                *)
LEMMA InterwovenIs ==
  ASSUME Written, NEW f, NEW c, NEW n,
         IsTable(f, "func"), IsTable(c, "comm"), IsTable(n, "counter")
  PROVE  /\ Interwoven(f, c, n) \in Seq(Rows)
         /\ Range(Interwoven(f, c, n)) = Range(f) \cup Range(c) \cup Range(n)
         /\ \A x, y \in DOMAIN Interwoven(f, c, n) :
              x < y => Woven(Interwoven(f, c, n)[x], Interwoven(f, c, n)[y])
<1> DEFINE N == Len(f) + Len(c) + Len(n)
           Body(F, i) == IF i = 0 THEN LoopInit(f, c, n) ELSE Iteration(F[i - 1])
           F == CHOOSE F : F = [i \in 0 .. N |-> Body(F, i)]
           Step(s) == IF Left(s) = 0 THEN s ELSE Iteration(s)
           G == [x \in (1 .. N) \X LoopState |-> Step(x[2])]
           s0 == LoopInit(f, c, n)
           all == Range(f) \cup Range(c) \cup Range(n)
<1>1. Interwoven(f, c, n) = F[N].out
  BY DEF Interwoven
<1>2. f \in Seq(Rows) /\ c \in Seq(Rows) /\ n \in Seq(Rows) /\ N \in Nat
  BY DEF IsTable
<1>3. s0 \in LoopState /\ Left(s0) = N
  BY <1>2 DEF LoopInit, LoopState, Left
<1>4. LoopInv(s0, all)
  <2>1. s0.func = f /\ s0.comm = c /\ s0.counter = n /\ s0.out = <<>>
    BY DEF LoopInit
  <2>2. Range(<<>>) = {} /\ DOMAIN <<>> = {}
    BY DEF Range
  <2>3. \A k \in Three : IsTable(s0[k], k)
    BY <2>1 DEF Three
  <2> HIDE DEF s0
  <2> QED
    BY <1>3, <2>1, <2>2, <2>3 DEF LoopInv, Rest
<1>5. G \in [(1 .. N) \X LoopState -> LoopState]
  <2>1. \A s \in LoopState : Step(s) \in LoopState
    BY IterationMoves DEF Moves
  <2> HIDE DEF Step
  <2> QED
    BY <2>1
<1>6. PICK g : Follows(g, N, LoopState, s0, G)
  <2> HIDE DEF G, s0, N
  <2> QED
    BY <1>2, <1>3, <1>5, Recursion
<1>7. g \in [0 .. N -> LoopState] /\ g[0] = s0
  BY <1>6 DEF Follows
<1>8. ASSUME NEW i \in 1 .. N PROVE g[i] = Step(g[i - 1])
  <2>1. <<i, g[i - 1]>> \in (1 .. N) \X LoopState
    <3>0. i - 1 \in 0 .. N
      <4> HIDE DEF N
      <4> QED
        BY <1>2
    <3> HIDE DEF N
    <3> QED
      BY <1>7, <3>0
  <2>2. g[i] = G[<<i, g[i - 1]>>]
    BY <1>6 DEF Follows
  <2> HIDE DEF Step
  <2>3. G[<<i, g[i - 1]>>] = Step(g[i - 1])
    BY <2>1
  <2> QED
    BY <2>2, <2>3
<1> DEFINE Good == {i \in 0 .. N : LoopInv(g[i], all) /\ Left(g[i]) = N - i}
<1> HIDE DEF N
<1>9. \A i \in 0 .. N : i \in Good
  <2>1. 0 \in Good
    BY <1>2, <1>3, <1>4, <1>7
  <2>2. ASSUME NEW k \in 0 .. N - 1, k \in Good PROVE k + 1 \in Good
    <3>1. k + 1 \in 1 .. N /\ (k + 1) - 1 = k /\ N - k # 0 /\ k + 1 \in 0 .. N /\ N - (k + 1) = N - k - 1
      BY <1>2
    <3>2. LoopInv(g[k], all) /\ Left(g[k]) # 0 /\ g[k] \in LoopState
      BY <2>2, <3>1 DEF LoopInv
    <3>3. g[k + 1] = Iteration(g[k])
      BY <1>8, <3>1, <3>2
    <3>4. PICK from \in Three : Moves(g[k], g[k + 1], from)
      BY <3>2, <3>3, IterationMoves DEF Three
    <3>5. LoopInv(g[k + 1], all) /\ Left(g[k + 1]) = Left(g[k]) - 1
      BY <3>2, <3>4, LoopStep
    <3> QED
      BY <2>2, <3>1, <3>5
  <2>3. \A k \in 0 .. N - 1 : k \in Good => k + 1 \in Good
    BY <2>2
  <2> HIDE DEF Good
  <2> QED
    BY <1>2, <2>1, <2>3, UpTo
<1>10. \A i \in 0 .. N : g[i] = Body(g, i)
  <2>1. ASSUME NEW i \in 1 .. N PROVE g[i] = Body(g, i)
    <3>1. i - 1 \in 0 .. N /\ N - (i - 1) # 0 /\ i # 0
      BY <1>2
    <3>2. Left(g[i - 1]) # 0
      BY <1>9, <3>1
    <3> QED
      BY <1>8, <3>1, <3>2
  <2>2. g[0] = Body(g, 0)
    BY <1>7
  <2>3. \A i \in 0 .. N : i = 0 \/ i \in 1 .. N
    BY <1>2
  <2> HIDE DEF Body
  <2> QED
    BY <2>1, <2>2, <2>3
<1>11. F = [i \in 0 .. N |-> Body(F, i)]
  <2>1. g = [i \in 0 .. N |-> Body(g, i)]
    <3>1. g = [i \in 0 .. N |-> g[i]]
      BY <1>7
    <3> HIDE DEF Body
    <3> QED
      BY <1>10, <3>1
  <2> HIDE DEF Body
  <2> QED
    BY <2>1
<1>12. F = [i \in 0 .. N |-> F[i]] /\ \A i \in 0 .. N : F[i] = Body(F, i)
  <2> HIDE DEF Body, F
  <2> QED
    BY <1>11
<1>13. \A i \in 0 .. N : F[i] = g[i]
  <2> DEFINE Same == {i \in 0 .. N : F[i] = g[i]}
  <2> HIDE DEF F
  <2>1. 0 \in Same
    <3>1. 0 \in 0 .. N
      BY <1>2
    <3>2. F[0] = Body(F, 0)
      <4> HIDE DEF Body
      <4> QED
        BY <1>12, <3>1
    <3> QED
      BY <1>7, <3>1, <3>2
  <2>2. ASSUME NEW k \in 0 .. N - 1, F[k] = g[k] PROVE F[k + 1] = g[k + 1]
    <3>1. k + 1 \in 0 .. N /\ k + 1 # 0 /\ (k + 1) - 1 = k
      BY <1>2
    <3>2. F[k + 1] = Body(F, k + 1) /\ g[k + 1] = Body(g, k + 1)
      BY <1>10, <1>12, <3>1
    <3> QED
      BY <2>2, <3>1, <3>2
  <2>3. \A k \in 0 .. N : k \in Same
    <3>1. \A k \in 0 .. N - 1 : k \in Same => k + 1 \in Same
      <4>1. \A k \in 0 .. N - 1 : k + 1 \in 0 .. N
        BY <1>2
      <4> QED
        BY <2>2, <4>1
    <3> HIDE DEF Same
    <3> QED
      BY <1>2, <2>1, <3>1, UpTo
  <2> QED
    BY <2>3
<1>14. N \in 0 .. N /\ N - N = 0
  BY <1>2
<1>15. F[N] = g[N] /\ LoopInv(g[N], all) /\ Left(g[N]) = 0
  <2> HIDE DEF F
  <2>1. N \in Good
    BY <1>9, <1>14
  <2> QED
    BY <1>13, <1>14, <2>1
<1>16. Rest(g[N]) = {}
  <2>1. g[N].func \in Seq(Rows) /\ g[N].comm \in Seq(Rows) /\ g[N].counter \in Seq(Rows)
    BY <1>15 DEF LoopInv, LoopState
  <2>2. Len(g[N].func) = 0 /\ Len(g[N].comm) = 0 /\ Len(g[N].counter) = 0
    <3>1. \A i, j, k \in Nat : i + j + k = 0 => i = 0 /\ j = 0 /\ k = 0
      OBVIOUS
    <3>2. Len(g[N].func) \in Nat /\ Len(g[N].comm) \in Nat /\ Len(g[N].counter) \in Nat
      BY <2>1
    <3> QED
      BY <1>15, <3>1, <3>2 DEF Left
  <2>3. \A s \in Seq(Rows) : Len(s) = 0 => Range(s) = {}
    BY DEF Range
  <2> QED
    BY <2>1, <2>2, <2>3 DEF Rest
<1>17. Interwoven(f, c, n) = g[N].out
  <2> HIDE DEF F
  <2> QED
    BY <1>1, <1>15 DEF N
<1> QED
  BY <1>15, <1>16, <1>17 DEF LoopInv, LoopState

(* The rows of a step that are registered.                                  *)
LEMMA RowsTable ==
  \A r \in Rows : /\ TableOf(r) = "func" <=> r.type \in FuncKinds
                  /\ TableOf(r) = "comm" <=> r.type \in {"comm"} \cap DataKind
                  /\ TableOf(r) = "counter" <=> r.type \in CounterKinds
<1> SUFFICES ASSUME NEW r \in Rows
             PROVE  /\ TableOf(r) = "func" <=> r.type \in FuncKinds
                    /\ TableOf(r) = "comm" <=> r.type \in {"comm"} \cap DataKind
                    /\ TableOf(r) = "counter" <=> r.type \in CounterKinds
  OBVIOUS
<1>1. r.type \in FuncKinds \cup DataKind /\ FuncKinds \cap DataKind = {}
  BY RowFields, KindsDiffer
<1>2. "comm" \notin FuncKinds
  BY DEF FuncKinds
<1>3. CASE r.type \in FuncKinds
  BY <1>1, <1>2, <1>3 DEF TableOf, CounterKinds
<1>4. CASE r.type \in DataKind /\ r.type = "comm"
  BY <1>1, <1>2, <1>4 DEF TableOf, CounterKinds
<1>5. CASE r.type \in DataKind /\ r.type # "comm"
  BY <1>1, <1>2, <1>5 DEF TableOf, CounterKinds
<1> QED
  BY <1>1, <1>3, <1>4, <1>5

StepRows(fetched, c, n) == NotIgnored(Interwoven(fetched, Taken(comm, c), Taken(counter, n)))

LEMMA StepRowsAre ==
  ASSUME TraceInv, NEW f \in 0 .. Len(func), NEW c \in 0 .. Len(comm), NEW n \in 0 .. Len(counter),
         NEW table \in FuncTables(Taken(func, f)), NEW rows, rows = StepRows(Fetched(table), c, n)
  PROVE  /\ rows \in Seq(Rows)
         /\ Range(rows) = {r \in Range(Taken(func, f)) : r.fid \in known'}
                            \cup Range(Taken(comm, c))
                            \cup {r \in Range(Taken(counter, n)) : r.type \notin Watched}
         /\ \A x, y \in DOMAIN rows : x < y => Woven(rows[x], rows[y])
<1>1. /\ Written /\ trace \in Seq(Rows)
      /\ func \in Seq(Rows) /\ Ordered(func) /\ Range(func) \subseteq {r \in Range(trace) : r.type \in FuncKinds}
      /\ comm \in Seq(Rows) /\ Ordered(comm) /\ Range(comm) \subseteq {r \in Range(trace) : r.type \in {"comm"} \cap DataKind}
      /\ counter \in Seq(Rows) /\ Ordered(counter) /\ Range(counter) \subseteq {r \in Range(trace) : r.type \in CounterKinds}
  BY DEF TraceInv, Remains, Written
<1>2. \A s \in Seq(Rows) : \A r \in Range(s) : r \in Rows /\ r.id \in Nat
  BY RowsIn, RowFields
<1>3. /\ Taken(func, f) \in Seq(Rows) /\ Ordered(Taken(func, f)) /\ Range(Taken(func, f)) \subseteq Range(func)
      /\ Taken(comm, c) \in Seq(Rows) /\ Ordered(Taken(comm, c)) /\ Range(Taken(comm, c)) \subseteq Range(comm)
      /\ Taken(counter, n) \in Seq(Rows) /\ Ordered(Taken(counter, n)) /\ Range(Taken(counter, n)) \subseteq Range(counter)
  <2>1. Taken(func, f) \in Seq(Rows) /\ Ordered(Taken(func, f)) /\ Range(Taken(func, f)) \subseteq Range(func)
    BY <1>1, <1>2, TakenAndHeld, PartsRange, OrderedParts
  <2>2. Taken(comm, c) \in Seq(Rows) /\ Ordered(Taken(comm, c)) /\ Range(Taken(comm, c)) \subseteq Range(comm)
    BY <1>1, <1>2, TakenAndHeld, PartsRange, OrderedParts
  <2>3. Taken(counter, n) \in Seq(Rows) /\ Ordered(Taken(counter, n)) /\ Range(Taken(counter, n)) \subseteq Range(counter)
    BY <1>1, <1>2, TakenAndHeld, PartsRange, OrderedParts
  <2> QED
    BY <2>1, <2>2, <2>3
<1>4. /\ Fetched(table) \in Seq(Rows) /\ Ordered(Fetched(table))
      /\ Range(Fetched(table)) = {r \in Range(Taken(func, f)) : r.fid \in known'}
  <2>1. Range(Taken(func, f)) \subseteq Range(trace)
    BY <1>1, <1>3
  <2> QED
    BY <1>1, <1>3, <2>1, FetchedIs
<1>5. \A r \in Range(trace) : r \in Rows
  BY <1>1, RowsIn
<1>6. IsTable(Fetched(table), "func")
  <2>1. \A r \in Range(Fetched(table)) : r \in Range(trace) /\ r.type \in FuncKinds
    BY <1>1, <1>3, <1>4
  <2> QED
    BY <1>4, <1>5, <2>1, RowsTable DEF IsTable
<1>7. IsTable(Taken(comm, c), "comm")
  <2>1. \A r \in Range(Taken(comm, c)) : r \in Range(trace) /\ r.type \in {"comm"} \cap DataKind
    BY <1>1, <1>3
  <2> QED
    BY <1>3, <1>5, <2>1, RowsTable DEF IsTable
<1>8. IsTable(Taken(counter, n), "counter")
  <2>1. \A r \in Range(Taken(counter, n)) : r \in Range(trace) /\ r.type \in CounterKinds
    BY <1>1, <1>3
  <2> QED
    BY <1>3, <1>5, <2>1, RowsTable DEF IsTable
<1>9. PICK w : w = Interwoven(Fetched(table), Taken(comm, c), Taken(counter, n))
  OBVIOUS
<1>10. /\ w \in Seq(Rows)
       /\ Range(w) = Range(Fetched(table)) \cup Range(Taken(comm, c)) \cup Range(Taken(counter, n))
       /\ \A x, y \in DOMAIN w : x < y => Woven(w[x], w[y])
  BY <1>1, <1>6, <1>7, <1>8, <1>9, InterwovenIs
<1>11. PICK S : S = {r \in Range(w) : r.type \notin Watched}
  OBVIOUS
<1>12. rows = Only(w, S)
  BY <1>9, <1>11 DEF StepRows, NotIgnored
<1>13. rows \in Seq(Rows) /\ Range(rows) = Range(w) \cap S
  BY <1>10, <1>12, OnlyRange
<1>14. PICK at : PartOf(rows, w, S, at)
  BY <1>10, <1>12, OnlyIs
<1>15. \A x, y \in DOMAIN rows : x < y => Woven(rows[x], rows[y])
  BY <1>10, <1>14 DEF PartOf
<1>16. Range(rows) = {r \in Range(Taken(func, f)) : r.fid \in known'}
                       \cup Range(Taken(comm, c))
                       \cup {r \in Range(Taken(counter, n)) : r.type \notin Watched}
  <2>1. \A r \in Range(Taken(func, f)) : r.type \notin Watched
    BY <1>1, <1>3, KindsDiffer
  <2>2. \A r \in Range(Taken(comm, c)) : r.type \notin Watched
    BY <1>1, <1>3, KindsDiffer
  <2> QED
    BY <1>4, <1>10, <1>11, <1>13, <2>1, <2>2
<1> QED
  BY <1>13, <1>15, <1>16

-----------------------------------------------------------------------------
(* Registering: whatever holds of the event manager before and goes from    *)
(* each event to the next holds after all of them.                          *)

CallRecord == [of : Nat, fid : Func, entry : 0 .. MaxTime, exit : {Open} \cup 0 .. MaxTime,
               parent : Nat, exclusive : Int, messages : Seq(Rows), counters : Seq(Rows)]

Managers == [calls : Seq(CallRecord), stack : Seq(Nat), comm : Seq(Rows), counter : Seq(Rows)]

LEMMA RegisteredReaches ==
  ASSUME NEW T, NEW rows \in Seq(T), NEW P, P \subseteq (0 .. Len(rows)) \X Managers,
         <<0, EventManager>> \in P,
         \A i \in 0 .. Len(rows) - 1, ev \in Managers :
           <<i, ev>> \in P => <<i + 1, AddEvent(ev, rows[i + 1])>> \in P
  PROVE  <<Len(rows), Registered(rows)>> \in P
<1>0. PICK N \in Nat : N = Len(rows)
  OBVIOUS
<1> DEFINE Body(F, i) == IF i = 0 THEN EventManager ELSE AddEvent(F[i - 1], rows[i])
           F == CHOOSE F : F = [i \in 0 .. N |-> Body(F, i)]
           Step(i, ev) == IF AddEvent(ev, rows[i]) \in Managers THEN AddEvent(ev, rows[i]) ELSE ev
           G == [x \in (1 .. N) \X Managers |-> Step(x[1], x[2])]
<1>1. Registered(rows) = F[N]
  BY <1>0 DEF Registered
<1>2. EventManager \in Managers
  BY <1>0
<1>3. G \in [(1 .. N) \X Managers -> Managers]
  <2>1. \A i, ev : ev \in Managers => Step(i, ev) \in Managers
    OBVIOUS
  <2> HIDE DEF Step
  <2> QED
    BY <2>1
<1>4. PICK g : Follows(g, N, Managers, EventManager, G)
  <2> HIDE DEF G
  <2> QED
    BY <1>2, <1>3, Recursion
<1>5. g \in [0 .. N -> Managers] /\ g[0] = EventManager
  BY <1>4 DEF Follows
<1>6. ASSUME NEW i \in 1 .. N PROVE g[i] = Step(i, g[i - 1])
  <2>1. <<i, g[i - 1]>> \in (1 .. N) \X Managers
    BY <1>5
  <2>2. g[i] = G[<<i, g[i - 1]>>]
    BY <1>4 DEF Follows
  <2> HIDE DEF Step
  <2>3. G[<<i, g[i - 1]>>] = Step(i, g[i - 1])
    BY <2>1
  <2> QED
    BY <2>2, <2>3
<1>7. \A i \in 0 .. N - 1 : \A ev : <<i, ev>> \in P =>
        <<i + 1, AddEvent(ev, rows[i + 1])>> \in P /\ AddEvent(ev, rows[i + 1]) \in Managers
  BY <1>0
<1> DEFINE Good == {i \in 0 .. N : <<i, g[i]>> \in P}
<1>8. \A i \in 0 .. N : i \in Good
  <2>1. 0 \in Good
    BY <1>5
  <2>2. ASSUME NEW k \in 0 .. N - 1, k \in Good PROVE k + 1 \in Good
    <3>1. k + 1 \in 1 .. N /\ (k + 1) - 1 = k /\ k + 1 \in 0 .. N
      OBVIOUS
    <3>2. AddEvent(g[k], rows[k + 1]) \in Managers /\ <<k + 1, AddEvent(g[k], rows[k + 1])>> \in P
      BY <1>7, <2>2
    <3>3. g[k + 1] = AddEvent(g[k], rows[k + 1])
      BY <1>6, <3>1, <3>2
    <3> QED
      BY <3>1, <3>2, <3>3
  <2>3. \A k \in 0 .. N - 1 : k \in Good => k + 1 \in Good
    BY <2>2
  <2> HIDE DEF Good
  <2> QED
    BY <2>1, <2>3, UpTo
<1>9. \A i \in 0 .. N : g[i] = Body(g, i)
  <2>1. ASSUME NEW i \in 1 .. N PROVE g[i] = Body(g, i)
    <3>1. i - 1 \in 0 .. N - 1 /\ (i - 1) + 1 = i /\ i # 0 /\ i - 1 \in 0 .. N
      OBVIOUS
    <3>2. <<i - 1, g[i - 1]>> \in P
      BY <1>8, <3>1
    <3>3. AddEvent(g[i - 1], rows[i]) \in Managers
      BY <1>7, <3>1, <3>2
    <3> QED
      BY <1>6, <3>1, <3>3
  <2>2. g[0] = Body(g, 0)
    BY <1>5
  <2>3. \A i \in 0 .. N : i = 0 \/ i \in 1 .. N
    OBVIOUS
  <2> HIDE DEF Body
  <2> QED
    BY <2>1, <2>2, <2>3
<1>10. F = [i \in 0 .. N |-> Body(F, i)]
  <2>1. g = [i \in 0 .. N |-> Body(g, i)]
    <3>1. g = [i \in 0 .. N |-> g[i]]
      BY <1>5
    <3> HIDE DEF Body
    <3> QED
      BY <1>9, <3>1
  <2> HIDE DEF Body
  <2> QED
    BY <2>1
<1>11. F = [i \in 0 .. N |-> F[i]] /\ \A i \in 0 .. N : F[i] = Body(F, i)
  <2> HIDE DEF Body, F
  <2> QED
    BY <1>10
<1>12. \A i \in 0 .. N : F[i] = g[i]
  <2> DEFINE Same == {i \in 0 .. N : F[i] = g[i]}
  <2> HIDE DEF F
  <2>1. 0 \in Same
    <3>1. 0 \in 0 .. N
      OBVIOUS
    <3>2. F[0] = Body(F, 0)
      <4> HIDE DEF Body
      <4> QED
        BY <1>11, <3>1
    <3> QED
      BY <1>5, <3>1, <3>2
  <2>2. ASSUME NEW k \in 0 .. N - 1, F[k] = g[k] PROVE F[k + 1] = g[k + 1]
    <3>1. k + 1 \in 0 .. N /\ k + 1 # 0 /\ (k + 1) - 1 = k
      OBVIOUS
    <3>2. F[k + 1] = Body(F, k + 1) /\ g[k + 1] = Body(g, k + 1)
      <4> HIDE DEF Body
      <4> QED
        BY <1>9, <1>11, <3>1
    <3> QED
      BY <2>2, <3>1, <3>2
  <2>3. \A k \in 0 .. N : k \in Same
    <3>1. \A k \in 0 .. N - 1 : k \in Same => k + 1 \in Same
      BY <2>2
    <3> HIDE DEF Same
    <3> QED
      BY <2>1, <3>1, UpTo
  <2> QED
    BY <2>3
<1>13. F[N] = g[N] /\ <<N, g[N]>> \in P
  <2> HIDE DEF F
  <2> QED
    BY <1>8, <1>12
<1> QED
  <2> HIDE DEF F
  <2> QED
    BY <1>0, <1>1, <1>13

-----------------------------------------------------------------------------
(* The time of the children of a call.                                      *)

Weight(cs, c, i) == IF cs[i].parent = c THEN Runtime(cs[i]) ELSE 0

SumsUp(cs, c, sum) ==
  /\ sum \in [0 .. Len(cs) -> Int]
  /\ sum[0] = 0
  /\ \A i \in 1 .. Len(cs) : sum[i] = sum[i - 1] + Weight(cs, c, i)
  /\ RuntimeOfChildren(cs, c) = sum[Len(cs)]

LEMMA WeightIs ==
  ASSUME NEW cs \in Seq(CallRecord), NEW c, NEW i \in DOMAIN cs
  PROVE  Weight(cs, c, i) \in Int /\ Runtime(cs[i]) \in Int
<1>1. cs[i] \in CallRecord
  OBVIOUS
<1>2. MaxTime \in Nat
  BY ADParserAssumption
<1>3. PICK e, x : e = cs[i].entry /\ x = cs[i].exit
  OBVIOUS
<1>4. e \in 0 .. MaxTime /\ x \in {Open} \cup 0 .. MaxTime
  BY <1>1, <1>3 DEF CallRecord
<1>5. (IF x = Open THEN 0 ELSE x - e) \in Int
  BY <1>2, <1>4 DEF Open
<1>6. Runtime(cs[i]) \in Int
  BY <1>3, <1>5 DEF Runtime
<1> QED
  BY <1>6 DEF Weight

LEMMA ChildrenUnfold ==
  ASSUME NEW cs \in Seq(CallRecord), NEW c
  PROVE  \E sum : SumsUp(cs, c, sum)
<1>0. PICK n \in Nat : n = Len(cs)
  OBVIOUS
<1> DEFINE Term(i) == IF cs[i].parent = c THEN Runtime(cs[i]) ELSE 0
           Body(f, i) == IF i = 0 THEN 0 ELSE f[i - 1] + Term(i)
           F == CHOOSE f : f = [i \in 0 .. n |-> Body(f, i)]
           G == [x \in (1 .. n) \X Int |-> x[2] + Term(x[1])]
<1>1. RuntimeOfChildren(cs, c) = F[n]
  BY <1>0 DEF RuntimeOfChildren
<1>2. \A i \in 1 .. n : Term(i) \in Int /\ Term(i) = Weight(cs, c, i)
  <2>1. ASSUME NEW i \in 1 .. n PROVE Term(i) \in Int /\ Term(i) = Weight(cs, c, i)
    <3>1. i \in DOMAIN cs
      BY <1>0
    <3>2. Weight(cs, c, i) \in Int
      BY <3>1, WeightIs
    <3> QED
      BY <3>2 DEF Weight
  <2> QED
    BY <2>1
<1> HIDE DEF Term
<1>3. G \in [(1 .. n) \X Int -> Int]
  BY <1>2
<1>4. PICK f : Follows(f, n, Int, 0, G)
  <2>1. 0 \in Int
    OBVIOUS
  <2> HIDE DEF G
  <2> QED
    BY <1>3, <2>1, Recursion
<1>5. f \in [0 .. n -> Int] /\ f[0] = 0
  BY <1>4 DEF Follows
<1>6. ASSUME NEW i \in 1 .. n PROVE f[i] = f[i - 1] + Term(i)
  <2>1. <<i, f[i - 1]>> \in (1 .. n) \X Int
    BY <1>5
  <2>2. f[i] = G[<<i, f[i - 1]>>]
    BY <1>4 DEF Follows
  <2>3. G[<<i, f[i - 1]>>] = f[i - 1] + Term(i)
    BY <2>1
  <2> HIDE DEF G
  <2> QED
    BY <2>2, <2>3
<1>7. \A i \in 0 .. n : f[i] = Body(f, i)
  <2>1. ASSUME NEW i \in 1 .. n PROVE f[i] = Body(f, i)
    <3>1. i # 0
      OBVIOUS
    <3> QED
      BY <1>6, <3>1
  <2>2. f[0] = Body(f, 0)
    BY <1>5
  <2>3. \A i \in 0 .. n : i = 0 \/ i \in 1 .. n
    OBVIOUS
  <2> HIDE DEF Body
  <2> QED
    BY <2>1, <2>2, <2>3
<1>8. F = [i \in 0 .. n |-> Body(F, i)]
  <2>1. f = [i \in 0 .. n |-> Body(f, i)]
    <3>1. f = [i \in 0 .. n |-> f[i]]
      BY <1>5
    <3> HIDE DEF Body
    <3> QED
      BY <1>7, <3>1
  <2> HIDE DEF Body
  <2> QED
    BY <2>1
<1>9. F = [i \in 0 .. n |-> F[i]] /\ \A i \in 0 .. n : F[i] = Body(F, i)
  <2> HIDE DEF Body, F
  <2> QED
    BY <1>8
<1>10. F = f
  <2> DEFINE Same == {i \in 0 .. n : F[i] = f[i]}
  <2> HIDE DEF F
  <2>1. 0 \in Same
    <3>1. 0 \in 0 .. n
      OBVIOUS
    <3>2. F[0] = Body(F, 0)
      <4> HIDE DEF Body
      <4> QED
        BY <1>9, <3>1
    <3> QED
      BY <1>5, <3>1, <3>2
  <2>2. ASSUME NEW k \in 0 .. n - 1, F[k] = f[k] PROVE F[k + 1] = f[k + 1]
    <3>1. k + 1 \in 0 .. n /\ k + 1 # 0 /\ (k + 1) - 1 = k
      OBVIOUS
    <3>2. F[k + 1] = Body(F, k + 1) /\ f[k + 1] = Body(f, k + 1)
      <4> HIDE DEF Body
      <4> QED
        BY <1>7, <1>9, <3>1
    <3> QED
      BY <2>2, <3>1, <3>2
  <2>3. \A k \in 0 .. n : k \in Same
    <3>1. \A k \in 0 .. n - 1 : k \in Same => k + 1 \in Same
      BY <2>2
    <3> HIDE DEF Same
    <3> QED
      BY <2>1, <3>1, UpTo
  <2>4. f = [i \in 0 .. n |-> f[i]]
    BY <1>5
  <2> QED
    BY <1>9, <2>3, <2>4
<1>11. \A i \in 1 .. n : f[i] = f[i - 1] + Weight(cs, c, i)
  BY <1>2, <1>6
<1>12. RuntimeOfChildren(cs, c) = f[n]
  <2> HIDE DEF F
  <2> QED
    BY <1>1, <1>10
<1>13. SumsUp(cs, c, f)
  BY <1>0, <1>5, <1>11, <1>12 DEF SumsUp
<1> QED
  BY <1>13

(* Where the weight of one call changes by d, the sum does; where the weights *)
(* up to n are the same, so are the sums.                                   *)
LEMMA ChildrenChange ==
  ASSUME NEW cs \in Seq(CallRecord), NEW ds \in Seq(CallRecord), NEW c, NEW j, NEW d \in Int,
         Len(ds) >= Len(cs),
         \A i \in DOMAIN cs : Weight(ds, c, i) = Weight(cs, c, i) + (IF i = j THEN d ELSE 0),
         \A i \in DOMAIN ds \ DOMAIN cs : Weight(ds, c, i) = 0
  PROVE  RuntimeOfChildren(ds, c) = RuntimeOfChildren(cs, c) + (IF j \in DOMAIN cs THEN d ELSE 0)
<1>0. PICK n \in Nat, N \in Nat : n = Len(cs) /\ N = Len(ds)
  OBVIOUS
<1>1. PICK s : SumsUp(cs, c, s)
  BY ChildrenUnfold
<1>2. PICK t : SumsUp(ds, c, t)
  BY ChildrenUnfold
<1>3. /\ s \in [0 .. n -> Int] /\ s[0] = 0 /\ RuntimeOfChildren(cs, c) = s[n]
      /\ t \in [0 .. N -> Int] /\ t[0] = 0 /\ RuntimeOfChildren(ds, c) = t[N]
      /\ \A i \in 1 .. n : s[i] = s[i - 1] + Weight(cs, c, i)
      /\ \A i \in 1 .. N : t[i] = t[i - 1] + Weight(ds, c, i)
  BY <1>0, <1>1, <1>2 DEF SumsUp
<1>4. DOMAIN cs = 1 .. n /\ DOMAIN ds = 1 .. N /\ n <= N
  BY <1>0
<1> DEFINE Before(i) == IF j \in 1 .. i THEN d ELSE 0
           Good == {i \in 0 .. N : t[i] = (IF i <= n THEN s[i] + Before(i) ELSE s[n] + Before(n))}
<1>5. \A i \in 0 .. N : Before(i) \in Int
  OBVIOUS
<1>6. 0 \in Good
  BY <1>3, <1>4
<1>7. ASSUME NEW k \in 0 .. N - 1, k \in Good PROVE k + 1 \in Good
  <2>1. k + 1 \in 1 .. N /\ (k + 1) - 1 = k /\ k + 1 \in 0 .. N /\ k \in 0 .. N
    OBVIOUS
  <2>2. t[k + 1] = t[k] + Weight(ds, c, k + 1)
    BY <1>3, <2>1
  <2>3. CASE k + 1 <= n
    <3>1. k + 1 \in 1 .. n /\ k \in 0 .. n
      BY <2>1, <2>3
    <3>2. s[k + 1] = s[k] + Weight(cs, c, k + 1)
      BY <1>3, <2>1, <3>1
    <3>3. Weight(ds, c, k + 1) = Weight(cs, c, k + 1) + (IF k + 1 = j THEN d ELSE 0)
      BY <1>4, <3>1
    <3>4. t[k] = s[k] + Before(k)
      BY <1>7, <3>1
    <3>5. Before(k + 1) = Before(k) + (IF k + 1 = j THEN d ELSE 0)
      OBVIOUS
    <3>6. Weight(cs, c, k + 1) \in Int /\ s[k] \in Int /\ Before(k) \in Int
      BY <1>3, <1>4, <1>5, <2>1, <3>1, WeightIs
    <3>7. t[k + 1] = s[k + 1] + Before(k + 1)
      <4> HIDE DEF Before
      <4> QED
        BY <2>2, <3>2, <3>3, <3>4, <3>5, <3>6
    <3> QED
      BY <2>1, <2>3, <3>7
  <2>4. CASE k + 1 > n
    <3>1. Weight(ds, c, k + 1) = 0
      BY <1>4, <2>1, <2>4
    <3>2. t[k] = s[n] + Before(n)
      <4>1. k <= n => k = n
        BY <1>0, <2>4
      <4> QED
        BY <1>7, <4>1
    <3>3. t[k] \in Int
      BY <1>3, <2>1
    <3> HIDE DEF Before
    <3> QED
      BY <1>0, <2>1, <2>2, <2>4, <3>1, <3>2, <3>3
  <2> QED
    BY <1>0, <2>1, <2>3, <2>4
<1>8. N \in Good
  <2>1. \A k \in 0 .. N - 1 : k \in Good => k + 1 \in Good
    BY <1>7
  <2>2. N \in 0 .. N
    OBVIOUS
  <2> HIDE DEF Good
  <2>3. \A k \in 0 .. N : k \in Good
    BY <1>6, <2>1, UpTo
  <2> QED
    BY <2>2, <2>3
<1>9. t[N] = s[n] + Before(n)
  <2>1. N <= n => N = n
    BY <1>4
  <2> QED
    BY <1>8, <2>1
<1> QED
  BY <1>3, <1>4, <1>9

-----------------------------------------------------------------------------
(* The calls: what ADEvent has once it was given all rows of the functions  *)
(* in kn up to the m-th row of the trace.                                   *)

Begun(cs, m, kn, E) == \A i \in DOMAIN cs :
  /\ cs[i].of \in DOMAIN prog /\ E[cs[i].of] <= m
  /\ cs[i].fid = prog[cs[i].of].fid /\ cs[i].fid \in kn
  /\ cs[i].entry = prog[cs[i].of].entry

ByEntry(cs) == \A i, j \in DOMAIN cs : i < j => cs[i].of < cs[j].of

Ended(cs, m, X) == \A i \in DOMAIN cs :
  cs[i].exit = IF X[cs[i].of] <= m THEN prog[cs[i].of].exit ELSE Open

Line(cs, i, j) == j \in DOMAIN cs /\ cs[j].of \in prog[cs[i].of].within

Parents(cs) == \A i \in DOMAIN cs :
  /\ cs[i].parent = 0 \/ Line(cs, i, cs[i].parent)
  /\ \A j \in DOMAIN cs : Line(cs, i, j) => j <= cs[i].parent

(* A call that was missed is of a function whose name was not known, so no  *)
(* call before it is of that function: its EXIT is refused.                 *)
Missed(cs, m, E) == \A p \in DOMAIN prog :
  E[p] <= m /\ (\A i \in DOMAIN cs : cs[i].of # p) =>
    \A i \in DOMAIN cs : cs[i].of < p => cs[i].fid # prog[p].fid

OpenOnes(cs, st) ==
  /\ \A i : i \in Range(st) <=> i \in DOMAIN cs /\ cs[i].exit = Open
  /\ \A a, b \in DOMAIN st : a < b => st[a] < st[b]

Exclusives(cs) == \A i \in DOMAIN cs :
  cs[i].exclusive = Runtime(cs[i]) - RuntimeOfChildren(cs, i)

CallInv(cs, st, m, kn, E, X) ==
  /\ Begun(cs, m, kn, E) /\ ByEntry(cs) /\ Ended(cs, m, X) /\ Parents(cs)
  /\ Missed(cs, m, E) /\ OpenOnes(cs, st) /\ Exclusives(cs)

LEMMA WithinIs ==
  ASSUME NEW E, NEW X, ProgIs(E, X), NEW p \in DOMAIN prog, NEW q \in DOMAIN prog
  PROVE  p \in prog[q].within <=> p < q /\ E[q] < X[p]
<1>1. /\ E \in [DOMAIN prog -> Nat] /\ X \in [DOMAIN prog -> Nat] /\ E[q] < X[q]
  BY DEF ProgIs, Begins
<1>2. p \in prog[q].within => p < q /\ (X[q] < X[p] \/ X[q] = X[p])
  BY DEF ProgIs, Nested
<1>3. p < q /\ p \notin prog[q].within => X[p] < E[q]
  BY DEF ProgIs, Apart
<1>4. E[q] \in Nat /\ X[q] \in Nat /\ X[p] \in Nat
  BY <1>1
<1> QED
  BY <1>1, <1>2, <1>3, <1>4

(* Where a call begins and ends in the trace.                               *)
LEMMA PlacesOf ==
  ASSUME Written, NEW E, NEW X, ProgIs(E, X), NEW p \in DOMAIN prog
  PROVE  /\ E[p] \in DOMAIN trace /\ X[p] \in Nat /\ E[p] < X[p]
         /\ X[p] \in DOMAIN trace \/ (X[p] = Never /\ prog[p].exit = Open)
         /\ X[p] \in DOMAIN trace => /\ trace[X[p]].type = "EXIT" /\ trace[X[p]].call = p
                                     /\ trace[X[p]].fid = prog[p].fid /\ trace[X[p]].ts = prog[p].exit
                                     /\ prog[p].exit # Open
         /\ trace[E[p]].type = "ENTRY" /\ trace[E[p]].fid = prog[p].fid /\ trace[E[p]].call = p
         /\ trace[E[p]].ts = prog[p].entry
<1>1. X \in [DOMAIN prog -> Nat] /\ trace \in Seq(Rows) /\ Len(trace) <= MaxEvents /\ MaxEvents \in Nat
  BY ADParserAssumption DEF ProgIs, Written
<1>2. /\ E[p] \in DOMAIN trace /\ E[p] < X[p] /\ trace[E[p]].type = "ENTRY" /\ trace[E[p]].fid = prog[p].fid
      /\ trace[E[p]].ts = prog[p].entry /\ trace[E[p]].call = p
  BY DEF ProgIs, Begins
<1>3. /\ prog[p].exit = Open => X[p] = Never
      /\ prog[p].exit # Open => /\ X[p] \in DOMAIN trace /\ trace[X[p]].type = "EXIT" /\ trace[X[p]].call = p
                                /\ trace[X[p]].fid = prog[p].fid /\ trace[X[p]].ts = prog[p].exit
  BY DEF ProgIs, Ends
<1>4. Never \notin DOMAIN trace /\ X[p] \in Nat
  BY <1>1 DEF Never
<1>5. prog[p].exit = Open => X[p] = Never
  BY <1>3
<1>6. ASSUME prog[p].exit # Open
      PROVE  /\ X[p] \in DOMAIN trace /\ trace[X[p]].type = "EXIT" /\ trace[X[p]].call = p
             /\ trace[X[p]].fid = prog[p].fid /\ trace[X[p]].ts = prog[p].exit
  BY <1>3, <1>6
<1>7. X[p] \in DOMAIN trace => prog[p].exit # Open
  BY <1>4, <1>5
<1>8. X[p] \in DOMAIN trace \/ (X[p] = Never /\ prog[p].exit = Open)
  BY <1>5, <1>6
<1> QED
  BY <1>2, <1>4, <1>6, <1>7, <1>8

LEMMA CallsDrop ==
  ASSUME Written, NEW E, NEW X, ProgIs(E, X), NEW cs \in Seq(CallRecord), NEW st, NEW m \in Nat, NEW kn,
         CallInv(cs, st, m, kn, E, X), NEW k \in Nat, m <= k, k <= MaxEvents,
         \A r \in Range(trace) : r.type \in FuncKinds /\ m < r.id /\ r.id <= k => r.fid \notin kn
  PROVE  CallInv(cs, st, k, kn, E, X)
<1>1. Begun(cs, m, kn, E) /\ Ended(cs, m, X) /\ Missed(cs, m, E)
  BY DEF CallInv
<1>2. \A l \in DOMAIN trace : trace[l].type \in FuncKinds /\ m < l /\ l <= k => trace[l].fid \notin kn
  BY DEF Written, Range
<1>3. MaxEvents \in Nat
  BY ADParserAssumption
<1>4. Begun(cs, k, kn, E)
  <2>1. \A p \in DOMAIN prog : E[p] \in Nat
    BY DEF ProgIs
  <2> QED
    BY <1>1, <2>1 DEF Begun
<1>5. ASSUME NEW i \in DOMAIN cs PROVE X[cs[i].of] <= k <=> X[cs[i].of] <= m
  <2>1. PICK p \in DOMAIN prog : p = cs[i].of /\ prog[p].fid \in kn
    BY <1>1 DEF Begun
  <2>2. X[p] \in Nat /\ (X[p] \in DOMAIN trace \/ X[p] = Never)
    BY <2>1, PlacesOf
  <2>3. X[p] \in DOMAIN trace => trace[X[p]].type \in FuncKinds /\ trace[X[p]].fid = prog[p].fid
    BY <2>1, PlacesOf DEF FuncKinds
  <2> QED
    BY <1>2, <1>3, <2>1, <2>2, <2>3 DEF Never
<1>6. Ended(cs, k, X)
  BY <1>1, <1>5 DEF Ended
<1>7. Missed(cs, k, E)
  <2> SUFFICES ASSUME NEW p \in DOMAIN prog, E[p] <= k, \A i \in DOMAIN cs : cs[i].of # p,
                      NEW i \in DOMAIN cs, cs[i].of < p
               PROVE  cs[i].fid # prog[p].fid
    BY DEF Missed
  <2>1. E[p] \in DOMAIN trace /\ E[p] \in Nat /\ trace[E[p]].type \in FuncKinds /\ trace[E[p]].fid = prog[p].fid
    <3>1. E[p] \in DOMAIN trace /\ trace[E[p]].type = "ENTRY" /\ trace[E[p]].fid = prog[p].fid
      BY PlacesOf
    <3>2. E[p] \in Nat
      BY DEF ProgIs
    <3> QED
      BY <3>1, <3>2 DEF FuncKinds
  <2>2. CASE E[p] <= m
    BY <1>1, <2>2 DEF Missed
  <2>3. CASE m < E[p]
    <3>1. prog[p].fid \notin kn
      BY <1>2, <2>1, <2>3
    <3> QED
      BY <1>1, <3>1 DEF Begun
  <2> QED
    BY <2>1, <2>2, <2>3
<1> QED
  BY <1>4, <1>6, <1>7 DEF CallInv

LEMMA EntryIs ==
  ASSUME NEW ev \in Managers, NEW row \in Rows, row.fid \in Func
  PROVE  /\ AddEntry(ev, row) \in Managers /\ NewCall(ev, row) \in CallRecord
         /\ AddEntry(ev, row).calls = Append(ev.calls, NewCall(ev, row))
         /\ AddEntry(ev, row).stack = Append(ev.stack, Len(ev.calls) + 1)
         /\ AddEntry(ev, row).comm = ev.comm /\ AddEntry(ev, row).counter = ev.counter
<1>1. /\ ev.calls \in Seq(CallRecord) /\ ev.stack \in Seq(Nat) /\ ev.comm \in Seq(Rows) /\ ev.counter \in Seq(Rows)
      /\ ev = [calls |-> ev.calls, stack |-> ev.stack, comm |-> ev.comm, counter |-> ev.counter]
  BY DEF Managers
<1>2. PICK c : c = NewCall(ev, row)
  OBVIOUS
<1>3. c \in CallRecord
  <2>1. PICK p : p = IF ev.stack = <<>> THEN 0 ELSE Last(ev.stack)
    OBVIOUS
  <2>2. p \in Nat
    <3>1. ev.stack # <<>> => Len(ev.stack) \in DOMAIN ev.stack /\ Last(ev.stack) = ev.stack[Len(ev.stack)]
      BY <1>1 DEF Last
    <3> QED
      BY <1>1, <2>1, <3>1
  <2>3. row.ts \in 0 .. MaxTime /\ row.call \in Nat
    BY RowFields
  <2>4. c = [of |-> row.call, fid |-> row.fid, entry |-> row.ts, exit |-> Open,
             parent |-> p, exclusive |-> 0, messages |-> <<>>, counters |-> <<>>]
    BY <1>2, <2>1 DEF NewCall
  <2>5. <<>> \in Seq(Rows) /\ 0 \in Int
    OBVIOUS
  <2> QED
    BY <2>2, <2>3, <2>4, <2>5 DEF CallRecord
<1>4. PICK e : e = AddEntry(ev, row)
  OBVIOUS
<1>5. e = [calls |-> Append(ev.calls, c), stack |-> Append(ev.stack, Len(ev.calls) + 1),
           comm |-> ev.comm, counter |-> ev.counter]
  BY <1>1, <1>2, <1>4 DEF AddEntry
<1>6. Append(ev.calls, c) \in Seq(CallRecord) /\ Append(ev.stack, Len(ev.calls) + 1) \in Seq(Nat)
  BY <1>1, <1>3
<1>7. e \in Managers
  BY <1>1, <1>5, <1>6 DEF Managers
<1> QED
  BY <1>2, <1>3, <1>4, <1>5, <1>7

(* An ENTRY opens a call, whose parent is on top of the stack.              *)
LEMMA CallsEntry ==
  ASSUME Written, NEW E, NEW X, ProgIs(E, X), NEW ev \in Managers, NEW kn, NEW k \in DOMAIN trace,
         CallInv(ev.calls, ev.stack, k - 1, kn, E, X),
         NEW row, row = trace[k], row.type = "ENTRY", row.fid \in kn
  PROVE  AddEntry(ev, row) \in Managers
         /\ CallInv(AddEntry(ev, row).calls, AddEntry(ev, row).stack, k, kn, E, X)
<1>1. /\ trace \in Seq(Rows) /\ row \in Rows /\ k \in Nat /\ k <= Len(trace) /\ row.id = k
  BY DEF Written
<1>2. PICK p \in DOMAIN prog : p = row.call
  BY DEF ProgIs, NoOther
<1>3. E[p] = k
  BY <1>2 DEF ProgIs, NoOther
<1>4. /\ row.fid = prog[p].fid /\ row.ts = prog[p].entry /\ k < X[p] /\ X[p] \in Nat
      /\ prog \in Seq(ProgCall) /\ E \in [DOMAIN prog -> Nat] /\ X \in [DOMAIN prog -> Nat]
  BY <1>3 DEF ProgIs, Begins
<1>4a. DOMAIN prog \subseteq Nat /\ prog[p] \in ProgCall
  BY <1>4
<1>5. row.fid \in Func
  BY <1>4, <1>4a DEF ProgCall
<1>6. PICK cs \in Seq(CallRecord), st \in Seq(Nat) : cs = ev.calls /\ st = ev.stack
  BY DEF Managers
<1>7. PICK call : call = NewCall(ev, row)
  OBVIOUS
<1>8. /\ call \in CallRecord /\ AddEntry(ev, row) \in Managers
      /\ AddEntry(ev, row).calls = Append(cs, call) /\ AddEntry(ev, row).stack = Append(st, Len(cs) + 1)
  BY <1>1, <1>5, <1>6, <1>7, EntryIs
<1>9. /\ call.of = p /\ call.fid = row.fid /\ call.entry = row.ts /\ call.exit = Open /\ call.exclusive = 0
      /\ call.parent = IF st = <<>> THEN 0 ELSE Last(st)
  BY <1>2, <1>6, <1>7 DEF NewCall
<1>10. PICK n \in Nat : n = Len(cs)
  BY <1>6
<1>11. PICK ds \in Seq(CallRecord) : ds = Append(cs, call)
  <2>1. Append(cs, call) \in Seq(CallRecord)
    BY <1>8
  <2> QED
    BY <2>1
<1>12. /\ DOMAIN cs = 1 .. n /\ DOMAIN ds = 1 .. n + 1 /\ Len(ds) = n + 1 /\ ds[n + 1] = call
       /\ \A i \in 1 .. n : ds[i] = cs[i]
  BY <1>8, <1>10, <1>11
<1>13. \A i \in DOMAIN ds : i \in 1 .. n \/ i = n + 1
  BY <1>12
<1>14. /\ Begun(cs, k - 1, kn, E) /\ ByEntry(cs) /\ Ended(cs, k - 1, X) /\ Parents(cs)
       /\ Missed(cs, k - 1, E) /\ OpenOnes(cs, st) /\ Exclusives(cs)
  BY <1>6 DEF CallInv
(* what no ENTRY but this one touches *)
<1>15. ASSUME NEW i \in 1 .. n
       PROVE  /\ cs[i].of \in DOMAIN prog /\ cs[i].of < p /\ E[cs[i].of] < k
              /\ X[cs[i].of] \in Nat /\ X[cs[i].of] # k
  <2>1. PICK q \in DOMAIN prog : q = cs[i].of /\ E[q] <= k - 1
    BY <1>12, <1>14 DEF Begun
  <2>2. E[q] \in Nat /\ X[q] \in Nat /\ E[q] < k /\ q \in Nat /\ p \in Nat
    <3>1. E[q] \in Nat /\ X[q] \in Nat /\ q \in Nat /\ p \in Nat
      BY <1>4, <1>4a
    <3> QED
      BY <1>1, <2>1, <3>1, SMTT(30)
  <2>3. p # q /\ ~(p < q)
    BY <1>3, <2>2 DEF ProgIs, InTurn
  <2>4. X[q] # k
    BY PlacesOf
  <2> QED
    BY <2>1, <2>2, <2>3, <2>4
<1>16. Begun(ds, k, kn, E)
  <2> SUFFICES ASSUME NEW i \in DOMAIN ds
               PROVE  /\ ds[i].of \in DOMAIN prog /\ E[ds[i].of] <= k
                      /\ ds[i].fid = prog[ds[i].of].fid /\ ds[i].fid \in kn
                      /\ ds[i].entry = prog[ds[i].of].entry
    BY DEF Begun
  <2>1. CASE i = n + 1
    <3>1. ds[i] = call
      BY <1>12, <2>1
    <3>2. call.of = p /\ call.fid = prog[p].fid /\ call.entry = prog[p].entry /\ E[p] <= k /\ call.fid \in kn
      BY <1>1, <1>3, <1>4, <1>9
    <3> QED
      BY <3>1, <3>2
  <2>2. CASE i \in 1 .. n
    <3>1. E[cs[i].of] \in Nat /\ E[cs[i].of] < k
      BY <1>4, <1>15, <2>2
    <3> QED
      BY <1>1, <1>12, <1>14, <2>2, <3>1 DEF Begun
  <2> QED
    BY <1>13, <2>1, <2>2
<1>17. ByEntry(ds)
  BY <1>9, <1>10, <1>12, <1>13, <1>14, <1>15 DEF ByEntry
<1>18. Ended(ds, k, X)
  <2> SUFFICES ASSUME NEW i \in DOMAIN ds
               PROVE  ds[i].exit = IF X[ds[i].of] <= k THEN prog[ds[i].of].exit ELSE Open
    BY DEF Ended
  <2>1. CASE i = n + 1
    <3>1. ds[i] = call
      BY <1>12, <2>1
    <3>2. call.of = p /\ call.exit = Open /\ ~(X[p] <= k)
      BY <1>1, <1>4, <1>9
    <3> QED
      BY <3>1, <3>2
  <2>2. CASE i \in 1 .. n
    <3>1. X[cs[i].of] <= k <=> X[cs[i].of] <= k - 1
      BY <1>1, <1>15, <2>2
    <3> QED
      BY <1>12, <1>14, <2>2, <3>1 DEF Ended
  <2> QED
    BY <1>13, <2>1, <2>2
<1>19. ASSUME NEW i \in 1 .. n PROVE cs[i].of \in prog[p].within <=> i \in Range(st)
  <2>1. cs[i].of \in prog[p].within <=> k < X[cs[i].of]
    BY <1>2, <1>3, <1>15, WithinIs
  <2>2. cs[i].exit = Open <=> k < X[cs[i].of]
    <3>1. PICK q \in DOMAIN prog : q = cs[i].of
      BY <1>15
    <3>2. X[q] \in Nat /\ X[q] # k
      BY <1>15, <3>1
    <3>3. cs[i].exit = IF X[q] <= k - 1 THEN prog[q].exit ELSE Open
      BY <1>12, <1>14, <3>1 DEF Ended
    <3>4. X[q] <= k - 1 => prog[q].exit # Open
      <4>1. X[q] <= k - 1 => X[q] # Never
        BY <1>1, ADParserAssumption DEF Never, Written
      <4> QED
        BY <4>1, PlacesOf
    <3> QED
      BY <1>1, <3>1, <3>2, <3>3, <3>4
  <2> QED
    BY <1>12, <1>14, <2>1, <2>2 DEF OpenOnes
<1>20. \A j \in Range(st) : j \in 1 .. n
  BY <1>12, <1>14 DEF OpenOnes
<1>21. st # <<>> => Last(st) \in Range(st) /\ \A j \in Range(st) : j <= Last(st)
  <2> SUFFICES ASSUME st # <<>> PROVE Last(st) \in Range(st) /\ \A j \in Range(st) : j <= Last(st)
    OBVIOUS
  <2>1. PICK l \in Nat : l = Len(st) /\ l \in DOMAIN st /\ Last(st) = st[l] /\ DOMAIN st = 1 .. l
    <3>1. /\ Len(st) \in Nat /\ Len(st) \in DOMAIN st /\ Last(st) = st[Len(st)]
          /\ DOMAIN st = 1 .. Len(st)
      BY <1>6 DEF Last
    <3> QED
      BY <3>1
  <2>2. \A a \in DOMAIN st : a = l \/ a < l
    BY <2>1
  <2>3. \A a \in DOMAIN st : st[a] \in Nat
    BY <1>6
  <2>4. \A a \in DOMAIN st : st[a] <= st[l]
    BY <1>14, <2>1, <2>2, <2>3 DEF OpenOnes
  <2> QED
    BY <2>1, <2>4 DEF Range
<1>22. st = <<>> => Range(st) = {}
  BY DEF Range
<1>23. Parents(ds)
  <2> SUFFICES ASSUME NEW i \in DOMAIN ds
               PROVE  /\ ds[i].parent = 0 \/ Line(ds, i, ds[i].parent)
                      /\ \A j \in DOMAIN ds : Line(ds, i, j) => j <= ds[i].parent
    BY DEF Parents
  <2>0. ASSUME NEW q \in DOMAIN prog, q <= p PROVE p \notin prog[q].within
    <3>1. p \in Nat /\ q \in Nat
      BY <1>4
    <3> QED
      BY <2>0, <3>1 DEF ProgIs, Nested
  <2>1. CASE i = n + 1
    <3>1. ds[i].of = p /\ ds[i].parent = IF st = <<>> THEN 0 ELSE Last(st)
      BY <1>9, <1>12, <2>1
    <3>2. \A j \in 1 .. n : Line(ds, i, j) <=> j \in Range(st)
      BY <1>12, <1>19, <3>1 DEF Line
    <3>3. ~Line(ds, i, n + 1)
      <4>1. p <= p
        BY <1>4
      <4> QED
        BY <1>9, <1>12, <2>0, <3>1, <4>1 DEF Line
    <3> QED
      BY <1>13, <1>20, <1>21, <1>22, <3>1, <3>2, <3>3
  <2>2. CASE i \in 1 .. n
    <3>1. ds[i] = cs[i] /\ i \in DOMAIN cs
      BY <1>12, <2>2
    <3>2. \A j \in 1 .. n : Line(ds, i, j) <=> Line(cs, i, j)
      BY <1>10, <1>12, <3>1 DEF Line
    <3>3. ~Line(ds, i, n + 1)
      <4>1. cs[i].of \in DOMAIN prog /\ cs[i].of <= p
        BY <1>4, <1>15, <2>2
      <4>2. p \notin prog[cs[i].of].within
        BY <2>0, <4>1
      <4> QED
        BY <1>9, <1>12, <3>1, <4>2 DEF Line
    <3>4. cs[i].parent = 0 \/ Line(cs, i, cs[i].parent)
      BY <1>14, <3>1 DEF Parents
    <3>5. Line(cs, i, cs[i].parent) => cs[i].parent \in 1 .. n
      BY <1>12 DEF Line
    <3>6. \A j \in 1 .. n : Line(cs, i, j) => j <= cs[i].parent
      BY <1>12, <1>14, <3>1 DEF Parents
    <3> QED
      BY <1>13, <3>1, <3>2, <3>3, <3>4, <3>5, <3>6
  <2> QED
    BY <1>13, <2>1, <2>2
<1>24. Missed(ds, k, E)
  <2> SUFFICES ASSUME NEW q \in DOMAIN prog, E[q] <= k, \A i \in DOMAIN ds : ds[i].of # q,
                      NEW i \in DOMAIN ds, ds[i].of < q
               PROVE  ds[i].fid # prog[q].fid
    BY DEF Missed
  <2>1. q # p
    <3>1. n + 1 \in DOMAIN ds
      BY <1>12
    <3> QED
      BY <1>9, <1>12, <3>1
  <2>2. E[q] # k
    <3>1. trace[E[q]].call = q
      BY PlacesOf
    <3> QED
      BY <1>2, <2>1, <3>1
  <2>3. E[q] \in Nat /\ E[q] <= k - 1 /\ E[q] < k
    BY <1>1, <1>4, <2>2, SMTT(30)
  <2>4. ~(p < q)
    BY <1>3, <1>4, <2>3 DEF ProgIs, InTurn
  <2>5. i \in 1 .. n
    BY <1>9, <1>12, <1>13, <2>4
  <2>6. \A j \in DOMAIN cs : cs[j].of # q
    BY <1>12
  <2> QED
    BY <1>12, <1>14, <2>3, <2>5, <2>6 DEF Missed
<1>25. OpenOnes(ds, Append(st, n + 1))
  <2>1. Range(Append(st, n + 1)) = Range(st) \cup {n + 1}
    BY <1>6, <1>10, AppendRange
  <2>2. \A i : i \in Range(Append(st, n + 1)) <=> i \in DOMAIN ds /\ ds[i].exit = Open
    <3>1. \A i \in 1 .. n : i \in Range(st) <=> ds[i].exit = Open
      BY <1>12, <1>14 DEF OpenOnes
    <3>2. ds[n + 1].exit = Open /\ n + 1 \in DOMAIN ds
      BY <1>9, <1>12
    <3>3. \A i \in 1 .. n : i \in DOMAIN ds
      BY <1>12
    <3> QED
      BY <1>13, <1>20, <2>1, <3>1, <3>2, <3>3
  <2>3. PICK l \in Nat : l = Len(st) /\ DOMAIN st = 1 .. l
    BY <1>6, SMTT(30)
  <2>4. /\ DOMAIN Append(st, n + 1) = 1 .. l + 1 /\ Append(st, n + 1)[l + 1] = n + 1
        /\ \A a \in 1 .. l : Append(st, n + 1)[a] = st[a]
    BY <1>6, <2>3
  <2>5. \A a \in 1 .. l : st[a] \in 1 .. n
    BY <1>20, <2>3 DEF Range
  <2>6. \A a, b \in 1 .. l : a < b => st[a] < st[b]
    BY <1>14, <2>3 DEF OpenOnes
  <2>7. \A a \in 1 .. l + 1 : a \in 1 .. l \/ a = l + 1
    OBVIOUS
  <2>8. ASSUME NEW a \in 1 .. l + 1, NEW b \in 1 .. l + 1, a < b
        PROVE  Append(st, n + 1)[a] < Append(st, n + 1)[b]
    <3>1. a \in 1 .. l
      BY <2>3, <2>8
    <3>2. CASE b \in 1 .. l
      BY <2>4, <2>6, <2>8, <3>1, <3>2
    <3>3. CASE b = l + 1
      BY <1>10, <2>4, <2>5, <3>1, <3>3
    <3> QED
      BY <2>7, <3>2, <3>3
  <2> QED
    BY <2>2, <2>4, <2>8 DEF OpenOnes
<1>26. Exclusives(ds)
  <2>0. call.parent \in 0 .. n
    BY <1>9, <1>10, <1>20, <1>21
  <2>1. \A c : Weight(ds, c, n + 1) = 0
    BY <1>9, <1>12 DEF Weight, Runtime
  <2>2. \A c : \A i \in DOMAIN cs : Weight(ds, c, i) = Weight(cs, c, i)
    BY <1>12 DEF Weight
  <2>3. ASSUME NEW c PROVE RuntimeOfChildren(ds, c) = RuntimeOfChildren(cs, c)
    <3>1. \A i \in DOMAIN cs : Weight(ds, c, i) = Weight(cs, c, i) + (IF i = 0 THEN 0 ELSE 0)
      BY <2>2, WeightIs
    <3>2. \A i \in DOMAIN ds \ DOMAIN cs : Weight(ds, c, i) = 0
      BY <1>12, <1>13, <2>1
    <3>3. Len(ds) >= Len(cs) /\ 0 \in Int /\ 0 \notin DOMAIN cs
      BY <1>10, <1>12
    <3>4. RuntimeOfChildren(ds, c) = RuntimeOfChildren(cs, c) + (IF 0 \in DOMAIN cs THEN 0 ELSE 0)
      BY <3>1, <3>2, <3>3, ChildrenChange
    <3>5. RuntimeOfChildren(cs, c) \in Int
      <4>1. PICK sum : SumsUp(cs, c, sum)
        BY ChildrenUnfold
      <4>2. Len(cs) \in 0 .. Len(cs)
        BY <1>10
      <4> QED
        BY <4>1, <4>2 DEF SumsUp
    <3> QED
      BY <3>4, <3>5
  <2>4. RuntimeOfChildren(cs, n + 1) = 0
    <3>1. PICK es \in Seq(CallRecord) : es = <<>>
      <4>1. <<>> \in Seq(CallRecord)
        OBVIOUS
      <4> QED
        BY <4>1
    <3>2. \A i \in DOMAIN cs : cs[i].parent # n + 1
      <4>1. \A i \in DOMAIN cs : cs[i].parent = 0 \/ cs[i].parent \in DOMAIN cs
        BY <1>14 DEF Parents, Line
      <4> QED
        BY <1>10, <1>12, <4>1
    <3>3. \A i \in DOMAIN cs : Weight(cs, n + 1, i) = 0
      BY <3>2 DEF Weight
    <3>4. DOMAIN es = {} /\ Len(es) = 0
      BY <3>1
    <3>5. Len(cs) >= Len(es)
      BY <1>10, <3>4
    <3>6. /\ \A i \in DOMAIN es : Weight(cs, n + 1, i) = Weight(es, n + 1, i) + (IF i = 0 THEN 0 ELSE 0)
          /\ \A i \in DOMAIN cs \ DOMAIN es : Weight(cs, n + 1, i) = 0
      BY <3>3, <3>4
    <3>7. RuntimeOfChildren(cs, n + 1) = RuntimeOfChildren(es, n + 1) + (IF 0 \in DOMAIN es THEN 0 ELSE 0)
      BY <3>5, <3>6, ChildrenChange
    <3>8. RuntimeOfChildren(es, n + 1) = 0
      BY <3>4, ChildrenUnfold DEF SumsUp
    <3> QED
      BY <3>4, <3>7, <3>8
  <2>5. ASSUME NEW i \in DOMAIN ds
        PROVE  ds[i].exclusive = Runtime(ds[i]) - RuntimeOfChildren(ds, i)
    <3>1. CASE i = n + 1
      BY <1>9, <1>12, <2>3, <2>4, <3>1 DEF Runtime
    <3>2. CASE i \in 1 .. n
      BY <1>12, <1>14, <2>3, <3>2 DEF Exclusives
    <3> QED
      BY <1>13, <3>1, <3>2
  <2> QED
    BY <2>5 DEF Exclusives
<1>27. CallInv(ds, Append(st, n + 1), k, kn, E, X)
  BY <1>16, <1>17, <1>18, <1>23, <1>24, <1>25, <1>26 DEF CallInv
<1> QED
  BY <1>8, <1>10, <1>11, <1>27

(* What a call pops of a stack, and what goes back.                         *)
LEMMA BottomIs ==
  ASSUME NEW s \in Seq(Rows), NEW entry \in Int, NEW b, b = Bottom(s, entry)
  PROVE  /\ b \in 0 .. Len(s)
         /\ b # 0 => b \in DOMAIN s /\ s[b].ts < entry
         /\ \A i \in DOMAIN s : b < i => entry <= s[i].ts
<1>1. Len(s) \in Nat /\ DOMAIN s = 1 .. Len(s)
  OBVIOUS
<1>2. \A i \in DOMAIN s : s[i].ts \in Int
  <2>1. \A i \in DOMAIN s : s[i] \in Rows
    OBVIOUS
  <2>2. \A r \in Rows : r.ts \in Int
    BY RowFields
  <2> QED
    BY <2>1, <2>2
<1>3. PICK S : S = {0} \cup {i \in DOMAIN s : s[i].ts < entry}
  OBVIOUS
<1>4. S \subseteq 0 .. Len(s) /\ S # {}
  BY <1>1, <1>3
<1>5. b = Max(S)
  BY <1>3 DEF Bottom
<1>6. b \in S /\ \A i \in S : i <= b
  BY <1>1, <1>4, <1>5, LargestOne
<1>7. ASSUME NEW i \in DOMAIN s, b < i PROVE entry <= s[i].ts
  <2>1. i \notin S
    BY <1>1, <1>4, <1>6, <1>7
  <2> QED
    BY <1>2, <1>3, <2>1
<1> QED
  BY <1>3, <1>4, <1>6, <1>7

LEMMA ClaimedIs ==
  ASSUME NEW s \in Seq(Rows), NEW entry \in Int, NEW exit, NEW b, b = Bottom(s, entry)
  PROVE  /\ Claimed(s, entry, exit) \in Seq(Rows)
         /\ Range(Claimed(s, entry, exit)) = {d \in Range(Held(s, b)) : Within(d, entry, exit)}
         /\ Reinserted(s, entry, exit) \in Seq(Rows)
         /\ Range(Reinserted(s, entry, exit)) =
              Range(Taken(s, b)) \cup {d \in Range(Held(s, b)) : ~Within(d, entry, exit)}
         /\ Range(s) = Range(Taken(s, b)) \cup Range(Held(s, b))
<1>1. b \in 0 .. Len(s)
  BY BottomIs
<1>2. PICK t \in Seq(Rows), h \in Seq(Rows) : t = Taken(s, b) /\ h = Held(s, b)
  <2>1. Taken(s, b) \in Seq(Rows) /\ Held(s, b) \in Seq(Rows)
    BY <1>1, TakenAndHeld
  <2> QED
    BY <2>1
<1>3. Range(s) = Range(t) \cup Range(h)
  BY <1>1, <1>2, PartsRange
<1>4. PICK In, Out : /\ In = {d \in Range(s) : Within(d, entry, exit)}
                     /\ Out = {d \in Range(s) : ~Within(d, entry, exit)}
  OBVIOUS
<1>5. Claimed(s, entry, exit) = Only(h, In) /\ Reinserted(s, entry, exit) = t \o Only(h, Out)
  BY <1>2, <1>4 DEF Claimed, Reinserted, Popped, Held
<1>6. /\ Only(h, In) \in Seq(Rows) /\ Range(Only(h, In)) = Range(h) \cap In
      /\ Only(h, Out) \in Seq(Rows) /\ Range(Only(h, Out)) = Range(h) \cap Out
  BY OnlyRange
<1>7. t \o Only(h, Out) \in Seq(Rows) /\ Range(t \o Only(h, Out)) = Range(t) \cup (Range(h) \cap Out)
  <2>1. PICK o \in Seq(Rows) : o = Only(h, Out)
    BY <1>6
  <2> QED
    BY <1>6, <2>1, ConcatIs, ConcatRange
<1>8. /\ Range(h) \cap In = {d \in Range(h) : Within(d, entry, exit)}
      /\ Range(h) \cap Out = {d \in Range(h) : ~Within(d, entry, exit)}
  BY <1>3, <1>4
<1> QED
  BY <1>2, <1>3, <1>5, <1>6, <1>7, <1>8

(* The call on top of the stack that an EXIT closes.                        *)
Closes(ev, row, c) ==
  /\ ev.stack # <<>> /\ c = Last(ev.stack) /\ c \in DOMAIN ev.calls
  /\ ev.calls[c].of = row.call /\ ev.calls[c].exit = Open
  /\ ev.calls[c].entry <= row.ts /\ ev.calls[c].fid = row.fid

(* The calls before and after.                                              *)
Closed(cs, ds, c, ts, messages, ctrs) ==
  /\ ds \in Seq(CallRecord) /\ DOMAIN ds = DOMAIN cs
  /\ \A i \in DOMAIN cs :
       /\ ds[i].of = cs[i].of /\ ds[i].fid = cs[i].fid /\ ds[i].entry = cs[i].entry
       /\ ds[i].parent = cs[i].parent
       /\ ds[i].exit = IF i = c THEN ts ELSE cs[i].exit
       /\ ds[i].messages = IF i = c THEN messages ELSE cs[i].messages
       /\ ds[i].counters = IF i = c THEN ctrs ELSE cs[i].counters
       /\ ds[i].exclusive = cs[i].exclusive + (IF i = c THEN ts - cs[c].entry ELSE 0)
                                            - (IF i = cs[c].parent THEN ts - cs[c].entry ELSE 0)

(* The exclusive time of one call less by rt.                               *)
Told(cs, ds, p, rt) ==
  /\ ds \in Seq(CallRecord) /\ DOMAIN ds = DOMAIN cs
  /\ \A i \in DOMAIN cs :
       /\ ds[i].of = cs[i].of /\ ds[i].fid = cs[i].fid /\ ds[i].entry = cs[i].entry
       /\ ds[i].parent = cs[i].parent /\ ds[i].exit = cs[i].exit
       /\ ds[i].messages = cs[i].messages /\ ds[i].counters = cs[i].counters
       /\ ds[i].exclusive = cs[i].exclusive - (IF i = p THEN rt ELSE 0)

LEMMA ClosedIs ==
  ASSUME NEW cs \in Seq(CallRecord), NEW c \in DOMAIN cs, NEW ts \in 0 .. MaxTime,
         NEW messages \in Seq(Rows), NEW ctrs \in Seq(Rows), NEW ds,
         ds = ToldParent([cs EXCEPT ![c] = [Exited(cs[c], ts) EXCEPT !.messages = messages, !.counters = ctrs]],
                         cs[c].parent, ts - cs[c].entry)
  PROVE  Closed(cs, ds, c, ts, messages, ctrs)
<1>1. PICK call \in CallRecord : call = cs[c]
  OBVIOUS
<1>2. PICK rt \in Int : rt = ts - call.entry
  <2>1. MaxTime \in Nat /\ call.entry \in 0 .. MaxTime
    BY ADParserAssumption DEF CallRecord
  <2>2. ts - call.entry \in Int
    BY <2>1
  <2> QED
    BY <2>2
<1>3. PICK done : done = [Exited(call, ts) EXCEPT !.messages = messages, !.counters = ctrs]
  OBVIOUS
<1>4. done = [of |-> call.of, fid |-> call.fid, entry |-> call.entry, exit |-> ts, parent |-> call.parent,
              exclusive |-> call.exclusive + rt, messages |-> messages, counters |-> ctrs]
  BY <1>2, <1>3 DEF CallRecord, Exited
<1>5. /\ call.of \in Nat /\ call.fid \in Func /\ call.entry \in 0 .. MaxTime /\ call.parent \in Nat
      /\ call.exclusive \in Int
  BY DEF CallRecord
<1>6. call.exclusive + rt \in Int
  BY <1>5
<1>7. done \in CallRecord
  BY <1>4, <1>5, <1>6 DEF CallRecord
<1>8. PICK es \in Seq(CallRecord) : es = [cs EXCEPT ![c] = done]
  <2>1. [cs EXCEPT ![c] = done] \in Seq(CallRecord)
    BY <1>7
  <2> QED
    BY <2>1
<1>9. DOMAIN es = DOMAIN cs /\ es[c] = done /\ \A i \in DOMAIN cs : i # c => es[i] = cs[i]
  BY <1>8
<1>10. PICK p \in Nat : p = call.parent
  BY <1>5
<1>11. ds = IF p = 0 THEN es ELSE [es EXCEPT ![p].exclusive = @ - rt]
  BY <1>1, <1>2, <1>3, <1>8, <1>10 DEF ToldParent
<1>12. 0 \notin DOMAIN cs
  OBVIOUS
<1>13. \A i \in DOMAIN cs : cs[i].exclusive \in Int /\ es[i].exclusive \in Int
  <2>1. \A i \in DOMAIN cs : cs[i] \in CallRecord /\ es[i] \in CallRecord
    BY <1>8, <1>9
  <2> QED
    BY <2>1 DEF CallRecord
<1>14. ASSUME p \notin DOMAIN cs PROVE Told(es, ds, p, rt)
  <2>1. ds = es
    <3>1. p \notin DOMAIN es
      BY <1>9, <1>14
    <3>2. es = [x \in DOMAIN es |-> es[x]]
      BY <1>8
    <3>3. \A v : [es EXCEPT ![p] = v] = es
      BY <3>1, <3>2
    <3> QED
      BY <1>11, <3>3
  <2>2. \A i \in DOMAIN cs : i # p
    BY <1>14
  <2>3. ASSUME NEW i \in DOMAIN es PROVE es[i].exclusive = es[i].exclusive - (IF i = p THEN rt ELSE 0)
    BY <1>9, <1>13, <2>2
  <2>4. Told(es, es, p, rt)
    BY <1>8, <2>3 DEF Told
  <2> QED
    BY <2>1, <2>4
<1>15. ASSUME p \in DOMAIN cs PROVE Told(es, ds, p, rt)
  <2>1. p # 0
    BY <1>12, <1>15
  <2>2. PICK q \in CallRecord : q = es[p]
    BY <1>9, <1>15
  <2>3. PICK told : told = [q EXCEPT !.exclusive = @ - rt]
    OBVIOUS
  <2>4. ds = [es EXCEPT ![p] = told]
    BY <1>11, <2>1, <2>2, <2>3
  <2>5. told = [of |-> q.of, fid |-> q.fid, entry |-> q.entry, exit |-> q.exit, parent |-> q.parent,
                exclusive |-> q.exclusive - rt, messages |-> q.messages, counters |-> q.counters]
    BY <2>3 DEF CallRecord
  <2>6. q.exclusive - rt \in Int
    <3>1. q.exclusive \in Int
      BY DEF CallRecord
    <3> QED
      BY <3>1
  <2>7. told \in CallRecord
    BY <2>5, <2>6 DEF CallRecord
  <2>8. ds \in Seq(CallRecord)
    <3>0. p \in DOMAIN es
      BY <1>9, <1>15
    <3>1. [es EXCEPT ![p] = told] \in Seq(CallRecord)
      BY <1>8, <2>7, <3>0
    <3> QED
      BY <2>4, <3>1
  <2>9. DOMAIN ds = DOMAIN cs /\ ds[p] = told /\ \A i \in DOMAIN cs : i # p => ds[i] = es[i]
    BY <1>9, <1>15, <2>4
  <2>10. ASSUME NEW i \in DOMAIN cs
         PROVE  /\ ds[i].of = es[i].of /\ ds[i].fid = es[i].fid /\ ds[i].entry = es[i].entry
                /\ ds[i].parent = es[i].parent /\ ds[i].exit = es[i].exit
                /\ ds[i].messages = es[i].messages /\ ds[i].counters = es[i].counters
                /\ ds[i].exclusive = es[i].exclusive - (IF i = p THEN rt ELSE 0)
    <3>1. CASE i = p
      BY <2>2, <2>5, <2>9, <3>1
    <3>2. CASE i # p
      <4>1. es[i].exclusive = es[i].exclusive - (IF i = p THEN rt ELSE 0)
        BY <1>13, <3>2
      <4>2. ds[i] = es[i]
        BY <2>9, <3>2
      <4> QED
        BY <4>1, <4>2
    <3> QED
      BY <3>1, <3>2
  <2> QED
    BY <1>9, <2>8, <2>9, <2>10 DEF Told
<1>16. Told(es, ds, p, rt)
  BY <1>14, <1>15
<1>17. ASSUME NEW i \in DOMAIN cs
       PROVE  /\ es[i].of = cs[i].of /\ es[i].fid = cs[i].fid /\ es[i].entry = cs[i].entry
              /\ es[i].parent = cs[i].parent
              /\ es[i].exit = IF i = c THEN ts ELSE cs[i].exit
              /\ es[i].messages = IF i = c THEN messages ELSE cs[i].messages
              /\ es[i].counters = IF i = c THEN ctrs ELSE cs[i].counters
              /\ es[i].exclusive = cs[i].exclusive + (IF i = c THEN rt ELSE 0)
  <2>1. CASE i = c
    BY <1>1, <1>4, <1>9, <2>1
  <2>2. CASE i # c
    BY <1>9, <1>13, <2>2
  <2> QED
    BY <2>1, <2>2
<1>18. rt = ts - cs[c].entry /\ p = cs[c].parent
  BY <1>1, <1>2, <1>10
<1>19. ASSUME NEW i \in DOMAIN cs
       PROVE  ds[i].exclusive = cs[i].exclusive + (IF i = c THEN ts - cs[c].entry ELSE 0)
                                                - (IF i = cs[c].parent THEN ts - cs[c].entry ELSE 0)
  <2>1. /\ es[i].exclusive = cs[i].exclusive + (IF i = c THEN rt ELSE 0)
        /\ ds[i].exclusive = es[i].exclusive - (IF i = p THEN rt ELSE 0)
    BY <1>9, <1>16, <1>17 DEF Told
  <2>2. PICK x, y, z : x = ds[i].exclusive /\ y = es[i].exclusive /\ z = cs[i].exclusive
    OBVIOUS
  <2>3. PICK a, b : a = (IF i = c THEN rt ELSE 0) /\ b = (IF i = p THEN rt ELSE 0)
    OBVIOUS
  <2>4. y = z + a /\ x = y - b
    BY <2>1, <2>2, <2>3
  <2>5. x = z + a - b
    <3>1. z \in Int /\ a \in Int /\ b \in Int
      BY <1>13, <2>2, <2>3
    <3> QED
      BY <2>4, <3>1
  <2>6. a = (IF i = c THEN ts - cs[c].entry ELSE 0) /\ b = (IF i = cs[c].parent THEN ts - cs[c].entry ELSE 0)
    BY <1>18, <2>3
  <2> QED
    BY <2>2, <2>5, <2>6
<1>20. ASSUME NEW i \in DOMAIN cs
       PROVE  /\ ds[i].of = cs[i].of /\ ds[i].fid = cs[i].fid /\ ds[i].entry = cs[i].entry
              /\ ds[i].parent = cs[i].parent
              /\ ds[i].exit = IF i = c THEN ts ELSE cs[i].exit
              /\ ds[i].messages = IF i = c THEN messages ELSE cs[i].messages
              /\ ds[i].counters = IF i = c THEN ctrs ELSE cs[i].counters
  <2>1. /\ ds[i].of = es[i].of /\ ds[i].fid = es[i].fid /\ ds[i].entry = es[i].entry
        /\ ds[i].parent = es[i].parent /\ ds[i].exit = es[i].exit
        /\ ds[i].messages = es[i].messages /\ ds[i].counters = es[i].counters
    BY <1>9, <1>16 DEF Told
  <2> QED
    BY <1>17, <2>1
<1> QED
  BY <1>9, <1>16, <1>19, <1>20 DEF Closed, Told

LEMMA ExitIs ==
  ASSUME NEW ev \in Managers, NEW row \in Rows, NEW c, Closes(ev, row, c),
         NEW e, e = AddExit(ev, row), NEW entry, entry = ev.calls[c].entry
  PROVE  /\ e \in Managers
         /\ Closed(ev.calls, e.calls, c, row.ts, Claimed(ev.comm, entry, row.ts), Claimed(ev.counter, entry, row.ts))
         /\ e.stack = Front(ev.stack)
         /\ e.comm = Reinserted(ev.comm, entry, row.ts)
         /\ e.counter = Reinserted(ev.counter, entry, row.ts)
<1>1. PICK cs \in Seq(CallRecord), st \in Seq(Nat), sc \in Seq(Rows), sn \in Seq(Rows) :
        cs = ev.calls /\ st = ev.stack /\ sc = ev.comm /\ sn = ev.counter
  BY DEF Managers
<1>2. /\ st # <<>> /\ c = Last(st) /\ c \in DOMAIN cs /\ entry = cs[c].entry /\ entry <= row.ts
      /\ cs[c].fid = row.fid
  BY <1>1 DEF Closes
<1>3. PICK ts \in 0 .. MaxTime : ts = row.ts
  BY RowFields
<1>4. entry \in Int /\ ts \in Int /\ ~(entry > ts)
  <2>1. cs[c] \in CallRecord
    BY <1>2
  <2>2. entry \in 0 .. MaxTime
    BY <1>2, <2>1 DEF CallRecord
  <2> QED
    BY <1>2, <1>3, <2>2
<1>5. PICK mc \in Seq(Rows), mn \in Seq(Rows), rc \in Seq(Rows), rn \in Seq(Rows) :
        /\ mc = Claimed(sc, entry, ts) /\ mn = Claimed(sn, entry, ts)
        /\ rc = Reinserted(sc, entry, ts) /\ rn = Reinserted(sn, entry, ts)
  <2>1. /\ Claimed(sc, entry, ts) \in Seq(Rows) /\ Claimed(sn, entry, ts) \in Seq(Rows)
        /\ Reinserted(sc, entry, ts) \in Seq(Rows) /\ Reinserted(sn, entry, ts) \in Seq(Rows)
    BY <1>4, ClaimedIs
  <2> QED
    BY <2>1
<1>6. PICK ds : ds = ToldParent([cs EXCEPT ![c] = [Exited(cs[c], ts) EXCEPT !.messages = mc, !.counters = mn]],
                                cs[c].parent, ts - cs[c].entry)
  OBVIOUS
<1>7. Closed(cs, ds, c, ts, mc, mn)
  BY <1>2, <1>6, ClosedIs
<1>8. ~Refused(cs[c], row)
  BY <1>2, <1>3, <1>4 DEF Refused
<1>9. e = [calls |-> ds, stack |-> Front(st), comm |-> rc, counter |-> rn]
  BY <1>1, <1>2, <1>3, <1>5, <1>6, <1>8 DEF AddExit
<1>10. Front(st) \in Seq(Nat)
  BY <1>2, SMTT(30) DEF Front
<1>11. ds \in Seq(CallRecord)
  BY <1>7 DEF Closed
<1>12. e \in Managers
  BY <1>9, <1>10, <1>11 DEF Managers
<1>13. e.calls = ds /\ e.stack = Front(st) /\ e.comm = rc /\ e.counter = rn
  BY <1>9
<1> QED
  BY <1>1, <1>3, <1>5, <1>7, <1>12, <1>13

(* An EXIT finds its call on top of the stack; or its call was missed, and   *)
(* it is refused.                                                           *)
LEMMA ExitFinds ==
  ASSUME Written, NEW E, NEW X, ProgIs(E, X), NEW ev \in Managers, NEW kn, NEW k \in DOMAIN trace,
         CallInv(ev.calls, ev.stack, k - 1, kn, E, X),
         NEW row, row = trace[k], row.type = "EXIT"
  PROVE  \/ Closes(ev, row, Last(ev.stack))
         \/ AddExit(ev, row) = ev /\ \A i \in DOMAIN ev.calls : ev.calls[i].of # row.call
<1>1. /\ trace \in Seq(Rows) /\ row \in Rows /\ k \in Nat /\ k <= Len(trace) /\ row.id = k
  BY DEF Written
<1>2. PICK p \in DOMAIN prog : p = row.call
  BY DEF ProgIs, NoOther
<1>3. X[p] = k /\ E[p] < k
  BY <1>2 DEF ProgIs, NoOther, Begins
<1>4. /\ prog \in Seq(ProgCall) /\ E \in [DOMAIN prog -> Nat] /\ X \in [DOMAIN prog -> Nat]
      /\ DOMAIN prog \subseteq Nat
  BY DEF ProgIs
<1>5. row.fid = prog[p].fid /\ row.ts = prog[p].exit /\ trace[E[p]].ts <= row.ts /\ trace[E[p]].ts = prog[p].entry
  <2>1. E[p] \in DOMAIN trace
    BY PlacesOf
  <2>2. trace[E[p]].ts <= trace[k].ts
    BY <1>3, <2>1 DEF Written
  <2> QED
    BY <1>3, <2>2, PlacesOf
<1>6. PICK cs \in Seq(CallRecord), st \in Seq(Nat) : cs = ev.calls /\ st = ev.stack
  BY DEF Managers
<1>7. /\ Begun(cs, k - 1, kn, E) /\ ByEntry(cs) /\ Ended(cs, k - 1, X)
      /\ Missed(cs, k - 1, E) /\ OpenOnes(cs, st)
  BY <1>6 DEF CallInv
<1>8. \A i \in DOMAIN cs : cs[i].of = p => i \in Range(st)
  <2>1. ~(k <= k - 1)
    BY <1>1
  <2> QED
    BY <1>3, <1>7, <2>1 DEF Ended, OpenOnes
<1>9. CASE st = <<>>
  <2>1. \A i \in DOMAIN cs : cs[i].of # p
    BY <1>8, <1>9 DEF Range
  <2> QED
    BY <1>2, <1>6, <1>9, <2>1 DEF AddExit
<1>10. CASE st # <<>>
  <2>1. PICK l \in Nat : l = Len(st) /\ l \in DOMAIN st /\ Last(st) = st[l] /\ DOMAIN st = 1 .. l
    <3>1. /\ Len(st) \in Nat /\ Len(st) \in DOMAIN st /\ Last(st) = st[Len(st)]
          /\ DOMAIN st = 1 .. Len(st)
      BY <1>6, <1>10 DEF Last
    <3> QED
      BY <3>1
  <2>2. PICK c \in Nat : c = Last(st)
    BY <1>6, <2>1
  <2>3. c \in DOMAIN cs /\ cs[c].exit = Open /\ \A j \in Range(st) : j = c \/ j < c
    <3>1. c \in Range(st)
      BY <2>1, <2>2 DEF Range
    <3>2. \A a \in DOMAIN st : a = l \/ a < l
      BY <2>1
    <3>3. \A a \in DOMAIN st : st[a] = c \/ st[a] < c
      BY <1>7, <2>1, <2>2, <3>2 DEF OpenOnes
    <3> QED
      BY <1>7, <3>1, <3>3 DEF OpenOnes, Range
  <2>4. PICK q \in DOMAIN prog : /\ q = cs[c].of /\ E[q] <= k - 1
                                 /\ cs[c].fid = prog[q].fid /\ cs[c].entry = prog[q].entry
    BY <1>7, <2>3 DEF Begun
  <2>5. q \in Nat /\ p \in Nat /\ X[q] \in Nat /\ E[q] \in Nat /\ E[p] \in Nat
    BY <1>4
  <2>6. ~(X[q] <= k - 1)
    <3>1. X[q] <= k - 1 => prog[q].exit # Open
      <4>1. X[q] <= k - 1 => X[q] # Never
        BY <1>1, <2>5, ADParserAssumption DEF Never, Written
      <4> QED
        BY <4>1, PlacesOf
    <3>2. cs[c].exit = IF X[q] <= k - 1 THEN prog[q].exit ELSE Open
      BY <1>7, <2>3, <2>4 DEF Ended
    <3> QED
      BY <2>3, <3>1, <3>2
  (* a call that began later has ended *)
  <2>7. ~(p < q)
    <3> SUFFICES ASSUME p < q PROVE FALSE
      OBVIOUS
    <3>1. p \in prog[q].within
      BY <1>1, <1>3, <2>4, <2>5, WithinIs
    <3>2. X[q] < X[p] \/ (X[q] = Never /\ X[p] = Never)
      BY <3>1 DEF ProgIs, Nested
    <3>3. X[p] # Never
      BY <1>1, <1>3, ADParserAssumption DEF Never, Written
    <3> QED
      BY <1>1, <1>3, <2>5, <2>6, <3>2, <3>3
  <2>8. CASE q = p
    <3>1. cs[c].entry <= row.ts /\ cs[c].fid = row.fid /\ cs[c].of = row.call
      BY <1>2, <1>5, <2>4, <2>8
    <3>2. Closes(ev, row, c)
      BY <1>6, <1>10, <2>2, <2>3, <3>1 DEF Closes
    <3> QED
      BY <1>6, <2>2, <3>2
  <2>9. CASE q # p
    <3>1. q < p
      BY <2>5, <2>7, <2>9
    <3>2. \A i \in DOMAIN cs : cs[i].of # p
      <4> SUFFICES ASSUME NEW i \in DOMAIN cs, cs[i].of = p PROVE FALSE
        OBVIOUS
      <4>1. i = c \/ i < c
        BY <1>8, <2>3
      <4>2. i # c
        BY <2>4, <2>9
      <4>3. p < q
        BY <1>7, <2>3, <2>4, <4>1, <4>2 DEF ByEntry
      <4> QED
        BY <2>7, <4>3
    <3>3. cs[c].fid # prog[p].fid
      <4>1. E[p] <= k - 1
        BY <1>1, <1>3, <2>5
      <4> QED
        BY <1>7, <2>3, <2>4, <3>1, <3>2, <4>1 DEF Missed
    <3>4. Refused(cs[c], row)
      BY <1>5, <3>3 DEF Refused
    <3>5. AddExit(ev, row) = ev
      BY <1>6, <1>10, <2>2, <3>4 DEF AddExit
    <3> QED
      BY <1>2, <1>6, <3>2, <3>5
  <2> QED
    BY <2>8, <2>9
<1> QED
  BY <1>9, <1>10

LEMMA CallsExit ==
  ASSUME Written, NEW E, NEW X, ProgIs(E, X), NEW ev \in Managers, NEW kn, NEW k \in DOMAIN trace,
         CallInv(ev.calls, ev.stack, k - 1, kn, E, X),
         NEW row, row = trace[k], row.type = "EXIT"
  PROVE  AddExit(ev, row) \in Managers
         /\ CallInv(AddExit(ev, row).calls, AddExit(ev, row).stack, k, kn, E, X)
<1>1. /\ trace \in Seq(Rows) /\ row \in Rows /\ k \in Nat /\ k - 1 \in Nat /\ k <= Len(trace) /\ row.id = k
  BY DEF Written
<1>2. PICK p \in DOMAIN prog : p = row.call
  BY DEF ProgIs, NoOther
<1>3. X[p] = k
  BY <1>2 DEF ProgIs, NoOther
<1>4. /\ prog \in Seq(ProgCall) /\ E \in [DOMAIN prog -> Nat] /\ X \in [DOMAIN prog -> Nat]
      /\ DOMAIN prog \subseteq Nat
  BY DEF ProgIs
<1>5. row.ts = prog[p].exit /\ prog[p].exit # Open
  BY <1>1, <1>2, <1>3, PlacesOf
<1>6. PICK cs \in Seq(CallRecord), st \in Seq(Nat) : cs = ev.calls /\ st = ev.stack
  BY DEF Managers
<1>7. /\ Begun(cs, k - 1, kn, E) /\ ByEntry(cs) /\ Ended(cs, k - 1, X) /\ Parents(cs)
      /\ Missed(cs, k - 1, E) /\ OpenOnes(cs, st) /\ Exclusives(cs)
  BY <1>6 DEF CallInv
(* what an EXIT leaves as it was *)
<1>8. \A q \in DOMAIN prog : E[q] \in Nat /\ E[q] # k
  <2>1. ASSUME NEW q \in DOMAIN prog PROVE E[q] # k
    <3>1. trace[E[q]].type = "ENTRY"
      BY PlacesOf
    <3> QED
      BY <3>1
  <2> QED
    BY <1>4, <2>1
<1>9. Begun(cs, k, kn, E)
  BY <1>1, <1>7, <1>8 DEF Begun
<1>10. \A q \in DOMAIN prog : q # p => X[q] \in Nat /\ X[q] # k
  <2>1. ASSUME NEW q \in DOMAIN prog, q # p PROVE X[q] # k
    <3>1. X[q] = k => trace[k].call = q
      BY PlacesOf
    <3> QED
      BY <1>2, <2>1, <3>1
  <2> QED
    BY <1>4, <2>1
<1>11. \A i \in DOMAIN cs : cs[i].of \in DOMAIN prog
  BY <1>7 DEF Begun
<1>12. ASSUME NEW i \in DOMAIN cs, cs[i].of # p
       PROVE  cs[i].exit = IF X[cs[i].of] <= k THEN prog[cs[i].of].exit ELSE Open
  <2>1. PICK q \in DOMAIN prog : q = cs[i].of
    BY <1>11
  <2>2. X[q] \in Nat /\ X[q] # k
    BY <1>10, <1>12, <2>1
  <2>3. X[q] <= k <=> X[q] <= k - 1
    BY <1>1, <2>2
  <2>4. cs[i].exit = IF X[q] <= k - 1 THEN prog[q].exit ELSE Open
    BY <1>7, <2>1 DEF Ended
  <2> QED
    BY <2>1, <2>3, <2>4
<1>13. ASSUME NEW ds, DOMAIN ds = DOMAIN cs, \A i \in DOMAIN cs : ds[i].of = cs[i].of /\ ds[i].fid = cs[i].fid
       PROVE  Missed(ds, k, E)
  <2> SUFFICES ASSUME NEW q \in DOMAIN prog, E[q] <= k, \A i \in DOMAIN ds : ds[i].of # q,
                      NEW i \in DOMAIN ds, ds[i].of < q
               PROVE  ds[i].fid # prog[q].fid
    BY DEF Missed
  <2>1. E[q] <= k - 1
    <3>1. E[q] \in Nat /\ E[q] # k
      BY <1>8
    <3> QED
      BY <1>1, <3>1
  <2>2. (\A j \in DOMAIN cs : cs[j].of # q) /\ i \in DOMAIN cs /\ cs[i].of < q
    BY <1>13
  <2>3. cs[i].fid # prog[q].fid
    BY <1>7, <2>1, <2>2 DEF Missed
  <2> QED
    BY <1>13, <2>3
<1>14. CASE AddExit(ev, row) = ev /\ \A i \in DOMAIN cs : cs[i].of # p
  <2>1. Ended(cs, k, X)
    BY <1>12, <1>14 DEF Ended
  <2>2. Missed(cs, k, E)
    BY <1>13
  <2>3. CallInv(cs, st, k, kn, E, X)
    BY <1>7, <1>9, <2>1, <2>2 DEF CallInv
  <2> QED
    BY <1>6, <1>14, <2>3
<1>15. ASSUME Closes(ev, row, Last(ev.stack))
       PROVE  AddExit(ev, row) \in Managers
              /\ CallInv(AddExit(ev, row).calls, AddExit(ev, row).stack, k, kn, E, X)
  <2>1. PICK c \in Nat : c = Last(st) /\ Closes(ev, row, c)
    <3>1. Last(ev.stack) \in DOMAIN cs
      BY <1>6, <1>15 DEF Closes
    <3>2. DOMAIN cs \subseteq Nat
      BY <1>6
    <3> QED
      BY <1>6, <1>15, <3>1, <3>2
  <2>2. /\ st # <<>> /\ c \in DOMAIN cs /\ cs[c].of = p /\ cs[c].exit = Open /\ cs[c].entry <= row.ts
    BY <1>2, <1>6, <2>1 DEF Closes
  <2>3. PICK e \in Managers : e = AddExit(ev, row) /\ e.stack = Front(st)
                              /\ \E mc, mn : Closed(cs, e.calls, c, row.ts, mc, mn)
    <3>1. PICK e : e = AddExit(ev, row)
      OBVIOUS
    <3>2. PICK entry : entry = ev.calls[c].entry
      OBVIOUS
    <3>3. /\ e \in Managers /\ e.stack = Front(ev.stack)
          /\ Closed(ev.calls, e.calls, c, row.ts, Claimed(ev.comm, entry, row.ts), Claimed(ev.counter, entry, row.ts))
      BY <1>1, <2>1, <3>1, <3>2, ExitIs
    <3> QED
      BY <1>6, <3>1, <3>3
  <2>4. PICK ds \in Seq(CallRecord) : ds = e.calls
    BY DEF Managers
  <2>5. PICK rt : rt = row.ts - cs[c].entry
    OBVIOUS
  <2>6. /\ DOMAIN ds = DOMAIN cs
        /\ \A i \in DOMAIN cs :
             /\ ds[i].of = cs[i].of /\ ds[i].fid = cs[i].fid /\ ds[i].entry = cs[i].entry
             /\ ds[i].parent = cs[i].parent
             /\ ds[i].exit = IF i = c THEN row.ts ELSE cs[i].exit
             /\ ds[i].exclusive = cs[i].exclusive + (IF i = c THEN rt ELSE 0) - (IF i = cs[c].parent THEN rt ELSE 0)
    BY <2>3, <2>4, <2>5 DEF Closed
  <2>7. \A i \in DOMAIN cs : i # c => cs[i].of # p
    <3>1. \A i \in DOMAIN cs : cs[i].of \in Nat
      BY <1>4, <1>11
    <3>2. \A i \in DOMAIN cs : i # c => i < c \/ c < i
      BY <2>2
    <3>3. ASSUME NEW i \in DOMAIN cs, i # c PROVE cs[i].of # p
      <4>1. cs[i].of < p \/ p < cs[i].of
        BY <1>7, <2>2, <3>2, <3>3 DEF ByEntry
      <4> QED
        BY <1>4, <4>1
    <3> QED
      BY <3>3
  <2>8. Begun(ds, k, kn, E)
    BY <1>9, <2>6 DEF Begun
  <2>9. ByEntry(ds)
    BY <1>7, <2>6 DEF ByEntry
  <2>10. Ended(ds, k, X)
    <3> SUFFICES ASSUME NEW i \in DOMAIN cs
                 PROVE  ds[i].exit = IF X[ds[i].of] <= k THEN prog[ds[i].of].exit ELSE Open
      BY <2>6 DEF Ended
    <3>1. CASE i = c
      <4>1. ds[i].of = p /\ ds[i].exit = prog[p].exit
        BY <1>5, <2>2, <2>6, <3>1
      <4>2. X[p] <= k
        BY <1>1, <1>3
      <4> QED
        BY <4>1, <4>2
    <3>2. CASE i # c
      <4>1. ds[i].exit = cs[i].exit /\ ds[i].of = cs[i].of
        BY <2>6, <3>2
      <4> QED
        BY <1>12, <2>7, <3>2, <4>1
    <3> QED
      BY <3>1, <3>2
  <2>11. Parents(ds)
    BY <1>7, <2>6 DEF Parents, Line
  <2>12. Missed(ds, k, E)
    BY <1>13, <2>6
  <2>13. OpenOnes(ds, Front(st))
    <3>1. PICK l \in Nat : l = Len(st) /\ l \in DOMAIN st /\ st[l] = c /\ DOMAIN st = 1 .. l
      <4>1. /\ Len(st) \in Nat /\ Len(st) \in DOMAIN st /\ Last(st) = st[Len(st)]
            /\ DOMAIN st = 1 .. Len(st)
        BY <1>6, <2>2 DEF Last
      <4> QED
        BY <2>1, <4>1
    <3>2. /\ DOMAIN Front(st) = 1 .. l - 1 /\ \A a \in 1 .. l - 1 : Front(st)[a] = st[a]
      BY <1>6, <3>1 DEF Front
    <3>3. \A a \in 1 .. l - 1 : a \in 1 .. l /\ a < l
      BY <3>1
    <3>4. \A a, b \in DOMAIN Front(st) : a < b => Front(st)[a] < Front(st)[b]
      BY <1>7, <3>1, <3>2, <3>3 DEF OpenOnes
    <3>5. \A i : i \in Range(Front(st)) <=> i \in Range(st) /\ i # c
      <4>1. \A a \in 1 .. l - 1 : st[a] \in Range(st) /\ st[a] # c
        <5> SUFFICES ASSUME NEW a \in 1 .. l - 1 PROVE st[a] \in Range(st) /\ st[a] # c
          OBVIOUS
        <5>1. a \in DOMAIN st /\ a < l
          BY <3>1, <3>3
        <5>2. st[a] < c
          BY <1>7, <3>1, <5>1 DEF OpenOnes
        <5>3. st[a] \in Nat /\ st[a] \in Range(st)
          BY <1>6, <5>1 DEF Range
        <5> QED
          BY <5>2, <5>3
      <4>2. \A a \in 1 .. l : a \in 1 .. l - 1 \/ a = l
        BY <3>1
      <4>3. \A a \in 1 .. l : st[a] # c => st[a] \in Range(Front(st))
        BY <3>1, <3>2, <4>2 DEF Range
      <4>4. \A a \in 1 .. l - 1 : Front(st)[a] \in Range(st) /\ Front(st)[a] # c
        BY <3>2, <4>1
      <4>5. \A i : i \in Range(Front(st)) => i \in Range(st) /\ i # c
        BY <3>2, <4>4 DEF Range
      <4>6. \A i : i \in Range(st) /\ i # c => i \in Range(Front(st))
        BY <3>1, <4>3 DEF Range
      <4> QED
        BY <4>5, <4>6
    <3>6. \A i : i \in Range(Front(st)) <=> i \in DOMAIN ds /\ ds[i].exit = Open
      <4>1. \A i \in DOMAIN cs : ds[i].exit = Open <=> cs[i].exit = Open /\ i # c
        BY <1>5, <2>6
      <4> QED
        BY <1>7, <2>6, <3>5, <4>1 DEF OpenOnes
    <3> QED
      BY <3>4, <3>6 DEF OpenOnes
  <2>14. Exclusives(ds)
    <3>1. rt \in Int /\ cs[c].parent \in Nat
      <4>1. cs[c] \in CallRecord
        BY <2>2
      <4>2. cs[c].entry \in 0 .. MaxTime /\ row.ts \in 0 .. MaxTime /\ cs[c].parent \in Nat
        BY <1>1, <4>1, RowFields DEF CallRecord
      <4> QED
        BY <2>5, <4>2
    <3>2. ASSUME NEW i \in DOMAIN cs
          PROVE  Runtime(ds[i]) = Runtime(cs[i]) + (IF i = c THEN rt ELSE 0)
      <4>1. CASE i = c
        <5>1. ds[i].exit = row.ts /\ row.ts # Open /\ ds[i].entry = cs[c].entry
          BY <1>5, <2>6, <4>1
        <5>2. Runtime(ds[i]) = rt /\ Runtime(cs[i]) = 0
          BY <2>2, <2>5, <4>1, <5>1 DEF Runtime
        <5> QED
          BY <3>1, <4>1, <5>2
      <4>2. CASE i # c
        <5>1. Runtime(ds[i]) = Runtime(cs[i])
          BY <2>6, <4>2 DEF Runtime
        <5>2. Runtime(cs[i]) \in Int
          BY WeightIs
        <5> QED
          BY <4>2, <5>1, <5>2
      <4> QED
        BY <4>1, <4>2
    <3>3. ASSUME NEW a \in DOMAIN cs
          PROVE  RuntimeOfChildren(ds, a) = RuntimeOfChildren(cs, a) + (IF a = cs[c].parent THEN rt ELSE 0)
      <4>1. PICK d \in Int : d = IF a = cs[c].parent THEN rt ELSE 0
        BY <3>1
      <4>2. ASSUME NEW i \in DOMAIN cs PROVE Weight(ds, a, i) = Weight(cs, a, i) + (IF i = c THEN d ELSE 0)
        <5>0. ds[i].parent = cs[i].parent
          BY <2>6
        <5>1. CASE i = c /\ cs[c].parent = a
          BY <3>2, <4>1, <5>0, <5>1 DEF Weight
        <5>2. CASE i = c /\ cs[c].parent # a
          BY <4>1, <5>0, <5>2 DEF Weight
        <5>3. CASE i # c
          <6>1. Weight(cs, a, i) \in Int
            BY WeightIs
          <6>2. Runtime(ds[i]) = Runtime(cs[i])
            BY <2>6, <5>3 DEF Runtime
          <6>3. Weight(ds, a, i) = Weight(cs, a, i)
            BY <5>0, <6>2 DEF Weight
          <6> QED
            BY <5>3, <6>1, <6>3
        <5> QED
          BY <5>1, <5>2, <5>3
      <4>2a. \A i \in DOMAIN cs : Weight(ds, a, i) = Weight(cs, a, i) + (IF i = c THEN d ELSE 0)
        BY <4>2
      <4>3. Len(ds) >= Len(cs)
        <5>1. Len(ds) = Len(cs) /\ Len(cs) \in Nat
          BY <2>6
        <5> QED
          BY <5>1
      <4>4. \A i \in DOMAIN ds \ DOMAIN cs : Weight(ds, a, i) = 0
        BY <2>6
      <4>5. RuntimeOfChildren(ds, a) = RuntimeOfChildren(cs, a) + (IF c \in DOMAIN cs THEN d ELSE 0)
        BY <4>2a, <4>3, <4>4, ChildrenChange, SMTT(30)
      <4> QED
        BY <2>2, <4>1, <4>5
    <3>4. ASSUME NEW i \in DOMAIN cs PROVE ds[i].exclusive = Runtime(ds[i]) - RuntimeOfChildren(ds, i)
      <4>1. Runtime(cs[i]) \in Int
        BY WeightIs
      <4>2. RuntimeOfChildren(cs, i) \in Int
        <5>1. PICK sum : SumsUp(cs, i, sum)
          BY ChildrenUnfold
        <5>2. Len(cs) \in 0 .. Len(cs)
          OBVIOUS
        <5> QED
          BY <5>1, <5>2 DEF SumsUp
      <4>3. PICK y \in Int, z \in Int : y = Runtime(cs[i]) /\ z = RuntimeOfChildren(cs, i)
        BY <4>1, <4>2
      <4>3a. PICK a \in Int : a = IF i = c THEN rt ELSE 0
        BY <3>1
      <4>3b. PICK b \in Int : b = IF i = cs[c].parent THEN rt ELSE 0
        BY <3>1
      <4>4. cs[i].exclusive = y - z
        BY <1>7, <4>3 DEF Exclusives
      <4>5. ds[i].exclusive = cs[i].exclusive + a - b
        BY <2>6, <4>3a, <4>3b
      <4>6. Runtime(ds[i]) = y + a /\ RuntimeOfChildren(ds, i) = z + b
        BY <3>2, <3>3, <4>3, <4>3a, <4>3b
      <4>7. (y - z) + a - b = (y + a) - (z + b)
        OBVIOUS
      <4> QED
        BY <4>4, <4>5, <4>6, <4>7
    <3> QED
      BY <2>6, <3>4 DEF Exclusives
  <2>15. CallInv(ds, Front(st), k, kn, E, X)
    BY <2>8, <2>9, <2>10, <2>11, <2>12, <2>13, <2>14 DEF CallInv
  <2> QED
    BY <2>3, <2>4, <2>15
<1> QED
  BY <1>2, <1>6, <1>14, <1>15, ExitFinds

(* The rows a step registers: the first i of them are done, m is the last   *)
(* row of the trace that was reached, last the one that will be.  What is   *)
(* reached and not registered is of functions that are not in kn.           *)
Registers(rows) ==
  /\ rows \in Seq(Rows) /\ Range(rows) \subseteq Range(trace)
  /\ \A x, y \in DOMAIN rows : x < y => Woven(rows[x], rows[y])

Reached(rows, i, m, last, kn) ==
  /\ m \in Nat /\ m <= last
  /\ \A x \in DOMAIN rows : rows[x].type \in FuncKinds =>
       (i < x <=> m < rows[x].id) /\ rows[x].id <= last /\ rows[x].fid \in kn
  /\ \A r \in Range(trace) :
       r.type \in FuncKinds /\ m < r.id /\ r.id <= last /\ r.fid \in kn => r \in Range(rows)

LEMMA DataAdded ==
  ASSUME NEW ev \in Managers, NEW row \in Rows, row.type \notin FuncKinds,
         NEW e, e = AddEvent(ev, row)
  PROVE  /\ e \in Managers /\ e.calls = ev.calls /\ e.stack = ev.stack
         /\ row.type = "comm" => e.comm = Append(ev.comm, row) /\ e.counter = ev.counter
         /\ row.type # "comm" => e.comm = ev.comm /\ e.counter = Append(ev.counter, row)
<1>1. /\ ev.calls \in Seq(CallRecord) /\ ev.stack \in Seq(Nat) /\ ev.comm \in Seq(Rows) /\ ev.counter \in Seq(Rows)
      /\ ev = [calls |-> ev.calls, stack |-> ev.stack, comm |-> ev.comm, counter |-> ev.counter]
  BY DEF Managers
<1>2. row.type # "ENTRY" /\ row.type # "EXIT"
  BY DEF FuncKinds
<1>3. CASE row.type = "comm"
  <2>1. e = [calls |-> ev.calls, stack |-> ev.stack, comm |-> Append(ev.comm, row), counter |-> ev.counter]
    BY <1>1, <1>3 DEF AddEvent, AddComm
  <2>2. Append(ev.comm, row) \in Seq(Rows)
    BY <1>1
  <2> QED
    BY <1>1, <1>3, <2>1, <2>2 DEF Managers
<1>4. CASE row.type # "comm"
  <2>1. e = [calls |-> ev.calls, stack |-> ev.stack, comm |-> ev.comm, counter |-> Append(ev.counter, row)]
    BY <1>1, <1>2, <1>4 DEF AddEvent, AddCounter
  <2>2. Append(ev.counter, row) \in Seq(Rows)
    BY <1>1
  <2> QED
    BY <1>1, <1>4, <2>1, <2>2 DEF Managers
<1> QED
  BY <1>3, <1>4

(* Before each function event the calls are those up to it.                 *)
LEMMA ReachedNext ==
  ASSUME Written, NEW E, NEW X, ProgIs(E, X), NEW rows, Registers(rows),
         NEW i \in 0 .. Len(rows) - 1, NEW m, NEW last \in Nat, last <= MaxEvents, NEW kn,
         Reached(rows, i, m, last, kn),
         NEW cs \in Seq(CallRecord), NEW st, CallInv(cs, st, m, kn, E, X),
         NEW row, row = rows[i + 1]
  PROVE  /\ row \in Rows
         /\ row.type \notin FuncKinds => Reached(rows, i + 1, m, last, kn)
         /\ row.type \in FuncKinds =>
              /\ row.id \in DOMAIN trace /\ row = trace[row.id] /\ row.fid \in kn
              /\ CallInv(cs, st, row.id - 1, kn, E, X)
              /\ Reached(rows, i + 1, row.id, last, kn)
<1>1. /\ rows \in Seq(Rows) /\ Range(rows) \subseteq Range(trace) /\ m \in Nat /\ m <= last
      /\ i \in Nat /\ i + 1 \in DOMAIN rows /\ i + 1 \in Nat /\ DOMAIN rows \subseteq Nat
  BY DEF Registers, Reached
<1>2. row \in Rows /\ row \in Range(trace) /\ row \in Range(rows)
  <2>1. row \in Rows
    BY <1>1
  <2>2. row \in Range(rows)
    BY <1>1 DEF Range
  <2> QED
    BY <1>1, <2>1, <2>2
<1>3. \A x \in DOMAIN rows : rows[x] \in Rows /\ rows[x].id \in Nat /\ rows[x] \in Range(rows)
  <2>1. \A x \in DOMAIN rows : rows[x] \in Rows /\ rows[x] \in Range(rows)
    BY <1>1 DEF Range
  <2> QED
    BY <2>1, RowFields
<1>4. \A x \in DOMAIN rows : x # i + 1 => (i < x <=> i + 1 < x)
  BY <1>1
<1>5. ~(i + 1 < i + 1) /\ i < i + 1
  BY <1>1
<1>6. ASSUME row.type \notin FuncKinds PROVE Reached(rows, i + 1, m, last, kn)
  BY <1>1, <1>4, <1>6 DEF Reached
<1>7. ASSUME row.type \in FuncKinds
      PROVE  /\ row.id \in DOMAIN trace /\ row = trace[row.id] /\ row.fid \in kn
             /\ CallInv(cs, st, row.id - 1, kn, E, X)
             /\ Reached(rows, i + 1, row.id, last, kn)
  <2>1. PICK k \in Nat : k = row.id
    BY <1>2, RowFields
  <2>2. k \in DOMAIN trace /\ row = trace[k]
    BY <1>2, <2>1 DEF Written, Range
  <2>3. m < k /\ k <= last /\ row.fid \in kn
    BY <1>1, <1>5, <1>7, <2>1 DEF Reached
  <2>4. \A x \in DOMAIN rows : rows[x].type \in FuncKinds /\ i + 1 < x => k < rows[x].id
    <3> SUFFICES ASSUME NEW x \in DOMAIN rows, rows[x].type \in FuncKinds, i + 1 < x
                 PROVE  k < rows[x].id
      OBVIOUS
    <3>1. Woven(row, rows[x])
      BY <1>1 DEF Registers
    <3> QED
      BY <1>7, <2>1, <3>1 DEF Woven, TableOf
  <2>5. \A x \in DOMAIN rows : rows[x].type \in FuncKinds /\ x <= i => rows[x].id <= m
    <3> SUFFICES ASSUME NEW x \in DOMAIN rows, rows[x].type \in FuncKinds, x <= i
                 PROVE  rows[x].id <= m
      OBVIOUS
    <3>1. ~(i < x)
      BY <1>1
    <3>2. ~(m < rows[x].id)
      BY <3>1 DEF Reached
    <3> QED
      BY <1>1, <1>3, <3>2
  <2>6. \A r \in Range(trace) : r.type \in FuncKinds /\ m < r.id /\ r.id <= k - 1 => r.fid \notin kn
    <3> SUFFICES ASSUME NEW r \in Range(trace), r.type \in FuncKinds, m < r.id, r.id <= k - 1, r.fid \in kn
                 PROVE  FALSE
      OBVIOUS
    <3>1. r.id \in Nat
      BY RowsIn, RowFields DEF Written
    <3>2. r.id <= last
      BY <2>3, <3>1
    <3>3. r \in Range(rows)
      BY <3>2 DEF Reached
    <3>4. PICK x \in DOMAIN rows : r = rows[x]
      BY <3>3 DEF Range
    <3>5. i < x
      BY <3>4 DEF Reached
    <3>6. x = i + 1 \/ i + 1 < x
      BY <1>1, <3>5
    <3> QED
      BY <2>1, <2>4, <3>1, <3>4, <3>6
  <2>7. CallInv(cs, st, k - 1, kn, E, X)
    <3>1. k - 1 \in Nat /\ m <= k - 1 /\ k - 1 <= MaxEvents
      BY <1>1, <2>3, ADParserAssumption
    <3> QED
      BY <1>1, <2>6, <3>1, CallsDrop
  <2>8. Reached(rows, i + 1, k, last, kn)
    <3>1. ASSUME NEW x \in DOMAIN rows, rows[x].type \in FuncKinds
          PROVE  i + 1 < x <=> k < rows[x].id
      <4>1. CASE i + 1 < x
        BY <2>4, <3>1, <4>1
      <4>2. CASE x = i + 1
        BY <1>5, <2>1, <4>2
      <4>3. CASE x <= i
        <5>1. rows[x].id <= m /\ rows[x].id \in Nat
          BY <1>3, <2>5, <3>1, <4>3
        <5> QED
          BY <1>1, <2>3, <4>3, <5>1
      <4> QED
        BY <1>1, <4>1, <4>2, <4>3
    <3>2. \A r \in Range(trace) : r.id \in Nat
      BY RowsIn, RowFields DEF Written
    <3>3. \A r \in Range(trace) : k < r.id => m < r.id
      BY <1>1, <2>3, <3>2
    <3> QED
      BY <2>3, <3>1, <3>3 DEF Reached
  <2> QED
    BY <2>1, <2>2, <2>3, <2>7, <2>8
<1> QED
  BY <1>2, <1>6, <1>7

LEMMA CallsNext ==
  ASSUME Written, NEW E, NEW X, ProgIs(E, X), NEW rows, Registers(rows),
         NEW i \in 0 .. Len(rows) - 1, NEW m, NEW last \in Nat, last <= MaxEvents, NEW kn,
         Reached(rows, i, m, last, kn),
         NEW ev \in Managers, CallInv(ev.calls, ev.stack, m, kn, E, X),
         NEW e, e = AddEvent(ev, rows[i + 1])
  PROVE  /\ e \in Managers
         /\ \E l : Reached(rows, i + 1, l, last, kn) /\ CallInv(e.calls, e.stack, l, kn, E, X)
<1>0. ev.calls \in Seq(CallRecord)
  BY DEF Managers
<1>1. PICK row : row = rows[i + 1]
  OBVIOUS
<1>2. /\ row \in Rows
      /\ row.type \notin FuncKinds => Reached(rows, i + 1, m, last, kn)
      /\ row.type \in FuncKinds =>
           /\ row.id \in DOMAIN trace /\ row = trace[row.id] /\ row.fid \in kn
           /\ CallInv(ev.calls, ev.stack, row.id - 1, kn, E, X)
           /\ Reached(rows, i + 1, row.id, last, kn)
  BY <1>0, <1>1, ReachedNext
<1>3. CASE row.type \notin FuncKinds
  <2>1. e \in Managers /\ e.calls = ev.calls /\ e.stack = ev.stack
    BY <1>1, <1>2, <1>3, DataAdded
  <2> QED
    BY <1>2, <1>3, <2>1
<1>4. CASE row.type = "ENTRY"
  <2>1. row.type \in FuncKinds
    BY <1>4 DEF FuncKinds
  <2>2. e = AddEntry(ev, row)
    BY <1>1, <1>4 DEF AddEvent
  <2>3. e \in Managers /\ CallInv(e.calls, e.stack, row.id, kn, E, X)
    BY <1>2, <1>4, <2>1, <2>2, CallsEntry
  <2> QED
    BY <1>2, <2>1, <2>3
<1>5. CASE row.type = "EXIT"
  <2>1. row.type \in FuncKinds
    BY <1>5 DEF FuncKinds
  <2>2. e = AddExit(ev, row)
    BY <1>1, <1>5 DEF AddEvent
  <2>3. e \in Managers /\ CallInv(e.calls, e.stack, row.id, kn, E, X)
    BY <1>2, <1>5, <2>1, <2>2, CallsExit
  <2> QED
    BY <1>2, <2>1, <2>3
<1> QED
  BY <1>3, <1>4, <1>5 DEF FuncKinds

(* How far the function events were handed over.                            *)
FrontierOf(table) == IF table = <<>> THEN MaxEvents ELSE Head(table).id - 1
Frontier == FrontierOf(func)

LEMMA FrontierIs ==
  ASSUME Written, NEW table, Remains(table, FuncKinds)
  PROVE  /\ FrontierOf(table) \in Nat /\ FrontierOf(table) <= MaxEvents
         /\ \A r \in Range(trace) : r.type \in FuncKinds => (r \in Range(table) <=> FrontierOf(table) < r.id)
<1>1. /\ table \in Seq(Rows) /\ Ordered(table) /\ Range(table) \subseteq {r \in Range(trace) : r.type \in FuncKinds}
      /\ \A r \in Range(trace), q \in Range(table) : r.type \in FuncKinds /\ q.id <= r.id => r \in Range(table)
      /\ trace \in Seq(Rows) /\ Len(trace) <= MaxEvents
      /\ \A k \in DOMAIN trace : trace[k].id = k
  BY DEF Remains, Written
<1>2. MaxEvents \in Nat
  BY ADParserAssumption
<1>3. \A r \in Range(trace) : r.id \in Nat /\ 1 <= r.id /\ r.id <= MaxEvents
  <2>1. \A k \in DOMAIN trace : k \in Nat /\ 1 <= k /\ k <= MaxEvents
    BY <1>1, <1>2
  <2> QED
    BY <1>1, <2>1 DEF Range
<1>4. CASE table = <<>>
  <2>1. FrontierOf(table) = MaxEvents /\ Range(table) = {}
    BY <1>4 DEF FrontierOf, Range
  <2> QED
    BY <1>2, <1>3, <2>1
<1>5. CASE table # <<>>
  <2>1. PICK h : h = Head(table) /\ h \in Range(table)
    <3>1. 1 \in DOMAIN table /\ Head(table) = table[1]
      BY <1>1, <1>5
    <3> QED
      BY <3>1 DEF Range
  <2>2. PICK k \in Nat : k = h.id /\ 1 <= k /\ k <= MaxEvents
    BY <1>1, <1>3, <2>1
  <2>3. FrontierOf(table) = k - 1
    BY <1>5, <2>1, <2>2 DEF FrontierOf
  <2>4. \A r \in Range(table) : r = h \/ h.id < r.id
    BY <1>1, <1>5, <2>1, HeadAndTail
  <2>5. \A r \in Range(trace) : k - 1 < r.id <=> k <= r.id
    BY <1>3, <2>2
  <2>6. \A r \in Range(table) : k <= r.id
    <3>1. \A r \in Range(table) : r.id \in Nat
      BY <1>1, <1>3
    <3> QED
      BY <2>2, <2>4, <3>1
  <2>7. \A r \in Range(trace) : r.type \in FuncKinds => (r \in Range(table) <=> k - 1 < r.id)
    BY <1>1, <2>1, <2>2, <2>5, <2>6
  <2>8. k - 1 \in Nat /\ k - 1 <= MaxEvents
    BY <1>2, <2>2
  <2> QED
    BY <2>3, <2>7, <2>8
<1> QED
  BY <1>4, <1>5

(* The rows a step registers are those it reaches.                          *)
LEMMA StepReaches ==
  ASSUME TraceInv, TraceInv', NEW f \in 0 .. Len(func), NEW c \in 0 .. Len(comm), NEW n \in 0 .. Len(counter),
         IOStep(f, c, n), NEW table \in FuncTables(Taken(func, f)),
         NEW rows, rows = StepRows(Fetched(table), c, n)
  PROVE  /\ Registers(rows)
         /\ Reached(rows, 0, Frontier, Frontier', known')
<1>1. /\ rows \in Seq(Rows)
      /\ Range(rows) = {r \in Range(Taken(func, f)) : r.fid \in known'}
                         \cup Range(Taken(comm, c))
                         \cup {r \in Range(Taken(counter, n)) : r.type \notin Watched}
      /\ \A x, y \in DOMAIN rows : x < y => Woven(rows[x], rows[y])
  BY StepRowsAre
<1>2. /\ func \in Seq(Rows) /\ Ordered(func) /\ Range(func) \subseteq {r \in Range(trace) : r.type \in FuncKinds}
      /\ comm \in Seq(Rows) /\ Range(comm) \subseteq {r \in Range(trace) : r.type \in {"comm"} \cap DataKind}
      /\ counter \in Seq(Rows) /\ Range(counter) \subseteq {r \in Range(trace) : r.type \in CounterKinds}
      /\ trace \in Seq(Rows)
  BY DEF TraceInv, Remains, Written
<1>3. /\ Range(func) = Range(Taken(func, f)) \cup Range(Held(func, f))
      /\ Range(comm) = Range(Taken(comm, c)) \cup Range(Held(comm, c))
      /\ Range(counter) = Range(Taken(counter, n)) \cup Range(Held(counter, n))
  BY <1>2, PartsRange
<1>4. Registers(rows)
  <2>1. Range(rows) \subseteq Range(trace)
    BY <1>1, <1>2, <1>3
  <2> QED
    BY <1>1, <2>1 DEF Registers
<1>5. \A r \in Range(func) : r.id \in Nat
  BY <1>2, RowsIn, RowFields
<1>6. \A a \in Range(Taken(func, f)), b \in Range(Held(func, f)) : a.id < b.id
  BY <1>2, <1>5, OrderedParts
<1>7. PICK m, last : m = Frontier /\ last = Frontier'
  OBVIOUS
<1>8. /\ m \in Nat /\ m <= MaxEvents
      /\ \A r \in Range(trace) : r.type \in FuncKinds => (r \in Range(func) <=> m < r.id)
  BY <1>7, FrontierIs DEF TraceInv, Frontier
<1>9. /\ last \in Nat /\ last <= MaxEvents
      /\ \A r \in Range(trace) : r.type \in FuncKinds => (r \in Range(Held(func, f)) <=> last < r.id)
  <2>1. last = FrontierOf(Held(func, f))
    BY <1>7 DEF IOStep, Frontier, FrontierOf
  <2>2. Remains(Held(func, f), FuncKinds)
    BY HoldRemains DEF TraceInv
  <2> QED
    BY <2>1, <2>2, FrontierIs DEF TraceInv
<1>10. m <= last
  <2>1. CASE Held(func, f) = <<>>
    <3>1. func' = <<>>
      BY <2>1 DEF IOStep
    <3>2. Frontier' = MaxEvents
      BY <3>1 DEF Frontier, FrontierOf
    <3> QED
      BY <1>7, <1>8, <3>2
  <2>2. CASE Held(func, f) # <<>>
    <3>1. PICK h \in Rows : h = Head(Held(func, f)) /\ h \in Range(Held(func, f))
      <4>1. Held(func, f) \in Seq(Rows)
        BY <1>2, TakenAndHeld
      <4>2. 1 \in DOMAIN Held(func, f) /\ Head(Held(func, f)) = Held(func, f)[1]
        BY <2>2, <4>1
      <4>3. Head(Held(func, f)) \in Rows
        BY <4>1, <4>2
      <4> QED
        BY <4>2, <4>3 DEF Range
    <3>2. last = h.id - 1
      <4>1. func' = Held(func, f)
        BY DEF IOStep
      <4> QED
        BY <1>7, <2>2, <3>1, <4>1 DEF Frontier, FrontierOf
    <3>3. m < h.id /\ h.id \in Nat
      BY <1>2, <1>3, <1>5, <1>8, <3>1
    <3> QED
      BY <1>8, <3>2, <3>3
  <2> QED
    BY <2>1, <2>2
<1>11. ASSUME NEW x \in DOMAIN rows, rows[x].type \in FuncKinds
       PROVE  (0 < x <=> m < rows[x].id) /\ rows[x].id <= last /\ rows[x].fid \in known'
  <2>1. PICK r : r = rows[x] /\ r \in Range(rows)
    BY DEF Range
  <2>2. r \in Range(Taken(func, f)) /\ r.fid \in known'
    <3>1. r \notin Range(comm) /\ r \notin Range(counter)
      BY <1>2, <1>11, <2>1, KindsDiffer DEF CounterKinds
    <3> QED
      BY <1>1, <1>3, <2>1, <3>1
  <2>3. r \in Range(func) /\ r \in Range(trace) /\ r.type \in FuncKinds /\ r.id \in Nat
    BY <1>2, <1>3, <1>5, <2>2
  <2>4. r \notin Range(Held(func, f))
    <3>1. ~(r.id < r.id)
      BY <2>3
    <3> QED
      BY <1>6, <2>2, <3>1
  <2>5. 0 < x
    BY <1>1
  <2> QED
    BY <1>8, <1>9, <2>1, <2>2, <2>3, <2>4, <2>5
<1>12. ASSUME NEW r \in Range(trace), r.type \in FuncKinds, m < r.id, r.id <= last, r.fid \in known'
       PROVE  r \in Range(rows)
  <2>1. r \in Range(func)
    BY <1>8, <1>12
  <2>2. ~(last < r.id)
    BY <1>5, <1>9, <1>12, <2>1
  <2>3. r \in Range(Taken(func, f))
    BY <1>3, <1>9, <1>12, <2>1, <2>2
  <2> QED
    BY <1>1, <1>12, <2>3
<1>13. Reached(rows, 0, m, last, known')
  BY <1>8, <1>10, <1>11, <1>12 DEF Reached
<1> QED
  BY <1>4, <1>7, <1>13

CallsStep(i, last, kn, E, X, rows, ev) ==
  \E l : Reached(rows, i, l, last, kn) /\ CallInv(ev.calls, ev.stack, l, kn, E, X)

(* All function events of a step: the calls are those up to its last row.   *)
LEMMA CallsRegistered ==
  ASSUME Written, NEW E, NEW X, ProgIs(E, X), NEW rows, Registers(rows),
         NEW m, NEW last \in Nat, last <= MaxEvents, NEW kn,
         Reached(rows, 0, m, last, kn), EventManager \in Managers, CallInv(calls, stack, m, kn, E, X)
  PROVE  /\ Registered(rows) \in Managers
         /\ CallInv(Registered(rows).calls, Registered(rows).stack, last, kn, E, X)
<1>1. PICK N \in Nat : N = Len(rows) /\ rows \in Seq(Rows)
  BY DEF Registers
<1> DEFINE P == {x \in (0 .. N) \X Managers : CallsStep(x[1], last, kn, E, X, rows, x[2])}
<1>2. <<0, EventManager>> \in P
  <2>1. EventManager.calls = calls /\ EventManager.stack = stack
    BY DEF EventManager
  <2>2. CallsStep(0, last, kn, E, X, rows, EventManager)
    BY <2>1 DEF CallsStep
  <2> QED
    BY <1>1, <2>2
<1>3. ASSUME NEW i \in 0 .. N - 1, NEW ev \in Managers, <<i, ev>> \in P
      PROVE  <<i + 1, AddEvent(ev, rows[i + 1])>> \in P
  <2>1. CallsStep(i, last, kn, E, X, rows, ev)
    BY <1>3
  <2>2. PICK l : Reached(rows, i, l, last, kn) /\ CallInv(ev.calls, ev.stack, l, kn, E, X)
    BY <2>1 DEF CallsStep
  <2>3. PICK e : e = AddEvent(ev, rows[i + 1])
    OBVIOUS
  <2>4. /\ e \in Managers
        /\ \E j : Reached(rows, i + 1, j, last, kn) /\ CallInv(e.calls, e.stack, j, kn, E, X)
    BY <1>1, <2>2, <2>3, CallsNext
  <2>5. CallsStep(i + 1, last, kn, E, X, rows, e)
    BY <2>4 DEF CallsStep
  <2>6. i + 1 \in 0 .. N
    BY <1>1
  <2> QED
    BY <2>3, <2>4, <2>5, <2>6
<1>4. PICK Q : Q = P
  OBVIOUS
<1>5. Q \subseteq (0 .. Len(rows)) \X Managers
  BY <1>1, <1>4
<1>6. <<0, EventManager>> \in Q /\ \A i \in 0 .. Len(rows) - 1, ev \in Managers :
                                     <<i, ev>> \in Q => <<i + 1, AddEvent(ev, rows[i + 1])>> \in Q
  BY <1>1, <1>2, <1>3, <1>4
<1>7. <<N, Registered(rows)>> \in Q
  BY <1>1, <1>5, <1>6, RegisteredReaches
<1>8. PICK e \in Managers : e = Registered(rows) /\ CallsStep(N, last, kn, E, X, rows, e)
  BY <1>4, <1>7
<1>9. PICK l : Reached(rows, N, l, last, kn) /\ CallInv(e.calls, e.stack, l, kn, E, X)
  BY <1>8 DEF CallsStep
<1>10. \A r \in Range(trace) : r.type \in FuncKinds /\ l < r.id /\ r.id <= last => r.fid \notin kn
  <2> SUFFICES ASSUME NEW r \in Range(trace), r.type \in FuncKinds, l < r.id, r.id <= last, r.fid \in kn
               PROVE  FALSE
    OBVIOUS
  <2>1. r \in Range(rows)
    BY <1>9 DEF Reached
  <2>2. PICK x \in DOMAIN rows : r = rows[x]
    BY <2>1 DEF Range
  <2>3. N < x
    BY <1>9, <2>2 DEF Reached
  <2> QED
    BY <1>1, <2>3
<1>11. l \in Nat /\ l <= last /\ e.calls \in Seq(CallRecord)
  BY <1>9 DEF Reached, Managers
<1>12. CallInv(e.calls, e.stack, last, kn, E, X)
  BY <1>9, <1>10, <1>11, CallsDrop
<1> QED
  BY <1>8, <1>12

CallsExact == EventManager \in Managers /\ \E E, X : ProgIs(E, X) /\ CallInv(calls, stack, Frontier, known, E, X)

LEMMA NoCallsYet ==
  ASSUME ProgInv, Untouched
  PROVE  CallsExact
<1>1. PICK E, X : ProgIs(E, X)
  BY DEF ProgInv
<1>2. calls = <<>> /\ stack = <<>> /\ commStack = <<>> /\ counterStack = <<>>
  BY DEF Untouched
<1>3. EventManager \in Managers
  <2>1. <<>> \in Seq(CallRecord) /\ <<>> \in Seq(Nat) /\ <<>> \in Seq(Rows)
    OBVIOUS
  <2> QED
    BY <1>2, <2>1 DEF EventManager, Managers
<1>4. DOMAIN calls = {} /\ DOMAIN stack = {} /\ Range(stack) = {}
  BY <1>2 DEF Range
<1>5. CallInv(calls, stack, Frontier, known, E, X)
  BY <1>4 DEF CallInv, Begun, ByEntry, Ended, Parents, Missed, OpenOnes, Exclusives
<1> QED
  BY <1>1, <1>3, <1>5 DEF CallsExact

(* The calls of one state, seen in the next.                                *)
LEMMA CallsCarry ==
  ASSUME NEW E, NEW X, ProgIs(E, X), UNCHANGED traceVars, NEW ev \in Managers,
         calls' = ev.calls, stack' = ev.stack, commStack' = ev.comm, counterStack' = ev.counter,
         CallInv(ev.calls, ev.stack, Frontier', known', E, X)
  PROVE  CallsExact'
<1>1. ProgIs(E, X)'
  BY ProgInvKept
<1>2. PICK m, kn : m = Frontier' /\ kn = known'
  OBVIOUS
<1>3. PICK cs, st : cs = ev.calls /\ st = ev.stack
  OBVIOUS
<1>4. prog' = prog
  BY DEF traceVars
<1>5. /\ Begun(cs, m, kn, E) /\ ByEntry(cs) /\ Ended(cs, m, X) /\ Parents(cs)
      /\ Missed(cs, m, E) /\ OpenOnes(cs, st) /\ Exclusives(cs)
  BY <1>2, <1>3 DEF CallInv
<1>6. CallInv(calls, stack, Frontier, known, E, X)'
  <2>1. Begun(calls, Frontier, known, E)'
    BY <1>2, <1>3, <1>4, <1>5 DEF Begun
  <2>2. ByEntry(calls)'
    BY <1>3, <1>5 DEF ByEntry
  <2>3. Ended(calls, Frontier, X)'
    BY <1>2, <1>3, <1>4, <1>5 DEF Ended
  <2>4. Parents(calls)'
    BY <1>3, <1>4, <1>5 DEF Parents, Line
  <2>5. Missed(calls, Frontier, E)'
    BY <1>2, <1>3, <1>4, <1>5 DEF Missed
  <2>6. OpenOnes(calls, stack)'
    BY <1>3, <1>5 DEF OpenOnes
  <2>7. Exclusives(calls)'
    BY <1>3, <1>5 DEF Exclusives
  <2> QED
    BY <2>1, <2>2, <2>3, <2>4, <2>5, <2>6, <2>7 DEF CallInv
<1>7. EventManager' \in Managers
  <2>1. ev = [calls |-> ev.calls, stack |-> ev.stack, comm |-> ev.comm, counter |-> ev.counter]
    BY DEF Managers
  <2>2. EventManager' = ev
    BY <2>1 DEF EventManager
  <2> QED
    BY <2>2
<1> QED
  BY <1>1, <1>6, <1>7 DEF CallsExact

LEMMA KnownLonger ==
  ASSUME NEW cs, NEW st, NEW m, NEW kn, NEW more, NEW E, NEW X, CallInv(cs, st, m, kn, E, X), kn \subseteq more
  PROVE  CallInv(cs, st, m, more, E, X)
BY DEF CallInv, Begun

LEMMA CallsIOStep ==
  ASSUME TraceInv, TraceInv', CallsExact,
         NEW f \in 0 .. Len(func), NEW c \in 0 .. Len(comm), NEW n \in 0 .. Len(counter), IOStep(f, c, n)
  PROVE  CallsExact'
<1>1. PICK E, X : ProgIs(E, X) /\ CallInv(calls, stack, Frontier, known, E, X)
  BY DEF CallsExact
<1>2. PICK table \in FuncTables(Taken(func, f)) :
        \E ev \in {EventsOfStep(Fetched(table), Taken(comm, c), Taken(counter, n))} :
           /\ calls' = ev.calls /\ stack' = ev.stack /\ commStack' = ev.comm /\ counterStack' = ev.counter
  BY DEF IOStep
<1>3. PICK rows : rows = StepRows(Fetched(table), c, n)
  OBVIOUS
<1>4. PICK ev : /\ ev = Registered(rows)
                /\ calls' = ev.calls /\ stack' = ev.stack /\ commStack' = ev.comm /\ counterStack' = ev.counter
  BY <1>2, <1>3 DEF EventsOfStep, StepRows
<1>5. PICK kn, last, m : kn = known' /\ last = Frontier' /\ m = Frontier
  OBVIOUS
<1>6. Registers(rows) /\ Reached(rows, 0, m, last, kn)
  BY <1>3, <1>5, StepReaches
<1>7. last \in Nat /\ last <= MaxEvents
  <2>1. last = FrontierOf(Held(func, f))
    BY <1>5 DEF IOStep, Frontier, FrontierOf
  <2>2. Remains(Held(func, f), FuncKinds)
    BY HoldRemains DEF TraceInv
  <2> QED
    BY <2>1, <2>2, FrontierIs DEF TraceInv
<1>8. CallInv(calls, stack, m, kn, E, X)
  BY <1>1, <1>5, KnownLonger DEF IOStep, BeginStep, UpdateAttributes
<1>9. ev \in Managers /\ CallInv(ev.calls, ev.stack, last, kn, E, X)
  BY <1>1, <1>4, <1>6, <1>7, <1>8, CallsRegistered DEF CallsExact, TraceInv
<1>10. UNCHANGED traceVars
  BY DEF IOStep
<1> QED
  BY <1>1, <1>4, <1>5, <1>9, <1>10, CallsCarry

LEMMA CallsKept ==
  ASSUME CallsExact, UNCHANGED <<traceVars, tables, eventVars>>, known \subseteq known'
  PROVE  CallsExact'
<1>1. PICK E, X : ProgIs(E, X) /\ CallInv(calls, stack, Frontier, known, E, X)
  BY DEF CallsExact
<1>2. PICK ev \in Managers : ev = EventManager
  BY DEF CallsExact
<1>3. calls' = ev.calls /\ stack' = ev.stack /\ commStack' = ev.comm /\ counterStack' = ev.counter
  BY <1>2 DEF EventManager, eventVars, dataVars
<1>4. Frontier' = Frontier
  BY DEF Frontier, FrontierOf, tables
<1>5. ev.calls = calls /\ ev.stack = stack
  BY <1>2 DEF EventManager
<1>6. CallInv(ev.calls, ev.stack, Frontier', known', E, X)
  BY <1>1, <1>4, <1>5, KnownLonger
<1>7. UNCHANGED traceVars
  OBVIOUS
<1> QED
  BY <1>1, <1>3, <1>6, <1>7, CallsCarry

LEMMA CallsRight ==
  ASSUME TraceInv, CallsExact
  PROVE  ReconstructionExact
<1>1. PICK E, X : ProgIs(E, X) /\ CallInv(calls, stack, Frontier, known, E, X)
  BY DEF CallsExact
<1>2. PICK m \in Nat : m = Frontier /\ m <= MaxEvents
  BY FrontierIs DEF TraceInv, Frontier
<1>3. /\ Begun(calls, m, known, E) /\ ByEntry(calls) /\ Ended(calls, m, X) /\ Parents(calls)
      /\ Exclusives(calls)
  BY <1>1, <1>2 DEF CallInv
<1>4. Written /\ MaxEvents \in Nat /\ calls \in Seq(CallRecord)
  BY ADParserAssumption DEF TraceInv, CallsExact, EventManager, Managers
<1>5. ASSUME NEW i \in DOMAIN calls, NEW p, p = calls[i].of, NEW waiting,
             waiting = (\E r \in Range(func) : r.type = "EXIT" /\ r.call = p)
      PROVE  calls[i].exit = IF waiting THEN Open ELSE prog[p].exit
  <2>1. p \in DOMAIN prog
    BY <1>3, <1>5 DEF Begun
  <2>2. /\ X[p] \in Nat
        /\ X[p] \in DOMAIN trace \/ (X[p] = Never /\ prog[p].exit = Open)
        /\ X[p] \in DOMAIN trace => trace[X[p]].type = "EXIT" /\ trace[X[p]].call = p
    BY <1>1, <1>4, <2>1, PlacesOf
  <2>3. calls[i].exit = IF X[p] <= m THEN prog[p].exit ELSE Open
    BY <1>3, <1>5 DEF Ended
  <2>4. CASE X[p] = Never /\ prog[p].exit = Open
    BY <2>3, <2>4
  <2>5. CASE X[p] \in DOMAIN trace
    <3>1. PICK x : x = trace[X[p]] /\ x \in Range(trace) /\ x.id = X[p] /\ x.type \in FuncKinds
      BY <1>4, <2>2, <2>5 DEF Written, Range, FuncKinds
    <3>2. x \in Range(func) <=> m < X[p]
      BY <1>2, <3>1, FrontierIs DEF TraceInv, Frontier
    <3>3. x \in Range(func) => waiting
      BY <1>5, <2>2, <2>5, <3>1
    <3>4. waiting => x \in Range(func)
      <4> SUFFICES ASSUME NEW r \in Range(func), r.type = "EXIT", r.call = p PROVE x \in Range(func)
        BY <1>5
      <4>1. r \in Range(trace)
        BY DEF TraceInv, Remains
      <4>2. PICK l \in DOMAIN trace : r = trace[l]
        BY <4>1 DEF Range
      <4>3. l = X[p]
        BY <1>1, <4>2 DEF ProgIs, NoOther
      <4> QED
        BY <3>1, <4>2, <4>3
    <3> QED
      BY <2>2, <2>3, <3>2, <3>3, <3>4
  <2> QED
    BY <2>2, <2>4, <2>5
<1>6. ASSUME NEW i \in DOMAIN calls, NEW L, L = {j \in DOMAIN calls : calls[j].of \in prog[calls[i].of].within}
      PROVE  calls[i].parent = Max({0} \cup L)
  <2>1. PICK S, q : S = {0} \cup L /\ q = calls[i].parent
    OBVIOUS
  <2>2. \A j : j \in L <=> Line(calls, i, j)
    BY <1>6 DEF Line
  <2>3. q \in S
    BY <1>3, <2>1, <2>2 DEF Parents
  <2>4. S \subseteq Nat
    BY <1>4, <1>6, <2>1
  <2>5. \A x \in S : x <= q
    <3>1. \A x \in L : x <= q
      BY <1>3, <1>6, <2>1, <2>2 DEF Parents
    <3>2. 0 <= q
      BY <2>3, <2>4
    <3> QED
      BY <2>1, <3>1, <3>2
  <2>6. Max(S) = q
    BY <2>3, <2>4, <2>5, MaxIs
  <2> QED
    BY <2>1, <2>6
<1>7. CallsAreTheProgramS
  <2> SUFFICES ASSUME NEW i \in DOMAIN calls
               PROVE  LET p == calls[i].of
                          Lines == {j \in DOMAIN calls : calls[j].of \in prog[p].within}
                          waiting == \E r \in Range(func) : r.type = "EXIT" /\ r.call = p
                      IN /\ calls[i].entry = prog[p].entry
                         /\ calls[i].exit = IF waiting THEN Open ELSE prog[p].exit
                         /\ calls[i].parent = Max({0} \cup Lines)
    BY DEF CallsAreTheProgramS
  <2>1. calls[i].entry = prog[calls[i].of].entry
    BY <1>3 DEF Begun
  <2>2. calls[i].exit = IF (\E r \in Range(func) : r.type = "EXIT" /\ r.call = calls[i].of)
                        THEN Open ELSE prog[calls[i].of].exit
    BY <1>5
  <2>3. calls[i].parent = Max({0} \cup {j \in DOMAIN calls : calls[j].of \in prog[calls[i].of].within})
    BY <1>6
  <2> QED
    BY <2>1, <2>2, <2>3
<1>8. ExclusiveTimeExact
  BY <1>3 DEF Exclusives, ExclusiveTimeExact
<1> QED
  BY <1>7, <1>8 DEF ReconstructionExact

THEOREM CallsOfTrace == Spec => [](TraceInv /\ ProgInv /\ CallsExact)
<1>1. ProgInv /\ Untouched => CallsExact
  BY NoCallsYet
<1>2. (ProgInv /\ Untouched => CallsExact)'
  BY <1>1, PTL
<1>3. Init => TraceInv /\ ProgInv /\ CallsExact
  <2> SUFFICES ASSUME Init PROVE TraceInv /\ ProgInv /\ CallsExact
    OBVIOUS
  <2>1. TraceInv /\ ProgInv
    BY TraceInvInit, ProgInvInit
  <2>2. Untouched
    BY <2>1 DEF TraceInv, Init
  <2> QED
    BY <1>1, <2>1, <2>2
<1>4. TraceInv /\ ProgInv /\ CallsExact /\ [Next]_vars => (TraceInv /\ ProgInv /\ CallsExact)'
  <2> SUFFICES ASSUME TraceInv, ProgInv, CallsExact, [Next]_vars
               PROVE  (TraceInv /\ ProgInv /\ CallsExact)'
    OBVIOUS
  <2>1. TraceInv' /\ ProgInv'
    BY TracesStep
  <2>2. ASSUME \E ts \in Times : \/ \E f \in Func : TraceEntry(f, ts)
                                 \/ TraceExit(ts)
                                 \/ \E k \in DataKind : TraceData(k, ts)
        PROVE  CallsExact'
    <3>1. step = -1 /\ running /\ step' = step /\ running' = running
      BY <2>2 DEF TraceEntry, TraceExit, TraceData, Write
    <3>2. Untouched'
      BY <2>1, <3>1 DEF TraceInv
    <3> QED
      BY <1>2, <2>1, <3>2
  <2>3. ASSUME NEW f \in 0 .. Len(func), NEW c \in 0 .. Len(comm), NEW n \in 0 .. Len(counter),
               IOStep(f, c, n)
        PROVE  CallsExact'
    BY <2>1, <2>3, CallsIOStep
  <2>4. ASSUME \/ \E f \in 0 .. Len(func), c \in 0 .. Len(comm), n \in 0 .. Len(counter) :
                    IOStepDisordered(f, c, n)
               \/ EndOfStream
               \/ UNCHANGED vars
        PROVE  CallsExact'
    BY <2>4, TraceInvOther, CallsKept
  <2> QED
    BY <2>1, <2>2, <2>3, <2>4 DEF Next
<1> QED
  BY <1>3, <1>4, PTL DEF Spec

(* Whatever the cuts between IO steps, the rows out of order and the         *)
(* functions whose name comes too late, the calls of ADEvent are calls of   *)
(* the program: their times, their parents and their exclusive times.       *)
THEOREM CallsReconstructed == Spec => []ReconstructionExact
<1>1. TraceInv /\ CallsExact => ReconstructionExact
  BY CallsRight
<1> QED
  BY <1>1, CallsOfTrace, PTL

-----------------------------------------------------------------------------
(* Data events, of one of the two kinds: its stack is s, the calls have      *)
(* theirs.                                                                  *)

Sorts == {"comm", "counter"}
Sort(row) == IF row.type = "comm" THEN "comm" ELSE "counter"
Has(cs, i, sort) == IF sort = "comm" THEN cs[i].messages ELSE cs[i].counters
StackOf(ev, sort) == IF sort = "comm" THEN ev.comm ELSE ev.counter

(* Each of the events in the set all is on the stack or with one call.      *)
Placed(cs, s, sort, all) ==
  /\ s \in Seq(Rows) /\ Ordered(s) /\ Range(s) \subseteq all
  /\ \A i \in DOMAIN cs : Ordered(Has(cs, i, sort)) /\ Range(Has(cs, i, sort)) \subseteq all
  /\ \A d \in all : d \in Range(s) \/ \E i \in DOMAIN cs : d \in Range(Has(cs, i, sort))
  /\ \A i \in DOMAIN cs : \A d \in Range(Has(cs, i, sort)) : d \notin Range(s)
  /\ \A i, j \in DOMAIN cs : \A d \in Range(Has(cs, i, sort)) : d \in Range(Has(cs, j, sort)) => i = j

Inside(d, call) == call.entry < d.ts /\ d.ts < call.exit

(* A call that has not ended has none; what it has is within, and not inside *)
(* of a child; no event on the stack is inside of a call that ended.        *)
Innermost(cs, s, sort) ==
  /\ \A i \in DOMAIN cs : cs[i].exit = Open => Range(Has(cs, i, sort)) = {}
  /\ \A i \in DOMAIN cs : \A d \in Range(Has(cs, i, sort)) : Within(d, cs[i].entry, cs[i].exit)
  /\ \A i, j \in DOMAIN cs : \A d \in Range(Has(cs, i, sort)) : cs[j].parent = i => ~Inside(d, cs[j])
  /\ \A j \in DOMAIN cs : \A d \in Range(s) : ~Inside(d, cs[j])

(* Nothing on the stack is within a call that ended since the calls in old. *)
Claims(cs, s, old) ==
  \A i \in (DOMAIN cs) \ old : cs[i].exit # Open => \A d \in Range(s) : ~Within(d, cs[i].entry, cs[i].exit)

LEMMA ClaimedRight ==
  ASSUME Written, NEW s \in Seq(Rows), Ordered(s), Range(s) \subseteq Range(trace),
         NEW entry \in Int, NEW exit
  PROVE  /\ Claimed(s, entry, exit) \in Seq(Rows) /\ Ordered(Claimed(s, entry, exit))
         /\ Range(Claimed(s, entry, exit)) = {d \in Range(s) : Within(d, entry, exit)}
         /\ Reinserted(s, entry, exit) \in Seq(Rows) /\ Ordered(Reinserted(s, entry, exit))
         /\ Range(Reinserted(s, entry, exit)) = {d \in Range(s) : ~Within(d, entry, exit)}
<1>1. PICK b : b = Bottom(s, entry)
  OBVIOUS
<1>2. /\ b \in 0 .. Len(s)
      /\ b # 0 => b \in DOMAIN s /\ s[b].ts < entry
  BY <1>1, BottomIs
<1>3. PICK t \in Seq(Rows), h \in Seq(Rows) : t = Taken(s, b) /\ h = Held(s, b)
  <2>1. Taken(s, b) \in Seq(Rows) /\ Held(s, b) \in Seq(Rows)
    BY <1>2, TakenAndHeld
  <2> QED
    BY <2>1
<1>4. /\ Claimed(s, entry, exit) \in Seq(Rows) /\ Reinserted(s, entry, exit) \in Seq(Rows)
      /\ Range(Claimed(s, entry, exit)) = {d \in Range(h) : Within(d, entry, exit)}
      /\ Range(Reinserted(s, entry, exit)) = Range(t) \cup {d \in Range(h) : ~Within(d, entry, exit)}
      /\ Range(s) = Range(t) \cup Range(h)
  BY <1>1, <1>3, ClaimedIs
<1>5. \A r \in Range(s) : r.id \in Nat /\ r.ts \in Int
  BY RowsIn, RowFields
<1>6. /\ Ordered(t) /\ Ordered(h)
      /\ \A x \in Range(t), y \in Range(h) : x.id < y.id
  BY <1>2, <1>3, <1>5, OrderedParts
<1>7. ASSUME NEW d \in Range(t) PROVE d.ts < entry
  <2>1. PICK i \in 1 .. b : d = s[i]
    <3>1. Len(t) = b /\ \A i \in 1 .. b : t[i] = s[i]
      BY <1>2, <1>3, TakenAndHeld
    <3>2. DOMAIN t = 1 .. b
      BY <1>2, <3>1
    <3> QED
      BY <3>1, <3>2 DEF Range
  <2>2. b \in DOMAIN s /\ s[b].ts < entry /\ i \in DOMAIN s
    BY <1>2, <2>1
  <2>3. s[b] \in Range(s) /\ s[i] \in Range(s)
    BY <2>2 DEF Range
  <2>4. i = b \/ i < b
    BY <1>2, <2>1
  <2>5. s[i].ts <= s[b].ts
    <3>1. CASE i = b
      BY <1>5, <2>3, <3>1
    <3>2. CASE i < b
      <4>1. s[i].id < s[b].id
        BY <2>2, <3>2 DEF Ordered
      <4> QED
        BY <2>3, <4>1, Earlier
    <3> QED
      BY <2>4, <3>1, <3>2
  <2> QED
    BY <1>5, <2>1, <2>2, <2>3, <2>5
<1>8. \A d \in Range(t) : ~Within(d, entry, exit)
  <2>1. \A d \in Range(t) : ~(entry <= d.ts)
    BY <1>4, <1>5, <1>7
  <2> QED
    BY <2>1 DEF Within
<1>9. PICK In, Out : /\ In = {d \in Range(s) : Within(d, entry, exit)}
                     /\ Out = {d \in Range(s) : ~Within(d, entry, exit)}
  OBVIOUS
<1>10. Claimed(s, entry, exit) = Only(h, In) /\ Reinserted(s, entry, exit) = t \o Only(h, Out)
  BY <1>1, <1>3, <1>9 DEF Claimed, Reinserted, Popped, Held
<1>11. PICK o \in Seq(Rows) : o = Only(h, Out) /\ Ordered(o) /\ Range(o) \subseteq Range(h)
  <2>1. Only(h, Out) \in Seq(Rows) /\ Range(Only(h, Out)) = Range(h) \cap Out
    BY OnlyRange
  <2>2. Ordered(Only(h, Out))
    BY <1>6, OnlyOrdered
  <2> QED
    BY <2>1, <2>2
<1>12. Ordered(t \o o)
  BY <1>6, <1>11, ConcatOrdered
<1>13. Ordered(Only(h, In))
  BY <1>6, OnlyOrdered
<1>14. Range(Claimed(s, entry, exit)) = {d \in Range(s) : Within(d, entry, exit)}
  BY <1>4, <1>8
<1>15. Range(Reinserted(s, entry, exit)) = {d \in Range(s) : ~Within(d, entry, exit)}
  BY <1>4, <1>8
<1> QED
  BY <1>4, <1>10, <1>11, <1>12, <1>13, <1>14, <1>15

(* A call that begins has no data events.                                   *)
LEMMA PlacedEntry ==
  ASSUME NEW cs \in Seq(CallRecord), NEW call \in CallRecord,
         call.exit = Open, call.messages = <<>>, call.counters = <<>>,
         NEW s, NEW sort, NEW all \in SUBSET Rows, NEW old,
         Placed(cs, s, sort, all), Innermost(cs, s, sort), Claims(cs, s, old)
  PROVE  /\ Placed(Append(cs, call), s, sort, all) /\ Innermost(Append(cs, call), s, sort)
         /\ Claims(Append(cs, call), s, old)
<1>1. PICK n \in Nat, ds \in Seq(CallRecord) : n = Len(cs) /\ ds = Append(cs, call)
  <2>1. Len(cs) \in Nat /\ Append(cs, call) \in Seq(CallRecord)
    OBVIOUS
  <2> QED
    BY <2>1
<1>2. /\ DOMAIN cs = 1 .. n /\ DOMAIN ds = 1 .. n + 1 /\ ds[n + 1] = call
      /\ \A i \in 1 .. n : ds[i] = cs[i]
  BY <1>1
<1>3. \A i \in DOMAIN ds : i \in DOMAIN cs \/ i = n + 1
  BY <1>2
<1>4. \A i \in DOMAIN cs : i \in DOMAIN ds /\ ds[i] = cs[i] /\ Has(ds, i, sort) = Has(cs, i, sort)
  BY <1>2 DEF Has
<1>5. Has(ds, n + 1, sort) = <<>> /\ Range(Has(ds, n + 1, sort)) = {} /\ ds[n + 1].exit = Open
  BY <1>2 DEF Has, Range
<1>6. Ordered(Has(ds, n + 1, sort))
  BY <1>5 DEF Ordered
<1>7. Placed(ds, s, sort, all)
  BY <1>3, <1>4, <1>5, <1>6 DEF Placed
<1>8. \A d \in all : ~Inside(d, ds[n + 1])
  <2>1. \A d \in all : ~(d.ts < Open)
    BY RowFields DEF Open
  <2> QED
    BY <1>5, <2>1 DEF Inside
<1>9. Innermost(ds, s, sort)
  <2>1. \A i \in DOMAIN ds : ds[i].exit = Open => Range(Has(ds, i, sort)) = {}
    BY <1>3, <1>4, <1>5 DEF Innermost
  <2>2. \A i \in DOMAIN ds : \A d \in Range(Has(ds, i, sort)) : Within(d, ds[i].entry, ds[i].exit)
    BY <1>3, <1>4, <1>5 DEF Innermost
  <2>3. \A i, j \in DOMAIN ds : \A d \in Range(Has(ds, i, sort)) : ds[j].parent = i => ~Inside(d, ds[j])
    <3> SUFFICES ASSUME NEW i \in DOMAIN ds, NEW j \in DOMAIN ds, NEW d \in Range(Has(ds, i, sort)), ds[j].parent = i
                 PROVE  ~Inside(d, ds[j])
      OBVIOUS
    <3>1. i \in DOMAIN cs /\ d \in Range(Has(cs, i, sort))
      BY <1>3, <1>4, <1>5
    <3>2. d \in all
      BY <3>1 DEF Placed
    <3> QED
      BY <1>3, <1>4, <1>8, <3>1, <3>2 DEF Innermost
  <2>4. \A j \in DOMAIN ds : \A d \in Range(s) : ~Inside(d, ds[j])
    <3>1. Range(s) \subseteq all
      BY DEF Placed
    <3> QED
      BY <1>3, <1>4, <1>8, <3>1 DEF Innermost
  <2> QED
    BY <2>1, <2>2, <2>3, <2>4 DEF Innermost
<1>10. Claims(ds, s, old)
  BY <1>3, <1>4, <1>5 DEF Claims
<1> QED
  BY <1>1, <1>7, <1>9, <1>10

(* A call that ends takes its own.                                          *)
LEMMA PlacedExit ==
  ASSUME Written, NEW cs \in Seq(CallRecord), NEW c \in DOMAIN cs, cs[c].exit = Open,
         NEW ds, NEW ts \in 0 .. MaxTime, NEW mc, NEW mn, Closed(cs, ds, c, ts, mc, mn),
         NEW sort, NEW s, NEW all, all \subseteq Range(trace), NEW old,
         Has(ds, c, sort) = Claimed(s, cs[c].entry, ts),
         cs[c].parent # c, cs[c].parent \in DOMAIN cs => cs[cs[c].parent].exit = Open,
         Placed(cs, s, sort, all), Innermost(cs, s, sort), Claims(cs, s, old)
  PROVE  /\ Placed(ds, Reinserted(s, cs[c].entry, ts), sort, all)
         /\ Innermost(ds, Reinserted(s, cs[c].entry, ts), sort)
         /\ Claims(ds, Reinserted(s, cs[c].entry, ts), old)
<1>1. PICK entry \in Int : entry = cs[c].entry
  <2>1. cs[c] \in CallRecord
    OBVIOUS
  <2>2. cs[c].entry \in Int
    BY <2>1, ADParserAssumption DEF CallRecord
  <2> QED
    BY <2>2
<1>2. /\ s \in Seq(Rows) /\ Ordered(s) /\ Range(s) \subseteq all
      /\ \A i \in DOMAIN cs : Ordered(Has(cs, i, sort)) /\ Range(Has(cs, i, sort)) \subseteq all
      /\ \A d \in all : d \in Range(s) \/ \E i \in DOMAIN cs : d \in Range(Has(cs, i, sort))
      /\ \A i \in DOMAIN cs : \A d \in Range(Has(cs, i, sort)) : d \notin Range(s)
      /\ \A i, j \in DOMAIN cs : \A d \in Range(Has(cs, i, sort)) : d \in Range(Has(cs, j, sort)) => i = j
  BY DEF Placed
<1>3. PICK u, w : u = Claimed(s, entry, ts) /\ w = Reinserted(s, entry, ts)
  OBVIOUS
<1>4. /\ u \in Seq(Rows) /\ Ordered(u) /\ Range(u) = {d \in Range(s) : Within(d, entry, ts)}
      /\ w \in Seq(Rows) /\ Ordered(w) /\ Range(w) = {d \in Range(s) : ~Within(d, entry, ts)}
  <2>1. Range(s) \subseteq Range(trace)
    BY <1>2
  <2> QED
    BY <1>2, <1>3, <2>1, ClaimedRight
<1>5. /\ DOMAIN ds = DOMAIN cs
      /\ \A i \in DOMAIN cs : ds[i].entry = cs[i].entry /\ ds[i].parent = cs[i].parent
      /\ \A i \in DOMAIN cs : i # c => ds[i].exit = cs[i].exit /\ Has(ds, i, sort) = Has(cs, i, sort)
      /\ ds[c].exit = ts /\ ds[c].entry = entry /\ Has(ds, c, sort) = u
  BY <1>1, <1>3 DEF Closed, Has
<1>6. Range(Has(cs, c, sort)) = {}
  BY DEF Innermost
<1>7. Placed(ds, w, sort, all)
  <2>1. Range(w) \subseteq all
    BY <1>2, <1>4
  <2>2. ASSUME NEW i \in DOMAIN ds
        PROVE  /\ Ordered(Has(ds, i, sort)) /\ Range(Has(ds, i, sort)) \subseteq all
               /\ \A d \in Range(Has(ds, i, sort)) : d \notin Range(w)
    <3>1. CASE i = c
      BY <1>2, <1>4, <1>5, <3>1
    <3>2. CASE i # c
      BY <1>2, <1>4, <1>5, <3>2
    <3> QED
      BY <3>1, <3>2
  <2>3. ASSUME NEW d \in all
        PROVE  d \in Range(w) \/ \E i \in DOMAIN ds : d \in Range(Has(ds, i, sort))
    <3>1. CASE d \in Range(s)
      <4>1. d \in Range(w) \/ d \in Range(u)
        BY <1>4, <3>1
      <4> QED
        BY <1>5, <4>1
    <3>2. CASE d \notin Range(s)
      <4>1. PICK i \in DOMAIN cs : d \in Range(Has(cs, i, sort))
        BY <1>2, <3>2
      <4>2. i # c
        BY <1>6, <4>1
      <4> QED
        BY <1>5, <4>1, <4>2
    <3> QED
      BY <3>1, <3>2
  <2>4. ASSUME NEW i \in DOMAIN ds, NEW j \in DOMAIN ds, NEW d \in Range(Has(ds, i, sort)), d \in Range(Has(ds, j, sort))
        PROVE  i = j
    <3>1. CASE i # c /\ j # c
      BY <1>2, <1>5, <2>4, <3>1
    <3>2. CASE i = c /\ j # c
      <4>1. d \in Range(s) /\ d \in Range(Has(cs, j, sort))
        BY <1>4, <1>5, <2>4, <3>2
      <4> QED
        BY <1>2, <1>5, <4>1
    <3>3. CASE i # c /\ j = c
      <4>1. d \in Range(s) /\ d \in Range(Has(cs, i, sort))
        BY <1>4, <1>5, <2>4, <3>3
      <4> QED
        BY <1>2, <1>5, <4>1
    <3> QED
      BY <3>1, <3>2, <3>3
  <2> QED
    BY <1>4, <2>1, <2>2, <2>3, <2>4 DEF Placed
<1>8. \A d \in Rows : d.ts \in Int
  BY RowFields
<1>9. Range(s) \subseteq Rows
  BY <1>2, RowsIn
<1>10. Innermost(ds, w, sort)
  <2>1. ASSUME NEW i \in DOMAIN ds, ds[i].exit = Open PROVE Range(Has(ds, i, sort)) = {}
    <3>1. i # c
      BY <1>5, <2>1 DEF Open
    <3> QED
      BY <1>5, <2>1, <3>1 DEF Innermost
  <2>2. ASSUME NEW i \in DOMAIN ds, NEW d \in Range(Has(ds, i, sort))
        PROVE  Within(d, ds[i].entry, ds[i].exit)
    <3>1. CASE i = c
      BY <1>4, <1>5, <2>2, <3>1
    <3>2. CASE i # c
      BY <1>5, <2>2, <3>2 DEF Innermost
    <3> QED
      BY <3>1, <3>2
  <2>3. ASSUME NEW j \in DOMAIN ds, NEW d \in Range(w) PROVE ~Inside(d, ds[j])
    <3>1. CASE j = c
      <4>1. d.ts \in Int /\ ~Within(d, entry, ts)
        BY <1>4, <1>8, <1>9
      <4> QED
        BY <1>5, <3>1, <4>1 DEF Within, Inside
    <3>2. CASE j # c
      <4>1. ~Inside(d, cs[j])
        BY <1>4, <1>5 DEF Innermost
      <4> QED
        BY <1>5, <3>2, <4>1 DEF Inside
    <3> QED
      BY <3>1, <3>2
  <2>4. ASSUME NEW i \in DOMAIN ds, NEW j \in DOMAIN ds, NEW d \in Range(Has(ds, i, sort)), ds[j].parent = i
        PROVE  ~Inside(d, ds[j])
    <3>1. cs[j].parent = i
      BY <1>5, <2>4
    <3>2. CASE j = c
      <4>1. i # c /\ cs[i].exit = Open
        BY <1>5, <3>1, <3>2
      <4>2. Range(Has(cs, i, sort)) = {}
        BY <1>5, <4>1 DEF Innermost
      <4> QED
        BY <1>5, <2>4, <4>1, <4>2
    <3>3. CASE j # c
      <4>1. CASE i = c
        <5>1. d \in Range(s)
          BY <1>4, <1>5, <4>1
        <5>2. ~Inside(d, cs[j])
          BY <1>5, <5>1 DEF Innermost
        <5> QED
          BY <1>5, <3>3, <5>2 DEF Inside
      <4>2. CASE i # c
        <5>1. ~Inside(d, cs[j])
          BY <1>5, <3>1, <4>2 DEF Innermost
        <5> QED
          BY <1>5, <3>3, <5>1 DEF Inside
      <4> QED
        BY <4>1, <4>2
    <3> QED
      BY <3>2, <3>3
  <2> QED
    BY <2>1, <2>2, <2>3, <2>4 DEF Innermost
<1>11. Claims(ds, w, old)
  <2> SUFFICES ASSUME NEW i \in (DOMAIN ds) \ old, ds[i].exit # Open, NEW d \in Range(w)
               PROVE  ~Within(d, ds[i].entry, ds[i].exit)
    BY DEF Claims
  <2>1. CASE i = c
    BY <1>4, <1>5, <2>1
  <2>2. CASE i # c
    BY <1>4, <1>5, <2>2 DEF Claims
  <2> QED
    BY <2>1, <2>2
<1> QED
  BY <1>1, <1>3, <1>7, <1>10, <1>11

(* A data event comes after all that ended.                                 *)
LEMMA PlacedData ==
  ASSUME NEW cs \in Seq(CallRecord), NEW s, NEW sort, NEW all \in SUBSET Rows, NEW old, NEW d \in Rows,
         \A x \in all : x.id < d.id,
         \A j \in DOMAIN cs : cs[j].exit # Open => cs[j].exit <= d.ts /\ (j \notin old => cs[j].exit < d.ts),
         Placed(cs, s, sort, all), Innermost(cs, s, sort), Claims(cs, s, old)
  PROVE  /\ Placed(cs, Append(s, d), sort, all \cup {d}) /\ Innermost(cs, Append(s, d), sort)
         /\ Claims(cs, Append(s, d), old)
<1>1. /\ s \in Seq(Rows) /\ Ordered(s) /\ Range(s) \subseteq all
      /\ \A i \in DOMAIN cs : Ordered(Has(cs, i, sort)) /\ Range(Has(cs, i, sort)) \subseteq all
      /\ \A x \in all : x \in Range(s) \/ \E i \in DOMAIN cs : x \in Range(Has(cs, i, sort))
      /\ \A i \in DOMAIN cs : \A x \in Range(Has(cs, i, sort)) : x \notin Range(s)
      /\ \A i, j \in DOMAIN cs : \A x \in Range(Has(cs, i, sort)) : x \in Range(Has(cs, j, sort)) => i = j
  BY DEF Placed
<1>2. PICK w : w = Append(s, d)
  OBVIOUS
<1>3. w \in Seq(Rows) /\ Range(w) = Range(s) \cup {d}
  BY <1>1, <1>2, AppendRange
<1>4. Ordered(w)
  BY <1>1, <1>2, AppendOrdered
<1>5. d \notin all
  <2>1. ~(d.id < d.id)
    BY RowFields
  <2> QED
    BY <2>1
<1>6. Placed(cs, w, sort, all \cup {d})
  <2>1. /\ Range(w) \subseteq all \cup {d}
        /\ \A i \in DOMAIN cs : Ordered(Has(cs, i, sort)) /\ Range(Has(cs, i, sort)) \subseteq all \cup {d}
    BY <1>1, <1>3
  <2>2. \A x \in all \cup {d} : x \in Range(w) \/ \E i \in DOMAIN cs : x \in Range(Has(cs, i, sort))
    BY <1>1, <1>3
  <2>3. \A i \in DOMAIN cs : \A x \in Range(Has(cs, i, sort)) : x \notin Range(w)
    BY <1>1, <1>3, <1>5
  <2> QED
    BY <1>1, <1>3, <1>4, <2>1, <2>2, <2>3 DEF Placed
<1>7. \A j \in DOMAIN cs : cs[j].exit = Open \/ cs[j].exit \in Int
  <2>1. \A j \in DOMAIN cs : cs[j] \in CallRecord
    OBVIOUS
  <2> QED
    BY <2>1 DEF CallRecord
<1>8. d.ts \in Int /\ 0 <= d.ts
  BY RowFields
<1>9. \A j \in DOMAIN cs : ~Inside(d, cs[j])
  <2> SUFFICES ASSUME NEW j \in DOMAIN cs, Inside(d, cs[j]) PROVE FALSE
    OBVIOUS
  <2>1. d.ts < cs[j].exit
    BY DEF Inside
  <2>2. CASE cs[j].exit = Open
    BY <1>8, <2>1, <2>2 DEF Open
  <2>3. CASE cs[j].exit # Open
    <3>1. cs[j].exit <= d.ts /\ cs[j].exit \in Int
      BY <1>7, <2>3
    <3> QED
      BY <1>8, <2>1, <3>1
  <2> QED
    BY <2>2, <2>3
<1>10. Innermost(cs, w, sort)
  BY <1>3, <1>9 DEF Innermost
<1>11. Claims(cs, w, old)
  <2> SUFFICES ASSUME NEW i \in (DOMAIN cs) \ old, cs[i].exit # Open
               PROVE  ~Within(d, cs[i].entry, cs[i].exit)
    BY <1>3 DEF Claims
  <2>1. cs[i].exit < d.ts /\ cs[i].exit \in Int
    BY <1>7
  <2> QED
    BY <1>8, <2>1 DEF Within
<1> QED
  BY <1>2, <1>6, <1>10, <1>11

(* What holds of the data events of one kind: all is those handed over, old *)
(* the calls that had ended before the step.                                *)
DataRight(ev, sort, all, old) ==
  /\ Placed(ev.calls, StackOf(ev, sort), sort, all)
  /\ Innermost(ev.calls, StackOf(ev, sort), sort)
  /\ Claims(ev.calls, StackOf(ev, sort), old)

LEMMA RightEntry ==
  ASSUME NEW ev \in Managers, NEW row \in Rows, row.fid \in Func, NEW e, e = AddEntry(ev, row),
         NEW sort \in Sorts, NEW all \in SUBSET Rows, NEW old, DataRight(ev, sort, all, old)
  PROVE  DataRight(e, sort, all, old)
<1>1. PICK call \in CallRecord : call = NewCall(ev, row)
  BY EntryIs
<1>2. call.exit = Open /\ call.messages = <<>> /\ call.counters = <<>>
  BY <1>1 DEF NewCall
<1>3. PICK cs \in Seq(CallRecord) : cs = ev.calls
  BY DEF Managers
<1>4. e.calls = Append(cs, call) /\ e.comm = ev.comm /\ e.counter = ev.counter
  BY <1>1, <1>3, EntryIs
<1>5. PICK s : s = StackOf(ev, sort) /\ s = StackOf(e, sort)
  BY <1>4 DEF StackOf
<1>6. Placed(cs, s, sort, all) /\ Innermost(cs, s, sort) /\ Claims(cs, s, old)
  BY <1>3, <1>5 DEF DataRight
<1>7. /\ Placed(Append(cs, call), s, sort, all) /\ Innermost(Append(cs, call), s, sort)
      /\ Claims(Append(cs, call), s, old)
  BY <1>2, <1>6, PlacedEntry
<1> QED
  BY <1>4, <1>5, <1>7 DEF DataRight

(* The parent of a call that ends is open.                                  *)
LEMMA ParentOpen ==
  ASSUME Written, NEW E, NEW X, ProgIs(E, X), NEW cs \in Seq(CallRecord), NEW st, NEW kn, NEW k \in DOMAIN trace,
         CallInv(cs, st, k - 1, kn, E, X),
         NEW c \in DOMAIN cs, trace[k].type = "EXIT", cs[c].of = trace[k].call
  PROVE  cs[c].parent # c /\ (cs[c].parent \in DOMAIN cs => cs[cs[c].parent].exit = Open)
<1>1. k \in Nat /\ k <= Len(trace) /\ Len(trace) <= MaxEvents /\ MaxEvents \in Nat
  BY ADParserAssumption DEF Written
<1>2. PICK p \in DOMAIN prog : p = cs[c].of /\ X[p] = k
  BY DEF ProgIs, NoOther
<1>3. PICK q : q = cs[c].parent
  OBVIOUS
<1>4. /\ \A i \in DOMAIN cs : cs[i].exit = IF X[cs[i].of] <= k - 1 THEN prog[cs[i].of].exit ELSE Open
      /\ q = 0 \/ Line(cs, c, q)
  BY <1>3 DEF CallInv, Ended, Parents
<1>5. CASE q = 0
  <2>1. 0 \notin DOMAIN cs
    OBVIOUS
  <2> QED
    BY <1>3, <1>5, <2>1
<1>6. CASE Line(cs, c, q)
  <2>1. PICK o : o = cs[q].of /\ q \in DOMAIN cs /\ o \in prog[p].within
    BY <1>2, <1>6 DEF Line
  <2>2. o \in DOMAIN prog /\ o < p /\ (X[p] < X[o] \/ (X[p] = Never /\ X[o] = Never))
    BY <2>1 DEF ProgIs, Nested
  <2>3. X \in [DOMAIN prog -> Nat] /\ DOMAIN prog \subseteq Nat
    BY DEF ProgIs
  <2>4. X[o] \in Nat /\ o \in Nat /\ p \in Nat
    BY <2>2, <2>3
  <2>5. X[p] # Never
    BY <1>1, <1>2 DEF Never
  <2>6. ~(X[o] <= k - 1)
    BY <1>1, <1>2, <2>2, <2>4, <2>5
  <2>7. q # c
    BY <1>2, <2>1, <2>2, <2>4
  <2>8. cs[q].exit = Open
    BY <1>4, <2>1, <2>6
  <2> QED
    BY <1>3, <2>7, <2>8
<1> QED
  BY <1>4, <1>5, <1>6

LEMMA RightExit ==
  ASSUME Written, NEW E, NEW X, ProgIs(E, X), NEW ev \in Managers, NEW kn, NEW k \in DOMAIN trace,
         CallInv(ev.calls, ev.stack, k - 1, kn, E, X),
         NEW row, row = trace[k], row.type = "EXIT", NEW e, e = AddExit(ev, row),
         NEW sort \in Sorts, NEW all, all \subseteq Range(trace), NEW old, DataRight(ev, sort, all, old)
  PROVE  DataRight(e, sort, all, old)
<1>1. row \in Rows
  BY DEF Written
<1>2. \/ Closes(ev, row, Last(ev.stack))
      \/ e = ev
  BY ExitFinds
<1>3. CASE e = ev
  BY <1>3
<1>4. CASE Closes(ev, row, Last(ev.stack))
  <2>1. PICK c, entry : c = Last(ev.stack) /\ Closes(ev, row, c) /\ entry = ev.calls[c].entry
    BY <1>4
  <2>2. /\ Closed(ev.calls, e.calls, c, row.ts, Claimed(ev.comm, entry, row.ts), Claimed(ev.counter, entry, row.ts))
        /\ e.comm = Reinserted(ev.comm, entry, row.ts)
        /\ e.counter = Reinserted(ev.counter, entry, row.ts)
    BY <1>1, <2>1, ExitIs
  <2>3. PICK cs, ds, mc, mn :
          /\ cs = ev.calls /\ ds = e.calls /\ cs \in Seq(CallRecord)
          /\ mc = Claimed(ev.comm, entry, row.ts) /\ mn = Claimed(ev.counter, entry, row.ts)
    BY DEF Managers
  <2>4. c \in DOMAIN cs /\ cs[c].exit = Open /\ cs[c].of = row.call /\ entry = cs[c].entry
    BY <2>1, <2>3 DEF Closes
  <2>5. PICK ts \in 0 .. MaxTime : ts = row.ts
    BY <1>1, RowFields
  <2>6. Closed(cs, ds, c, ts, mc, mn)
    BY <2>2, <2>3, <2>5
  <2>7. PICK s : s = StackOf(ev, sort)
    OBVIOUS
  <2>8. Has(ds, c, sort) = Claimed(s, cs[c].entry, ts)
    BY <2>3, <2>4, <2>5, <2>6, <2>7 DEF Closed, Has, StackOf
  <2>9. StackOf(e, sort) = Reinserted(s, cs[c].entry, ts)
    BY <2>2, <2>4, <2>5, <2>7 DEF StackOf
  <2>10. cs[c].parent # c /\ (cs[c].parent \in DOMAIN cs => cs[cs[c].parent].exit = Open)
    BY <2>3, <2>4, ParentOpen
  <2>11. Placed(cs, s, sort, all) /\ Innermost(cs, s, sort) /\ Claims(cs, s, old)
    BY <2>3, <2>7 DEF DataRight
  <2>12. /\ Placed(ds, Reinserted(s, cs[c].entry, ts), sort, all)
         /\ Innermost(ds, Reinserted(s, cs[c].entry, ts), sort)
         /\ Claims(ds, Reinserted(s, cs[c].entry, ts), old)
    BY <2>3, <2>4, <2>6, <2>8, <2>10, <2>11, PlacedExit
  <2> QED
    BY <2>3, <2>9, <2>12 DEF DataRight
<1> QED
  BY <1>2, <1>3, <1>4

(* An event of the other kind leaves those of this one alone.               *)
LEMMA RightData ==
  ASSUME NEW ev \in Managers, NEW row \in Rows, row.type \notin FuncKinds, NEW e, e = AddEvent(ev, row),
         NEW sort \in Sorts, NEW all \in SUBSET Rows, NEW old, DataRight(ev, sort, all, old),
         \A x \in all : Sort(row) = sort => x.id < row.id,
         \A j \in DOMAIN ev.calls : ev.calls[j].exit # Open =>
            ev.calls[j].exit <= row.ts /\ (j \notin old => ev.calls[j].exit < row.ts)
  PROVE  DataRight(e, sort, IF Sort(row) = sort THEN all \cup {row} ELSE all, old)
<1>1. /\ e.calls = ev.calls
      /\ row.type = "comm" => e.comm = Append(ev.comm, row) /\ e.counter = ev.counter
      /\ row.type # "comm" => e.comm = ev.comm /\ e.counter = Append(ev.counter, row)
  BY DataAdded
<1>2. PICK cs, s : cs = ev.calls /\ s = StackOf(ev, sort) /\ cs \in Seq(CallRecord)
  BY DEF Managers
<1>3. CASE Sort(row) = sort
  <2>1. StackOf(e, sort) = Append(s, row)
    BY <1>1, <1>2, <1>3 DEF StackOf, Sort
  <2>2. Placed(cs, s, sort, all) /\ Innermost(cs, s, sort) /\ Claims(cs, s, old)
    BY <1>2 DEF DataRight
  <2>3. \A x \in all : x.id < row.id
    BY <1>3
  <2>4. \A j \in DOMAIN cs : cs[j].exit # Open => cs[j].exit <= row.ts /\ (j \notin old => cs[j].exit < row.ts)
    BY <1>2
  <2>5. /\ Placed(cs, Append(s, row), sort, all \cup {row}) /\ Innermost(cs, Append(s, row), sort)
        /\ Claims(cs, Append(s, row), old)
    BY <1>2, <2>2, <2>3, <2>4, PlacedData
  <2> QED
    BY <1>1, <1>2, <1>3, <2>1, <2>5 DEF DataRight
<1>4. CASE Sort(row) # sort
  <2>1. StackOf(e, sort) = StackOf(ev, sort)
    BY <1>1, <1>4 DEF StackOf, Sort, Sorts
  <2> QED
    BY <1>1, <1>4, <2>1 DEF DataRight
<1> QED
  BY <1>3, <1>4

(* The data events there are once the first i rows of a step are done, base *)
(* those of before.                                                         *)
DataOf(rows, i, base, sort) ==
  {d \in base : Sort(d) = sort} \cup
  {rows[x] : x \in {x \in 1 .. i : rows[x].type \notin FuncKinds /\ Sort(rows[x]) = sort}}

(* The rows of a step come after what was handed over: m is the last        *)
(* function event of the steps before.                                      *)
StepFollows(rows, m, base) ==
  /\ base \subseteq Range(trace)
  /\ \A d \in base, x \in DOMAIN rows :
       rows[x].type \notin FuncKinds /\ Sort(d) = Sort(rows[x]) => d.id < rows[x].id
  /\ \A r \in Range(trace), x \in DOMAIN rows :
       r.type \in FuncKinds /\ r.id <= m /\ rows[x].type \notin FuncKinds => r.ts <= rows[x].ts

(* Calls that had not ended before end in this step or later.               *)
Fresh(cs, m, old, X) == \A i \in (DOMAIN cs) \ old : m < X[cs[i].of]

Joined(all, row, sort) == IF row.type \notin FuncKinds /\ Sort(row) = sort THEN all \cup {row} ELSE all

LEMMA DataOfNext ==
  ASSUME NEW rows, NEW i \in Nat, NEW j, j = i + 1, NEW base, NEW sort, NEW row, row = rows[j]
  PROVE  DataOf(rows, j, base, sort) = Joined(DataOf(rows, i, base, sort), row, sort)
<1>1. \A x : x \in 1 .. i + 1 <=> x \in 1 .. i \/ x = i + 1
  OBVIOUS
<1>2. PICK S : S = {x \in 1 .. i : rows[x].type \notin FuncKinds /\ Sort(rows[x]) = sort}
  OBVIOUS
<1>3. PICK T : T = {x \in 1 .. i + 1 : rows[x].type \notin FuncKinds /\ Sort(rows[x]) = sort}
  OBVIOUS
<1>4. T = IF row.type \notin FuncKinds /\ Sort(row) = sort THEN S \cup {i + 1} ELSE S
  BY <1>1, <1>2, <1>3
<1>5. {rows[x] : x \in S \cup {i + 1}} = {rows[x] : x \in S} \cup {row}
  OBVIOUS
<1> QED
  BY <1>2, <1>3, <1>4, <1>5 DEF DataOf, Joined

(* All rows so far are of the trace.                                        *)
LEMMA DataOfRows ==
  ASSUME Written, NEW rows, Registers(rows), NEW m, NEW base, StepFollows(rows, m, base),
         NEW i \in 0 .. Len(rows), NEW sort
  PROVE  DataOf(rows, i, base, sort) \subseteq Range(trace) /\ DataOf(rows, i, base, sort) \in SUBSET Rows
<1>1. Range(trace) \subseteq Rows
  BY RowsIn DEF Written
<1>2. \A x \in 1 .. i : rows[x] \in Range(trace)
  <2>1. \A x \in DOMAIN rows : rows[x] \in Range(trace)
    BY DEF Registers, Range
  <2>2. DOMAIN rows = 1 .. Len(rows) /\ Len(rows) \in Nat
    BY DEF Registers
  <2> QED
    BY <2>1, <2>2
<1>3. DataOf(rows, i, base, sort) \subseteq Range(trace)
  BY <1>2 DEF DataOf, StepFollows
<1> QED
  BY <1>1, <1>3

(* A data event comes no earlier than the exits so far; those of this step  *)
(* are earlier.                                                             *)
LEMMA EndedBefore ==
  ASSUME Written, NEW E, NEW X, ProgIs(E, X), NEW rows, Registers(rows),
         NEW m, NEW last \in Nat, NEW kn, Reached(rows, 0, m, last, kn),
         NEW base, StepFollows(rows, m, base), NEW i \in 0 .. Len(rows) - 1,
         NEW l, Reached(rows, i, l, last, kn), NEW cs, NEW st, CallInv(cs, st, l, kn, E, X),
         NEW old, Fresh(cs, m, old, X), rows[i + 1].type \notin FuncKinds,
         NEW j \in DOMAIN cs, cs[j].exit # Open
  PROVE  cs[j].exit <= rows[i + 1].ts /\ (j \notin old => cs[j].exit < rows[i + 1].ts)
<1>1. PICK p : p = cs[j].of /\ p \in DOMAIN prog /\ prog[p].fid \in kn
  BY DEF CallInv, Begun
<1>2. cs[j].exit = prog[p].exit /\ X[p] <= l
  BY <1>1 DEF CallInv, Ended
<1>3. m \in Nat /\ l \in Nat /\ l <= last /\ X[p] \in Nat
  BY <1>1, PlacesOf DEF Reached
<1>4. X[p] \in DOMAIN trace
  BY <1>1, <1>2, PlacesOf
<1>5. PICK r : r = trace[X[p]]
  OBVIOUS
<1>6. r \in Range(trace) /\ r.id = X[p] /\ r.type = "EXIT" /\ r.type \in FuncKinds /\ r.fid \in kn /\ r.ts = cs[j].exit
  BY <1>1, <1>2, <1>4, <1>5, PlacesOf DEF Written, Range, FuncKinds
<1>7. i \in Nat /\ i + 1 \in DOMAIN rows /\ DOMAIN rows \subseteq Nat
  BY DEF Registers
<1>8. CASE X[p] <= m
  <2>1. r.ts <= rows[i + 1].ts
    BY <1>6, <1>7, <1>8 DEF StepFollows
  <2>2. j \in old
    <3>1. ~(m < X[p])
      BY <1>3, <1>8
    <3> QED
      BY <1>1, <3>1 DEF Fresh
  <2> QED
    BY <1>6, <2>1, <2>2
<1>9. CASE m < X[p]
  <2>1. X[p] <= last
    BY <1>2, <1>3
  <2>2. PICK x \in DOMAIN rows : r = rows[x]
    BY <1>6, <1>9, <2>1 DEF Reached, Range
  <2>3. ~(i < x)
    <3>1. ~(l < r.id)
      BY <1>2, <1>3, <1>6
    <3> QED
      BY <1>6, <2>2, <3>1 DEF Reached
  <2>4. x < i + 1
    BY <1>7, <2>3
  <2>5. Woven(r, rows[i + 1])
    BY <1>7, <2>2, <2>4 DEF Registers
  <2>6. r.ts < rows[i + 1].ts
    BY <1>6, <2>5 DEF Woven
  <2>7. r.ts \in Int /\ rows[i + 1].ts \in Int
    <3>1. r \in Rows /\ rows[i + 1] \in Rows
      BY <1>6, <1>7, RowsIn DEF Written, Registers
    <3> QED
      BY <3>1, RowFields
  <2> QED
    BY <1>6, <2>6, <2>7
<1> QED
  BY <1>3, <1>8, <1>9

DataStep(i, m, last, kn, E, X, rows, base, old, ev) ==
  \E l : /\ Reached(rows, i, l, last, kn) /\ CallInv(ev.calls, ev.stack, l, kn, E, X)
         /\ Fresh(ev.calls, m, old, X)
         /\ \A sort \in Sorts : DataRight(ev, sort, DataOf(rows, i, base, sort), old)

LEMMA FreshNext ==
  ASSUME Written, NEW E, NEW X, ProgIs(E, X), NEW ev \in Managers, NEW kn, NEW k \in DOMAIN trace,
         CallInv(ev.calls, ev.stack, k - 1, kn, E, X), NEW m \in Nat, m < k,
         NEW row, row = trace[k], row.fid \in Func, row.type \in FuncKinds, NEW e, e = AddEvent(ev, row),
         NEW old, Fresh(ev.calls, m, old, X)
  PROVE  Fresh(e.calls, m, old, X)
<1>1. row \in Rows
  BY DEF Written
<1>2. CASE row.type = "ENTRY"
  <2>1. PICK p \in DOMAIN prog : p = row.call /\ E[p] = k
    BY <1>2 DEF ProgIs, NoOther
  <2>2. m < X[p]
    <3>1. E[p] < X[p] /\ X[p] \in Nat /\ k \in Nat
      BY <2>1, PlacesOf DEF Written
    <3> QED
      BY <2>1, <3>1
  <2>3. PICK cs, n, call : cs = ev.calls /\ n = Len(cs) /\ call = NewCall(ev, row) /\ cs \in Seq(CallRecord)
    BY DEF Managers
  <2>4. e.calls = Append(cs, call) /\ call.of = p
    <3>1. e = AddEntry(ev, row)
      BY <1>2 DEF AddEvent
    <3> QED
      BY <1>1, <2>1, <2>3, <3>1, EntryIs DEF NewCall
  <2>5. /\ \A i \in DOMAIN e.calls : i \in DOMAIN cs \/ i = n + 1
        /\ \A i \in DOMAIN cs : e.calls[i] = cs[i]
        /\ e.calls[n + 1] = call
    BY <2>3, <2>4
  <2> QED
    BY <2>2, <2>3, <2>4, <2>5 DEF Fresh
<1>3. CASE row.type = "EXIT"
  <2>1. e = AddExit(ev, row)
    BY <1>3 DEF AddEvent
  <2>2. Closes(ev, row, Last(ev.stack)) \/ e = ev
    BY <1>3, <2>1, ExitFinds
  <2>3. CASE Closes(ev, row, Last(ev.stack))
    <3>1. PICK c, entry : c = Last(ev.stack) /\ Closes(ev, row, c) /\ entry = ev.calls[c].entry
      BY <2>3
    <3>2. Closed(ev.calls, e.calls, c, row.ts, Claimed(ev.comm, entry, row.ts), Claimed(ev.counter, entry, row.ts))
      BY <1>1, <2>1, <3>1, ExitIs
    <3>3. DOMAIN e.calls = DOMAIN ev.calls /\ \A i \in DOMAIN ev.calls : e.calls[i].of = ev.calls[i].of
      BY <3>2 DEF Closed
    <3> QED
      BY <3>3 DEF Fresh
  <2> QED
    BY <2>2, <2>3
<1> QED
  BY <1>2, <1>3 DEF FuncKinds

LEMMA DataNext ==
  ASSUME Written, NEW E, NEW X, ProgIs(E, X), NEW rows, Registers(rows),
         NEW m, NEW last \in Nat, last <= MaxEvents, NEW kn, kn \subseteq Func, Reached(rows, 0, m, last, kn),
         NEW base, StepFollows(rows, m, base), NEW old,
         NEW i \in 0 .. Len(rows) - 1, NEW ev \in Managers, DataStep(i, m, last, kn, E, X, rows, base, old, ev),
         NEW e, e = AddEvent(ev, rows[i + 1])
  PROVE  e \in Managers /\ DataStep(i + 1, m, last, kn, E, X, rows, base, old, e)
<1>1. PICK l : /\ Reached(rows, i, l, last, kn) /\ CallInv(ev.calls, ev.stack, l, kn, E, X)
               /\ Fresh(ev.calls, m, old, X)
               /\ \A sort \in Sorts : DataRight(ev, sort, DataOf(rows, i, base, sort), old)
  BY DEF DataStep
<1>2. PICK row : row = rows[i + 1]
  OBVIOUS
<1>3. /\ ev.calls \in Seq(CallRecord) /\ m \in Nat /\ l \in Nat /\ i \in Nat /\ i \in 0 .. Len(rows)
      /\ i + 1 \in DOMAIN rows
  BY <1>1 DEF Managers, Reached, Registers
<1>4. /\ row \in Rows
      /\ row.type \notin FuncKinds => Reached(rows, i + 1, l, last, kn)
      /\ row.type \in FuncKinds =>
           /\ row.id \in DOMAIN trace /\ row = trace[row.id] /\ row.fid \in kn
           /\ CallInv(ev.calls, ev.stack, row.id - 1, kn, E, X)
           /\ Reached(rows, i + 1, row.id, last, kn)
  BY <1>1, <1>2, <1>3, ReachedNext
<1>5. CASE row.type \notin FuncKinds
  <2>1. e \in Managers /\ e.calls = ev.calls /\ e.stack = ev.stack
    BY <1>2, <1>4, <1>5, DataAdded
  <2>2. \A j \in DOMAIN ev.calls : ev.calls[j].exit # Open =>
          ev.calls[j].exit <= row.ts /\ (j \notin old => ev.calls[j].exit < row.ts)
    BY <1>1, <1>2, <1>5, EndedBefore
  <2>3. ASSUME NEW sort \in Sorts PROVE DataRight(e, sort, DataOf(rows, i + 1, base, sort), old)
    <3>1. PICK all \in SUBSET Rows : all = DataOf(rows, i, base, sort)
      BY <1>3, DataOfRows
    <3>2. DataOf(rows, i + 1, base, sort) = IF Sort(row) = sort THEN all \cup {row} ELSE all
      <4>1. PICK j : j = i + 1
        OBVIOUS
      <4>2. DataOf(rows, j, base, sort) = Joined(all, row, sort)
        BY <1>2, <1>3, <3>1, <4>1, DataOfNext
      <4> QED
        BY <1>5, <4>1, <4>2 DEF Joined
    <3>3. \A x \in all : Sort(row) = sort => x.id < row.id
      <4> SUFFICES ASSUME NEW x \in all, Sort(row) = sort PROVE x.id < row.id
        OBVIOUS
      <4>1. CASE x \in base /\ Sort(x) = sort
        BY <1>2, <1>3, <1>5, <4>1 DEF StepFollows
      <4>2. CASE \E y \in 1 .. i : x = rows[y] /\ rows[y].type \notin FuncKinds /\ Sort(rows[y]) = sort
        <5>1. PICK y \in 1 .. i : x = rows[y] /\ rows[y].type \notin FuncKinds /\ Sort(rows[y]) = sort
          BY <4>2
        <5>2. y \in DOMAIN rows /\ y < i + 1
          BY <1>3 DEF Registers
        <5>3. Woven(x, row)
          BY <1>2, <1>3, <5>1, <5>2 DEF Registers
        <5>4. TableOf(x) = TableOf(row)
          BY <1>5, <5>1 DEF TableOf, Sort
        <5> QED
          BY <5>3, <5>4 DEF Woven
      <4> QED
        BY <3>1, <4>1, <4>2 DEF DataOf
    <3>4. DataRight(e, sort, IF Sort(row) = sort THEN all \cup {row} ELSE all, old)
      BY <1>1, <1>2, <1>4, <1>5, <2>2, <3>1, <3>3, RightData
    <3> QED
      BY <3>2, <3>4
  <2>4. DataStep(i + 1, m, last, kn, E, X, rows, base, old, e)
    BY <1>1, <1>4, <1>5, <2>1, <2>3 DEF DataStep
  <2> QED
    BY <2>1, <2>4
<1>6. CASE row.type \in FuncKinds
  <2>1. PICK k \in DOMAIN trace : k = row.id /\ row = trace[k] /\ row.fid \in kn /\ row.fid \in Func
                                  /\ CallInv(ev.calls, ev.stack, k - 1, kn, E, X)
                                  /\ Reached(rows, i + 1, k, last, kn)
    BY <1>4, <1>6
  <2>2. m < k
    <3>1. 0 < i + 1
      BY <1>3
    <3> QED
      BY <1>2, <1>3, <1>6, <2>1, <3>1 DEF Reached
  <2>3. Fresh(e.calls, m, old, X)
    <3>1. /\ Fresh(ev.calls, m, old, X) /\ m \in Nat /\ e = AddEvent(ev, row)
          /\ CallInv(ev.calls, ev.stack, k - 1, kn, E, X) /\ row = trace[k] /\ row.fid \in Func
      BY <1>1, <1>2, <1>3, <2>1
    <3> QED
      BY <1>6, <2>2, <3>1, FreshNext
  <2>4. e \in Managers /\ CallInv(e.calls, e.stack, k, kn, E, X)
    <3>1. CASE row.type = "ENTRY"
      <4>1. e = AddEntry(ev, row)
        BY <1>2, <3>1 DEF AddEvent
      <4> QED
        BY <2>1, <3>1, <4>1, CallsEntry
    <3>2. CASE row.type = "EXIT"
      <4>1. e = AddExit(ev, row)
        BY <1>2, <3>2 DEF AddEvent
      <4> QED
        BY <2>1, <3>2, <4>1, CallsExit
    <3> QED
      BY <1>6, <3>1, <3>2 DEF FuncKinds
  <2>5. ASSUME NEW sort \in Sorts PROVE DataRight(e, sort, DataOf(rows, i + 1, base, sort), old)
    <3>1. PICK all : all = DataOf(rows, i, base, sort)
      OBVIOUS
    <3>2. all \in SUBSET Rows /\ all \subseteq Range(trace)
      BY <1>3, <3>1, DataOfRows
    <3>3. DataOf(rows, i + 1, base, sort) = all
      <4>1. PICK j : j = i + 1
        OBVIOUS
      <4>2. DataOf(rows, j, base, sort) = Joined(all, row, sort)
        BY <1>2, <1>3, <3>1, <4>1, DataOfNext
      <4> QED
        BY <1>6, <4>1, <4>2 DEF Joined
    <3>4. DataRight(ev, sort, all, old)
      BY <1>1, <3>1
    <3>5. CASE row.type = "ENTRY"
      <4>1. e = AddEntry(ev, row)
        BY <1>2, <3>5 DEF AddEvent
      <4> QED
        BY <1>4, <2>1, <3>2, <3>3, <3>4, <4>1, RightEntry
    <3>6. CASE row.type = "EXIT"
      <4>1. e = AddExit(ev, row)
        BY <1>2, <3>6 DEF AddEvent
      <4> QED
        <5>1. CallInv(ev.calls, ev.stack, k - 1, kn, E, X) /\ row = trace[k] /\ all \subseteq Range(trace)
          BY <2>1, <3>2
        <5>2. DataRight(e, sort, all, old)
          BY <3>4, <3>6, <4>1, <5>1, RightExit
        <5> QED
          BY <3>3, <5>2
    <3> QED
      BY <1>6, <3>5, <3>6 DEF FuncKinds
  <2>6. DataStep(i + 1, m, last, kn, E, X, rows, base, old, e)
    BY <2>1, <2>3, <2>4, <2>5 DEF DataStep
  <2> QED
    BY <2>4, <2>6
<1> QED
  BY <1>5, <1>6

(* All rows of a step.                                                      *)
LEMMA DataRegistered ==
  ASSUME Written, NEW E, NEW X, ProgIs(E, X), NEW rows, Registers(rows),
         NEW m, NEW last \in Nat, last <= MaxEvents, NEW kn, kn \subseteq Func, Reached(rows, 0, m, last, kn),
         NEW base, StepFollows(rows, m, base), NEW old,
         EventManager \in Managers, DataStep(0, m, last, kn, E, X, rows, base, old, EventManager)
  PROVE  DataStep(Len(rows), m, last, kn, E, X, rows, base, old, Registered(rows))
<1>1. PICK N \in Nat : N = Len(rows) /\ rows \in Seq(Rows)
  BY DEF Registers
<1> DEFINE P == {x \in (0 .. N) \X Managers : DataStep(x[1], m, last, kn, E, X, rows, base, old, x[2])}
<1>2. <<0, EventManager>> \in P
  BY <1>1
<1>3. ASSUME NEW i \in 0 .. N - 1, NEW ev \in Managers, <<i, ev>> \in P
      PROVE  <<i + 1, AddEvent(ev, rows[i + 1])>> \in P
  <2>1. DataStep(i, m, last, kn, E, X, rows, base, old, ev)
    BY <1>3
  <2>2. PICK e : e = AddEvent(ev, rows[i + 1])
    OBVIOUS
  <2>3. e \in Managers /\ DataStep(i + 1, m, last, kn, E, X, rows, base, old, e)
    BY <1>1, <2>1, <2>2, DataNext
  <2>4. i + 1 \in 0 .. N
    BY <1>1
  <2> QED
    BY <2>2, <2>3, <2>4
<1>4. PICK Q : Q = P
  OBVIOUS
<1>5. Q \subseteq (0 .. Len(rows)) \X Managers
  BY <1>1, <1>4
<1>6. <<0, EventManager>> \in Q /\ \A i \in 0 .. Len(rows) - 1, ev \in Managers :
                                     <<i, ev>> \in Q => <<i + 1, AddEvent(ev, rows[i + 1])>> \in Q
  BY <1>1, <1>2, <1>3, <1>4
<1>7. <<N, Registered(rows)>> \in Q
  BY <1>1, <1>5, <1>6, RegisteredReaches
<1> QED
  BY <1>1, <1>4, <1>7

(* The function events that were handed over are no later than the data     *)
(* events that were not; those that were are where they belong.             *)
KeptUp ==
  \A r \in Range(trace), d \in Range(comm) \cup Range(counter) :
    r.type \in FuncKinds /\ r \notin Range(func) => r.ts <= d.ts

OfSort(sort) == {d \in HandedOver \ Monitored : Sort(d) = sort}

DataExact ==
  /\ KeptUp
  /\ \A sort \in Sorts : /\ Placed(calls, StackOf(EventManager, sort), sort, OfSort(sort))
                         /\ Innermost(calls, StackOf(EventManager, sort), sort)

LEMMA DataUntouched ==
  ASSUME TraceInv, Untouched
  PROVE  DataExact
<1>1. KeptUp
  <2>1. \A r \in Range(comm) \cup Range(counter) : r.type \notin FuncKinds
    BY KindsDiffer DEF TraceInv, Remains, CounterKinds
  <2> QED
    BY <2>1 DEF KeptUp, Untouched
<1>2. calls = <<>> /\ commStack = <<>> /\ counterStack = <<>> /\ HandedOver = {}
  BY NothingYet DEF Untouched
<1>3. DOMAIN calls = {} /\ Range(<<>>) = {} /\ Ordered(<<>>) /\ <<>> \in Seq(Rows)
  BY <1>2 DEF Range, Ordered
<1>4. \A sort \in Sorts : StackOf(EventManager, sort) = <<>> /\ OfSort(sort) = {}
  BY <1>2 DEF StackOf, EventManager, OfSort
<1>5. ASSUME NEW sort \in Sorts
      PROVE  /\ Placed(calls, StackOf(EventManager, sort), sort, OfSort(sort))
             /\ Innermost(calls, StackOf(EventManager, sort), sort)
  BY <1>3, <1>4 DEF Placed, Innermost
<1> QED
  BY <1>1, <1>5 DEF DataExact

(* The data events of one state, seen in the next.                          *)
LEMMA DataCarry ==
  ASSUME NEW ev \in Managers,
         calls' = ev.calls, stack' = ev.stack, commStack' = ev.comm, counterStack' = ev.counter,
         KeptUp', NEW old, \A sort \in Sorts : DataRight(ev, sort, OfSort(sort)', old)
  PROVE  DataExact' /\ \A sort \in Sorts : Claims(calls', StackOf(EventManager', sort), old)
<1>1. EventManager' = ev
  <2>1. ev = [calls |-> ev.calls, stack |-> ev.stack, comm |-> ev.comm, counter |-> ev.counter]
    BY DEF Managers
  <2> QED
    BY <2>1 DEF EventManager
<1>2. ASSUME NEW sort \in Sorts
      PROVE  /\ Placed(calls, StackOf(EventManager, sort), sort, OfSort(sort))'
             /\ Innermost(calls, StackOf(EventManager, sort), sort)'
             /\ Claims(calls', StackOf(EventManager', sort), old)
  <2>1. PICK cs, s, all : cs = ev.calls /\ s = StackOf(ev, sort) /\ all = OfSort(sort)'
    OBVIOUS
  <2>2. Placed(cs, s, sort, all) /\ Innermost(cs, s, sort) /\ Claims(cs, s, old)
    BY <2>1 DEF DataRight
  <2>3. calls' = cs /\ StackOf(EventManager', sort) = s /\ StackOf(EventManager, sort)' = s
    BY <1>1, <2>1 DEF StackOf
  <2>4. Placed(calls, StackOf(EventManager, sort), sort, OfSort(sort))'
    BY <2>1, <2>2, <2>3 DEF Placed, Has
  <2>5. Innermost(calls, StackOf(EventManager, sort), sort)'
    BY <2>2, <2>3 DEF Innermost, Has, Inside, Within
  <2> QED
    BY <2>2, <2>3, <2>4, <2>5
<1> QED
  BY <1>2 DEF DataExact

LEMMA DataKept ==
  ASSUME EventManager \in Managers, DataExact, UNCHANGED <<traceVars, tables, eventVars>>
  PROVE  DataExact'
<1>1. PICK ev \in Managers : ev = EventManager
  OBVIOUS
<1>2. /\ calls' = ev.calls /\ stack' = ev.stack /\ commStack' = ev.comm /\ counterStack' = ev.counter
      /\ trace' = trace /\ func' = func /\ comm' = comm /\ counter' = counter /\ ev.calls = calls
  BY <1>1 DEF EventManager, eventVars, dataVars, traceVars, tables
<1>3. KeptUp'
  BY <1>2 DEF DataExact, KeptUp
<1>4. ASSUME NEW sort \in Sorts PROVE OfSort(sort)' = OfSort(sort)
  BY <1>2 DEF OfSort, HandedOver, Monitored
<1>5. PICK old : old = DOMAIN calls
  OBVIOUS
<1>6. ASSUME NEW sort \in Sorts PROVE DataRight(ev, sort, OfSort(sort)', old)
  <2>1. Claims(ev.calls, StackOf(ev, sort), old)
    BY <1>2, <1>5 DEF Claims
  <2> QED
    BY <1>1, <1>2, <1>4, <2>1 DEF DataExact, DataRight
<1> QED
  BY <1>2, <1>3, <1>6, DataCarry

LEMMA KeepsUpStep ==
  ASSUME TraceInv, DataExact, NEW f \in 0 .. Len(func), NEW c \in 0 .. Len(comm), NEW n \in 0 .. Len(counter),
         IOStep(f, c, n)
  PROVE  KeptUp'
<1>1. func \in Seq(Rows) /\ comm \in Seq(Rows) /\ counter \in Seq(Rows)
  BY DEF TraceInv, Remains
<1>2. /\ Range(func) = Range(Taken(func, f)) \cup Range(Held(func, f))
      /\ Range(comm) = Range(Taken(comm, c)) \cup Range(Held(comm, c))
      /\ Range(counter) = Range(Taken(counter, n)) \cup Range(Held(counter, n))
  BY <1>1, PartsRange
<1>3. trace' = trace /\ func' = Held(func, f) /\ comm' = Held(comm, c) /\ counter' = Held(counter, n)
  BY DEF IOStep, traceVars
<1>4. \A r \in Range(Taken(func, f)), d \in Range(Held(comm, c)) \cup Range(Held(counter, n)) : r.ts <= d.ts
  BY DEF IOStep, KeepsUp, Range
<1>5. \A r \in Range(trace), d \in Range(Held(comm, c)) \cup Range(Held(counter, n)) :
        r.type \in FuncKinds /\ r \notin Range(Held(func, f)) => r.ts <= d.ts
  BY <1>2, <1>4 DEF DataExact, KeptUp
<1> QED
  BY <1>3, <1>5 DEF KeptUp

(* The data events a step registers are those it hands over.                *)
LEMMA StepData ==
  ASSUME TraceInv, NEW f \in 0 .. Len(func), NEW c \in 0 .. Len(comm), NEW n \in 0 .. Len(counter),
         IOStep(f, c, n), NEW table \in FuncTables(Taken(func, f)),
         NEW rows, rows = StepRows(Fetched(table), c, n), NEW base, base = HandedOver \ Monitored, NEW sort \in Sorts
  PROVE  /\ DataOf(rows, Len(rows), base, sort) = OfSort(sort)'
         /\ DataOf(rows, 0, base, sort) = OfSort(sort)
<1>1. /\ rows \in Seq(Rows)
      /\ Range(rows) = {r \in Range(Taken(func, f)) : r.fid \in known'}
                         \cup Range(Taken(comm, c))
                         \cup {r \in Range(Taken(counter, n)) : r.type \notin Watched}
  BY StepRowsAre
<1>2. /\ func \in Seq(Rows) /\ Range(func) \subseteq {r \in Range(trace) : r.type \in FuncKinds}
      /\ comm \in Seq(Rows) /\ Range(comm) \subseteq {r \in Range(trace) : r.type \in {"comm"} \cap DataKind}
      /\ counter \in Seq(Rows) /\ Range(counter) \subseteq {r \in Range(trace) : r.type \in CounterKinds}
  BY DEF TraceInv, Remains
<1>3. /\ Range(Taken(func, f)) \subseteq Range(func)
      /\ Range(Taken(comm, c)) \subseteq Range(comm)
      /\ Range(Taken(counter, n)) \subseteq Range(counter)
  BY <1>2, PartsRange
<1>4. PICK T, U : T = Range(Taken(comm, c)) /\ U = Range(Taken(counter, n))
  OBVIOUS
<1>5. /\ \A r \in Range(Taken(func, f)) : r.type \in FuncKinds
      /\ \A r \in T : r.type = "comm" /\ r.type \notin FuncKinds /\ r.type \notin Watched
      /\ \A r \in U : r.type \notin FuncKinds
  BY <1>2, <1>3, <1>4, KindsDiffer DEF CounterKinds
<1>6. {r \in Range(rows) : r.type \notin FuncKinds} = T \cup {r \in U : r.type \notin Watched}
  BY <1>1, <1>4, <1>5
<1>7. HandedOver' = HandedOver \cup T \cup U
  BY <1>4, StepHandsOver
<1>8. HandedOver \ Monitored = {r \in HandedOver : r.type \notin Watched}
  BY DEF Monitored
<1>9. (HandedOver \ Monitored)' = {r \in HandedOver' : r.type \notin Watched}
  BY DEF Monitored
<1>10. (HandedOver \ Monitored)' = base \cup T \cup {r \in U : r.type \notin Watched}
  BY <1>5, <1>7, <1>8, <1>9
<1>11. OfSort(sort)' = {d \in base \cup T \cup {r \in U : r.type \notin Watched} : Sort(d) = sort}
  BY <1>10 DEF OfSort
<1>12. {rows[x] : x \in {x \in 1 .. Len(rows) : rows[x].type \notin FuncKinds /\ Sort(rows[x]) = sort}}
         = {r \in T \cup {r \in U : r.type \notin Watched} : Sort(r) = sort}
  <2>1. DOMAIN rows = 1 .. Len(rows)
    BY <1>1
  <2>2. {rows[x] : x \in {x \in 1 .. Len(rows) : rows[x].type \notin FuncKinds /\ Sort(rows[x]) = sort}}
          = {r \in {r \in Range(rows) : r.type \notin FuncKinds} : Sort(r) = sort}
    BY <2>1 DEF Range
  <2> QED
    BY <1>6, <2>2
<1>13. DataOf(rows, Len(rows), base, sort) = OfSort(sort)'
  BY <1>11, <1>12 DEF DataOf
<1>14. DataOf(rows, 0, base, sort) = OfSort(sort)
  BY DEF DataOf, OfSort
<1> QED
  BY <1>13, <1>14

LEMMA StepIsNext ==
  ASSUME TraceInv, DataExact, NEW f \in 0 .. Len(func), NEW c \in 0 .. Len(comm), NEW n \in 0 .. Len(counter),
         IOStep(f, c, n), NEW table \in FuncTables(Taken(func, f)),
         NEW rows, rows = StepRows(Fetched(table), c, n)
  PROVE  StepFollows(rows, Frontier, HandedOver \ Monitored)
<1>1. /\ rows \in Seq(Rows)
      /\ Range(rows) = {r \in Range(Taken(func, f)) : r.fid \in known'}
                         \cup Range(Taken(comm, c))
                         \cup {r \in Range(Taken(counter, n)) : r.type \notin Watched}
  BY StepRowsAre
<1>2. /\ func \in Seq(Rows) /\ Range(func) \subseteq {r \in Range(trace) : r.type \in FuncKinds}
      /\ comm \in Seq(Rows) /\ Range(comm) \subseteq {r \in Range(trace) : r.type \in {"comm"} \cap DataKind}
      /\ counter \in Seq(Rows) /\ Range(counter) \subseteq {r \in Range(trace) : r.type \in CounterKinds}
  BY DEF TraceInv, Remains
<1>3. /\ Range(Taken(func, f)) \subseteq Range(func)
      /\ Range(Taken(comm, c)) \subseteq Range(comm)
      /\ Range(Taken(counter, n)) \subseteq Range(counter)
  BY <1>2, PartsRange
<1>4. ASSUME NEW x \in DOMAIN rows, rows[x].type \notin FuncKinds
      PROVE  \/ rows[x] \in Range(comm) /\ rows[x].type = "comm"
             \/ rows[x] \in Range(counter) /\ rows[x].type # "comm"
  <2>1. rows[x] \in Range(rows)
    BY DEF Range
  <2> QED
    BY <1>1, <1>2, <1>3, <1>4, <2>1 DEF CounterKinds
<1>5. ASSUME NEW d \in HandedOver, NEW x \in DOMAIN rows, rows[x].type \notin FuncKinds, Sort(d) = Sort(rows[x])
      PROVE  d.id < rows[x].id
  <2>1. /\ d.type = "comm" => \A q \in Range(comm) : d.id < q.id
        /\ d.type # "comm" => \A q \in Range(counter) : d.id < q.id
    BY HandedOverBefore
  <2> QED
    BY <1>4, <1>5, <2>1 DEF Sort
<1>6. ASSUME NEW r \in Range(trace), NEW x \in DOMAIN rows, r.type \in FuncKinds, r.id <= Frontier, rows[x].type \notin FuncKinds
      PROVE  r.ts <= rows[x].ts
  <2>1. Frontier \in Nat /\ (r \in Range(func) <=> Frontier < r.id)
    BY <1>6, FrontierIs DEF TraceInv, Frontier
  <2>2. r.id \in Nat
    BY RowsIn, RowFields DEF TraceInv, Written
  <2>3. r \notin Range(func)
    BY <1>6, <2>1, <2>2
  <2> QED
    BY <1>4, <1>6, <2>3 DEF DataExact, KeptUp
<1>7. HandedOver \ Monitored \subseteq Range(trace)
  BY DEF HandedOver
<1> QED
  BY <1>5, <1>6, <1>7 DEF StepFollows

LEMMA DataIOStep ==
  ASSUME TraceInv, TraceInv', CallsExact, DataExact,
         NEW f \in 0 .. Len(func), NEW c \in 0 .. Len(comm), NEW n \in 0 .. Len(counter), IOStep(f, c, n)
  PROVE  DataExact' /\ \A sort \in Sorts : Claims(calls', StackOf(EventManager', sort), Complete)
<1>1. PICK E, X : ProgIs(E, X) /\ CallInv(calls, stack, Frontier, known, E, X)
  BY DEF CallsExact
<1>2. PICK table \in FuncTables(Taken(func, f)) :
        \E ev \in {EventsOfStep(Fetched(table), Taken(comm, c), Taken(counter, n))} :
           /\ calls' = ev.calls /\ stack' = ev.stack /\ commStack' = ev.comm /\ counterStack' = ev.counter
  BY DEF IOStep
<1>3. PICK rows : rows = StepRows(Fetched(table), c, n)
  OBVIOUS
<1>4. PICK ev : /\ ev = Registered(rows)
                /\ calls' = ev.calls /\ stack' = ev.stack /\ commStack' = ev.comm /\ counterStack' = ev.counter
  BY <1>2, <1>3 DEF EventsOfStep, StepRows
<1>5. PICK kn, last, m, old, base : /\ kn = known' /\ last = Frontier' /\ m = Frontier
                                    /\ old = Complete /\ base = HandedOver \ Monitored
  OBVIOUS
<1>6. Registers(rows) /\ Reached(rows, 0, m, last, kn)
  BY <1>3, <1>5, StepReaches
<1>7. last \in Nat /\ last <= MaxEvents /\ kn \subseteq Func
  <2>1. last = FrontierOf(Held(func, f))
    BY <1>5 DEF IOStep, Frontier, FrontierOf
  <2>2. Remains(Held(func, f), FuncKinds)
    BY HoldRemains DEF TraceInv
  <2> QED
    BY <1>5, <2>1, <2>2, FrontierIs DEF TraceInv
<1>8. CallInv(calls, stack, m, kn, E, X)
  BY <1>1, <1>5, KnownLonger DEF IOStep, BeginStep, UpdateAttributes
<1>9. EventManager \in Managers /\ ev \in Managers /\ Written
  <2>1. EventManager \in Managers /\ Written
    BY DEF CallsExact, TraceInv
  <2> QED
    BY <1>1, <1>4, <1>6, <1>7, <1>8, <2>1, CallsRegistered
<1>10. StepFollows(rows, m, base)
  BY <1>3, <1>5, StepIsNext
<1>11. Fresh(calls, m, old, X)
  <2> SUFFICES ASSUME NEW i \in (DOMAIN calls) \ old PROVE m < X[calls[i].of]
    BY DEF Fresh
  <2>1. PICK p \in DOMAIN prog : p = calls[i].of
    BY <1>8 DEF CallInv, Begun
  <2>2. calls[i].exit = Open /\ calls[i].exit = IF X[p] <= m THEN prog[p].exit ELSE Open
    BY <1>5, <1>8, <2>1 DEF CallInv, Ended, Complete
  <2>3. X[p] \in Nat /\ ((X[p] \in DOMAIN trace /\ prog[p].exit # Open) \/ X[p] = Never)
    BY <1>1, <1>9, <2>1, PlacesOf
  <2>4. m \in Nat /\ m <= MaxEvents /\ MaxEvents \in Nat
    BY <1>5, FrontierIs, ADParserAssumption DEF TraceInv, Frontier
  <2> QED
    BY <2>1, <2>2, <2>3, <2>4 DEF Never
<1>12. ASSUME NEW sort \in Sorts PROVE DataRight(EventManager, sort, DataOf(rows, 0, base, sort), old)
  <2>1. DataOf(rows, 0, base, sort) = OfSort(sort)
    BY <1>3, <1>5, StepData
  <2>2. EventManager.calls = calls
    BY DEF EventManager
  <2>3. Claims(calls, StackOf(EventManager, sort), old)
    BY <1>5 DEF Claims, Complete
  <2> QED
    BY <2>1, <2>2, <2>3 DEF DataRight, DataExact
<1>13. DataStep(0, m, last, kn, E, X, rows, base, old, EventManager)
  <2>1. EventManager.calls = calls /\ EventManager.stack = stack
    BY DEF EventManager
  <2> QED
    BY <1>6, <1>8, <1>11, <1>12, <2>1 DEF DataStep
<1>14. DataStep(Len(rows), m, last, kn, E, X, rows, base, old, ev)
  BY <1>1, <1>4, <1>6, <1>7, <1>9, <1>10, <1>13, DataRegistered
<1>15. ASSUME NEW sort \in Sorts PROVE DataRight(ev, sort, OfSort(sort)', old)
  <2>1. DataOf(rows, Len(rows), base, sort) = OfSort(sort)'
    BY <1>3, <1>5, StepData
  <2>2. DataRight(ev, sort, DataOf(rows, Len(rows), base, sort), old)
    BY <1>14 DEF DataStep
  <2> QED
    BY <2>1, <2>2
<1>16. KeptUp'
  BY KeepsUpStep
<1> QED
  BY <1>4, <1>5, <1>9, <1>15, <1>16, DataCarry

THEOREM DataOfTrace == Spec => [](TraceInv /\ ProgInv /\ CallsExact /\ DataExact)
<1>1. TraceInv /\ Untouched => DataExact
  BY DataUntouched
<1>2. (TraceInv /\ Untouched => DataExact)'
  BY <1>1, PTL
<1>3. Init => DataExact
  <2> SUFFICES ASSUME Init PROVE DataExact
    OBVIOUS
  <2>1. TraceInv
    BY TraceInvInit
  <2>2. Untouched
    BY <2>1 DEF TraceInv, Init
  <2> QED
    BY <1>1, <2>1, <2>2
<1>4. /\ TraceInv /\ ProgInv /\ CallsExact /\ DataExact
      /\ (TraceInv /\ ProgInv /\ CallsExact)'
      /\ [Next]_vars
      => DataExact'
  <2> SUFFICES ASSUME TraceInv, ProgInv, CallsExact, DataExact, TraceInv', [Next]_vars
               PROVE  DataExact'
    OBVIOUS
  <2>1. ASSUME \E ts \in Times : \/ \E f \in Func : TraceEntry(f, ts)
                                 \/ TraceExit(ts)
                                 \/ \E k \in DataKind : TraceData(k, ts)
        PROVE  DataExact'
    <3>1. step = -1 /\ running /\ step' = step /\ running' = running
      BY <2>1 DEF TraceEntry, TraceExit, TraceData, Write
    <3>2. Untouched'
      BY <3>1 DEF TraceInv
    <3> QED
      BY <1>2, <3>2
  <2>2. ASSUME NEW f \in 0 .. Len(func), NEW c \in 0 .. Len(comm), NEW n \in 0 .. Len(counter),
               IOStep(f, c, n)
        PROVE  DataExact'
    BY <2>2, DataIOStep
  <2>3. ASSUME \/ \E f \in 0 .. Len(func), c \in 0 .. Len(comm), n \in 0 .. Len(counter) :
                    IOStepDisordered(f, c, n)
               \/ EndOfStream
               \/ UNCHANGED vars
        PROVE  DataExact'
    <3>1. UNCHANGED <<traceVars, tables, eventVars>>
      BY <2>3, TraceInvOther
    <3> QED
      BY <3>1, DataKept DEF CallsExact
  <2> QED
    BY <2>1, <2>2, <2>3 DEF Next
<1> QED
  BY <1>3, <1>4, CallsOfTrace, PTL DEF Spec

(* The places of an event.                                                  *)
LEMMA HoldingIs ==
  ASSUME NEW i, NEW sort \in Sorts
  PROVE  Holding(i, sort) = IF i = 0 THEN StackOf(EventManager, sort) ELSE Has(calls, i, sort)
BY DEF Holding, Sorts, StackOf, Has, EventManager

LEMMA OneIndex ==
  ASSUME NEW s \in Seq(Rows), Ordered(s), NEW k \in DOMAIN s, NEW l \in DOMAIN s, s[k] = s[l]
  PROVE  k = l
<1>1. s[k] \in Rows /\ s[l] \in Rows /\ k \in Nat /\ l \in Nat
  OBVIOUS
<1>2. s[k].id \in Nat
  BY <1>1, RowFields
<1>3. ~(k < l) /\ ~(l < k)
  BY <1>2 DEF Ordered
<1> QED
  BY <1>1, <1>3

LEMMA InOnePlace ==
  ASSUME CallsExact, DataExact
  PROVE  DataInOnePlace
<1>1. calls \in Seq(CallRecord) /\ DOMAIN calls = 1 .. Len(calls) /\ Len(calls) \in Nat
  BY DEF CallsExact, EventManager, Managers
<1>2. ASSUME NEW sort \in Sorts, NEW i \in 0 .. Len(calls)
      PROVE  /\ Holding(i, sort) \in Seq(Rows) /\ Ordered(Holding(i, sort))
             /\ Range(Holding(i, sort)) \subseteq OfSort(sort)
  <2>1. Placed(calls, StackOf(EventManager, sort), sort, OfSort(sort))
    BY DEF DataExact
  <2>2. CASE i = 0
    BY <2>1, <2>2, HoldingIs DEF Placed
  <2>3. CASE i # 0
    <3>1. i \in DOMAIN calls
      BY <1>1, <2>3
    <3>2. calls[i] \in CallRecord
      BY <1>1, <3>1
    <3>3. Has(calls, i, sort) \in Seq(Rows)
      BY <3>2 DEF Has, CallRecord
    <3> QED
      BY <2>1, <2>3, <3>1, <3>3, HoldingIs DEF Placed
  <2> QED
    BY <2>2, <2>3
<1>3. ASSUME NEW sort \in Sorts, NEW i \in 0 .. Len(calls), NEW j \in 0 .. Len(calls),
             NEW d \in Range(Holding(i, sort)), d \in Range(Holding(j, sort))
      PROVE  i = j
  <2>1. Placed(calls, StackOf(EventManager, sort), sort, OfSort(sort))
    BY DEF DataExact
  <2>2. \A k \in 0 .. Len(calls) : k = 0 \/ k \in DOMAIN calls
    BY <1>1
  <2>3. CASE i = 0 /\ j = 0
    BY <2>3
  <2>4. CASE i # 0 /\ j # 0
    BY <1>3, <2>1, <2>2, <2>4, HoldingIs DEF Placed
  <2>5. CASE i = 0 /\ j # 0
    BY <1>3, <2>1, <2>2, <2>5, HoldingIs DEF Placed
  <2>6. CASE i # 0 /\ j = 0
    BY <1>3, <2>1, <2>2, <2>6, HoldingIs DEF Placed
  <2> QED
    BY <2>3, <2>4, <2>5, <2>6
<1>4. \A i \in 0 .. Len(calls) : Data(i) \subseteq HandedOver \ Monitored
  BY <1>2 DEF Data, OfSort, Sorts
<1>5. ASSUME NEW d \in HandedOver \ Monitored
      PROVE  \E p \in Places(d) : \A q \in Places(d) : q = p
  <2>1. PICK sort \in Sorts : sort = Sort(d) /\ d \in OfSort(sort)
    BY DEF Sorts, Sort, OfSort
  <2>2. PICK i \in 0 .. Len(calls) : d \in Range(Holding(i, sort))
    <3>1. d \in Range(StackOf(EventManager, sort)) \/ \E i \in DOMAIN calls : d \in Range(Has(calls, i, sort))
      BY <2>1 DEF DataExact, Placed
    <3>2. CASE d \in Range(StackOf(EventManager, sort))
      <4>1. d \in Range(Holding(0, sort)) /\ 0 \in 0 .. Len(calls)
        BY <1>1, <3>2, HoldingIs
      <4> QED
        BY <4>1
    <3>3. CASE \E i \in DOMAIN calls : d \in Range(Has(calls, i, sort))
      <4>1. PICK i \in DOMAIN calls : d \in Range(Has(calls, i, sort))
        BY <3>3
      <4>2. i # 0 /\ i \in 0 .. Len(calls)
        BY <1>1
      <4> QED
        BY <4>1, <4>2, HoldingIs
    <3> QED
      BY <3>1, <3>2, <3>3
  <2>3. PICK k \in DOMAIN Holding(i, sort) : Holding(i, sort)[k] = d
    BY <2>2 DEF Range
  <2>4. sort \in {"comm", "counter"}
    BY DEF Sorts
  <2>5. <<i, sort, k>> \in Places(d)
    <3> DEFINE At(a, kind) == {<<a, kind, l>> : l \in {l \in DOMAIN Holding(a, kind) : Holding(a, kind)[l] = d}}
    <3>1. <<i, sort, k>> \in At(i, sort)
      BY <2>3
    <3>2. Places(d) = UNION {At(a, kind) : a \in 0 .. Len(calls), kind \in {"comm", "counter"}}
      BY DEF Places
    <3> HIDE DEF At
    <3>3. At(i, sort) \in {At(a, kind) : a \in 0 .. Len(calls), kind \in {"comm", "counter"}}
      BY <2>4
    <3> QED
      BY <3>1, <3>2, <3>3
  <2>6. ASSUME NEW q \in Places(d) PROVE q = <<i, sort, k>>
    <3>1. PICK j \in 0 .. Len(calls), kind \in {"comm", "counter"} :
            \E l \in DOMAIN Holding(j, kind) : Holding(j, kind)[l] = d /\ q = <<j, kind, l>>
      BY DEF Places
    <3>2. PICK l \in DOMAIN Holding(j, kind) : Holding(j, kind)[l] = d /\ q = <<j, kind, l>>
      BY <3>1
    <3>3. d \in Range(Holding(j, kind)) /\ kind \in Sorts
      BY <3>2 DEF Range, Sorts
    <3>4. kind = sort
      <4>1. d \in OfSort(kind)
        BY <1>2, <3>3
      <4> QED
        BY <2>1, <4>1 DEF OfSort
    <3>5. j = i
      BY <1>3, <2>2, <3>3, <3>4
    <3>6. l = k
      BY <1>2, <2>3, <3>2, <3>4, <3>5, OneIndex
    <3> QED
      BY <3>2, <3>4, <3>5, <3>6
  <2> QED
    BY <2>5, <2>6
<1> QED
  BY <1>4, <1>5 DEF DataInOnePlace

LEMMA InnermostClaims ==
  ASSUME CallsExact, DataExact
  PROVE  ClaimedByInnermost
<1>1. calls \in Seq(CallRecord) /\ 0 \notin DOMAIN calls
  BY DEF CallsExact, EventManager, Managers
<1> SUFFICES ASSUME NEW i \in DOMAIN calls, NEW d \in Data(i)
             PROVE  /\ calls[i].entry <= d.ts /\ d.ts <= calls[i].exit
                    /\ \A j \in Children(i) : ~(calls[j].entry < d.ts /\ d.ts < calls[j].exit)
  BY DEF ClaimedByInnermost
<1>2. i # 0
  BY <1>1
<1>3. PICK sort \in Sorts : d \in Range(Has(calls, i, sort))
  <2>1. PICK sort \in Sorts : d \in Range(Holding(i, sort))
    BY DEF Data, Sorts
  <2> QED
    BY <1>2, <2>1, HoldingIs
<1>4. Innermost(calls, StackOf(EventManager, sort), sort)
  BY DEF DataExact
<1>5. Within(d, calls[i].entry, calls[i].exit)
  BY <1>3, <1>4 DEF Innermost
<1>6. \A j \in DOMAIN calls : calls[j].parent = i => ~Inside(d, calls[j])
  BY <1>3, <1>4 DEF Innermost
<1> QED
  BY <1>5, <1>6 DEF Within, Inside, Children

(* Every communication and counter event that was handed over is in one      *)
(* place, on its stack or with the innermost call that it lies within, and  *)
(* it is there once, whatever the cuts between IO steps.                    *)
THEOREM DataPlaced == Spec => []DataWhereItBelongs
<1>1. CallsExact /\ DataExact => DataWhereItBelongs
  BY InOnePlace, InnermostClaims DEF DataWhereItBelongs
<1> QED
  BY <1>1, DataOfTrace, PTL

(* A call that completes leaves nothing on the stacks that lies from its     *)
(* entry to its exit, both included.                                        *)
LEMMA NothingLeft ==
  ASSUME TraceInv, TraceInv', CallsExact, CallsExact', DataExact, DataExact',
         NEW f \in 0 .. Len(func), NEW c \in 0 .. Len(comm), NEW n \in 0 .. Len(counter), IOStep(f, c, n),
         NEW i \in Complete' \ Complete, NEW d \in Data(0)'
  PROVE  d.ts < calls'[i].entry \/ d.ts > calls'[i].exit
<1>1. i \in DOMAIN calls' /\ calls'[i].exit # Open /\ i \notin Complete
  BY DEF Complete
<1>2. PICK sort \in Sorts : d \in Range(StackOf(EventManager', sort))
  BY DEF Data, Holding, Sorts, StackOf, EventManager
<1>3. Claims(calls', StackOf(EventManager', sort), Complete)
  BY DataIOStep
<1>4. ~Within(d, calls'[i].entry, calls'[i].exit)
  BY <1>1, <1>2, <1>3 DEF Claims
<1>5. calls'[i] \in CallRecord /\ d \in Rows
  <2>1. EventManager' \in Managers
    BY DEF CallsExact
  <2>2. calls' \in Seq(CallRecord) /\ StackOf(EventManager', sort) \in Seq(Rows)
    BY <2>1 DEF EventManager, Managers, StackOf
  <2> QED
    BY <1>1, <1>2, <2>2, RowsIn
<1>6. d.ts \in Int /\ calls'[i].entry \in Int /\ calls'[i].exit \in Int
  <2>1. calls'[i].entry \in Int /\ calls'[i].exit \in Int
    BY <1>5, SMTT(30) DEF CallRecord, Open
  <2> QED
    BY <1>5, <2>1, RowFields
<1> QED
  BY <1>4, <1>6 DEF Within

(* A call that completes, in addFunc, has taken all that lies from its entry *)
(* to its exit; whatever comes later of that time was claimed by none.      *)
THEOREM AllClaimed == Spec => NoneLeftUnclaimed
<1>1. /\ TraceInv /\ CallsExact /\ DataExact
      /\ (TraceInv /\ CallsExact /\ DataExact)'
      /\ [Next]_vars
      => [\A i \in Complete' \ Complete : \A d \in Data(0)' :
            d.ts < calls'[i].entry \/ d.ts > calls'[i].exit]_vars
  <2> SUFFICES ASSUME TraceInv, CallsExact, DataExact, TraceInv', CallsExact', DataExact', [Next]_vars,
                      NEW i \in Complete' \ Complete, NEW d \in Data(0)'
               PROVE  d.ts < calls'[i].entry \/ d.ts > calls'[i].exit
    OBVIOUS
  <2>1. ASSUME \E ts \in Times : \/ \E f \in Func : TraceEntry(f, ts)
                                 \/ TraceExit(ts)
                                 \/ \E k \in DataKind : TraceData(k, ts)
        PROVE  FALSE
    <3>1. step = -1 /\ running /\ step' = step /\ running' = running
      BY <2>1 DEF TraceEntry, TraceExit, TraceData, Write
    <3>2. calls' = <<>>
      BY <3>1 DEF TraceInv, Untouched
    <3> QED
      BY <3>2 DEF Complete
  <2>2. ASSUME NEW f \in 0 .. Len(func), NEW c \in 0 .. Len(comm), NEW n \in 0 .. Len(counter),
               IOStep(f, c, n)
        PROVE  d.ts < calls'[i].entry \/ d.ts > calls'[i].exit
    BY <2>2, NothingLeft
  <2>3. ASSUME \/ \E f \in 0 .. Len(func), c \in 0 .. Len(comm), n \in 0 .. Len(counter) :
                    IOStepDisordered(f, c, n)
               \/ EndOfStream
               \/ UNCHANGED vars
        PROVE  FALSE
    <3>1. calls' = calls
      BY <2>3, TraceInvOther DEF eventVars
    <3> QED
      BY <3>1 DEF Complete
  <2> QED
    BY <2>1, <2>2, <2>3 DEF Next
<1> QED
  BY <1>1, DataOfTrace, PTL DEF Spec, NoneLeftUnclaimed

-----------------------------------------------------------------------------
(* The stack is the line of open calls.                                     *)

LEMMA LineIsBelow ==
  ASSUME Written, NEW E, NEW X, ProgIs(E, X), NEW m \in Nat, m <= MaxEvents, NEW kn,
         NEW cs \in Seq(CallRecord), NEW st \in Seq(Nat), CallInv(cs, st, m, kn, E, X),
         NEW i \in DOMAIN st, NEW j \in DOMAIN cs
  PROVE  Line(cs, st[i], j) <=> j < st[i] /\ j \in Range(st)
<1>1. /\ Begun(cs, m, kn, E) /\ ByEntry(cs) /\ Ended(cs, m, X) /\ OpenOnes(cs, st)
  BY DEF CallInv
<1>2. PICK c : c = st[i] /\ c \in DOMAIN cs /\ cs[c].exit = Open
  BY <1>1 DEF OpenOnes, Range
<1>3. PICK p, o : p = cs[c].of /\ o = cs[j].of /\ p \in DOMAIN prog /\ o \in DOMAIN prog /\ E[p] <= m
  BY <1>1, <1>2 DEF Begun
<1>4. c \in Nat /\ j \in Nat
  BY <1>2
<1>5. E[p] \in Nat /\ X[p] \in Nat /\ X[o] \in Nat /\ p \in Nat /\ o \in Nat /\ Never \in Nat /\ m < Never
  <2>1. E \in [DOMAIN prog -> Nat] /\ X \in [DOMAIN prog -> Nat] /\ DOMAIN prog \subseteq Nat
    BY DEF ProgIs
  <2>2. Never \in Nat /\ m < Never
    BY ADParserAssumption DEF Never
  <2> QED
    BY <1>3, <2>1, <2>2
<1>6. ASSUME NEW x \in DOMAIN cs, NEW q, q = cs[x].of
      PROVE  cs[x].exit = Open <=> ~(X[q] <= m)
  <2>1. q \in DOMAIN prog
    BY <1>1, <1>6 DEF Begun
  <2>2. X[q] \in Nat /\ ((X[q] \in DOMAIN trace /\ prog[q].exit # Open) \/ X[q] = Never)
    BY <2>1, PlacesOf
  <2>3. cs[x].exit = IF X[q] <= m THEN prog[q].exit ELSE Open
    BY <1>1, <1>6 DEF Ended
  <2> QED
    BY <1>5, <2>2, <2>3, SMTT(30)
<1>7. Line(cs, c, j) <=> o < p /\ E[p] < X[o]
  BY <1>3, WithinIs DEF Line
<1>8. ASSUME Line(cs, c, j) PROVE j < c /\ j \in Range(st)
  <2>1. o < p
    BY <1>7, <1>8
  <2>2. j < c
    <3>1. c < j => p < o
      BY <1>1, <1>2, <1>3 DEF ByEntry
    <3>2. c # j
      BY <1>3, <1>5, <2>1
    <3> QED
      BY <1>4, <1>5, <2>1, <3>1, <3>2
  <2>3. X[p] < X[o] \/ (X[p] = Never /\ X[o] = Never)
    BY <1>3, <1>8 DEF ProgIs, Nested, Line
  <2>4. ~(X[p] <= m)
    BY <1>2, <1>3, <1>6
  <2>5. ~(X[o] <= m)
    BY <1>5, <2>3, <2>4, SMTT(30)
  <2>6. cs[j].exit = Open
    BY <1>3, <1>6, <2>5
  <2> QED
    BY <1>1, <2>2, <2>6 DEF OpenOnes
<1>9. ASSUME j < c, j \in Range(st) PROVE Line(cs, c, j)
  <2>1. o < p
    BY <1>1, <1>2, <1>3, <1>9 DEF ByEntry
  <2>2. cs[j].exit = Open
    BY <1>1, <1>9 DEF OpenOnes
  <2>3. ~(X[o] <= m)
    BY <1>3, <1>6, <2>2
  <2> QED
    BY <1>3, <1>5, <1>7, <2>1, <2>3, SMTT(30)
<1> QED
  BY <1>2, <1>8, <1>9

LEMMA StackIsLine ==
  ASSUME Written, NEW E, NEW X, ProgIs(E, X), NEW m \in Nat, m <= MaxEvents, NEW kn,
         NEW cs \in Seq(CallRecord), NEW st \in Seq(Nat), CallInv(cs, st, m, kn, E, X),
         NEW i \in DOMAIN st
  PROVE  cs[st[i]].parent = IF i = 1 THEN 0 ELSE st[i - 1]
<1>1. Parents(cs) /\ OpenOnes(cs, st)
  BY DEF CallInv
<1>2. \A a \in DOMAIN st : st[a] \in DOMAIN cs /\ st[a] \in Range(st) /\ st[a] \in Nat /\ a \in Nat
  BY <1>1 DEF OpenOnes, Range
<1>3. \A a, b \in DOMAIN st : a < b => st[a] < st[b]
  BY <1>1 DEF OpenOnes
<1>4. PICK c, q : c = st[i] /\ q = cs[c].parent
  OBVIOUS
<1>5. /\ q = 0 \/ Line(cs, c, q)
      /\ \A j \in DOMAIN cs : Line(cs, c, j) => j <= q
  BY <1>1, <1>2, <1>4 DEF Parents
<1>6. \A j \in DOMAIN cs : Line(cs, c, j) <=> j < c /\ j \in Range(st)
  BY <1>4, LineIsBelow
(* what is below on the stack comes before on it *)
<1>7. ASSUME NEW j \in Range(st), j < c PROVE \E a \in DOMAIN st : a < i /\ j = st[a]
  <2>1. PICK a \in DOMAIN st : j = st[a]
    BY DEF Range
  <2>2. ~(i < a) /\ a # i
    BY <1>2, <1>3, <1>4, <1>7, <2>1
  <2> QED
    BY <1>2, <2>1, <2>2
<1>8. ASSUME q # 0 PROVE \E a \in DOMAIN st : a < i /\ q = st[a]
  <2>1. q \in DOMAIN cs
    BY <1>5, <1>8 DEF Line
  <2> QED
    BY <1>5, <1>6, <1>7, <1>8, <2>1
<1>9. CASE i = 1
  <2>1. \A a \in DOMAIN st : ~(a < 1)
    OBVIOUS
  <2> QED
    BY <1>4, <1>8, <1>9, <2>1
<1>10. CASE i # 1
  <2>1. i - 1 \in DOMAIN st /\ i - 1 < i
    BY <1>10
  <2>2. PICK j \in Nat : j = st[i - 1] /\ j \in DOMAIN cs /\ j \in Range(st) /\ j < c
    BY <1>2, <1>3, <1>4, <2>1
  <2>3. j <= q
    BY <1>5, <1>6, <2>2
  <2>4. q # 0
    <3>1. 0 \notin DOMAIN cs
      OBVIOUS
    <3> QED
      BY <2>2, <2>3, <3>1
  <2>5. PICK a \in DOMAIN st : a < i /\ q = st[a]
    BY <1>8, <2>4
  <2>6. a = i - 1 \/ a < i - 1
    BY <2>1, <2>5
  <2>7. q = j \/ q < j
    BY <1>3, <2>1, <2>2, <2>5, <2>6
  <2>8. q \in Nat
    BY <1>2, <2>5
  <2> QED
    BY <1>4, <1>10, <2>2, <2>3, <2>7, <2>8, SMTT(30)
<1> QED
  BY <1>9, <1>10

(* The stack of a thread is the line of its open calls, at all times, and    *)
(* the two stacks of data events hold events of their own kind.             *)
THEOREM TypesAndStack == Spec => []TypeOK
<1>1. TraceInv /\ CallsExact /\ DataExact => TypeOK
  <2> SUFFICES ASSUME TraceInv, CallsExact, DataExact PROVE TypeOK
    OBVIOUS
  <2>1. PICK E, X : ProgIs(E, X) /\ CallInv(calls, stack, Frontier, known, E, X)
    BY DEF CallsExact
  <2>2. Frontier \in Nat /\ Frontier <= MaxEvents
    BY FrontierIs DEF TraceInv, Frontier
  <2>3. calls \in Seq(CallRecord) /\ stack \in Seq(Nat) /\ Written
    BY DEF CallsExact, EventManager, Managers, TraceInv
  <2>4. Range(stack) = (DOMAIN calls) \ Complete
    BY <2>1 DEF CallInv, OpenOnes, Complete
  <2>5. \A i \in DOMAIN stack : calls[stack[i]].parent = IF i = 1 THEN 0 ELSE stack[i - 1]
    BY <2>1, <2>2, <2>3, StackIsLine
  <2>6. ASSUME NEW sort \in Sorts, NEW d \in Range(StackOf(EventManager, sort))
        PROVE  d.type \in DataKind /\ d.type \notin Watched /\ Sort(d) = sort
    <3>1. d \in OfSort(sort)
      BY DEF DataExact, Placed
    <3> QED
      BY <3>1 DEF OfSort, HandedOver, Monitored
  <2>7. \A d \in Range(commStack) : d.type = "comm"
    <3>1. StackOf(EventManager, "comm") = commStack /\ "comm" \in Sorts
      BY DEF StackOf, EventManager, Sorts
    <3> QED
      BY <2>6, <3>1 DEF Sort
  <2>8. \A d \in Range(counterStack) : d.type \in {"counter", "corrid"}
    <3>1. StackOf(EventManager, "counter") = counterStack /\ "counter" \in Sorts
      BY DEF StackOf, EventManager, Sorts
    <3>2. \A d \in Range(counterStack) : d.type \in DataKind /\ d.type \notin Watched /\ d.type # "comm"
      BY <2>6, <3>1 DEF Sort
    <3> QED
      BY <3>2, ADParserAssumption
  <2> QED
    BY <2>4, <2>5, <2>7, <2>8 DEF TypeOK, TraceInv
<1> QED
  BY <1>1, DataOfTrace, PTL

=============================================================================
