------------------------- MODULE TenantInvoices_proofs -------------------------
(***************************************************************************)
(* Theorems about the money of payment invoices and tenant invoices, for   *)
(* any amounts, keys, numbers and requests, however requests overlap and   *)
(* die.  First induction over sequences, which rests on the pigeonhole     *)
(* principle, and sums over records; then the payment book; then the       *)
(* tenant book.  Then the ledger of mobile money, which is a component of  *)
(* its own: for any number of rows, orderly and unruly; its last theorem   *)
(* is about the orderly ones.  At the end the rails that an invoice is     *)
(* collected over and paid back.                                           *)
(***************************************************************************)
EXTENDS TenantInvoices, MobileMoney, PaymentRails, FiniteSetTheorems, TLAPS

(* Induction up to b: a set with 0 that with n has n + 1 has b.             *)
LEMMA Induct ==
  ASSUME NEW S, 0 \in S, NEW b \in Nat, \A n \in 0..(b - 1) : n \in S => n + 1 \in S
  PROVE  b \in S
<1> SUFFICES ASSUME b \notin S PROVE FALSE
  OBVIOUS
<1> DEFINE T == {n \in 0..b : n \notin S}
           f == [n \in T |-> n - 1]
<1>1. IsFiniteSet(T) /\ Cardinality(T) \in Nat /\ b \in T
  <2>1. IsFiniteSet(0..b)
    BY FS_Interval
  <2>2. T \in SUBSET (0..b) /\ b \in T
    OBVIOUS
  <2> HIDE DEF T
  <2> QED BY <2>1, <2>2, FS_Subset, FS_CardinalityType
<1>2. IsFiniteSet(T \ {b}) /\ Cardinality(T \ {b}) < Cardinality(T)
  <2> HIDE DEF T
  <2>1. IsFiniteSet(T \ {b}) /\ Cardinality(T \ {b}) = Cardinality(T) - 1
    BY <1>1, FS_RemoveElement
  <2> QED BY <1>1, <2>1
<1>3. f \in [T -> T \ {b}]
  <2> SUFFICES ASSUME NEW n \in T PROVE n - 1 \in T \ {b}
    OBVIOUS
  <2>1. n # 0 /\ n \in 0..b
    OBVIOUS
  <2>2. n - 1 \in 0..(b - 1)
    BY <2>1
  <2>3. CASE n - 1 \in S
    BY <2>1, <2>2, <2>3
  <2> QED BY <2>2, <2>3
<1>4. PICK x \in T, y \in T : x # y /\ f[x] = f[y]
  <2> HIDE DEF T, f
  <2> QED BY <1>1, <1>2, <1>3, FS_PigeonHole
<1> QED BY <1>4

(* The partial sums of a sequence of amounts.                               *)
PartialSums(a, g) ==
    /\ g \in [0..Len(a) -> Int] /\ g[0] = 0
    /\ \A n \in 1..Len(a) : g[n] = g[n - 1] + a[n]

LEMMA SumsExist == ASSUME NEW a \in Seq(Int) PROVE \E g : PartialSums(a, g)
<1> DEFINE P(n, g) == /\ g \in [0..n -> Int] /\ g[0] = 0
                      /\ \A m \in 1..n : g[m] = g[m - 1] + a[m]
           S == {n \in 0..Len(a) : \E g : P(n, g)}
<1>1. 0 \in S
  <2>1. P(0, [m \in 0..0 |-> 0]) /\ 0 \in 0..Len(a)
    OBVIOUS
  <2> HIDE DEF P
  <2> QED BY <2>1
<1>2. ASSUME NEW n \in 0..(Len(a) - 1), n \in S PROVE n + 1 \in S
  <2>1. PICK g : P(n, g)
    BY <1>2
  <2> DEFINE q == [m \in 0..(n + 1) |-> IF m <= n THEN g[m] ELSE g[n] + a[n + 1]]
  <2>2. n \in Nat /\ n + 1 \in 1..Len(a) /\ a[n + 1] \in Int
    OBVIOUS
  <2>3. P(n + 1, q)
    <3>1. q \in [0..(n + 1) -> Int] /\ q[0] = 0
      BY <2>1, <2>2
    <3>2. ASSUME NEW m \in 1..(n + 1) PROVE q[m] = q[m - 1] + a[m]
      <4>1. CASE m = n + 1
        BY <2>1, <2>2, <4>1
      <4>2. CASE m # n + 1
        <5>1. m \in 1..n /\ m - 1 \in 0..n
          BY <2>2, <4>2
        <5> QED BY <2>1, <2>2, <5>1
      <4> QED BY <4>1, <4>2
    <3> QED BY <3>1, <3>2
  <2>4. n + 1 \in 0..Len(a)
    OBVIOUS
  <2> HIDE DEF P, q
  <2> QED BY <2>3, <2>4
<1>3. Len(a) \in S
  <2> HIDE DEF S
  <2> QED BY <1>1, <1>2, Induct
<1>4. PICK g : P(Len(a), g)
  BY <1>3
<1> QED BY <1>4 DEF PartialSums

LEMMA SumsAgree ==
    ASSUME NEW a \in Seq(Int), NEW g, PartialSums(a, g)
    PROVE  SumSeq(a) = g[Len(a)] /\ SumSeq(a) \in Int
<1> DEFINE R(s) == s = [n \in 0..Len(a) |-> IF n = 0 THEN 0 ELSE s[n - 1] + a[n]]
           sum == CHOOSE s : R(s)
<1>1. R(g)
  BY DEF PartialSums
<1>2. R(sum)
  <2> HIDE DEF R
  <2> QED BY <1>1
<1>3. SumSeq(a) = sum[Len(a)]
  BY DEF SumSeq
<1> HIDE DEF sum
<1> DEFINE S == {n \in 0..Len(a) : sum[n] = g[n]}
<1>4. 0 \in S
  BY <1>2 DEF PartialSums
<1>5. ASSUME NEW n \in 0..(Len(a) - 1), n \in S PROVE n + 1 \in S
  <2>1. n + 1 \in 1..Len(a) /\ n + 1 - 1 = n
    OBVIOUS
  <2>2. sum[n + 1] = sum[n] + a[n + 1] /\ g[n + 1] = g[n] + a[n + 1]
    BY <1>2, <2>1 DEF PartialSums
  <2> QED BY <1>5, <2>1, <2>2
<1>6. Len(a) \in S
  <2> HIDE DEF S
  <2> QED BY <1>4, <1>5, Induct
<1> QED BY <1>3, <1>6 DEF PartialSums

LEMMA SumEmpty == SumSeq(<<>>) = 0
<1>1. PartialSums(<<>>, [n \in 0..0 |-> 0]) /\ <<>> \in Seq(Int) /\ Len(<<>>) = 0
  BY DEF PartialSums
<1> QED BY <1>1, SumsAgree

(* One more amount is added.                                                *)
LEMMA SumExtend ==
    ASSUME NEW a \in Seq(Int), NEW b \in Seq(Int), Len(b) = Len(a) + 1,
           \A i \in 1..Len(a) : b[i] = a[i]
    PROVE  SumSeq(b) = SumSeq(a) + b[Len(b)] /\ SumSeq(a) \in Int
<1>1. PICK g : PartialSums(a, g)
  BY SumsExist
<1> DEFINE q == [n \in 0..Len(b) |-> IF n <= Len(a) THEN g[n] ELSE g[Len(a)] + b[Len(b)]]
<1>a. Len(a) \in Nat /\ Len(b) \in 1..Len(b) /\ \A n \in 1..Len(b) : b[n] \in Int
  OBVIOUS
<1>0. /\ Len(a) \in Nat /\ b[Len(b)] \in Int
      /\ \A n \in 0..Len(a) : g[n] \in Int
  BY <1>1, <1>a DEF PartialSums
<1>2. q \in [0..Len(b) -> Int] /\ q[0] = 0 /\ q[Len(b)] = g[Len(a)] + b[Len(b)]
  <2>1. g[0] = 0 /\ g[Len(a)] \in Int
    BY <1>0, <1>1 DEF PartialSums
  <2>2. ASSUME NEW n \in 0..Len(b) PROVE (IF n <= Len(a) THEN g[n] ELSE g[Len(a)] + b[Len(b)]) \in Int
    <3>1. CASE n <= Len(a)
      <4>1. n \in 0..Len(a)
        BY <1>0, <3>1
      <4> QED BY <1>0, <3>1, <4>1
    <3>2. CASE ~(n <= Len(a))
      BY <1>0, <2>1, <3>2
    <3> QED BY <3>1, <3>2
  <2>3. 0 \in 0..Len(b) /\ 0 <= Len(a) /\ Len(b) \in 0..Len(b) /\ ~(Len(b) <= Len(a))
    BY <1>0
  <2> QED BY <2>1, <2>2, <2>3
<1>3. ASSUME NEW n \in 1..Len(b) PROVE q[n] = q[n - 1] + b[n]
  <2>1. CASE n = Len(b)
    BY <1>1, <2>1 DEF PartialSums
  <2>2. CASE n # Len(b)
    <3>1. n \in 1..Len(a) /\ n - 1 \in 0..Len(a)
      BY <2>2
    <3> QED BY <1>1, <3>1 DEF PartialSums
  <2> QED BY <2>1, <2>2
<1>4. PartialSums(b, q)
  BY <1>2, <1>3 DEF PartialSums
<1> HIDE DEF q
<1> QED BY <1>1, <1>2, <1>4, SumsAgree

(* The sums of some numbers, once the i-th is another.                      *)
Summing(L, a, g) == /\ g[0] = 0 /\ \A n \in 0..L : g[n] \in Int
                    /\ \A n \in 1..L : a[n] \in Int /\ g[n] = g[n - 1] + a[n]
Differs(L, a, b, i) == \A n \in 1..L : b[n] \in Int /\ (n # i => b[n] = a[n])
Shifted(L, a, b, g, i, q) == /\ q \in [0..L -> Int] /\ q[0] = 0 /\ q[L] = g[L] - a[i] + b[i]
                             /\ \A n \in 1..L : q[n] = q[n - 1] + b[n]

LEMMA ShiftedSums ==
    ASSUME NEW L \in Nat, NEW i \in 1..L, NEW a, NEW b, NEW g, Summing(L, a, g), Differs(L, a, b, i)
    PROVE  \E q : Shifted(L, a, b, g, i, q)
<1>a. /\ g[0] = 0 /\ (\A n \in 0..L : g[n] \in Int)
      /\ \A n \in 1..L : a[n] \in Int /\ b[n] \in Int /\ g[n] = g[n - 1] + a[n]
      /\ \A n \in 1..L : n # i => b[n] = a[n]
  BY DEF Summing, Differs
<1> DEFINE v(n) == IF n < i THEN g[n] ELSE g[n] - a[i] + b[i]
<1>1. v(0) = 0 /\ v(L) = g[L] - a[i] + b[i]
  BY <1>a
<1>2. \A n \in 0..L : v(n) \in Int
  BY <1>a
<1>3. ASSUME NEW n \in 1..L PROVE v(n) = v(n - 1) + b[n]
  <2>1. /\ n - 1 \in 0..L /\ g[n - 1] \in Int /\ g[n] = g[n - 1] + a[n]
        /\ a[n] \in Int /\ b[n] \in Int /\ a[i] \in Int /\ b[i] \in Int
    BY <1>a
  <2>2. CASE n < i
    <3>1. n - 1 < i /\ b[n] = a[n]
      BY <1>a, <2>2
    <3> QED BY <2>1, <2>2, <3>1
  <2>3. CASE n = i
    <3>1. n - 1 < i /\ ~(n < i)
      BY <2>3
    <3> QED BY <2>1, <2>3, <3>1
  <2>4. CASE n > i
    <3>1. ~(n - 1 < i) /\ ~(n < i) /\ b[n] = a[n]
      BY <1>a, <2>4
    <3> QED BY <2>1, <2>4, <3>1
  <2> QED BY <2>2, <2>3, <2>4
<1> HIDE DEF v
<1> DEFINE q == [n \in 0..L |-> v(n)]
<1>4. q \in [0..L -> Int] /\ q[0] = v(0) /\ q[L] = v(L)
  BY <1>2
<1>5. ASSUME NEW n \in 1..L PROVE q[n] = q[n - 1] + b[n]
  <2>1. q[n] = v(n) /\ q[n - 1] = v(n - 1)
    OBVIOUS
  <2> QED BY <1>3, <2>1
<1> HIDE DEF q
<1>6. Shifted(L, a, b, g, i, q)
  BY <1>1, <1>4, <1>5 DEF Shifted
<1> QED BY <1>6

(* One amount is replaced by another.                                       *)
LEMMA SumChange ==
    ASSUME NEW a \in Seq(Int), NEW b \in Seq(Int), Len(b) = Len(a), NEW i \in 1..Len(a),
           \A j \in 1..Len(a) \ {i} : b[j] = a[j]
    PROVE  SumSeq(b) = SumSeq(a) - a[i] + b[i] /\ SumSeq(a) \in Int
<1>1. PICK g : PartialSums(a, g)
  BY SumsExist
<1>2. Len(a) \in Nat /\ \A n \in 1..Len(a) : a[n] \in Int /\ b[n] \in Int
  OBVIOUS
<1>3. /\ g[0] = 0 /\ \A n \in 0..Len(a) : g[n] \in Int
      /\ \A n \in 1..Len(a) : g[n] = g[n - 1] + a[n]
  BY <1>1 DEF PartialSums
<1>4. Summing(Len(a), a, g) /\ Differs(Len(a), a, b, i)
  BY <1>2, <1>3 DEF Summing, Differs
<1>5. PICK q : Shifted(Len(a), a, b, g, i, q)
  BY <1>2, <1>4, ShiftedSums
<1>6. PartialSums(b, q) /\ q[Len(b)] = g[Len(a)] - a[i] + b[i]
  BY <1>5 DEF PartialSums, Shifted
<1>7. SumSeq(a) = g[Len(a)] /\ SumSeq(b) = q[Len(b)] /\ SumSeq(a) \in Int
  BY <1>1, <1>6, SumsAgree
<1> QED BY <1>6, <1>7

(* What a sequence weighs whose elements weigh w. *)
Weighed(w, s) == [i \in DOMAIN s |-> w[s[i]]]
Weight(w, s) == SumSeq([i \in DOMAIN s |-> w[s[i]]])

IsWeighed(w, s, r) ==
    /\ r \in Seq(Int) /\ Len(r) = Len(s) /\ Weight(w, s) = SumSeq(r)
    /\ \A i \in 1..Len(s) : r[i] = w[s[i]]

LEMMA WeighedOut ==
    ASSUME NEW T, NEW w \in [T -> Int], NEW s \in Seq(T)
    PROVE  IsWeighed(w, s, Weighed(w, s))
<1>1. DOMAIN s = 1..Len(s) /\ Len(s) \in Nat /\ \A i \in 1..Len(s) : s[i] \in T
  OBVIOUS
<1>2. Weighed(w, s) \in [1..Len(s) -> Int] /\ \A i \in 1..Len(s) : Weighed(w, s)[i] = w[s[i]]
  BY <1>1 DEF Weighed
<1>3. Weighed(w, s) \in Seq(Int) /\ Len(Weighed(w, s)) = Len(s)
  BY <1>1, <1>2
<1>4. Weight(w, s) = SumSeq(Weighed(w, s))
  BY DEF Weight, Weighed
<1> QED BY <1>2, <1>3, <1>4 DEF IsWeighed

LEMMA Weights ==
    ASSUME NEW T, NEW w \in [T -> Int], NEW s \in Seq(T)
    PROVE  /\ Weight(w, s) \in Int /\ Weight(w, <<>>) = 0
           /\ \A x \in T : Weight(w, Append(s, x)) = Weight(w, s) + w[x]
<1>1. PICK r : r = Weighed(w, s)
  OBVIOUS
<1>2. /\ r \in Seq(Int) /\ Len(r) = Len(s) /\ Weight(w, s) = SumSeq(r)
      /\ \A i \in 1..Len(s) : r[i] = w[s[i]]
  <2>1. IsWeighed(w, s, r)
    BY <1>1, WeighedOut
  <2> QED BY <2>1 DEF IsWeighed
<1>3. SumSeq(r) \in Int
  <2>1. PICK g : PartialSums(r, g)
    BY <1>2, SumsExist
  <2> QED BY <1>2, <2>1, SumsAgree
<1>4. Weight(w, <<>>) = 0
  <2>1. [i \in DOMAIN <<>> |-> w[<<>>[i]]] = <<>>
    OBVIOUS
  <2> QED BY <2>1, SumEmpty DEF Weight
<1>5. ASSUME NEW x \in T PROVE Weight(w, Append(s, x)) = Weight(w, s) + w[x]
  <2>1. PICK t : t = Append(s, x)
    OBVIOUS
  <2>2. /\ t \in Seq(T) /\ Len(t) = Len(s) + 1 /\ t[Len(t)] = x /\ Len(t) \in 1..Len(t)
        /\ \A i \in 1..Len(s) : t[i] = s[i] /\ i \in 1..Len(t)
    BY <2>1
  <2>3. PICK q : q = Weighed(w, t)
    OBVIOUS
  <2>4. /\ q \in Seq(Int) /\ Len(q) = Len(t) /\ Weight(w, t) = SumSeq(q)
        /\ \A i \in 1..Len(t) : q[i] = w[t[i]]
    <3>1. IsWeighed(w, t, q)
      BY <2>2, <2>3, WeighedOut
    <3> QED BY <3>1 DEF IsWeighed
  <2>5. Len(q) = Len(r) + 1 /\ (\A i \in 1..Len(r) : q[i] = r[i]) /\ q[Len(q)] = w[x]
    BY <1>2, <2>2, <2>4
  <2>6. SumSeq(q) = SumSeq(r) + w[x]
    BY <1>2, <2>4, <2>5, SumExtend
  <2> QED BY <1>2, <2>1, <2>4, <2>6
<1> QED BY <1>2, <1>3, <1>4, <1>5

LEMMA Reweighed ==
    ASSUME NEW T, NEW w \in [T -> Int], NEW s \in Seq(T), NEW t \in Seq(T), Len(t) = Len(s),
           NEW j \in 1..Len(s), \A i \in 1..Len(s) \ {j} : t[i] = s[i]
    PROVE  Weight(w, t) = Weight(w, s) - w[s[j]] + w[t[j]]
<1> DEFINE p == Weighed(w, s)
           q == Weighed(w, t)
<1>1. /\ p \in Seq(Int) /\ Len(p) = Len(s) /\ Weight(w, s) = SumSeq(p)
      /\ \A i \in 1..Len(s) : p[i] = w[s[i]]
  <2>1. IsWeighed(w, s, p)
    BY WeighedOut
  <2> HIDE DEF p
  <2> QED BY <2>1 DEF IsWeighed
<1>2. /\ q \in Seq(Int) /\ Len(q) = Len(t) /\ Weight(w, t) = SumSeq(q)
      /\ \A i \in 1..Len(t) : q[i] = w[t[i]]
  <2>1. IsWeighed(w, t, q)
    BY WeighedOut
  <2> HIDE DEF q
  <2> QED BY <2>1 DEF IsWeighed
<1> HIDE DEF p, q
<1>3. Len(q) = Len(p) /\ j \in 1..Len(p) /\ q[j] = w[t[j]] /\ p[j] = w[s[j]]
  BY <1>1, <1>2
<1>4. \A i \in 1..Len(p) \ {j} : q[i] = p[i]
  <2> SUFFICES ASSUME NEW i \in 1..Len(p) \ {j} PROVE q[i] = p[i]
    OBVIOUS
  <2>1. i \in 1..Len(s) /\ i \in 1..Len(t)
    BY <1>1
  <2>2. t[i] = s[i]
    BY <2>1
  <2> QED BY <1>1, <1>2, <2>1, <2>2
<1>5. SumSeq(q) = SumSeq(p) - p[j] + q[j]
  BY <1>1, <1>2, <1>3, <1>4, SumChange
<1> QED BY <1>1, <1>2, <1>3, <1>5

(* The newest of a set of numbers. *)
LEMMA Newest == ASSUME NEW b \in Nat, NEW T \in SUBSET (1..b), T # {} PROVE Max(T) \in T
<1> DEFINE S == {n \in 0..b : (\A x \in T : x <= n) => \E m \in T : \A x \in T : x <= m}
<1>1. 0 \in S
  <2>1. PICK x \in T : x \in 1..b
    OBVIOUS
  <2> QED BY <2>1
<1>2. ASSUME NEW n \in 0..(b - 1), n \in S PROVE n + 1 \in S
  <2> SUFFICES ASSUME \A x \in T : x <= n + 1 PROVE \E m \in T : \A x \in T : x <= m
    OBVIOUS
  <2>1. CASE n + 1 \in T
    BY <2>1
  <2>2. CASE n + 1 \notin T
    <3>1. ASSUME NEW x \in T PROVE x <= n
      <4>1. x # n + 1 /\ x <= n + 1 /\ x \in Int /\ n \in Int
        BY <2>2
      <4> QED BY <4>1
    <3> QED BY <1>2, <3>1
  <2> QED BY <2>1, <2>2
<1>3. b \in S
  <2> HIDE DEF S
  <2> QED BY <1>1, <1>2, Induct
<1>4. \E m \in T : \A x \in T : x <= m
  BY <1>3
<1> QED BY <1>4 DEF Max

-----------------------------------------------------------------------------
(* One request at a time.                                                   *)

(* At most one handler is on its way. *)
Lone == \A g, h \in Handlers : g = h \/ hs[g].pc = "idle" \/ hs[h].pc = "idle"

(* The handler that is on its way, or any that rests if none is. *)
Current(k) ==
    \/ Quiet /\ k = Resting
    \/ \E h \in Handlers : k = hs[h] /\ \A g \in Handlers \ {h} : hs[g].pc = "idle"

RestingIsResting == \A h \in Handlers : hs[h].pc = "idle" => hs[h] = Resting

(* A step of one handler that does not overlap another's.                   *)
Stepping(h, k) ==
    /\ Update(h, k)
    /\ k.pc = "idle" => k = Resting
    /\ \/ hs[h].pc # "idle" /\ overlaps' = overlaps
       \/ /\ hs[h].pc = "idle"
          /\ IF \A g \in Handlers \ {h} : hs[g].pc = "idle" THEN overlaps' = overlaps
             ELSE overlaps' = overlaps + 1

LEMMA Steps ==
    ASSUME NEW T, hs \in [Handlers -> T], overlaps \in Nat, RestingIsResting,
           NEW h \in Handlers, NEW k, Stepping(h, k)
    PROVE  /\ hs'[h] = k /\ \A g \in Handlers \ {h} : hs'[g] = hs[g]
           /\ RestingIsResting' /\ overlaps' \in Nat
           /\ k \in T => hs' \in [Handlers -> T]
           /\ (overlaps = 0 => Lone) /\ overlaps' = 0
                 => overlaps = 0 /\ Lone' /\ Current(hs[h]) /\ \A q : Current(q)' => q = k
<1>1. hs' = [hs EXCEPT ![h] = k]
  BY DEF Stepping, Update
<1>2. hs'[h] = k /\ \A g \in Handlers \ {h} : hs'[g] = hs[g]
  BY <1>1
<1>3. k \in T => hs' \in [Handlers -> T]
  BY <1>1
<1>4. RestingIsResting'
  BY <1>2 DEF RestingIsResting, Stepping
<1>5. ASSUME overlaps = 0 => Lone, overlaps' = 0
      PROVE  overlaps = 0 /\ \A g \in Handlers \ {h} : hs[g].pc = "idle"
  BY <1>5 DEF Stepping, Lone
<1>6. ASSUME overlaps = 0 => Lone, overlaps' = 0
      PROVE  Lone' /\ Current(hs[h]) /\ \A q : Current(q)' => q = k
  <2>1. \A g \in Handlers \ {h} : hs[g].pc = "idle" /\ hs'[g].pc = "idle"
    BY <1>2, <1>5, <1>6
  <2>2. Lone'
    BY <2>1 DEF Lone
  <2>3. Current(hs[h])
    BY <2>1 DEF Current
  <2>4. ASSUME NEW q, Current(q)' PROVE q = k
    <3>1. CASE Quiet' /\ q = Resting
      BY <1>2, <3>1 DEF Quiet, Stepping
    <3>2. ASSUME NEW g \in Handlers, q = hs'[g], \A f \in Handlers \ {g} : hs'[f].pc = "idle"
          PROVE  q = k
      <4>1. CASE g = h
        BY <1>2, <3>2, <4>1
      <4>2. CASE g # h
        <5>1. hs'[h].pc = "idle" /\ hs'[g].pc = "idle"
          BY <2>1, <3>2, <4>2
        <5>2. k = Resting /\ hs'[g] = Resting
          BY <1>2, <1>4, <5>1 DEF Stepping, RestingIsResting
        <5> QED BY <3>2, <5>2
      <4> QED BY <4>1, <4>2
    <3> QED BY <2>4, <3>1, <3>2 DEF Current
  <2> QED BY <2>2, <2>3, <2>4
<1> QED BY <1>2, <1>3, <1>4, <1>5, <1>6 DEF Stepping

-----------------------------------------------------------------------------
(* Payment invoices: types.                                                 *)

PaymentPCs == {"idle", "pay.key", "pay.lookup", "pay.pending", "pay.capture", "pay.save",
               "credit", "receipt.count", "receipt.save", "settle.load", "settle.save",
               "refund.source", "refund.call", "refund.save", "refund.fail", "refund.debit"}
Keys == ClientKeys \cup {<<"attempt", n>> : n \in Nat}
PayRow == [key : Keys \cup {<<"refund", q>> : q \in Keys}, status : PaymentStatuses,
           amount : Int, charge : Nat]
PayInvoice == [status : InvoiceStatuses, paid : Nat, refunded : Nat]
PayReceipt == [payment : Nat, number : Nat, amount : Int]
Charge == [key : Keys, asked : Nat \ {0}, reply : {"CAPTURED", "REQUIRES_CAPTURE"},
           status : {"CAPTURED", "REQUIRES_CAPTURE", "FAILED"}, amount : Nat \ {0}]
Refund == [charge : Nat, amount : Nat]
PayLocal == [pc : PaymentPCs, inv : PayInvoice \cup {None}, pay : PayRow \cup {None},
             id : Nat, n : Nat]

PayTyped ==
    /\ inv \in PayInvoice /\ payments \in Seq(PayRow) /\ receipts \in Seq(PayReceipt)
    /\ charges \in Seq(Charge) /\ returned \in Seq(Refund)
    /\ overlaps \in Nat /\ aborts \in Nat /\ misled \in BOOLEAN
    /\ hs \in [Handlers -> PayLocal] /\ RestingIsResting

(* Under any interleaving.                                                  *)

(* The handlers that hold a copy of the invoice to write from, that hold a  *)
(* payment to make, that credit one, that settle one, that refund one.      *)
Holding == PaymentPCs \ {"idle", "receipt.count", "receipt.save", "settle.load"}
Paying == {"pay.lookup", "pay.pending", "pay.capture", "pay.save"}
Crediting == {"credit", "receipt.count", "receipt.save"}
Settling == {"settle.load", "settle.save"}
Refunding == {"refund.call", "refund.save", "refund.fail", "refund.debit"}

CoherentPay(i) ==
    /\ i.refunded <= i.paid
    /\ i.status = "PAID" => i.paid >= Total
    /\ i.status \in {"REFUNDED", "PARTIALLY_REFUNDED"} => i.refunded > 0

(* A payment that may bring money has its charge, whatever that came to. *)
Backed(p) ==
    /\ p.charge # 0 => p.charge \in DOMAIN charges /\ p.key \in Keys
    /\ p.status \in {"CAPTURED", "REQUIRES_CAPTURE"} => p.charge # 0 /\ p.amount > 0
    /\ p.status = "REFUNDED" => p.amount < 0

ReceiptSound(r) ==
    /\ r.payment \in DOMAIN payments /\ payments[r.payment].status = "CAPTURED"
    /\ payments[r.payment].amount = r.amount

ChargeSound(c) == c.reply = "CAPTURED" => c.status = "CAPTURED" /\ c.amount = c.asked

(* What a handler knows by the time it is where it is. *)
PaySound(k) ==
    /\ k.pc \in Holding => k.inv \in PayInvoice /\ CoherentPay(k.inv)
    /\ k.pc \in Paying => k.pay \in PayRow /\ k.pay.key \in Keys
    /\ k.pc = "pay.save" =>
          Backed(k.pay) /\ k.pay.status # "REFUNDED" /\ (k.pay.status = "FAILED" => k.pay.charge = 0)
    /\ k.pc \in Crediting =>
          /\ k.pay \in PayRow /\ k.pay.charge \in DOMAIN charges /\ k.id \in DOMAIN payments
          /\ payments[k.id].charge = k.pay.charge /\ k.pay.amount > 0
    /\ k.pc \in Settling =>
          /\ k.pay \in PayRow /\ k.id \in DOMAIN payments /\ k.pay.key = payments[k.id].key
          /\ k.pay.charge \in DOMAIN charges /\ k.pay.charge = payments[k.id].charge
          /\ k.pay.key \in Keys /\ (k.pay.status = "REQUIRES_CAPTURE" => k.pay.amount > 0)
    /\ k.pc = "settle.save" => k.pay.status = "REQUIRES_CAPTURE"
    /\ k.pc \in Refunding => k.n > 0 /\ k.n <= Refundable(k.inv)
    /\ k.pc \in Refunding \ {"refund.debit"} => k.pay \in PayRow /\ k.pay.key \in Keys

PayBase ==
    /\ PayTyped
    /\ CoherentPay(inv)
    /\ \A i \in DOMAIN payments : Backed(payments[i])
    /\ \A c \in DOMAIN charges : ChargeSound(charges[c])
    /\ \A h \in Handlers : PaySound(hs[h])

(* Of requests that come one at a time: what the one in progress, k, holds  *)
(* is as it is stored, and what is on the invoice is backed by the payments.*)
CapturedWeight == [p \in PayRow |-> IF Captured(p) THEN Amount(p) ELSE 0]
RefundedWeight == [p \in PayRow |-> IF RefundDone(p) THEN Negated(p) ELSE 0]
ReturnedWeight == [r \in Refund |-> Amount(r)]
ChargedWeight == [c \in Charge |-> IF NotFailed(c) THEN Amount(c) ELSE 0]

Taken == Weight(CapturedWeight, payments)
GivenBack == Weight(RefundedWeight, payments)
Sent == Weight(ReturnedWeight, returned)
Billed == Weight(ChargedWeight, charges)

ToCredit(k) == IF k.pc = "credit" THEN k.pay.amount ELSE 0
ToDebit(k) == IF k.pc = "refund.debit" THEN k.n ELSE 0

PayAloneAt(k) ==
    /\ k.pc \in Holding => k.inv = inv
    /\ k.pc \in Settling => k.pay = payments[k.id]
    /\ k.pc \in Crediting => \A j \in DOMAIN receipts : receipts[j].payment # k.id
    /\ \A i, j \in DOMAIN receipts : i # j => receipts[i].payment # receipts[j].payment
    /\ k.pc \in Paying \ {"pay.lookup"} => \A i \in DOMAIN payments : payments[i].key # k.pay.key
    /\ \A i, j \in DOMAIN payments :
          i # j /\ payments[i].amount > 0 /\ payments[j].amount > 0 => payments[i].key # payments[j].key
    /\ inv.paid + ToCredit(k) <= Taken
    /\ inv.refunded + ToDebit(k) <= GivenBack

(* Every receipt is for a captured payment, and the one that is credited is *)
(* as it is stored.                                                         *)
ReceiptsAt(k) ==
    /\ \A i \in DOMAIN receipts : ReceiptSound(receipts[i])
    /\ k.pc \in Crediting => payments[k.id].status = "CAPTURED" /\ payments[k.id].amount = k.pay.amount

(* If none dies either, the books agree but for what k is about to write,   *)
(* and, if the books are told what the provider does, what is charged is on *)
(* the invoice but for one charge at most.                                  *)
OpenAt(k, c) ==
    \/ \E i \in DOMAIN payments : payments[i].status = "REQUIRES_CAPTURE" /\ payments[i].charge = c
    \/ k.pc \in {"pay.save", "credit"} /\ k.pay.charge = c

Worth(c) == IF charges[c].status = "FAILED" THEN 0 ELSE charges[c].amount

(* Payments, receipts and refunds add up to the invoice. *)
BooksAt(k) ==
    /\ inv.paid + ToCredit(k) = Taken /\ inv.refunded + ToDebit(k) = GivenBack
    /\ \A i \in DOMAIN payments : payments[i].status = "CAPTURED" =>
          (\E j \in DOMAIN receipts : receipts[j].payment = i) \/ (k.pc \in Crediting /\ k.id = i)
    /\ \A j \in DOMAIN receipts : receipts[j].number = j
    /\ k.pc = "receipt.save" => k.n = Len(receipts) + 1

(* One payment at most is pending, and none while another is made. *)
PendingAt(k) ==
    /\ \A i, j \in DOMAIN payments :
          payments[i].status = "REQUIRES_CAPTURE" /\ payments[j].status = "REQUIRES_CAPTURE" => i = j
    /\ k.pc \in {"pay.capture", "pay.save", "credit"} =>
          \A i \in DOMAIN payments : payments[i].status # "REQUIRES_CAPTURE"

(* What is returned is on the invoice, but for one refund at most. *)
SentAt(k) ==
    ~misled => Sent <= inv.refunded + (IF k.pc \in {"refund.save", "refund.debit"} THEN k.n ELSE 0)

(* What is captured is captured at the provider. *)
TrueAt(k) ==
    ~misled => /\ \A i \in DOMAIN payments : payments[i].status = "CAPTURED" => Agrees(payments[i])
               /\ k.pc = "pay.save" /\ k.pay.status = "CAPTURED" => Agrees(k.pay)

(* What is charged is on the invoice, but for one charge at most. *)
BilledAt(k) ==
    ~misled =>
    /\ inv.paid <= Total
    /\ \A c \in DOMAIN charges :
          /\ \/ \E i \in DOMAIN payments : payments[i].key = charges[c].key
             \/ k.pc = "pay.save" /\ k.pay.key = charges[c].key
          /\ charges[c].status = "REQUIRES_CAPTURE" => OpenAt(k, c)
          /\ OpenAt(k, c) => Billed = inv.paid + Worth(c) /\ charges[c].amount <= Total - inv.paid
    /\ (\A c \in DOMAIN charges : ~OpenAt(k, c)) => Billed = inv.paid

PayExactAt(k) == BooksAt(k) /\ PendingAt(k) /\ SentAt(k) /\ TrueAt(k) /\ BilledAt(k)

PayAlone ==
    overlaps = 0 =>
        /\ Lone
        /\ \A k \in {Resting} \cup {hs[h] : h \in Handlers} : Current(k) => PayAloneAt(k) /\ ReceiptsAt(k)
PayExact ==
    overlaps = 0 /\ aborts = 0 =>
        \A k \in {Resting} \cup {hs[h] : h \in Handlers} : Current(k) => PayExactAt(k)

-----------------------------------------------------------------------------
(* What each step of a payment invoice does.                                *)

LEMMA RestingTyped ==
    /\ Resting \in PayLocal /\ Resting.pc = "idle"
    /\ \A pc \in PaymentPCs, i \in PayInvoice :
          LET k == [Resting EXCEPT !.pc = pc, !.inv = i]
          IN  k \in PayLocal /\ k.pc = pc /\ k.inv = i
  BY DEF Resting, PayLocal, PaymentPCs, None

(* A handler that moves on, with another payment, or stops.                 *)
LEMMA Moves ==
    ASSUME PayTyped, NEW h \in Handlers, hs[h].pc # "idle", UNCHANGED overlaps,
           NEW pc \in PaymentPCs \ {"idle"}, Move(h, pc)
    PROVE  \E k \in PayLocal :
              /\ Stepping(h, k) /\ k.pc = pc /\ k.inv = hs[h].inv /\ k.pay = hs[h].pay
              /\ k.id = hs[h].id /\ k.n = hs[h].n
<1> DEFINE k == [hs[h] EXCEPT !.pc = pc]
<1>1. hs[h] \in PayLocal
  BY DEF PayTyped
<1>2. /\ k \in PayLocal /\ k.pc = pc /\ k.inv = hs[h].inv /\ k.pay = hs[h].pay
      /\ k.id = hs[h].id /\ k.n = hs[h].n
  BY <1>1 DEF PayLocal
<1>3. Update(h, k)
  BY DEF Move
<1> HIDE DEF k
<1> QED BY <1>2, <1>3 DEF Stepping

LEMMA Stops ==
    ASSUME NEW h \in Handlers, hs[h].pc # "idle", UNCHANGED overlaps, Stop(h)
    PROVE  Resting \in PayLocal /\ Resting.pc = "idle" /\ Stepping(h, Resting)
  BY RestingTyped DEF Stop, Stepping

LEMMA Begins ==
    ASSUME NEW h \in Handlers, NEW k, k.pc # "idle", Begin(h, k)
    PROVE  Stepping(h, k) /\ UNCHANGED <<aborts, misled>> /\ hs[h].pc = "idle"
  BY DEF Begin, Stepping

PayReads == UNCHANGED <<stored, provider>>

LEMMA PayLoadDoes ==
    ASSUME PayTyped, NEW h \in Handlers, PayLoad(h)
    PROVE  /\ PayReads /\ UNCHANGED <<aborts, misled>> /\ hs[h].pc = "idle"
           /\ \E k \in PayLocal : Stepping(h, k) /\ k.pc = "pay.key" /\ k.inv = inv
<1> DEFINE k == [Resting EXCEPT !.pc = "pay.key", !.inv = inv]
<1>1. k \in PayLocal /\ k.pc = "pay.key" /\ k.inv = inv
  BY RestingTyped DEF PayTyped, PaymentPCs
<1>2. Begin(h, k) /\ PayReads
  BY DEF PayLoad, PayReads
<1> HIDE DEF k
<1> QED BY <1>1, <1>2, Begins

LEMMA RefundLoadDoes ==
    ASSUME PayTyped, NEW h \in Handlers, RefundLoad(h)
    PROVE  /\ PayReads /\ UNCHANGED <<aborts, misled>> /\ hs[h].pc = "idle"
           /\ \E k \in PayLocal : Stepping(h, k) /\ k.pc = "refund.source" /\ k.inv = inv
<1> DEFINE k == [Resting EXCEPT !.pc = "refund.source", !.inv = inv]
<1>1. k \in PayLocal /\ k.pc = "refund.source" /\ k.inv = inv
  BY RestingTyped DEF PayTyped, PaymentPCs
<1>2. Begin(h, k) /\ PayReads
  BY DEF RefundLoad, PayReads
<1> HIDE DEF k
<1> QED BY <1>1, <1>2, Begins

LEMMA PayKeyDoes ==
    ASSUME PayTyped, NEW h \in Handlers, PayKey(h)
    PROVE  /\ PayReads /\ UNCHANGED <<aborts, misled>> /\ hs[h].pc = "pay.key"
           /\ \E k \in PayLocal : /\ Stepping(h, k) /\ k.pc = "pay.lookup" /\ k.inv = hs[h].inv
                                  /\ k.pay \in PayRow /\ k.pay.key \in Keys
<1>1. PICK key \in ClientKeys \cup {buildPaymentIdempotencyKey(countInvoicePayments + 1)} :
          Update(h, [hs[h] EXCEPT !.pc = "pay.lookup",
                                  !.pay = [key |-> key, status |-> "FAILED", amount |-> 0, charge |-> 0]])
  BY DEF PayKey
<1> DEFINE pay == [key |-> key, status |-> "FAILED", amount |-> 0, charge |-> 0]
           k == [hs[h] EXCEPT !.pc = "pay.lookup", !.pay = pay]
<1>2. key \in Keys
  <2>1. payments \in Seq(PayRow) /\ IsFiniteSet(DOMAIN payments)
    <3>1. payments \in Seq(PayRow) /\ Len(payments) \in Nat /\ DOMAIN payments = 1..Len(payments)
      BY DEF PayTyped
    <3> QED BY <3>1, FS_Interval
  <2>2. IsFiniteSet({i \in DOMAIN payments : payments[i].amount > 0})
    BY <2>1, FS_Subset
  <2>3. countInvoicePayments + 1 \in Nat
    BY <2>2, FS_CardinalityType DEF countInvoicePayments
  <2> QED BY <2>3 DEF Keys, buildPaymentIdempotencyKey
<1>3. pay \in PayRow /\ pay.key \in Keys
  BY <1>2 DEF PayRow, PaymentStatuses
<1> HIDE DEF pay
<1>4. hs[h] \in PayLocal
  BY DEF PayTyped
<1>5. k \in PayLocal /\ k.pc = "pay.lookup" /\ k.inv = hs[h].inv /\ k.pay = pay
  BY <1>3, <1>4 DEF PayLocal, PaymentPCs
<1>6. Update(h, k)
  BY <1>1 DEF pay
<1> HIDE DEF k
<1>7. hs[h].pc = "pay.key" /\ PayReads /\ UNCHANGED counters
  BY DEF PayKey, PayReads
<1> QED BY <1>3, <1>5, <1>6, <1>7 DEF Stepping, counters

LEMMA PayLookupDoes ==
    ASSUME PayTyped, NEW h \in Handlers, PayLookup(h)
    PROVE  /\ PayReads /\ UNCHANGED <<aborts, misled>> /\ hs[h].pc = "pay.lookup"
           /\ \/ Stepping(h, Resting)
              \/ /\ \A i \in DOMAIN payments : payments[i].key # hs[h].pay.key
                 /\ \E k \in PayLocal : /\ Stepping(h, k) /\ k.pc = "pay.pending" /\ k.inv = hs[h].inv
                                        /\ k.pay = hs[h].pay
<1>1. hs[h].pc = "pay.lookup" /\ PayReads /\ UNCHANGED <<overlaps, aborts, misled>>
  BY DEF PayLookup, PayReads, counters
<1>2. CASE Stop(h)
  BY <1>1, <1>2, Stops
<1>3. CASE /\ \A i \in DOMAIN payments : payments[i].key # hs[h].pay.key
           /\ Move(h, "pay.pending")
  BY <1>1, <1>3, Moves DEF PaymentPCs
<1> QED BY <1>1, <1>2, <1>3 DEF PayLookup

LEMMA PayPendingDoes ==
    ASSUME PayTyped, NEW h \in Handlers, PayPending(h)
    PROVE  /\ PayReads /\ UNCHANGED <<aborts, misled>> /\ hs[h].pc = "pay.pending"
           /\ \/ Stepping(h, Resting)
              \/ /\ \A i \in DOMAIN payments : payments[i].status # "REQUIRES_CAPTURE"
                 /\ \E k \in PayLocal : /\ Stepping(h, k) /\ k.pc = "pay.capture" /\ k.inv = hs[h].inv
                                        /\ k.pay = hs[h].pay
<1>1. hs[h].pc = "pay.pending" /\ PayReads /\ UNCHANGED <<overlaps, aborts, misled>>
  BY DEF PayPending, PayReads, counters
<1>2. CASE Stop(h)
  BY <1>1, <1>2, Stops
<1>3. CASE /\ \A i \in DOMAIN payments : payments[i].status # "REQUIRES_CAPTURE"
           /\ Move(h, "pay.capture")
  BY <1>1, <1>3, Moves DEF PaymentPCs
<1> QED BY <1>1, <1>2, <1>3 DEF PayPending

LEMMA ReceiptCountDoes ==
    ASSUME PayTyped, NEW h \in Handlers, ReceiptCount(h)
    PROVE  /\ PayReads /\ UNCHANGED <<aborts, misled>> /\ hs[h].pc = "receipt.count"
           /\ \E k \in PayLocal : /\ Stepping(h, k) /\ k.pc = "receipt.save" /\ k.inv = hs[h].inv
                                  /\ k.pay = hs[h].pay /\ k.id = hs[h].id /\ k.n = Len(receipts) + 1
<1>1. hs[h].pc = "receipt.count" /\ PayReads /\ UNCHANGED <<overlaps, aborts, misled>>
  BY DEF ReceiptCount, PayReads, counters
<1> DEFINE k == [hs[h] EXCEPT !.pc = "receipt.save", !.n = Len(receipts) + 1]
<1>2. hs[h] \in PayLocal /\ Len(receipts) + 1 \in Nat
  BY DEF PayTyped
<1>3. /\ k \in PayLocal /\ k.pc = "receipt.save" /\ k.inv = hs[h].inv /\ k.pay = hs[h].pay
      /\ k.id = hs[h].id /\ k.n = Len(receipts) + 1
  BY <1>2 DEF PayLocal, PaymentPCs
<1>4. Update(h, k)
  BY DEF ReceiptCount
<1> HIDE DEF k
<1> QED BY <1>1, <1>3, <1>4 DEF Stepping

LEMMA SettleFindDoes ==
    ASSUME PayTyped, NEW h \in Handlers, SettleFind(h)
    PROVE  /\ PayReads /\ UNCHANGED <<aborts, misled>> /\ hs[h].pc = "idle"
           /\ \E i \in DOMAIN payments, k \in PayLocal :
                 /\ payments[i].charge # 0
                 /\ Stepping(h, k) /\ k.pc = "settle.load" /\ k.pay = payments[i] /\ k.id = i
<1>1. PICK i \in DOMAIN payments :
          /\ payments[i].charge # 0
          /\ Begin(h, [Resting EXCEPT !.pc = "settle.load", !.pay = payments[i], !.id = i])
  BY DEF SettleFind
<1> DEFINE k == [Resting EXCEPT !.pc = "settle.load", !.pay = payments[i], !.id = i]
<1>2. payments[i] \in PayRow /\ i \in Nat
  BY DEF PayTyped
<1>3. k \in PayLocal /\ k.pc = "settle.load" /\ k.pay = payments[i] /\ k.id = i
  <2>1. PICK p \in PayRow : p = payments[i]
    BY <1>2
  <2>2. LET q == [Resting EXCEPT !.pc = "settle.load", !.pay = p, !.id = i]
        IN  q \in PayLocal /\ q.pc = "settle.load" /\ q.pay = p /\ q.id = i
    BY <1>2 DEF Resting, None, PayLocal, PaymentPCs
  <2> QED BY <2>1, <2>2
<1>4. Begin(h, k) /\ PayReads
  BY <1>1 DEF SettleFind, PayReads
<1> HIDE DEF k
<1> QED BY <1>1, <1>3, <1>4, Begins

LEMMA SettleLoadDoes ==
    ASSUME PayTyped, NEW h \in Handlers, SettleLoad(h)
    PROVE  /\ PayReads /\ UNCHANGED <<aborts, misled>> /\ hs[h].pc = "settle.load"
           /\ \/ Stepping(h, Resting)
              \/ /\ hs[h].pay.status = "REQUIRES_CAPTURE"
                 /\ \E k \in PayLocal : /\ Stepping(h, k) /\ k.pc = "settle.save" /\ k.inv = inv
                                        /\ k.pay = hs[h].pay /\ k.id = hs[h].id
<1>1. hs[h].pc = "settle.load" /\ PayReads /\ UNCHANGED <<overlaps, aborts, misled>>
  BY DEF SettleLoad, PayReads, counters
<1>2. CASE Stop(h)
  BY <1>1, <1>2, Stops
<1>3. CASE /\ hs[h].pay.status = "REQUIRES_CAPTURE"
           /\ Update(h, [hs[h] EXCEPT !.pc = "settle.save", !.inv = inv])
  <2> DEFINE k == [hs[h] EXCEPT !.pc = "settle.save", !.inv = inv]
  <2>1. hs[h] \in PayLocal /\ inv \in PayInvoice
    BY DEF PayTyped
  <2>2. k \in PayLocal /\ k.pc = "settle.save" /\ k.inv = inv /\ k.pay = hs[h].pay /\ k.id = hs[h].id
    BY <2>1 DEF PayLocal, PaymentPCs
  <2>3. Update(h, k)
    BY <1>3
  <2> HIDE DEF k
  <2> QED BY <1>1, <1>3, <2>2, <2>3 DEF Stepping
<1> QED BY <1>1, <1>2, <1>3 DEF SettleLoad

LEMMA RefundSourceDoes ==
    ASSUME PayTyped, NEW h \in Handlers, RefundSource(h)
    PROVE  /\ PayReads /\ UNCHANGED <<aborts, misled>> /\ hs[h].pc = "refund.source"
           /\ \/ Stepping(h, Resting)
              \/ \E i \in DOMAIN payments, k \in PayLocal :
                    /\ payments[i].status = "CAPTURED"
                    /\ k.n \in 1..Refundable(hs[h].inv)
                    /\ Stepping(h, k) /\ k.pc = "refund.call" /\ k.inv = hs[h].inv /\ k.pay = payments[i]
<1> DEFINE source == {i \in DOMAIN payments : Captured(payments[i])}
<1>1. hs[h].pc = "refund.source" /\ PayReads /\ UNCHANGED <<overlaps, aborts, misled>>
  BY DEF RefundSource, PayReads, counters
<1>2. CASE Stop(h)
  BY <1>1, <1>2, Stops
<1>3. ASSUME source # {}, NEW amount \in 1..Refundable(hs[h].inv),
             Update(h, [hs[h] EXCEPT !.pc = "refund.call", !.pay = payments[Max(source)], !.n = amount])
      PROVE  \E i \in DOMAIN payments, k \in PayLocal :
                    /\ payments[i].status = "CAPTURED"
                    /\ k.n \in 1..Refundable(hs[h].inv)
                    /\ Stepping(h, k) /\ k.pc = "refund.call" /\ k.inv = hs[h].inv /\ k.pay = payments[i]
  <2>1. Max(source) \in source
    <3>1. Len(payments) \in Nat /\ source \in SUBSET (1..Len(payments))
      BY DEF PayTyped
    <3> HIDE DEF source
    <3> QED BY <1>3, <3>1, Newest
  <2> DEFINE i == Max(source)
             k == [hs[h] EXCEPT !.pc = "refund.call", !.pay = payments[i], !.n = amount]
  <2>2. i \in DOMAIN payments /\ payments[i].status = "CAPTURED"
    BY <2>1 DEF Captured
  <2>3. Update(h, k)
    BY <1>3
  <2> HIDE DEF i
  <2>4. hs[h] \in PayLocal /\ payments[i] \in PayRow /\ amount \in Nat
    BY <2>2 DEF PayTyped
  <2>5. k \in PayLocal /\ k.pc = "refund.call" /\ k.inv = hs[h].inv /\ k.pay = payments[i] /\ k.n = amount
    BY <2>4 DEF PayLocal, PaymentPCs
  <2> HIDE DEF k
  <2> QED BY <1>1, <2>2, <2>3, <2>5 DEF Stepping
<1>4. \/ Stop(h)
      \/ source # {} /\ \E amount \in 1..Refundable(hs[h].inv) :
            Update(h, [hs[h] EXCEPT !.pc = "refund.call", !.pay = payments[Max(source)], !.n = amount])
  BY DEF RefundSource
<1> QED BY <1>1, <1>2, <1>3, <1>4

(* The writes.                                                              *)

LEMMA PayCaptureDoes ==
    ASSUME PayTyped, NEW h \in Handlers, PayCapture(h), hs[h].pay \in PayRow, hs[h].pay.key \in Keys,
           hs[h].inv \in PayInvoice
    PROVE  /\ UNCHANGED <<stored, returned, adapter, aborts>> /\ hs[h].pc = "pay.capture"
           /\ misled' = misled \/ misled' = TRUE
           /\ \E k \in PayLocal :
                 /\ Stepping(h, k) /\ k.pc = "pay.save" /\ k.inv = hs[h].inv
                 /\ k.pay \in PayRow /\ k.pay.key = hs[h].pay.key /\ k.pay.amount = Outstanding(hs[h].inv)
                 /\ \/ UNCHANGED charges /\ k.pay.status = "FAILED" /\ k.pay.charge = 0
                    \/ /\ k.pay.status = "FAILED" /\ k.pay.charge = 0 /\ misled' = TRUE
                       /\ \E c \in Charge : charges' = Append(charges, c) /\ ChargeSound(c)
                    \/ /\ UNCHANGED charges /\ k.pay.charge \in DOMAIN charges
                       /\ charges[k.pay.charge].key = hs[h].pay.key
                       /\ k.pay.status = charges[k.pay.charge].reply
                       /\ k.pay.amount = charges[k.pay.charge].asked
                    \/ /\ k.pay.status \in {"CAPTURED", "REQUIRES_CAPTURE"} /\ k.pay.amount > 0
                       /\ k.pay.charge = Len(charges) + 1
                       /\ \E c \in Charge :
                             /\ charges' = Append(charges, c) /\ c.key = hs[h].pay.key
                             /\ c.asked = k.pay.amount /\ c.amount = k.pay.amount
                             /\ c.reply = k.pay.status /\ c.status = k.pay.status
<1>1. hs[h].pc = "pay.capture" /\ UNCHANGED <<stored, returned, adapter, overlaps, aborts>>
  BY DEF PayCapture
<1>a. misled' = misled \/ misled' = TRUE
  BY DEF PayCapture
<1> DEFINE pay == hs[h].pay
           due == Outstanding(hs[h].inv)
<1>2. due \in Int /\ hs[h] \in PayLocal
  BY TotalAssumption DEF Outstanding, PayInvoice, PayTyped
<1>3. ASSUME NEW status \in PaymentStatuses, NEW c \in Nat, Replied(h, status, c)
      PROVE  \E k \in PayLocal :
                /\ Stepping(h, k) /\ k.pc = "pay.save" /\ k.inv = hs[h].inv
                /\ k.pay \in PayRow /\ k.pay.key = hs[h].pay.key /\ k.pay.amount = due
                /\ k.pay.status = status /\ k.pay.charge = c
  <2> DEFINE p == [pay EXCEPT !.status = status, !.charge = c, !.amount = due]
             k == [hs[h] EXCEPT !.pc = "pay.save", !.pay = p]
  <2>1. p \in PayRow /\ p.key = pay.key /\ p.amount = due /\ p.status = status /\ p.charge = c
    BY <1>2, <1>3 DEF PayRow
  <2>2. k = [hs[h] EXCEPT !.pc = "pay.save", !.pay = p]
    OBVIOUS
  <2> HIDE DEF p
  <2>3. k \in PayLocal /\ k.pc = "pay.save" /\ k.inv = hs[h].inv /\ k.pay = p
    BY <1>2, <2>1, <2>2 DEF PayLocal, PaymentPCs
  <2> HIDE DEF k
  <2>4. Update(h, k)
    BY <1>3 DEF k, p, Replied
  <2> QED BY <1>1, <2>1, <2>3, <2>4 DEF Stepping
<1>4. \/ Replied(h, "FAILED", 0) /\ UNCHANGED charges
      \/ \E c \in Known(pay.key) : /\ charges[c].asked = due /\ Replied(h, charges[c].reply, c)
                          /\ UNCHANGED charges
      \/ \E status \in {"CAPTURED", "REQUIRES_CAPTURE"} :
            /\ due > 0
            /\ charges' = Append(charges, [key |-> pay.key, asked |-> due, reply |-> status,
                                           status |-> status, amount |-> due])
            /\ \/ Replied(h, status, Len(charges) + 1)
               \/ Replied(h, "FAILED", 0) /\ misled' = TRUE
  BY DEF PayCapture
<1>5. CASE Replied(h, "FAILED", 0) /\ UNCHANGED charges
  <2>1. "FAILED" \in PaymentStatuses
    BY DEF PaymentStatuses
  <2> QED BY <1>1, <1>a, <1>3, <1>5, <2>1
<1>6. ASSUME NEW c \in Known(pay.key), charges[c].asked = due, Replied(h, charges[c].reply, c), UNCHANGED charges
      PROVE  \E k \in PayLocal :
                 /\ Stepping(h, k) /\ k.pc = "pay.save" /\ k.inv = hs[h].inv
                 /\ k.pay \in PayRow /\ k.pay.key = hs[h].pay.key /\ k.pay.amount = due
                 /\ k.pay.charge \in DOMAIN charges
                 /\ charges[k.pay.charge].key = hs[h].pay.key
                 /\ k.pay.status = charges[k.pay.charge].reply
                 /\ k.pay.amount = charges[k.pay.charge].asked
  <2>0. c \in DOMAIN charges /\ charges[c].key = hs[h].pay.key /\ charges \in Seq(Charge)
    BY <1>6 DEF PayTyped, Known
  <2>1. c \in Nat /\ charges[c].reply \in PaymentStatuses
    <3>1. c \in 1..Len(charges) /\ Len(charges) \in Nat /\ charges[c] \in Charge
      BY <2>0
    <3> QED BY <3>1 DEF Charge, PaymentStatuses
  <2> QED BY <1>3, <1>6, <2>0, <2>1
<1>7. ASSUME NEW status \in {"CAPTURED", "REQUIRES_CAPTURE"}, due > 0,
             charges' = Append(charges, [key |-> pay.key, asked |-> due, reply |-> status,
                                         status |-> status, amount |-> due]),
             Replied(h, status, Len(charges) + 1)
      PROVE  \E k \in PayLocal :
                 /\ Stepping(h, k) /\ k.pc = "pay.save" /\ k.inv = hs[h].inv
                 /\ k.pay \in PayRow /\ k.pay.key = hs[h].pay.key /\ k.pay.amount = due
                 /\ k.pay.status = status /\ k.pay.amount > 0
                 /\ k.pay.charge = Len(charges) + 1
                 /\ \E c \in Charge :
                       /\ charges' = Append(charges, c) /\ c.key = hs[h].pay.key
                       /\ c.asked = k.pay.amount /\ c.amount = k.pay.amount
                       /\ c.reply = k.pay.status /\ c.status = k.pay.status
  <2> DEFINE c == [key |-> pay.key, asked |-> due, reply |-> status, status |-> status, amount |-> due]
  <2>1. /\ c \in Charge /\ c.key = pay.key /\ c.asked = due /\ c.amount = due
        /\ c.reply = status /\ c.status = status
    BY <1>2, <1>7 DEF Charge
  <2>2. charges' = Append(charges, c)
    BY <1>7
  <2>3. Len(charges) + 1 \in Nat /\ status \in PaymentStatuses
    BY DEF PayTyped, PaymentStatuses
  <2> HIDE DEF c
  <2> QED BY <1>3, <1>7, <2>1, <2>2, <2>3
<1>8. ASSUME NEW status \in {"CAPTURED", "REQUIRES_CAPTURE"}, due > 0,
             charges' = Append(charges, [key |-> pay.key, asked |-> due, reply |-> status,
                                         status |-> status, amount |-> due]),
             Replied(h, "FAILED", 0)
      PROVE  \E k \in PayLocal :
                 /\ Stepping(h, k) /\ k.pc = "pay.save" /\ k.inv = hs[h].inv
                 /\ k.pay \in PayRow /\ k.pay.key = hs[h].pay.key /\ k.pay.amount = due
                 /\ k.pay.status = "FAILED" /\ k.pay.charge = 0
                 /\ \E c \in Charge : charges' = Append(charges, c) /\ ChargeSound(c)
  <2> DEFINE c == [key |-> pay.key, asked |-> due, reply |-> status, status |-> status, amount |-> due]
  <2>1. c \in Charge /\ ChargeSound(c)
    BY <1>2, <1>8 DEF Charge, ChargeSound
  <2>2. charges' = Append(charges, c)
    BY <1>8
  <2>3. "FAILED" \in PaymentStatuses
    BY DEF PaymentStatuses
  <2> HIDE DEF c
  <2> QED BY <1>3, <1>8, <2>1, <2>2, <2>3
<1> QED
  <2>1. CASE \E c \in Known(pay.key) : /\ charges[c].asked = due /\ Replied(h, charges[c].reply, c)
                              /\ UNCHANGED charges
    BY <1>1, <1>a, <1>6, <2>1
  <2>2. ASSUME NEW status \in {"CAPTURED", "REQUIRES_CAPTURE"}, due > 0,
               charges' = Append(charges, [key |-> pay.key, asked |-> due, reply |-> status,
                                           status |-> status, amount |-> due]),
               \/ Replied(h, status, Len(charges) + 1)
               \/ Replied(h, "FAILED", 0) /\ misled' = TRUE
        PROVE  \E k \in PayLocal :
                 /\ Stepping(h, k) /\ k.pc = "pay.save" /\ k.inv = hs[h].inv
                 /\ k.pay \in PayRow /\ k.pay.key = hs[h].pay.key /\ k.pay.amount = due
                 /\ \/ /\ k.pay.status = "FAILED" /\ k.pay.charge = 0 /\ misled' = TRUE
                       /\ \E c \in Charge : charges' = Append(charges, c) /\ ChargeSound(c)
                    \/ /\ k.pay.status \in {"CAPTURED", "REQUIRES_CAPTURE"} /\ k.pay.amount > 0
                       /\ k.pay.charge = Len(charges) + 1
                       /\ \E c \in Charge :
                             /\ charges' = Append(charges, c) /\ c.key = hs[h].pay.key
                             /\ c.asked = k.pay.amount /\ c.amount = k.pay.amount
                             /\ c.reply = k.pay.status /\ c.status = k.pay.status
    <3>1. CASE Replied(h, status, Len(charges) + 1)
      BY <1>7, <2>2, <3>1
    <3>2. CASE Replied(h, "FAILED", 0) /\ misled' = TRUE
      BY <1>8, <2>2, <3>2
    <3> QED BY <2>2, <3>1, <3>2
  <2> QED BY <1>1, <1>a, <1>4, <1>5, <2>1, <2>2

LEMMA PaySaveDoes ==
    ASSUME PayTyped, NEW h \in Handlers, PaySave(h)
    PROVE  /\ UNCHANGED <<inv, receipts, provider, aborts, misled>> /\ hs[h].pc = "pay.save"
           /\ payments' = Append(payments, hs[h].pay)
           /\ \/ hs[h].pay.status # "CAPTURED" /\ Stepping(h, Resting)
              \/ /\ hs[h].pay.status = "CAPTURED"
                 /\ \E k \in PayLocal : /\ Stepping(h, k) /\ k.pc = "credit" /\ k.inv = hs[h].inv
                                        /\ k.pay = hs[h].pay /\ k.id = Len(payments) + 1
<1>1. /\ hs[h].pc = "pay.save" /\ UNCHANGED <<inv, receipts, provider, overlaps, aborts, misled>>
      /\ payments' = Append(payments, hs[h].pay)
  BY DEF PaySave, counters
<1>2. CASE hs[h].pay.status = "CAPTURED"
  <2> DEFINE k == [hs[h] EXCEPT !.pc = "credit", !.id = Len(payments) + 1]
  <2>1. hs[h] \in PayLocal /\ Len(payments) + 1 \in Nat
    BY DEF PayTyped
  <2>2. /\ k \in PayLocal /\ k.pc = "credit" /\ k.inv = hs[h].inv
        /\ k.pay = hs[h].pay /\ k.id = Len(payments) + 1
    BY <2>1 DEF PayLocal, PaymentPCs
  <2>3. Update(h, k)
    BY <1>2 DEF PaySave, Captured
  <2> HIDE DEF k
  <2> QED BY <1>1, <1>2, <2>2, <2>3 DEF Stepping
<1>3. CASE hs[h].pay.status # "CAPTURED"
  <2>1. Stop(h)
    BY <1>3 DEF PaySave, Captured
  <2> QED BY <1>1, <1>3, <2>1, Stops
<1> QED BY <1>2, <1>3

LEMMA CreditDoes ==
    ASSUME PayTyped, NEW h \in Handlers, Credit(h)
    PROVE  /\ UNCHANGED <<payments, receipts, provider, aborts, misled>> /\ hs[h].pc = "credit"
           /\ inv' = Credited(hs[h].inv, hs[h].pay.amount)
           /\ \E k \in PayLocal : /\ Stepping(h, k) /\ k.pc = "receipt.count" /\ k.inv = hs[h].inv
                                  /\ k.pay = hs[h].pay /\ k.id = hs[h].id
<1>1. /\ hs[h].pc = "credit" /\ UNCHANGED <<payments, receipts, provider, overlaps, aborts, misled>>
      /\ inv' = Credited(hs[h].inv, hs[h].pay.amount)
  BY DEF Credit, counters
<1>2. Move(h, "receipt.count")
  BY DEF Credit
<1> QED BY <1>1, <1>2, Moves DEF PaymentPCs

LEMMA ReceiptSaveDoes ==
    ASSUME PayTyped, NEW h \in Handlers, ReceiptSave(h)
    PROVE  /\ UNCHANGED <<inv, payments, provider, aborts, misled>> /\ hs[h].pc = "receipt.save"
           /\ receipts' = Append(receipts, [payment |-> hs[h].id, number |-> hs[h].n,
                                            amount |-> hs[h].pay.amount])
           /\ Stepping(h, Resting)
<1>1. /\ hs[h].pc = "receipt.save" /\ UNCHANGED <<inv, payments, provider, overlaps, aborts, misled>>
      /\ receipts' = Append(receipts, [payment |-> hs[h].id, number |-> hs[h].n,
                                       amount |-> hs[h].pay.amount])
  BY DEF ReceiptSave, counters
<1>2. Stop(h)
  BY DEF ReceiptSave
<1> QED BY <1>1, <1>2, Stops

(* What a settlement may make of a payment. *)
LEMMA VerdictsAre ==
    ASSUME NEW r \in PayRow, r.amount > 0, NEW p \in Verdicts(r)
    PROVE  /\ p \in PayRow /\ p.key = r.key /\ p.charge = r.charge
           /\ p.status \in {"CAPTURED", "FAILED"} /\ p.amount > 0
<1>1. CASE p = Denied(r)
  BY <1>1 DEF Denied, PayRow, PaymentStatuses
<1>2. ASSUME NEW amount \in Stated \cup {r.amount}, p = Affirmed(r, amount)
      PROVE  /\ p \in PayRow /\ p.key = r.key /\ p.charge = r.charge
             /\ p.status \in {"CAPTURED", "FAILED"} /\ p.amount > 0
  <2>1. amount \in Int /\ amount > 0
    <3>1. CASE amount \in Stated
      BY <3>1, StatedAssumption
    <3>2. CASE amount = r.amount
      BY <3>2 DEF PayRow
    <3> QED BY <3>1, <3>2
  <2>2. p.amount = amount /\ p.status = "CAPTURED" /\ p.key = r.key /\ p.charge = r.charge
    BY <1>2, <2>1 DEF Affirmed, PayRow
  <2>3. p \in PayRow
    BY <1>2, <2>1 DEF Affirmed, PayRow, PaymentStatuses
  <2> QED BY <2>1, <2>2, <2>3
<1> QED BY <1>1, <1>2 DEF Verdicts

LEMMA SettleSaveDoes ==
    ASSUME PayTyped, NEW h \in Handlers, SettleSave(h), hs[h].pay \in PayRow, hs[h].pay.amount > 0
    PROVE  /\ UNCHANGED <<inv, receipts, provider, aborts>> /\ hs[h].pc = "settle.save"
           /\ misled' = misled \/ misled' = TRUE
           /\ \E p \in PayRow :
                 /\ payments' = [payments EXCEPT ![hs[h].id] = p]
                 /\ p.key = hs[h].pay.key /\ p.charge = hs[h].pay.charge
                 /\ p.status \in {"CAPTURED", "FAILED"} /\ p.amount > 0
                 /\ ~misled' => Agrees(p)
                 /\ \/ p.status # "CAPTURED" /\ Stepping(h, Resting)
                    \/ /\ p.status = "CAPTURED"
                       /\ \E k \in PayLocal : /\ Stepping(h, k) /\ k.pc = "credit" /\ k.inv = hs[h].inv
                                              /\ k.pay = p /\ k.id = hs[h].id
<1>1. hs[h].pc = "settle.save" /\ UNCHANGED <<inv, receipts, provider, overlaps, aborts>>
  BY DEF SettleSave
<1>2. PICK r \in PayRow : r = hs[h].pay /\ r.amount > 0
  OBVIOUS
<1>3. PICK p \in Verdicts(r) :
         /\ payments' = [payments EXCEPT ![hs[h].id] = p]
         /\ IF Captured(p) THEN Update(h, [hs[h] EXCEPT !.pc = "credit", !.pay = p]) ELSE Stop(h)
         /\ misled' = IF Agrees(p) THEN misled ELSE TRUE
  BY <1>2 DEF SettleSave
<1>4. /\ p \in PayRow /\ p.key = r.key /\ p.charge = r.charge
      /\ p.status \in {"CAPTURED", "FAILED"} /\ p.amount > 0
  BY <1>2, <1>3, VerdictsAre
<1>5. CASE p.status = "CAPTURED"
  <2> DEFINE k == [hs[h] EXCEPT !.pc = "credit", !.pay = p]
  <2>1. hs[h] \in PayLocal
    BY DEF PayTyped
  <2>2. k \in PayLocal /\ k.pc = "credit" /\ k.inv = hs[h].inv /\ k.pay = p /\ k.id = hs[h].id
    BY <1>4, <2>1 DEF PayLocal, PaymentPCs
  <2>3. Update(h, k)
    BY <1>3, <1>5 DEF Captured
  <2> HIDE DEF k
  <2>4. Stepping(h, k)
    BY <1>1, <2>2, <2>3 DEF Stepping
  <2> QED BY <1>1, <1>2, <1>3, <1>4, <1>5, <2>2, <2>4
<1>6. CASE p.status # "CAPTURED"
  <2>1. Stepping(h, Resting)
    BY <1>1, <1>3, <1>6, Stops DEF Captured
  <2> QED BY <1>1, <1>2, <1>3, <1>4, <1>6, <2>1
<1> QED BY <1>5, <1>6

LEMMA RefundCallDoes ==
    ASSUME PayTyped, NEW h \in Handlers, RefundCall(h), hs[h].pay \in PayRow
    PROVE  /\ UNCHANGED <<stored, charges, adapter, aborts>> /\ hs[h].pc = "refund.call"
           /\ misled' = misled \/ misled' = TRUE
           /\ returned' \in Seq(Refund)
           /\ \E k \in PayLocal :
                 /\ Stepping(h, k) /\ k.inv = hs[h].inv /\ k.pay = hs[h].pay /\ k.n = hs[h].n
                 /\ \/ /\ k.pc = "refund.save"
                       /\ \/ UNCHANGED returned
                          \/ \E r \in Refund : returned' = Append(returned, r) /\ r.amount = hs[h].n
                    \/ k.pc = "refund.fail" /\ (UNCHANGED returned \/ misled' = TRUE)
<1> DEFINE refund == [charge |-> hs[h].pay.charge, amount |-> hs[h].n]
<1>1. hs[h].pc = "refund.call" /\ UNCHANGED <<stored, charges, adapter, overlaps, aborts>>
  BY DEF RefundCall
<1>a. misled' = misled \/ misled' = TRUE
  BY DEF RefundCall
<1>2. refund \in Refund /\ refund.amount = hs[h].n
  BY DEF PayTyped, PayLocal, PayRow, Refund
<1>3. \/ Move(h, "refund.save") /\ (UNCHANGED returned \/ returned' = Append(returned, refund))
      \/ Move(h, "refund.fail") /\ (UNCHANGED returned \/ misled' = TRUE)
  BY DEF RefundCall
<1>b. returned' = returned \/ returned' = Append(returned, refund)
  BY DEF RefundCall
<1>c. returned' \in Seq(Refund)
  <2>1. returned \in Seq(Refund)
    BY DEF PayTyped
  <2> HIDE DEF refund
  <2> QED BY <1>2, <1>b, <2>1
<1> HIDE DEF refund
<1>4. ASSUME NEW pc \in {"refund.save", "refund.fail"}, Move(h, pc)
      PROVE  \E k \in PayLocal :
                 Stepping(h, k) /\ k.pc = pc /\ k.inv = hs[h].inv /\ k.pay = hs[h].pay /\ k.n = hs[h].n
  <2>1. pc \in PaymentPCs \ {"idle"} /\ hs[h].pc # "idle"
    BY <1>1 DEF PaymentPCs
  <2> QED BY <1>1, <1>4, <2>1, Moves
<1> QED BY <1>1, <1>a, <1>c, <1>2, <1>3, <1>4

LEMMA RefundSaveDoes ==
    ASSUME PayTyped, NEW h \in Handlers, RefundSave(h), hs[h].pay \in PayRow, hs[h].pay.key \in Keys
    PROVE  /\ UNCHANGED <<inv, receipts, provider, aborts, misled>> /\ hs[h].pc \in {"refund.save", "refund.fail"}
           /\ \E p \in PayRow :
                 /\ payments' = Append(payments, p) /\ p.charge = 0 /\ p.amount = -hs[h].n
                 /\ \/ hs[h].pc = "refund.fail" /\ p.status = "FAILED" /\ Stepping(h, Resting)
                    \/ /\ hs[h].pc = "refund.save" /\ p.status = "REFUNDED"
                       /\ \E k \in PayLocal : /\ Stepping(h, k) /\ k.pc = "refund.debit"
                                              /\ k.inv = hs[h].inv /\ k.n = hs[h].n
<1> DEFINE p == [key |-> <<"refund", hs[h].pay.key>>, charge |-> 0,
                 status |-> IF hs[h].pc = "refund.fail" THEN "FAILED" ELSE "REFUNDED",
                 amount |-> -hs[h].n]
<1>1. /\ hs[h].pc \in {"refund.save", "refund.fail"}
      /\ UNCHANGED <<inv, receipts, provider, overlaps, aborts, misled>>
      /\ payments' = Append(payments, p)
  BY DEF RefundSave, counters
<1>2. /\ p \in PayRow /\ p.charge = 0 /\ p.amount = -hs[h].n
      /\ p.status = IF hs[h].pc = "refund.fail" THEN "FAILED" ELSE "REFUNDED"
  BY DEF PayTyped, PayLocal, PayRow, PaymentStatuses
<1> HIDE DEF p
<1>3. CASE hs[h].pc = "refund.fail"
  <2>1. Stop(h)
    BY <1>3 DEF RefundSave
  <2> QED BY <1>1, <1>2, <1>3, <2>1, Stops
<1>4. CASE hs[h].pc = "refund.save"
  <2>1. Move(h, "refund.debit")
    BY <1>4 DEF RefundSave
  <2>2. \E k \in PayLocal : Stepping(h, k) /\ k.pc = "refund.debit" /\ k.inv = hs[h].inv /\ k.n = hs[h].n
    BY <1>1, <2>1, Moves DEF PaymentPCs
  <2> QED BY <1>1, <1>2, <1>4, <2>2
<1> QED BY <1>1, <1>3, <1>4

LEMMA DebitDoes ==
    ASSUME PayTyped, NEW h \in Handlers, Debit(h)
    PROVE  /\ UNCHANGED <<payments, receipts, provider, aborts, misled>> /\ hs[h].pc = "refund.debit"
           /\ inv' = Debited(hs[h].inv, hs[h].n) /\ Stepping(h, Resting)
<1>1. /\ hs[h].pc = "refund.debit" /\ UNCHANGED <<payments, receipts, provider, overlaps, aborts, misled>>
      /\ inv' = Debited(hs[h].inv, hs[h].n)
  BY DEF Debit, counters
<1>2. Stop(h)
  BY DEF Debit
<1> QED BY <1>1, <1>2, Stops

LEMMA AbortDoes ==
    ASSUME NEW h \in Handlers, Abort(h)
    PROVE  PayReads /\ aborts' = aborts + 1 /\ UNCHANGED misled /\ Stepping(h, Resting)
  BY Stops DEF Abort, PayReads

-----------------------------------------------------------------------------
(* The invariants of a payment invoice are kept.                            *)

(* Payments and charges are kept for good: a payment's key and charge       *)
(* always, a charge as it is from its resolution on.                        *)
Progress ==
    /\ DOMAIN payments \subseteq DOMAIN payments' /\ DOMAIN charges \subseteq DOMAIN charges'
    /\ \A i \in DOMAIN payments :
          payments'[i].key = payments[i].key /\ payments'[i].charge = payments[i].charge
    /\ \A c \in DOMAIN charges : charges[c].status # "REQUIRES_CAPTURE" => charges'[c] = charges[c]

LEMMA BackedKept == ASSUME Progress, NEW p, Backed(p) PROVE Backed(p)'
  BY DEF Progress, Backed

LEMMA SoundKept == ASSUME Progress, NEW k, PaySound(k) PROVE PaySound(k)'
<1>1. k.pc = "pay.save" => Backed(k.pay)'
  BY BackedKept DEF PaySound
<1>2. k.pc \in Crediting =>
          /\ k.pay.charge \in DOMAIN charges' /\ k.id \in DOMAIN payments'
          /\ payments'[k.id].charge = k.pay.charge
  BY DEF PaySound, Progress
<1>3. k.pc \in Settling =>
          /\ k.id \in DOMAIN payments' /\ k.pay.key = payments'[k.id].key
          /\ k.pay.charge \in DOMAIN charges' /\ k.pay.charge = payments'[k.id].charge
  BY DEF PaySound, Progress
<1> QED BY <1>1, <1>2, <1>3 DEF PaySound

(* A payment that is captured stays so, for its amount. *)
CapturedStay ==
    /\ DOMAIN payments \subseteq DOMAIN payments'
    /\ \A i \in DOMAIN payments : payments[i].status = "CAPTURED" =>
          payments'[i].status = "CAPTURED" /\ payments'[i].amount = payments[i].amount

LEMMA ReceiptsKept ==
    ASSUME NEW q, ReceiptsAt(q), NEW k, CapturedStay, UNCHANGED receipts,
           k.pc \in Crediting =>
              payments'[k.id].status = "CAPTURED" /\ payments'[k.id].amount = k.pay.amount
    PROVE  ReceiptsAt(k)'
<1>1. ASSUME NEW i \in DOMAIN receipts PROVE ReceiptSound(receipts[i])'
  BY DEF ReceiptsAt, ReceiptSound, CapturedStay
<1> QED BY <1>1 DEF ReceiptsAt

(* What is true of the provider stays so. *)
LEMMA AgreedStays ==
    ASSUME Progress, NEW p, p.status = "CAPTURED", p.charge \in DOMAIN charges, Agrees(p)
    PROVE  Agrees(p)'
<1>1. charges[p.charge].status = "CAPTURED"
  BY DEF Agrees
<1>2. charges'[p.charge] = charges[p.charge]
  BY <1>1 DEF Progress
<1> QED BY <1>2 DEF Agrees, Captured

LEMMA TruthKept ==
    ASSUME Progress, \A i \in DOMAIN payments : Backed(payments[i]),
           misled' = misled \/ misled' = TRUE, NEW q, TrueAt(q), NEW k,
           ~misled' => \A i \in DOMAIN payments' : payments'[i].status = "CAPTURED" =>
              \/ i \in DOMAIN payments /\ payments'[i] = payments[i]
              \/ \E p : p = payments'[i] /\ Agrees(p)',
           ~misled' /\ k.pc = "pay.save" /\ k.pay.status = "CAPTURED" => Agrees(k.pay)'
    PROVE  TrueAt(k)'
<1>1. ASSUME ~misled', NEW i \in DOMAIN payments', payments'[i].status = "CAPTURED"
      PROVE  Agrees(payments[i])'
  <2>1. PICK p : p = payments'[i]
    OBVIOUS
  <2>2. CASE i \in DOMAIN payments /\ payments'[i] = payments[i]
    <3>1. Backed(p) /\ Agrees(p) /\ p.status = "CAPTURED"
      BY <1>1, <2>1, <2>2 DEF TrueAt
    <3>2. p.charge \in DOMAIN charges
      BY <3>1 DEF Backed
    <3>3. Agrees(p)'
      BY <3>1, <3>2, AgreedStays
    <3> QED BY <2>1, <3>3 DEF Agrees, Captured
  <2>3. CASE Agrees(p)'
    BY <2>1, <2>3 DEF Agrees, Captured
  <2> QED BY <1>1, <2>1, <2>2, <2>3
<1> QED BY <1>1 DEF TrueAt

PayInv == PayBase /\ PayAlone /\ PayExact

(* The records after a step are typed and sound. *)
Records ==
    /\ inv \in PayInvoice /\ payments \in Seq(PayRow) /\ receipts \in Seq(PayReceipt)
    /\ charges \in Seq(Charge) /\ returned \in Seq(Refund)
    /\ CoherentPay(inv)
    /\ \A i \in DOMAIN payments : Backed(payments[i])
    /\ \A c \in DOMAIN charges : ChargeSound(charges[c])

LEMMA PaySteps ==
    ASSUME PayInv, NEW h \in Handlers, NEW k \in PayLocal, Stepping(h, k), Progress, Records',
           PaySound(k)', aborts' \in Nat, aborts' = 0 => aborts = 0,
           misled' \in BOOLEAN,
           PayAloneAt(hs[h]) /\ ReceiptsAt(hs[h]) => PayAloneAt(k)' /\ ReceiptsAt(k)',
           aborts' = 0 /\ PayAloneAt(hs[h]) /\ ReceiptsAt(hs[h]) /\ PayExactAt(hs[h]) => PayExactAt(k)'
    PROVE  PayInv'
<1>1. hs \in [Handlers -> PayLocal] /\ overlaps \in Nat /\ RestingIsResting
  BY DEF PayInv, PayBase, PayTyped
<1>2. /\ hs'[h] = k /\ \A g \in Handlers \ {h} : hs'[g] = hs[g]
      /\ RestingIsResting' /\ overlaps' \in Nat
      /\ hs' \in [Handlers -> PayLocal]
      /\ (overlaps = 0 => Lone) /\ overlaps' = 0
            => overlaps = 0 /\ Lone' /\ Current(hs[h]) /\ \A q : Current(q)' => q = k
  BY <1>1, Steps
<1>3. PayBase'
  <2>1. PayTyped'
    BY <1>2 DEF Records, PayTyped
  <2>2. ASSUME NEW g \in Handlers PROVE PaySound(hs[g])'
    <3>1. CASE g = h
      BY <1>2, <3>1 DEF PaySound, Backed
    <3>2. CASE g # h
      <4>1. PICK q : q = hs[g]
        OBVIOUS
      <4>2. PaySound(q)'
        BY <4>1, SoundKept DEF PayInv, PayBase
      <4>3. hs'[g] = q
        BY <1>2, <3>2, <4>1
      <4> QED BY <4>2, <4>3 DEF PaySound, Backed
    <3> QED BY <3>1, <3>2
  <2> QED BY <2>1, <2>2 DEF PayBase, Records
<1>4. ASSUME overlaps' = 0 
      PROVE  /\ overlaps = 0 /\ Lone' /\ PayAloneAt(hs[h]) /\ ReceiptsAt(hs[h])
             /\ Current(hs[h]) /\ \A q : Current(q)' => q = k
  <2>1. overlaps = 0 => Lone
    BY DEF PayInv, PayAlone
  <2>2. overlaps = 0 /\ Lone' /\ Current(hs[h]) /\ \A q : Current(q)' => q = k
    BY <1>2, <1>4, <2>1
  <2> QED BY <2>2 DEF PayInv, PayAlone
<1>5. PayAlone'
  <2> SUFFICES ASSUME overlaps' = 0
               PROVE  /\ Lone'
                      /\ \A q \in {Resting} \cup {hs'[g] : g \in Handlers} :
                            Current(q)' => PayAloneAt(q)' /\ ReceiptsAt(q)'
    BY DEF PayAlone
  <2> QED BY <1>4
<1>6. PayExact'
  <2> SUFFICES ASSUME overlaps' = 0, aborts' = 0
               PROVE  \A q \in {Resting} \cup {hs'[g] : g \in Handlers} : Current(q)' => PayExactAt(q)'
    BY DEF PayExact
  <2>1. PayExactAt(hs[h])
    BY <1>4 DEF PayInv, PayExact
  <2> QED BY <1>4, <2>1
<1> QED BY <1>3, <1>5, <1>6 DEF PayInv

(* What a step makes of the sums.                                           *)
LEMMA WeightsAre ==
    /\ CapturedWeight \in [PayRow -> Int] /\ RefundedWeight \in [PayRow -> Int]
    /\ ReturnedWeight \in [Refund -> Int] /\ ChargedWeight \in [Charge -> Int]
    /\ \A p \in PayRow : /\ CapturedWeight[p] = IF p.status = "CAPTURED" THEN p.amount ELSE 0
                         /\ RefundedWeight[p] = IF p.status = "REFUNDED" THEN -p.amount ELSE 0
    /\ \A r \in Refund : ReturnedWeight[r] = r.amount
    /\ \A c \in Charge : ChargedWeight[c] = IF c.status # "FAILED" THEN c.amount ELSE 0
<1>1. CapturedWeight \in [PayRow -> Int] /\ RefundedWeight \in [PayRow -> Int]
  BY DEF CapturedWeight, RefundedWeight, PayRow, Captured, RefundDone, Amount, Negated
<1>2. ReturnedWeight \in [Refund -> Int] /\ ChargedWeight \in [Charge -> Int]
  BY DEF ReturnedWeight, ChargedWeight, Refund, Charge, NotFailed, Amount
<1>3. \A p \in PayRow : /\ CapturedWeight[p] = IF p.status = "CAPTURED" THEN p.amount ELSE 0
                        /\ RefundedWeight[p] = IF p.status = "REFUNDED" THEN -p.amount ELSE 0
  BY DEF CapturedWeight, RefundedWeight, Captured, RefundDone, Amount, Negated
<1>4. /\ \A r \in Refund : ReturnedWeight[r] = r.amount
      /\ \A c \in Charge : ChargedWeight[c] = IF c.status # "FAILED" THEN c.amount ELSE 0
  BY DEF ReturnedWeight, ChargedWeight, NotFailed, Amount
<1> QED BY <1>1, <1>2, <1>3, <1>4

LEMMA PaymentReweighed ==
    ASSUME NEW w \in [PayRow -> Int], NEW s \in Seq(PayRow), NEW t \in Seq(PayRow), Len(t) = Len(s),
           NEW j \in 1..Len(s), \A i \in 1..Len(s) \ {j} : t[i] = s[i]
    PROVE  Weight(w, t) = Weight(w, s) - w[s[j]] + w[t[j]]
  BY Reweighed

LEMMA PaymentTallies ==
    ASSUME payments \in Seq(PayRow)
    PROVE  /\ Taken \in Int /\ GivenBack \in Int
           /\ payments' = payments => Taken' = Taken /\ GivenBack' = GivenBack
           /\ \A p \in PayRow : payments' = Append(payments, p) =>
                 /\ Taken' = Taken + (IF p.status = "CAPTURED" THEN p.amount ELSE 0)
                 /\ GivenBack' = GivenBack + (IF p.status = "REFUNDED" THEN -p.amount ELSE 0)
           /\ \A p \in PayRow, i \in DOMAIN payments : payments' = [payments EXCEPT ![i] = p] =>
                 /\ Taken' = Taken - (IF payments[i].status = "CAPTURED" THEN payments[i].amount ELSE 0)
                                   + (IF p.status = "CAPTURED" THEN p.amount ELSE 0)
                 /\ GivenBack' = GivenBack - (IF payments[i].status = "REFUNDED" THEN -payments[i].amount ELSE 0)
                                           + (IF p.status = "REFUNDED" THEN -p.amount ELSE 0)
<1> DEFINE cw == CapturedWeight
           rw == RefundedWeight
<1>1. cw \in [PayRow -> Int] /\ rw \in [PayRow -> Int]
  BY WeightsAre
<1>2. \A p \in PayRow :
         /\ cw[p] = IF p.status = "CAPTURED" THEN p.amount ELSE 0
         /\ rw[p] = IF p.status = "REFUNDED" THEN -p.amount ELSE 0
  BY WeightsAre
<1>3. /\ Taken = Weight(cw, payments) /\ GivenBack = Weight(rw, payments)
      /\ Taken' = Weight(cw, payments') /\ GivenBack' = Weight(rw, payments')
  BY DEF Taken, GivenBack
<1> HIDE DEF cw, rw
<1>4. Taken \in Int /\ GivenBack \in Int
  BY <1>1, <1>3, Weights
<1>5. ASSUME NEW p \in PayRow, payments' = Append(payments, p)
      PROVE  Taken' = Taken + cw[p] /\ GivenBack' = GivenBack + rw[p]
  BY <1>1, <1>3, <1>5, Weights
<1>6. ASSUME NEW p \in PayRow, NEW i \in DOMAIN payments, payments' = [payments EXCEPT ![i] = p]
      PROVE  /\ Taken' = Taken - cw[payments[i]] + cw[p]
             /\ GivenBack' = GivenBack - rw[payments[i]] + rw[p]
  <2> DEFINE s == payments
             t == payments'
  <2>1. /\ s \in Seq(PayRow) /\ t \in Seq(PayRow) /\ Len(t) = Len(s) /\ i \in 1..Len(s)
        /\ \A j \in 1..Len(s) \ {i} : t[j] = s[j]
    BY <1>6
  <2>4. t[i] = p
    BY <1>6
  <2> HIDE DEF s, t
  <2>2. Weight(cw, t) = Weight(cw, s) - cw[s[i]] + cw[t[i]]
    BY <1>1, <2>1, PaymentReweighed
  <2>3. Weight(rw, t) = Weight(rw, s) - rw[s[i]] + rw[t[i]]
    BY <1>1, <2>1, PaymentReweighed
  <2> QED BY <1>3, <2>2, <2>3, <2>4 DEF s, t
<1>7. \A i \in DOMAIN payments : payments[i] \in PayRow
  OBVIOUS
<1> QED BY <1>2, <1>3, <1>4, <1>5, <1>6, <1>7

LEMMA SentTallies ==
    ASSUME returned \in Seq(Refund)
    PROVE  /\ Sent \in Int /\ (returned' = returned => Sent' = Sent)
           /\ \A r \in Refund : returned' = Append(returned, r) => Sent' = Sent + r.amount
<1> DEFINE w == ReturnedWeight
<1>1. w \in [Refund -> Int] /\ \A r \in Refund : w[r] = r.amount
  BY WeightsAre
<1>2. Sent = Weight(w, returned) /\ Sent' = Weight(w, returned')
  BY DEF Sent
<1> HIDE DEF w
<1>3. Sent \in Int
  BY <1>1, <1>2, Weights
<1>4. ASSUME NEW r \in Refund, returned' = Append(returned, r) PROVE Sent' = Sent + w[r]
  BY <1>1, <1>2, <1>4, Weights
<1> QED BY <1>1, <1>2, <1>3, <1>4

LEMMA ChargeReweighed ==
    ASSUME NEW w \in [Charge -> Int], NEW s \in Seq(Charge), NEW t \in Seq(Charge), Len(t) = Len(s),
           NEW j \in 1..Len(s), \A i \in 1..Len(s) \ {j} : t[i] = s[i]
    PROVE  Weight(w, t) = Weight(w, s) - w[s[j]] + w[t[j]]
  BY Reweighed

LEMMA BilledTallies ==
    ASSUME charges \in Seq(Charge)
    PROVE  /\ Billed \in Int /\ (charges' = charges => Billed' = Billed)
           /\ \A c \in Charge : charges' = Append(charges, c) =>
                 Billed' = Billed + (IF c.status # "FAILED" THEN c.amount ELSE 0)
           /\ \A c \in Charge, i \in DOMAIN charges : charges' = [charges EXCEPT ![i] = c] =>
                 Billed' = Billed - (IF charges[i].status # "FAILED" THEN charges[i].amount ELSE 0)
                                  + (IF c.status # "FAILED" THEN c.amount ELSE 0)
<1> DEFINE w == ChargedWeight
<1>1. w \in [Charge -> Int]
  BY WeightsAre
<1>2. \A c \in Charge : w[c] = IF c.status # "FAILED" THEN c.amount ELSE 0
  BY WeightsAre
<1>3. Billed = Weight(w, charges) /\ Billed' = Weight(w, charges')
  BY DEF Billed
<1> HIDE DEF w
<1>4. Billed \in Int
  BY <1>1, <1>3, Weights
<1>5. ASSUME NEW c \in Charge, charges' = Append(charges, c) PROVE Billed' = Billed + w[c]
  BY <1>1, <1>3, <1>5, Weights
<1>6. ASSUME NEW c \in Charge, NEW i \in DOMAIN charges, charges' = [charges EXCEPT ![i] = c]
      PROVE  Billed' = Billed - w[charges[i]] + w[c]
  <2> DEFINE s == charges
             t == charges'
  <2>1. /\ s \in Seq(Charge) /\ t \in Seq(Charge) /\ Len(t) = Len(s) /\ i \in 1..Len(s)
        /\ \A j \in 1..Len(s) \ {i} : t[j] = s[j]
    BY <1>6
  <2>4. t[i] = c
    BY <1>6
  <2> HIDE DEF s, t
  <2>2. Weight(w, t) = Weight(w, s) - w[s[i]] + w[t[i]]
    BY <1>1, <2>1, ChargeReweighed
  <2> QED BY <1>3, <2>2, <2>4 DEF s, t
<1>7. \A i \in DOMAIN charges : charges[i] \in Charge
  OBVIOUS
<1> QED BY <1>2, <1>3, <1>4, <1>5, <1>6, <1>7

(* A step that writes nothing and leaves nothing to be written.             *)
Busy == {"pay.save", "credit", "refund.save", "refund.debit"}

LEMMA PayReading ==
    ASSUME PayInv, NEW h \in Handlers, NEW k \in PayLocal, Stepping(h, k), PayReads, UNCHANGED <<aborts, misled>>,
           PaySound(k), hs[h].pc \notin Busy, k.pc \notin Busy,
           hs[h].pc \in Crediting => k.pc \in Crediting,
           k.pc \in Crediting => hs[h].pc \in Crediting /\ k.id = hs[h].id /\ k.pay = hs[h].pay,
           k.pc \in Holding => k.inv = inv \/ (hs[h].pc \in Holding /\ k.inv = hs[h].inv),
           k.pc \in Settling => k.pay = payments[k.id]
                                \/ (hs[h].pc \in Settling /\ k.pay = hs[h].pay /\ k.id = hs[h].id),
           k.pc \in Paying \ {"pay.lookup"} =>
              \/ \A i \in DOMAIN payments : payments[i].key # k.pay.key
              \/ hs[h].pc \in Paying \ {"pay.lookup"} /\ k.pay = hs[h].pay,
           k.pc = "receipt.save" => k.n = Len(receipts) + 1,
           k.pc = "pay.capture" => \A i \in DOMAIN payments : payments[i].status # "REQUIRES_CAPTURE"
    PROVE  PayInv'
<1>1. UNCHANGED <<inv, payments, receipts, charges, returned, adapter, aborts, misled>>
  BY DEF PayReads, stored, provider
<1>2. Progress /\ Records'
  BY <1>1 DEF Progress, Records, PayInv, PayBase, PayTyped, CoherentPay, Backed, ChargeSound
<1>3. PaySound(k)'
  BY <1>2, SoundKept
<1>4. aborts' \in Nat /\ (aborts' = 0 => aborts = 0) /\ misled' \in BOOLEAN
  BY <1>1 DEF PayInv, PayBase, PayTyped
<1>5. Taken' = Taken /\ GivenBack' = GivenBack /\ Sent' = Sent /\ Billed' = Billed
  <2>1. payments \in Seq(PayRow) /\ returned \in Seq(Refund) /\ charges \in Seq(Charge)
    BY DEF PayInv, PayBase, PayTyped
  <2> QED BY <1>1, <2>1, PaymentTallies, SentTallies, BilledTallies
<1>6. PayAloneAt(hs[h]) => PayAloneAt(k)'
  <2> SUFFICES ASSUME PayAloneAt(hs[h]) PROVE PayAloneAt(k)'
    OBVIOUS
  <2>1. ToCredit(hs[h]) = 0 /\ ToCredit(k) = 0 /\ ToDebit(hs[h]) = 0 /\ ToDebit(k) = 0
    BY DEF ToCredit, ToDebit, Busy
  <2>2. k.pc \in Holding => k.inv = inv
    BY DEF PayAloneAt
  <2>3. k.pc \in Settling => k.pay = payments[k.id]
    BY DEF PayAloneAt
  <2>4. k.pc \in Crediting => \A j \in DOMAIN receipts : receipts[j].payment # k.id
    BY DEF PayAloneAt
  <2>5. k.pc \in Paying \ {"pay.lookup"} => \A i \in DOMAIN payments : payments[i].key # k.pay.key
    BY DEF PayAloneAt
  <2> QED BY <1>1, <1>5, <2>1, <2>2, <2>3, <2>4, <2>5 DEF PayAloneAt, ToCredit, ToDebit
<1>8. ReceiptsAt(hs[h]) => ReceiptsAt(k)'
  BY <1>1 DEF ReceiptsAt, ReceiptSound
<1>7. PayExactAt(hs[h]) => PayExactAt(k)'
  <2> SUFFICES ASSUME PayExactAt(hs[h]) PROVE PayExactAt(k)'
    OBVIOUS
  <2>1. ToCredit(hs[h]) = 0 /\ ToCredit(k)' = 0 /\ ToDebit(hs[h]) = 0 /\ ToDebit(k)' = 0
    BY DEF ToCredit, ToDebit, Busy
  <2>2. \A c \in DOMAIN charges : (OpenAt(k, c)' <=> OpenAt(hs[h], c)) /\ Worth(c)' = Worth(c)
    BY <1>1 DEF OpenAt, Worth, Busy
  <2>3. hs[h].pc \notin {"pay.save", "credit"} /\ k.pc \notin {"pay.save", "credit"}
        /\ hs[h].pc \notin {"refund.save", "refund.debit"} /\ k.pc \notin {"refund.save", "refund.debit"}
    BY DEF Busy
  <2>4. k.pc \in {"pay.capture", "pay.save"} =>
          \A i \in DOMAIN payments : payments[i].status # "REQUIRES_CAPTURE"
    BY <2>3
  <2> HIDE DEF Busy
  <2>5. BooksAt(k)'
    BY <1>1, <1>5, <2>1, <2>3 DEF PayExactAt, BooksAt
  <2>6. PendingAt(k)'
    BY <1>1, <2>3, <2>4 DEF PayExactAt, PendingAt
  <2>7. BilledAt(k)'
    BY <1>1, <1>5, <2>2, <2>3 DEF PayExactAt, BilledAt
  <2>8. SentAt(k)'
    BY <1>1, <1>5, <2>3 DEF PayExactAt, SentAt
  <2>9. TrueAt(k)'
    BY <1>1, <2>3 DEF PayExactAt, TrueAt, Agrees
  <2> QED BY <2>5, <2>6, <2>7, <2>8, <2>9 DEF PayExactAt
<1> QED BY <1>2, <1>3, <1>4, <1>6, <1>7, <1>8, PaySteps

LEMMA PayLoadKeeps == ASSUME PayInv, NEW h \in Handlers, PayLoad(h) PROVE PayInv'
<1>1. PayTyped /\ CoherentPay(inv)
  BY DEF PayInv, PayBase
<1>2. PICK k \in PayLocal : Stepping(h, k) /\ k.pc = "pay.key" /\ k.inv = inv
  BY <1>1, PayLoadDoes
<1>3. PayReads /\ UNCHANGED <<aborts, misled>> /\ hs[h].pc = "idle"
  BY <1>1, PayLoadDoes
<1>4. PaySound(k)
  BY <1>1, <1>2 DEF PaySound, PayTyped, Holding, Paying, Crediting, Settling, Refunding, PaymentPCs
<1> QED BY <1>2, <1>3, <1>4, PayReading DEF Busy, Holding, Paying, Crediting, Settling

LEMMA RefundLoadKeeps == ASSUME PayInv, NEW h \in Handlers, RefundLoad(h) PROVE PayInv'
<1>1. PayTyped /\ CoherentPay(inv)
  BY DEF PayInv, PayBase
<1>2. PICK k \in PayLocal : Stepping(h, k) /\ k.pc = "refund.source" /\ k.inv = inv
  BY <1>1, RefundLoadDoes
<1>3. PayReads /\ UNCHANGED <<aborts, misled>> /\ hs[h].pc = "idle"
  BY <1>1, RefundLoadDoes
<1>4. PaySound(k)
  BY <1>1, <1>2 DEF PaySound, PayTyped, Holding, Paying, Crediting, Settling, Refunding, PaymentPCs
<1> QED BY <1>2, <1>3, <1>4, PayReading DEF Busy, Holding, Paying, Crediting, Settling

LEMMA PayKeyKeeps == ASSUME PayInv, NEW h \in Handlers, PayKey(h) PROVE PayInv'
<1>1. PayTyped /\ PaySound(hs[h])
  BY DEF PayInv, PayBase
<1>2. PICK k \in PayLocal : /\ Stepping(h, k) /\ k.pc = "pay.lookup" /\ k.inv = hs[h].inv
                            /\ k.pay \in PayRow /\ k.pay.key \in Keys
  BY <1>1, PayKeyDoes
<1>3. PayReads /\ UNCHANGED <<aborts, misled>> /\ hs[h].pc = "pay.key"
  BY <1>1, PayKeyDoes
<1>4. PaySound(k)
  BY <1>1, <1>2, <1>3 DEF PaySound, Holding, Paying, Crediting, Settling, Refunding, PaymentPCs
<1>5. hs[h].pc \in Holding
  BY <1>3 DEF Holding, PaymentPCs
<1> QED BY <1>2, <1>3, <1>4, <1>5, PayReading DEF Busy, Paying, Crediting, Settling

(* Nothing is left to do.                                                   *)
LEMMA RestSound == PaySound(Resting)
<1>1. Resting.pc = "idle"
  BY RestingTyped
<1> QED BY <1>1 DEF PaySound, Holding, Paying, Crediting, Settling, Refunding

LEMMA PayRests ==
    ASSUME PayInv, NEW h \in Handlers, Stepping(h, Resting), PayReads, UNCHANGED <<aborts, misled>>,
           hs[h].pc \notin Busy \cup Crediting
    PROVE  PayInv'
<1>1. Resting \in PayLocal /\ Resting.pc = "idle" /\ PaySound(Resting)
  BY RestingTyped, RestSound
<1> QED BY <1>1, PayReading DEF Busy, Holding, Paying, Crediting, Settling

LEMMA PayLookupKeeps == ASSUME PayInv, NEW h \in Handlers, PayLookup(h) PROVE PayInv'
<1>1. PayTyped /\ PaySound(hs[h])
  BY DEF PayInv, PayBase
<1>2. PayReads /\ UNCHANGED <<aborts, misled>> /\ hs[h].pc = "pay.lookup"
  BY <1>1, PayLookupDoes
<1>3. CASE Stepping(h, Resting)
  BY <1>2, <1>3, PayRests DEF Busy, Crediting
<1>4. ASSUME \A i \in DOMAIN payments : payments[i].key # hs[h].pay.key, NEW k \in PayLocal,
             Stepping(h, k), k.pc = "pay.pending", k.inv = hs[h].inv, k.pay = hs[h].pay
      PROVE  PayInv'
  <2>1. PaySound(k)
    BY <1>1, <1>2, <1>4 DEF PaySound, Holding, Paying, Crediting, Settling, Refunding, PaymentPCs
  <2>2. hs[h].pc \in Holding
    BY <1>2 DEF Holding, PaymentPCs
  <2> QED BY <1>2, <1>4, <2>1, <2>2, PayReading DEF Busy, Paying, Crediting, Settling
<1> QED BY <1>1, <1>3, <1>4, PayLookupDoes

LEMMA PayPendingKeeps == ASSUME PayInv, NEW h \in Handlers, PayPending(h) PROVE PayInv'
<1>1. PayTyped /\ PaySound(hs[h])
  BY DEF PayInv, PayBase
<1>2. PayReads /\ UNCHANGED <<aborts, misled>> /\ hs[h].pc = "pay.pending"
  BY <1>1, PayPendingDoes
<1>3. CASE Stepping(h, Resting)
  BY <1>2, <1>3, PayRests DEF Busy, Crediting
<1>4. ASSUME \A i \in DOMAIN payments : payments[i].status # "REQUIRES_CAPTURE", NEW k \in PayLocal,
             Stepping(h, k), k.pc = "pay.capture", k.inv = hs[h].inv, k.pay = hs[h].pay
      PROVE  PayInv'
  <2>1. PaySound(k)
    BY <1>1, <1>2, <1>4 DEF PaySound, Holding, Paying, Crediting, Settling, Refunding, PaymentPCs
  <2>2. hs[h].pc \in Holding /\ hs[h].pc \in Paying \ {"pay.lookup"}
    BY <1>2 DEF Holding, Paying, PaymentPCs
  <2> QED BY <1>2, <1>4, <2>1, <2>2, PayReading DEF Busy, Crediting, Settling
<1> QED BY <1>1, <1>3, <1>4, PayPendingDoes

LEMMA ReceiptCountKeeps == ASSUME PayInv, NEW h \in Handlers, ReceiptCount(h) PROVE PayInv'
<1>1. PayTyped /\ PaySound(hs[h])
  BY DEF PayInv, PayBase
<1>2. PICK k \in PayLocal : /\ Stepping(h, k) /\ k.pc = "receipt.save" /\ k.inv = hs[h].inv
                            /\ k.pay = hs[h].pay /\ k.id = hs[h].id /\ k.n = Len(receipts) + 1
  BY <1>1, ReceiptCountDoes
<1>3. PayReads /\ UNCHANGED <<aborts, misled>> /\ hs[h].pc = "receipt.count"
  BY <1>1, ReceiptCountDoes
<1>4. PaySound(k)
  BY <1>1, <1>2, <1>3 DEF PaySound, Holding, Paying, Crediting, Settling, Refunding, PaymentPCs
<1>5. hs[h].pc \in Crediting /\ k.pc \in Crediting
  BY <1>2, <1>3 DEF Crediting
<1> QED BY <1>2, <1>3, <1>4, <1>5, PayReading DEF Busy, Holding, Paying, Settling

LEMMA SettleFindKeeps == ASSUME PayInv, NEW h \in Handlers, SettleFind(h) PROVE PayInv'
<1>1. PayTyped /\ \A i \in DOMAIN payments : Backed(payments[i])
  BY DEF PayInv, PayBase
<1>2. PICK i \in DOMAIN payments, k \in PayLocal :
          /\ payments[i].charge # 0
          /\ Stepping(h, k) /\ k.pc = "settle.load" /\ k.pay = payments[i] /\ k.id = i
  BY <1>1, SettleFindDoes
<1>3. PayReads /\ UNCHANGED <<aborts, misled>> /\ hs[h].pc = "idle"
  BY <1>1, SettleFindDoes
<1>4. /\ payments[i] \in PayRow /\ payments[i].charge \in DOMAIN charges /\ payments[i].key \in Keys
      /\ payments[i].status = "REQUIRES_CAPTURE" => payments[i].amount > 0
  BY <1>1, <1>2 DEF PayTyped, Backed
<1>5. PaySound(k)
  BY <1>2, <1>4 DEF PaySound, Holding, Paying, Crediting, Settling, Refunding, PaymentPCs
<1> QED BY <1>2, <1>3, <1>5, PayReading DEF Busy, Holding, Paying, Crediting

LEMMA SettleLoadKeeps == ASSUME PayInv, NEW h \in Handlers, SettleLoad(h) PROVE PayInv'
<1>1. PayTyped /\ PaySound(hs[h]) /\ CoherentPay(inv)
  BY DEF PayInv, PayBase
<1>2. PayReads /\ UNCHANGED <<aborts, misled>> /\ hs[h].pc = "settle.load"
  BY <1>1, SettleLoadDoes
<1>3. CASE Stepping(h, Resting)
  BY <1>2, <1>3, PayRests DEF Busy, Crediting
<1>4. ASSUME hs[h].pay.status = "REQUIRES_CAPTURE", NEW k \in PayLocal, Stepping(h, k),
             k.pc = "settle.save", k.inv = inv, k.pay = hs[h].pay, k.id = hs[h].id
      PROVE  PayInv'
  <2>1. hs[h].pc \in Settling /\ inv \in PayInvoice
    BY <1>1, <1>2 DEF Settling, PayTyped
  <2>2. PaySound(k)
    BY <1>1, <1>2, <1>4, <2>1 DEF PaySound, Holding, Paying, Crediting, Settling, Refunding, PaymentPCs
  <2>3. /\ hs[h].pc \notin Busy /\ hs[h].pc \notin Crediting
        /\ k.pc \notin Busy /\ k.pc \notin Crediting /\ k.pc \notin Paying
    BY <1>2, <1>4 DEF Busy, Crediting, Paying
  <2> QED BY <1>2, <1>4, <2>1, <2>2, <2>3, PayReading
<1> QED BY <1>1, <1>3, <1>4, SettleLoadDoes

LEMMA RefundSourceKeeps == ASSUME PayInv, NEW h \in Handlers, RefundSource(h) PROVE PayInv'
<1>1. PayTyped /\ PaySound(hs[h]) /\ \A i \in DOMAIN payments : Backed(payments[i])
  BY DEF PayInv, PayBase
<1>2. PayReads /\ UNCHANGED <<aborts, misled>> /\ hs[h].pc = "refund.source"
  BY <1>1, RefundSourceDoes
<1>3. CASE Stepping(h, Resting)
  BY <1>2, <1>3, PayRests DEF Busy, Crediting
<1>4. ASSUME NEW i \in DOMAIN payments, NEW k \in PayLocal, payments[i].status = "CAPTURED",
             k.n \in 1..Refundable(hs[h].inv), Stepping(h, k), k.pc = "refund.call",
             k.inv = hs[h].inv, k.pay = payments[i]
      PROVE  PayInv'
  <2>1. payments[i] \in PayRow /\ payments[i].key \in Keys
    BY <1>1, <1>4 DEF PayTyped, Backed
  <2>2. hs[h].pc \in Holding /\ hs[h].inv \in PayInvoice /\ CoherentPay(hs[h].inv)
    BY <1>1, <1>2 DEF PaySound, Holding, PaymentPCs
  <2>3. Refundable(hs[h].inv) \in Int /\ k.n \in Nat
    BY <1>4, <2>2 DEF Refundable, PayInvoice, PayLocal
  <2>4. k.n > 0 /\ k.n <= Refundable(k.inv)
    BY <1>4, <2>3
  <2>5. PaySound(k)
    BY <1>4, <2>1, <2>2, <2>4 DEF PaySound, Holding, Paying, Crediting, Settling, Refunding, PaymentPCs
  <2> QED BY <1>2, <1>4, <2>2, <2>5, PayReading DEF Busy, Paying, Crediting, Settling
<1> QED BY <1>1, <1>3, <1>4, RefundSourceDoes

(* The steps that write.  What is not written stays sound.                  *)
LEMMA RecordsKept ==
    ASSUME PayInv, Progress, inv' \in PayInvoice, CoherentPay(inv'),
           payments' \in Seq(PayRow), receipts' \in Seq(PayReceipt),
           charges' \in Seq(Charge), returned' \in Seq(Refund),
           \A i \in DOMAIN payments' :
              \/ i \in DOMAIN payments /\ payments'[i] = payments[i]
              \/ \E p : p = payments'[i] /\ Backed(p)',
           \A c \in DOMAIN charges' :
              (c \in DOMAIN charges /\ charges'[c] = charges[c]) \/ ChargeSound(charges'[c])
    PROVE  Records'
<1>1. ASSUME NEW i \in DOMAIN payments' PROVE Backed(payments[i])'
  <2>1. PICK p : p = payments'[i]
    OBVIOUS
  <2>2. Backed(p)'
    BY <2>1, BackedKept DEF PayInv, PayBase
  <2> QED BY <2>1, <2>2 DEF Backed
<1>2. \A c \in DOMAIN charges' : ChargeSound(charges[c])'
  BY DEF PayInv, PayBase, ChargeSound
<1> QED BY <1>1, <1>2 DEF Records, CoherentPay

LEMMA PayCaptureKeeps == ASSUME PayInv, NEW h \in Handlers, PayCapture(h) PROVE PayInv'
<1>1. PayTyped /\ PaySound(hs[h]) /\ CoherentPay(inv) /\ \A c \in DOMAIN charges : ChargeSound(charges[c])
  BY DEF PayInv, PayBase
<1>2. hs[h].pc = "pay.capture"
  BY DEF PayCapture
<1>3. /\ hs[h].pay \in PayRow /\ hs[h].pay.key \in Keys
      /\ hs[h].inv \in PayInvoice /\ CoherentPay(hs[h].inv)
  BY <1>1, <1>2 DEF PaySound, Holding, Paying, PaymentPCs
<1>4. UNCHANGED <<inv, payments, receipts, returned, adapter, aborts>> /\ (misled' = misled \/ misled' = TRUE)
  BY <1>1, <1>3, PayCaptureDoes DEF stored
<1>5. PICK k \in PayLocal :
         /\ Stepping(h, k) /\ k.pc = "pay.save" /\ k.inv = hs[h].inv
         /\ k.pay \in PayRow /\ k.pay.key = hs[h].pay.key /\ k.pay.amount = Outstanding(hs[h].inv)
         /\ \/ UNCHANGED charges /\ k.pay.status = "FAILED" /\ k.pay.charge = 0
            \/ /\ k.pay.status = "FAILED" /\ k.pay.charge = 0 /\ misled' = TRUE
               /\ \E c \in Charge : charges' = Append(charges, c) /\ ChargeSound(c)
            \/ /\ UNCHANGED charges /\ k.pay.charge \in DOMAIN charges
               /\ charges[k.pay.charge].key = hs[h].pay.key
               /\ k.pay.status = charges[k.pay.charge].reply
               /\ k.pay.amount = charges[k.pay.charge].asked
            \/ /\ k.pay.status \in {"CAPTURED", "REQUIRES_CAPTURE"} /\ k.pay.amount > 0
               /\ k.pay.charge = Len(charges) + 1
               /\ \E c \in Charge :
                     /\ charges' = Append(charges, c) /\ c.key = hs[h].pay.key
                     /\ c.asked = k.pay.amount /\ c.amount = k.pay.amount
                     /\ c.reply = k.pay.status /\ c.status = k.pay.status
  BY <1>1, <1>3, PayCaptureDoes
<1> DEFINE None0 == UNCHANGED charges /\ k.pay.status = "FAILED" /\ k.pay.charge = 0
           Unheard(c) == /\ k.pay.status = "FAILED" /\ k.pay.charge = 0 /\ misled' = TRUE
                         /\ charges' = Append(charges, c) /\ ChargeSound(c)
           Again == /\ UNCHANGED charges /\ k.pay.charge \in DOMAIN charges
                    /\ charges[k.pay.charge].key = hs[h].pay.key
                    /\ k.pay.status = charges[k.pay.charge].reply
                    /\ k.pay.amount = charges[k.pay.charge].asked
           New(c) == /\ k.pay.status \in {"CAPTURED", "REQUIRES_CAPTURE"} /\ k.pay.amount > 0
                     /\ k.pay.charge = Len(charges) + 1
                     /\ charges' = Append(charges, c) /\ c.key = hs[h].pay.key
                     /\ c.asked = k.pay.amount /\ c.amount = k.pay.amount
                     /\ c.reply = k.pay.status /\ c.status = k.pay.status
<1>6. None0 \/ Again \/ \E c \in Charge : (New(c) \/ Unheard(c))
  BY <1>5
<1>7. /\ charges \in Seq(Charge) /\ Len(charges) \in Nat /\ DOMAIN charges = 1..Len(charges)
      /\ \A c \in DOMAIN charges : charges[c] \in Charge /\ c \in Nat /\ c # 0
      /\ payments \in Seq(PayRow) /\ aborts \in Nat /\ inv \in PayInvoice
  BY <1>1 DEF PayTyped
<1>8. ASSUME NEW c \in Charge, New(c) \/ Unheard(c)
      PROVE  /\ charges' \in Seq(Charge) /\ DOMAIN charges' = 1..(Len(charges) + 1)
             /\ \A d \in DOMAIN charges : charges'[d] = charges[d]
             /\ charges'[Len(charges) + 1] = c /\ ChargeSound(c)
  BY <1>7, <1>8 DEF ChargeSound
<1>9. Progress /\ charges' \in Seq(Charge)
      /\ \A c \in DOMAIN charges' :
            (c \in DOMAIN charges /\ charges'[c] = charges[c]) \/ ChargeSound(charges'[c])
  <2>1. CASE UNCHANGED charges
    BY <1>4, <1>7, <2>1 DEF Progress
  <2>2. ASSUME NEW c \in Charge, New(c) \/ Unheard(c)
        PROVE  Progress /\ charges' \in Seq(Charge)
               /\ \A d \in DOMAIN charges' :
                     (d \in DOMAIN charges /\ charges'[d] = charges[d]) \/ ChargeSound(charges'[d])
    <3> HIDE DEF New, Unheard
    <3> QED BY <1>4, <1>7, <1>8, <2>2 DEF Progress
  <2> QED BY <1>6, <2>1, <2>2
<1>10. Records'
  BY <1>1, <1>4, <1>9, RecordsKept DEF PayTyped
<1>11. PaySound(k)'
  <2>1. Backed(k.pay)' /\ k.pay.status # "REFUNDED" /\ (k.pay.status = "FAILED" => k.pay.charge = 0)
    <3>1. CASE k.pay.status = "FAILED" /\ k.pay.charge = 0
      BY <3>1 DEF Backed
    <3>2. CASE Again
      <4>1. PICK d \in DOMAIN charges : d = k.pay.charge
        BY <3>2
      <4>2. /\ charges[d].reply \in {"CAPTURED", "REQUIRES_CAPTURE"} /\ charges[d].asked > 0 /\ d # 0
            /\ charges[d].reply = "CAPTURED" => charges[d].status = "CAPTURED" /\ charges[d].amount = charges[d].asked
        BY <1>1, <1>7 DEF Charge, ChargeSound
      <4>3. /\ charges' = charges /\ k.pay.status = charges[d].reply /\ k.pay.amount = charges[d].asked
            /\ k.pay.key \in Keys
        BY <1>3, <1>5, <3>2, <4>1
      <4> HIDE DEF Again
      <4> QED BY <4>1, <4>2, <4>3 DEF Backed
    <3>3. ASSUME NEW c \in Charge, New(c)
          PROVE Backed(k.pay)' /\ k.pay.status # "REFUNDED" /\ (k.pay.status = "FAILED" => k.pay.charge = 0)
      <4>1. /\ k.pay.charge \in DOMAIN charges' /\ k.pay.charge # 0 /\ charges'[k.pay.charge] = c
            /\ k.pay.key \in Keys
        <5>1. k.pay.charge = Len(charges) + 1 /\ Len(charges) + 1 # 0 /\ Len(charges) + 1 \in 1..(Len(charges) + 1)
          BY <1>7, <3>3
        <5> HIDE DEF New
        <5> QED BY <1>3, <1>5, <1>8, <3>3, <5>1
      <4> QED BY <3>3, <4>1 DEF Backed
    <3> QED BY <1>6, <3>1, <3>2, <3>3
  <2> QED BY <1>3, <1>5, <2>1 DEF PaySound, Holding, Paying, Crediting, Settling, Refunding, PaymentPCs
<1>12. Taken' = Taken /\ GivenBack' = GivenBack /\ Sent' = Sent /\ Billed \in Int
  BY <1>1, <1>4, <1>7, PaymentTallies, SentTallies, BilledTallies DEF PayTyped
<1>13. ToCredit(hs[h]) = 0 /\ ToCredit(k)' = 0 /\ ToDebit(hs[h]) = 0 /\ ToDebit(k)' = 0
  BY <1>2, <1>5 DEF ToCredit, ToDebit
<1>14. PayAloneAt(hs[h]) => PayAloneAt(k)'
  BY <1>2, <1>4, <1>5, <1>12, <1>13 DEF PayAloneAt, Holding, Paying, Crediting, Settling, PaymentPCs
<1>16. ReceiptsAt(hs[h]) => ReceiptsAt(k)'
  BY <1>4, <1>5, ReceiptsKept DEF CapturedStay, Crediting
<1>17. misled \in BOOLEAN /\ misled' \in BOOLEAN
  BY <1>1, <1>4 DEF PayTyped
<1>15. ASSUME PayAloneAt(hs[h]), PayExactAt(hs[h]) PROVE PayExactAt(k)'
  <2>1. /\ inv.paid = Taken /\ inv.refunded = GivenBack
        /\ \A i \in DOMAIN payments : payments[i].status # "REQUIRES_CAPTURE"
        /\ \A i \in DOMAIN payments : payments[i].status = "CAPTURED" => \E j \in DOMAIN receipts : receipts[j].payment = i
        /\ \A j \in DOMAIN receipts : receipts[j].number = j
    <3>1. inv.paid \in Int /\ inv.refunded \in Int
      BY <1>7 DEF PayInvoice
    <3> QED BY <1>2, <1>7, <1>13, <1>15, <3>1, PaymentTallies DEF PayExactAt, BooksAt, PendingAt, Crediting
  <2>4. k.inv = inv
    BY <1>2, <1>5, <1>15 DEF PayAloneAt, Holding, PaymentPCs
  <2>5. ~ (\E i \in DOMAIN payments' : payments'[i].status = "REQUIRES_CAPTURE")
    BY <1>4, <2>1
  <2>6. \A c : OpenAt(k, c)' <=> k.pay.charge = c
    BY <1>5, <2>5 DEF OpenAt
  <2>9. BooksAt(k)'
    BY <1>4, <1>5, <1>7, <1>12, <1>13, <2>1 DEF BooksAt, PayInvoice
  <2>10. PendingAt(k)'
    BY <1>4, <2>5 DEF PendingAt
  <2>11. SentAt(k)'
    BY <1>2, <1>4, <1>5, <1>12, <1>15 DEF PayExactAt, SentAt
  <2>12. CASE misled' = TRUE
    BY <2>9, <2>10, <2>11, <2>12 DEF PayExactAt, TrueAt, BilledAt
  <2>13. ASSUME misled' = FALSE PROVE TrueAt(k)' /\ BilledAt(k)'
    <3>1. misled = FALSE
      BY <1>4, <2>13
    <3>2. \A c \in DOMAIN charges : ~OpenAt(hs[h], c)
      BY <1>2, <1>15 DEF OpenAt, PayExactAt, PendingAt
    <3>3. /\ inv.paid <= Total /\ Billed = inv.paid
          /\ \A c \in DOMAIN charges : \E i \in DOMAIN payments : payments[i].key = charges[c].key
          /\ \A c \in DOMAIN charges : charges[c].status # "REQUIRES_CAPTURE"
      BY <1>2, <1>15, <3>1, <3>2 DEF PayExactAt, BilledAt
    <3>4. \A i \in DOMAIN payments : payments[i].key # hs[h].pay.key
      BY <1>2, <1>15 DEF PayAloneAt, Paying
    <3>5. ~Again
      BY <3>3, <3>4
    <3>6. k.pay.status = "CAPTURED" => Agrees(k.pay)'
      <4>1. CASE None0
        BY <4>1
      <4>2. ASSUME NEW c \in Charge, New(c) PROVE k.pay.status = "CAPTURED" => Agrees(k.pay)'
        <5>1. charges'[k.pay.charge] = c
          BY <1>8, <4>2
        <5> QED BY <4>2, <5>1 DEF Agrees
      <4> QED BY <1>6, <2>13, <3>5, <4>1, <4>2
    <3>7. TrueAt(k)'
      BY <1>1, <1>4, <1>9, <1>15, <3>6, TruthKept DEF PayExactAt, PayInv, PayBase
    <3>8. CASE None0
      <4>1. Billed' = Billed
        BY <1>7, <3>8, BilledTallies
      <4>2. \A c \in DOMAIN charges' : ~OpenAt(k, c)'
        BY <1>7, <2>6, <3>8
      <4>3. \A d \in DOMAIN charges' :
              /\ \/ \E i \in DOMAIN payments' : payments'[i].key = charges'[d].key
                 \/ k.pc = "pay.save" /\ k.pay.key = charges'[d].key
              /\ charges'[d].status # "REQUIRES_CAPTURE"
        BY <1>4, <3>3, <3>8
      <4> QED BY <1>4, <3>3, <3>7, <4>1, <4>2, <4>3 DEF BilledAt
    <3>9. ASSUME NEW c \in Charge, New(c) PROVE BilledAt(k)'
      <4>1. Billed' = Billed + k.pay.amount
        BY <1>7, <3>9, BilledTallies
      <4>2. k.pay.amount = Total - inv.paid /\ inv.paid \in Int /\ Total \in Int
        BY <1>3, <1>5, <1>7, <2>4, TotalAssumption DEF Outstanding, PayInvoice
      <4>0. PICK n : n = Len(charges) + 1
        OBVIOUS
      <4>3. /\ DOMAIN charges' = DOMAIN charges \cup {n} /\ n \notin DOMAIN charges /\ charges'[n] = c
            /\ \A d \in DOMAIN charges : charges'[d] = charges[d]
        BY <1>7, <1>8, <3>9, <4>0
      <4>4. Worth(n)' = k.pay.amount
        BY <3>9, <4>3 DEF Worth
      <4>5. \A d \in DOMAIN charges' : OpenAt(k, d)' <=> d = n
        BY <2>6, <3>9, <4>0
      <4>6. c.key = k.pay.key /\ c.amount = Total - inv.paid
        BY <1>5, <3>9, <4>2
      <4> HIDE DEF New
      <4>7. \A d \in DOMAIN charges' :
            /\ \/ \E i \in DOMAIN payments' : payments'[i].key = charges'[d].key
               \/ k.pc = "pay.save" /\ k.pay.key = charges'[d].key
            /\ charges'[d].status = "REQUIRES_CAPTURE" => OpenAt(k, d)'
            /\ OpenAt(k, d)' =>
                  /\ Billed' = inv'.paid + Worth(d)'
                  /\ charges'[d].amount <= Total - inv'.paid
        <5> SUFFICES ASSUME NEW d \in DOMAIN charges'
                     PROVE  /\ \/ \E i \in DOMAIN payments' : payments'[i].key = charges'[d].key
                               \/ k.pc = "pay.save" /\ k.pay.key = charges'[d].key
                            /\ charges'[d].status = "REQUIRES_CAPTURE" => OpenAt(k, d)'
                            /\ OpenAt(k, d)' =>
                                  /\ Billed' = inv'.paid + Worth(d)'
                                  /\ charges'[d].amount <= Total - inv'.paid
          OBVIOUS
        <5>1. CASE d = n
          <6>1. Billed' = inv'.paid + Worth(n)'
            BY <1>4, <3>3, <4>1, <4>4
          <6> QED BY <1>4, <1>5, <4>2, <4>3, <4>5, <4>6, <5>1, <6>1
        <5>2. CASE d # n
          BY <1>4, <3>3, <4>3, <4>5, <5>2
        <5> QED BY <5>1, <5>2
      <4>8. ~ \A d \in DOMAIN charges' : ~OpenAt(k, d)'
        BY <4>3, <4>5
      <4> QED BY <1>4, <3>3, <4>7, <4>8 DEF BilledAt
    <3> QED BY <1>6, <2>13, <3>5, <3>7, <3>8, <3>9
  <2> QED BY <1>17, <2>9, <2>10, <2>11, <2>12, <2>13 DEF PayExactAt
<1> QED BY <1>4, <1>5, <1>7, <1>9, <1>10, <1>11, <1>14, <1>15, <1>16, <1>17, PaySteps

(* A payment is added. *)
LEMMA PaymentAdded ==
    ASSUME PayInv, NEW p \in PayRow, Backed(p), payments' = Append(payments, p),
           UNCHANGED <<inv, receipts, charges, returned>>
    PROVE  /\ Progress /\ Records'
           /\ DOMAIN payments' = 1..(Len(payments) + 1) /\ DOMAIN payments = 1..Len(payments)
           /\ Len(payments) \in Nat /\ payments'[Len(payments) + 1] = p
           /\ \A i \in DOMAIN payments : payments'[i] = payments[i]
<1>1. payments \in Seq(PayRow) /\ PayTyped /\ CoherentPay(inv)
  BY DEF PayInv, PayBase, PayTyped
<1>2. /\ DOMAIN payments' = 1..(Len(payments) + 1) /\ DOMAIN payments = 1..Len(payments)
      /\ Len(payments) \in Nat /\ payments'[Len(payments) + 1] = p
      /\ \A i \in DOMAIN payments : payments'[i] = payments[i]
      /\ payments' \in Seq(PayRow)
  BY <1>1
<1>3. Progress
  BY <1>2 DEF Progress
<1>4. Backed(p)'
  BY <1>3, BackedKept
<1>5. \A i \in DOMAIN payments' :
        \/ i \in DOMAIN payments /\ payments'[i] = payments[i]
        \/ \E q : q = payments'[i] /\ Backed(q)'
  <2> SUFFICES ASSUME NEW i \in DOMAIN payments', i \notin DOMAIN payments
               PROVE  \E q : q = payments'[i] /\ Backed(q)'
    BY <1>2
  <2>1. i = Len(payments) + 1
    BY <1>2
  <2> QED BY <1>2, <1>4, <2>1
<1>6. Records'
  BY <1>1, <1>2, <1>3, <1>5, RecordsKept DEF PayTyped, CoherentPay
<1> QED BY <1>2, <1>3, <1>6

LEMMA PaySaveKeeps == ASSUME PayInv, NEW h \in Handlers, PaySave(h) PROVE PayInv'
<1>1. PayTyped /\ PaySound(hs[h]) /\ aborts \in Nat /\ misled \in BOOLEAN
  BY DEF PayInv, PayBase, PayTyped
<1>2. /\ UNCHANGED <<inv, receipts, charges, returned, adapter, aborts, misled>>
      /\ hs[h].pc = "pay.save" /\ payments' = Append(payments, hs[h].pay)
  BY <1>1, PaySaveDoes DEF provider
<1>3. PICK p : p = hs[h].pay
  OBVIOUS
<1>4. /\ p \in PayRow /\ p.key \in Keys /\ Backed(p) /\ p.status # "REFUNDED"
      /\ p.status = "FAILED" => p.charge = 0
      /\ hs[h].inv \in PayInvoice /\ CoherentPay(hs[h].inv)
  BY <1>1, <1>2, <1>3 DEF PaySound, Holding, Paying, PaymentPCs
<1>5. /\ Progress /\ Records'
      /\ DOMAIN payments' = 1..(Len(payments) + 1) /\ DOMAIN payments = 1..Len(payments)
      /\ Len(payments) \in Nat /\ payments'[Len(payments) + 1] = p
      /\ \A i \in DOMAIN payments : payments'[i] = payments[i]
  BY <1>2, <1>3, <1>4, PaymentAdded
<1>6. PICK n : n = Len(payments) + 1
  OBVIOUS
<1>7. /\ DOMAIN payments' = DOMAIN payments \cup {n} /\ n \notin DOMAIN payments /\ payments'[n] = p
      /\ \A i \in DOMAIN payments : payments'[i] = payments[i]
  BY <1>5, <1>6
<1>8. /\ Taken \in Int /\ GivenBack \in Int /\ Sent' = Sent /\ Billed' = Billed
      /\ Taken' = Taken + (IF p.status = "CAPTURED" THEN p.amount ELSE 0)
      /\ GivenBack' = GivenBack
  <2>1. payments \in Seq(PayRow) /\ returned \in Seq(Refund) /\ charges \in Seq(Charge)
    BY <1>1 DEF PayTyped
  <2>2. GivenBack' = GivenBack + 0 /\ GivenBack \in Int
    BY <1>2, <1>3, <1>4, <2>1, PaymentTallies
  <2> QED BY <1>2, <1>3, <1>4, <2>1, <2>2, PaymentTallies, SentTallies, BilledTallies
<1>9. PICK k \in PayLocal :
         /\ Stepping(h, k)
         /\ \/ k = Resting /\ p.status # "CAPTURED"
            \/ p.status = "CAPTURED" /\ k.pc = "credit" /\ k.inv = hs[h].inv /\ k.pay = p /\ k.id = n
  BY <1>1, <1>3, <1>6, PaySaveDoes, RestingTyped
<1>10. (k.pc = "idle" /\ p.status # "CAPTURED") \/ (p.status = "CAPTURED" /\ k.pc = "credit")
  <2>1. Resting.pc = "idle"
    BY RestingTyped
  <2> QED BY <1>9, <2>1
<1>11. p.status = "CAPTURED" => p.charge \in DOMAIN charges /\ p.amount > 0 /\ p.amount \in Int
  BY <1>4 DEF Backed, PayRow
<1>12. PaySound(k)'
  <2>1. CASE k = Resting
    BY <2>1, <1>5, RestSound, SoundKept
  <2>2. CASE p.status = "CAPTURED" /\ k.pc = "credit" /\ k.inv = hs[h].inv /\ k.pay = p /\ k.id = n
    <3>1. /\ k.inv \in PayInvoice /\ CoherentPay(k.inv) /\ k.pay \in PayRow /\ k.pay.charge \in DOMAIN charges'
          /\ k.id \in DOMAIN payments' /\ payments'[k.id] = p /\ k.pay.amount > 0
      BY <1>2, <1>4, <1>7, <1>11, <2>2
    <3> QED BY <2>2, <3>1 DEF PaySound, Holding, Paying, Crediting, Settling, Refunding, PaymentPCs
  <2> QED BY <1>9, <2>1, <2>2
<1>13. /\ ToCredit(hs[h]) = 0 /\ ToDebit(hs[h]) = 0 /\ ToDebit(k)' = 0
       /\ ToCredit(k)' = (IF p.status = "CAPTURED" THEN p.amount ELSE 0)
       /\ inv.paid \in Int /\ inv.refunded \in Int
  BY <1>1, <1>2, <1>9, <1>10 DEF ToCredit, ToDebit, PayTyped, PayInvoice
<1>14. ASSUME PayAloneAt(hs[h]), ReceiptsAt(hs[h]) PROVE PayAloneAt(k)'
  <2>1. k.pc \in Holding => k.inv = inv
    BY <1>2, <1>9, <1>10, <1>14 DEF PayAloneAt, Holding, PaymentPCs
  <2>2. k.pc \in Crediting => \A j \in DOMAIN receipts : receipts[j].payment # k.id
    <3>1. \A j \in DOMAIN receipts : receipts[j].payment \in DOMAIN payments
      BY <1>14 DEF ReceiptsAt, ReceiptSound
    <3> QED BY <1>7, <1>9, <1>10, <3>1 DEF Crediting
  <2>3. \A i, j \in DOMAIN payments' :
          i # j /\ payments'[i].amount > 0 /\ payments'[j].amount > 0 => payments'[i].key # payments'[j].key
    <3>1. \A i \in DOMAIN payments : payments[i].key # p.key
      BY <1>2, <1>3, <1>14 DEF PayAloneAt, Paying
    <3> QED BY <1>7, <1>14, <3>1 DEF PayAloneAt
  <2>4. inv.paid <= Taken /\ inv.refunded <= GivenBack
    BY <1>13, <1>14 DEF PayAloneAt
  <2>5. inv.paid + ToCredit(k)' <= Taken' /\ inv.refunded + ToDebit(k)' <= GivenBack'
    BY <1>8, <1>11, <1>13, <2>4
  <2>6. k.pc \notin Settling /\ k.pc \notin Paying
    BY <1>10 DEF Settling, Paying
  <2> QED BY <1>2, <1>14, <2>1, <2>2, <2>3, <2>5, <2>6 DEF PayAloneAt
<1>16. ReceiptsAt(hs[h]) => ReceiptsAt(k)'
  <2>1. CapturedStay
    BY <1>7 DEF CapturedStay
  <2>2. k.pc \in Crediting =>
           payments'[k.id].status = "CAPTURED" /\ payments'[k.id].amount = k.pay.amount
    BY <1>7, <1>9, <1>10 DEF Crediting
  <2> QED BY <1>2, <2>1, <2>2, ReceiptsKept
<1>15. ASSUME PayAloneAt(hs[h]), PayExactAt(hs[h]) PROVE PayExactAt(k)'
  <2>1. \A i \in DOMAIN payments : payments[i].status # "REQUIRES_CAPTURE"
    BY <1>2, <1>15 DEF PayExactAt, PendingAt
  <2>2. BooksAt(k)'
    <3>1. /\ inv.paid = Taken /\ inv.refunded = GivenBack
          /\ \A i \in DOMAIN payments : payments[i].status = "CAPTURED" => \E j \in DOMAIN receipts : receipts[j].payment = i
          /\ \A j \in DOMAIN receipts : receipts[j].number = j
      <4>1. hs[h].pc \notin Crediting
        BY <1>2 DEF Crediting
      <4> QED BY <1>2, <1>13, <1>15, <4>1 DEF PayExactAt, BooksAt
    <3>2. inv.paid + ToCredit(k)' = Taken' /\ inv.refunded + ToDebit(k)' = GivenBack'
      BY <1>8, <1>13, <3>1
    <3>3. \A i \in DOMAIN payments' : payments'[i].status = "CAPTURED" =>
             (\E j \in DOMAIN receipts : receipts[j].payment = i) \/ (k.pc \in Crediting /\ k.id = i)
      BY <1>7, <1>9, <1>10, <3>1 DEF Crediting
    <3> QED BY <1>2, <1>8, <1>10, <1>13, <3>1, <3>2, <3>3 DEF BooksAt
  <2>3. PendingAt(k)'
    BY <1>7, <1>10, <2>1 DEF PendingAt
  <2>4. \A c \in DOMAIN charges : OpenAt(k, c)' <=> OpenAt(hs[h], c)
    <3> SUFFICES ASSUME NEW c \in DOMAIN charges PROVE OpenAt(k, c)' <=> OpenAt(hs[h], c)
      OBVIOUS
    <3>1. OpenAt(hs[h], c) <=> p.charge = c
      BY <1>2, <1>3, <2>1 DEF OpenAt
    <3>2. c # 0 /\ p.status \in {"CAPTURED", "REQUIRES_CAPTURE", "FAILED"}
      BY <1>1, <1>4 DEF PayTyped, PayRow, PaymentStatuses
    <3>3. OpenAt(k, c)' <=> p.charge = c
      <4>1. CASE p.status = "CAPTURED"
        BY <1>7, <1>9, <1>10, <2>1, <4>1 DEF OpenAt
      <4>2. CASE p.status = "REQUIRES_CAPTURE"
        BY <1>7, <1>10, <2>1, <4>2 DEF OpenAt
      <4>3. CASE p.status = "FAILED"
        BY <1>4, <1>7, <1>10, <2>1, <3>2, <4>3 DEF OpenAt
      <4> QED BY <3>2, <4>1, <4>2, <4>3
    <3> QED BY <3>1, <3>3
  <2>5. BilledAt(k)'
    <3>1. \A c : Worth(c)' = Worth(c)
      BY <1>2 DEF Worth
    <3>2. ~misled => \A c \in DOMAIN charges : \E i \in DOMAIN payments' : payments'[i].key = charges[c].key
      BY <1>3, <1>7, <1>15 DEF PayExactAt, BilledAt
    <3> QED BY <1>2, <1>8, <1>15, <2>4, <3>1, <3>2 DEF PayExactAt, BilledAt
  <2>6. SentAt(k)'
    BY <1>2, <1>8, <1>10, <1>15 DEF PayExactAt, SentAt
  <2>7. TrueAt(k)'
    <3>1. ~misled' => \A i \in DOMAIN payments' : payments'[i].status = "CAPTURED" =>
              \/ i \in DOMAIN payments /\ payments'[i] = payments[i]
              \/ \E q : q = payments'[i] /\ Agrees(q)'
      <4> SUFFICES ASSUME ~misled, p.status = "CAPTURED" PROVE Agrees(p)'
        BY <1>2, <1>7
      <4>1. Agrees(p)
        BY <1>2, <1>3, <1>15 DEF PayExactAt, TrueAt
      <4> QED BY <1>5, <1>11, <4>1, AgreedStays
    <3> QED BY <1>2, <1>5, <1>10, <1>15, <3>1, TruthKept DEF PayExactAt, PayInv, PayBase
  <2> QED BY <2>2, <2>3, <2>5, <2>6, <2>7 DEF PayExactAt
<1> QED BY <1>1, <1>2, <1>5, <1>9, <1>12, <1>14, <1>15, <1>16, PaySteps

LEMMA CreditKeeps == ASSUME PayInv, NEW h \in Handlers, Credit(h) PROVE PayInv'
<1>1. /\ PayTyped /\ PaySound(hs[h]) /\ aborts \in Nat /\ misled \in BOOLEAN
      /\ \A i \in DOMAIN payments : Backed(payments[i])
  BY DEF PayInv, PayBase, PayTyped
<1>2. /\ UNCHANGED <<payments, receipts, charges, returned, adapter, aborts, misled>>
      /\ hs[h].pc = "credit" /\ inv' = Credited(hs[h].inv, hs[h].pay.amount)
  BY <1>1, CreditDoes DEF provider
<1>3. PICK p : p = hs[h].pay
  OBVIOUS
<1>4. PICK i : i = hs[h].inv
  OBVIOUS
<1>5. PICK d : d = hs[h].id
  OBVIOUS
<1>6. /\ i \in PayInvoice /\ CoherentPay(i)
      /\ p \in PayRow /\ p.charge \in DOMAIN charges /\ d \in DOMAIN payments
      /\ payments[d].charge = p.charge /\ p.amount > 0
  BY <1>1, <1>2, <1>3, <1>4, <1>5 DEF PaySound, Holding, Crediting, PaymentPCs
<1>7. i.paid \in Nat /\ i.refunded \in Nat /\ p.amount \in Nat /\ i.status \in InvoiceStatuses
  BY <1>6 DEF PayInvoice, PayRow
<1>8. /\ inv' \in PayInvoice /\ inv'.paid = i.paid + p.amount /\ inv'.refunded = i.refunded
      /\ inv'.status = (IF i.paid + p.amount >= Total THEN "PAID" ELSE i.status)
  <2>1. inv' = [i EXCEPT !.paid = i.paid + p.amount,
                         !.status = IF i.paid + p.amount >= Total THEN "PAID" ELSE i.status]
    BY <1>2, <1>3, <1>4, <1>6 DEF Credited, PayInvoice
  <2>2. PICK st : st = IF i.paid + p.amount >= Total THEN "PAID" ELSE i.status
    OBVIOUS
  <2>3. st \in InvoiceStatuses /\ inv' = [i EXCEPT !.paid = i.paid + p.amount, !.status = st]
    BY <1>7, <2>1, <2>2 DEF InvoiceStatuses
  <2>4. PICK a \in Nat : a = i.paid + p.amount
    BY <1>7
  <2>5. PICK v : v = [i EXCEPT !.paid = a, !.status = st]
    OBVIOUS
  <2>6. v \in PayInvoice /\ v.paid = a /\ v.refunded = i.refunded /\ v.status = st
    BY <1>6, <2>3, <2>5 DEF PayInvoice
  <2>7. inv' = v
    BY <2>3, <2>4, <2>5
  <2> QED BY <2>2, <2>4, <2>6, <2>7
<1>9. CoherentPay(inv')
  BY <1>6, <1>7, <1>8, TotalAssumption DEF CoherentPay
<1>10. Progress
  BY <1>2 DEF Progress
<1>11. Records'
  BY <1>1, <1>2, <1>8, <1>9, <1>10, RecordsKept DEF PayTyped
<1>12. PICK k \in PayLocal : /\ Stepping(h, k) /\ k.pc = "receipt.count" /\ k.inv = i
                             /\ k.pay = p /\ k.id = d
  BY <1>1, <1>3, <1>4, <1>5, CreditDoes
<1>13. PaySound(k)'
  BY <1>2, <1>6, <1>12 DEF PaySound, Holding, Paying, Crediting, Settling, Refunding
<1>14. /\ Taken \in Int /\ GivenBack \in Int /\ Billed \in Int
       /\ Taken' = Taken /\ GivenBack' = GivenBack /\ Sent' = Sent /\ Billed' = Billed
  <2>1. payments \in Seq(PayRow) /\ returned \in Seq(Refund) /\ charges \in Seq(Charge)
    BY <1>1 DEF PayTyped
  <2> QED BY <1>2, <2>1, PaymentTallies, SentTallies, BilledTallies
<1>15. /\ ToCredit(hs[h]) = p.amount /\ ToDebit(hs[h]) = 0 /\ ToDebit(k)' = 0 /\ ToCredit(k)' = 0
  BY <1>2, <1>3, <1>12 DEF ToCredit, ToDebit
<1>16. k.pc \notin Holding /\ k.pc \notin Settling /\ k.pc \notin Paying
  BY <1>12 DEF Holding, Settling, Paying
<1>17. ASSUME PayAloneAt(hs[h]) PROVE PayAloneAt(k)' /\ i = inv
  <2>1. i = inv
    BY <1>2, <1>4, <1>17 DEF PayAloneAt, Holding, PaymentPCs
  <2>2. \A j \in DOMAIN receipts : receipts[j].payment # k.id
    BY <1>2, <1>5, <1>12, <1>17 DEF PayAloneAt, Crediting
  <2>3. inv'.paid + ToCredit(k)' <= Taken' /\ inv'.refunded + ToDebit(k)' <= GivenBack'
    BY <1>7, <1>8, <1>14, <1>15, <1>17, <2>1 DEF PayAloneAt
  <2> QED BY <1>2, <1>16, <1>17, <2>1, <2>2, <2>3 DEF PayAloneAt
<1>19. ReceiptsAt(hs[h]) => ReceiptsAt(k)'
  BY <1>2, <1>3, <1>5, <1>12, ReceiptsKept DEF ReceiptsAt, CapturedStay, Crediting
<1>18. ASSUME PayAloneAt(hs[h]), ReceiptsAt(hs[h]), PayExactAt(hs[h]) PROVE PayExactAt(k)'
  <2>1. i = inv
    BY <1>17, <1>18
  <2>2. \A j \in DOMAIN payments : payments[j].status # "REQUIRES_CAPTURE"
    BY <1>2, <1>18 DEF PayExactAt, PendingAt
  <2>3. BooksAt(k)'
    <3>1. inv'.paid + ToCredit(k)' = Taken' /\ inv'.refunded + ToDebit(k)' = GivenBack'
      BY <1>7, <1>8, <1>14, <1>15, <1>18, <2>1 DEF PayExactAt, BooksAt
    <3>2. \A j \in DOMAIN payments : payments[j].status = "CAPTURED" =>
             (\E l \in DOMAIN receipts : receipts[l].payment = j) \/ (k.pc \in Crediting /\ k.id = j)
      BY <1>5, <1>12, <1>18 DEF PayExactAt, BooksAt, Crediting
    <3> QED BY <1>2, <1>12, <1>18, <3>1, <3>2 DEF PayExactAt, BooksAt
  <2>4. PendingAt(k)'
    BY <1>2, <2>2 DEF PendingAt
  <2>5. \A c \in DOMAIN charges : ~OpenAt(k, c)' /\ (OpenAt(hs[h], c) <=> c = p.charge)
    BY <1>2, <1>3, <1>12, <2>2 DEF OpenAt
  <2>6. ~misled => charges[p.charge].status = "CAPTURED" /\ charges[p.charge].amount = p.amount
    <3> SUFFICES ASSUME ~misled
                 PROVE  charges[p.charge].status = "CAPTURED" /\ charges[p.charge].amount = p.amount
      OBVIOUS
    <3>1. payments[d].status = "CAPTURED" /\ payments[d].amount = p.amount
      BY <1>2, <1>3, <1>5, <1>18 DEF ReceiptsAt, Crediting
    <3>2. Agrees(payments[d])
      BY <1>6, <1>18, <3>1 DEF PayExactAt, TrueAt
    <3> QED BY <1>6, <3>1, <3>2 DEF Agrees, Captured
  <2>7. ~misled => Billed = inv.paid + p.amount /\ p.amount <= Total - inv.paid
    BY <1>6, <1>18, <2>5, <2>6 DEF PayExactAt, BilledAt, Worth
  <2>8. BilledAt(k)'
    <3> SUFFICES ASSUME ~misled PROVE BilledAt(k)'
      BY <1>2 DEF BilledAt
    <3>1. inv'.paid <= Total /\ Billed' = inv'.paid
      BY <1>7, <1>8, <1>14, <2>1, <2>7, TotalAssumption
    <3>2. \A c \in DOMAIN charges : charges[c].status # "REQUIRES_CAPTURE"
      BY <1>18, <2>5, <2>6 DEF PayExactAt, BilledAt
    <3>3. \A c \in DOMAIN charges : \E j \in DOMAIN payments : payments[j].key = charges[c].key
      BY <1>2, <1>18 DEF PayExactAt, BilledAt
    <3> QED BY <1>2, <2>5, <3>1, <3>2, <3>3 DEF BilledAt
  <2>9. SentAt(k)'
    BY <1>2, <1>8, <1>12, <1>14, <1>18, <2>1 DEF PayExactAt, SentAt
  <2>10. TrueAt(k)'
    BY <1>1, <1>2, <1>10, <1>12, <1>18, TruthKept DEF PayExactAt
  <2> QED BY <2>3, <2>4, <2>8, <2>9, <2>10 DEF PayExactAt
<1> QED BY <1>1, <1>2, <1>10, <1>11, <1>12, <1>13, <1>17, <1>18, <1>19, PaySteps

LEMMA ReceiptSaveKeeps == ASSUME PayInv, NEW h \in Handlers, ReceiptSave(h) PROVE PayInv'
<1>1. PayTyped /\ PaySound(hs[h]) /\ aborts \in Nat /\ misled \in BOOLEAN /\ CoherentPay(inv)
  BY DEF PayInv, PayBase, PayTyped
<1>2. PICK r : r = [payment |-> hs[h].id, number |-> hs[h].n, amount |-> hs[h].pay.amount]
  OBVIOUS
<1>3. /\ UNCHANGED <<inv, payments, charges, returned, adapter, aborts, misled>>
      /\ hs[h].pc = "receipt.save" /\ receipts' = Append(receipts, r) /\ Stepping(h, Resting)
  BY <1>1, <1>2, ReceiptSaveDoes DEF provider
<1>4. /\ hs[h].pay \in PayRow /\ hs[h].id \in DOMAIN payments
      /\ hs[h] \in PayLocal
  BY <1>1, <1>3 DEF PaySound, Crediting, PayTyped
<1>5. r \in PayReceipt /\ r.amount = hs[h].pay.amount /\ r.payment = hs[h].id /\ r.number = hs[h].n
  BY <1>2, <1>4 DEF PayReceipt, PayRow, PayLocal
<1>6. PICK n : n = Len(receipts) + 1
  OBVIOUS
<1>7. /\ receipts' \in Seq(PayReceipt) /\ DOMAIN receipts' = DOMAIN receipts \cup {n}
      /\ n \notin DOMAIN receipts /\ receipts'[n] = r
      /\ \A i \in DOMAIN receipts : receipts'[i] = receipts[i]
  BY <1>1, <1>3, <1>5, <1>6 DEF PayTyped
<1>8. Progress
  BY <1>3 DEF Progress
<1>9. Records'
  BY <1>1, <1>3, <1>7, <1>8, RecordsKept DEF PayTyped, CoherentPay
<1>10. Resting \in PayLocal /\ Resting.pc = "idle" /\ PaySound(Resting)'
  BY <1>8, RestingTyped, RestSound, SoundKept
<1>11. /\ Taken' = Taken /\ GivenBack' = GivenBack /\ Sent' = Sent /\ Billed' = Billed
  <2>1. payments \in Seq(PayRow) /\ returned \in Seq(Refund) /\ charges \in Seq(Charge)
    BY <1>1 DEF PayTyped
  <2> QED BY <1>3, <2>1, PaymentTallies, SentTallies, BilledTallies
<1>12. PICK k : k = Resting
  OBVIOUS
<1>13. /\ ToCredit(hs[h]) = 0 /\ ToDebit(hs[h]) = 0 /\ ToDebit(k)' = 0 /\ ToCredit(k)' = 0
       /\ k.pc = "idle"
  BY <1>3, <1>10, <1>12 DEF ToCredit, ToDebit
<1>14. ASSUME PayAloneAt(hs[h]) PROVE PayAloneAt(k)'
  <2>1. k.pc \notin Holding /\ k.pc \notin Settling /\ k.pc \notin Paying /\ k.pc \notin Crediting
    BY <1>13 DEF Holding, Settling, Paying, Crediting
  <2>2. \A j \in DOMAIN receipts : receipts[j].payment # r.payment
    BY <1>3, <1>5, <1>14 DEF PayAloneAt, Crediting
  <2>3. \A i, j \in DOMAIN receipts' : i # j => receipts'[i].payment # receipts'[j].payment
    BY <1>7, <1>14, <2>2 DEF PayAloneAt
  <2> QED BY <1>3, <1>11, <1>13, <1>14, <2>1, <2>3 DEF PayAloneAt
<1>17. ASSUME ReceiptsAt(hs[h]) PROVE ReceiptsAt(k)'
  <2>1. payments[hs[h].id].status = "CAPTURED" /\ payments[hs[h].id].amount = hs[h].pay.amount
    BY <1>3, <1>17 DEF ReceiptsAt, Crediting
  <2>2. ASSUME NEW i \in DOMAIN receipts' PROVE ReceiptSound(receipts[i])'
    <3>1. CASE i \in DOMAIN receipts
      BY <1>3, <1>7, <1>17, <3>1 DEF ReceiptsAt, ReceiptSound
    <3>2. CASE i = n
      BY <1>3, <1>4, <1>5, <1>7, <2>1, <3>2 DEF ReceiptSound
    <3> QED BY <1>7, <3>1, <3>2
  <2> QED BY <1>13, <2>2 DEF ReceiptsAt, Crediting
<1>15. ASSUME PayExactAt(hs[h]) PROVE PayExactAt(k)'
  <2>1. BooksAt(k)'
    <3>1. \A i \in DOMAIN payments : payments[i].status = "CAPTURED" => \E j \in DOMAIN receipts' : receipts'[j].payment = i
      <4> SUFFICES ASSUME NEW i \in DOMAIN payments, payments[i].status = "CAPTURED"
                   PROVE  \E j \in DOMAIN receipts' : receipts'[j].payment = i
        OBVIOUS
      <4>1. CASE i = hs[h].id
        BY <1>5, <1>7, <4>1
      <4>2. CASE i # hs[h].id
        <5>1. PICK j \in DOMAIN receipts : receipts[j].payment = i
          BY <1>15, <4>2 DEF PayExactAt, BooksAt
        <5> QED BY <1>7, <5>1
      <4> QED BY <4>1, <4>2
    <3>2. \A j \in DOMAIN receipts' : receipts'[j].number = j
      BY <1>3, <1>5, <1>6, <1>7, <1>15 DEF PayExactAt, BooksAt
    <3> QED BY <1>3, <1>11, <1>13, <1>15, <3>1, <3>2 DEF PayExactAt, BooksAt
  <2>2. PendingAt(k)'
    BY <1>3, <1>13, <1>15 DEF PayExactAt, PendingAt
  <2>3. \A c \in DOMAIN charges : (OpenAt(k, c)' <=> OpenAt(hs[h], c)) /\ Worth(c)' = Worth(c)
    BY <1>3, <1>13 DEF OpenAt, Worth
  <2>4. BilledAt(k)'
    BY <1>3, <1>11, <1>13, <1>15, <2>3 DEF PayExactAt, BilledAt
  <2>5. SentAt(k)'
    BY <1>3, <1>11, <1>13, <1>15 DEF PayExactAt, SentAt
  <2>6. TrueAt(k)'
    BY <1>3, <1>13, <1>15 DEF PayExactAt, TrueAt, Agrees
  <2> QED BY <2>1, <2>2, <2>4, <2>5, <2>6 DEF PayExactAt
<1>16. k \in PayLocal /\ Stepping(h, k) /\ PaySound(k)'
  BY <1>3, <1>10, <1>12
<1> QED BY <1>1, <1>3, <1>8, <1>9, <1>14, <1>15, <1>16, <1>17, PaySteps

LEMMA SettleSaveKeeps == ASSUME PayInv, NEW h \in Handlers, SettleSave(h) PROVE PayInv'
<1>1. /\ PayTyped /\ PaySound(hs[h]) /\ aborts \in Nat /\ misled \in BOOLEAN /\ CoherentPay(inv)
      /\ \A i \in DOMAIN payments : Backed(payments[i])
  BY DEF PayInv, PayBase, PayTyped
<1>2. hs[h].pc = "settle.save"
  BY DEF SettleSave
<1>3. PICK o : o = hs[h].pay
  OBVIOUS
<1>4. PICK d : d = hs[h].id
  OBVIOUS
<1>5. /\ o \in PayRow /\ d \in DOMAIN payments /\ o.key = payments[d].key /\ o.key \in Keys
      /\ o.charge \in DOMAIN charges /\ o.charge = payments[d].charge
      /\ o.status = "REQUIRES_CAPTURE" /\ o.amount > 0
      /\ hs[h].inv \in PayInvoice /\ CoherentPay(hs[h].inv)
  BY <1>1, <1>2, <1>3, <1>4 DEF PaySound, Settling, Holding, PaymentPCs
<1>6. /\ UNCHANGED <<inv, receipts, charges, returned, adapter, aborts>>
      /\ misled' = misled \/ misled' = TRUE
  BY <1>1, <1>3, <1>5, SettleSaveDoes DEF provider
<1>7. PICK p \in PayRow :
         /\ payments' = [payments EXCEPT ![d] = p]
         /\ p.key = o.key /\ p.charge = o.charge
         /\ p.status \in {"CAPTURED", "FAILED"} /\ p.amount > 0
         /\ ~misled' => Agrees(p)
         /\ \/ p.status # "CAPTURED" /\ Stepping(h, Resting)
            \/ /\ p.status = "CAPTURED"
               /\ \E k \in PayLocal : /\ Stepping(h, k) /\ k.pc = "credit" /\ k.inv = hs[h].inv
                                      /\ k.pay = p /\ k.id = d
  BY <1>1, <1>3, <1>4, <1>5, SettleSaveDoes
<1>8. /\ p.charge \in DOMAIN charges /\ p.charge # 0 /\ p.amount > 0
      /\ p.status \in {"CAPTURED", "FAILED"}
      /\ payments[d] \in PayRow /\ charges[p.charge] \in Charge
  BY <1>1, <1>5, <1>7 DEF PayTyped
<1>9. /\ payments' \in Seq(PayRow) /\ DOMAIN payments' = DOMAIN payments /\ payments'[d] = p
      /\ \A i \in DOMAIN payments \ {d} : payments'[i] = payments[i]
  BY <1>1, <1>5, <1>7 DEF PayTyped
<1>10. Progress
  BY <1>5, <1>6, <1>7, <1>9 DEF Progress
<1>11. Backed(p)'
  BY <1>5, <1>6, <1>7, <1>8 DEF Backed
<1>12. Records'
  <2>1. \A i \in DOMAIN payments' :
          \/ i \in DOMAIN payments /\ payments'[i] = payments[i]
          \/ \E q : q = payments'[i] /\ Backed(q)'
    BY <1>9, <1>11
  <2> QED BY <1>1, <1>6, <1>9, <1>10, <2>1, RecordsKept DEF PayTyped, CoherentPay
<1>13. PICK k \in PayLocal :
         /\ Stepping(h, k)
         /\ \/ k = Resting /\ p.status # "CAPTURED"
            \/ p.status = "CAPTURED" /\ k.pc = "credit" /\ k.inv = hs[h].inv /\ k.pay = p /\ k.id = d
  BY <1>7, RestingTyped
<1>14. (k.pc = "idle" /\ p.status # "CAPTURED") \/ (p.status = "CAPTURED" /\ k.pc = "credit")
  <2>1. Resting.pc = "idle"
    BY RestingTyped
  <2> QED BY <1>13, <2>1
<1>15. PaySound(k)'
  <2>1. CASE k = Resting
    BY <2>1, <1>10, RestSound, SoundKept
  <2>2. CASE p.status = "CAPTURED" /\ k.pc = "credit" /\ k.inv = hs[h].inv /\ k.pay = p /\ k.id = d
    <3>1. k.inv \in PayInvoice /\ CoherentPay(k.inv)
      BY <1>5, <2>2
    <3>2. /\ k.pay \in PayRow /\ k.pay.charge \in DOMAIN charges' /\ k.pay.amount > 0
          /\ k.id \in DOMAIN payments' /\ payments'[k.id] = p
      BY <1>5, <1>6, <1>8, <1>9, <2>2
    <3> QED BY <2>2, <3>1, <3>2 DEF PaySound, CoherentPay, Holding, Paying, Crediting, Settling, Refunding, PaymentPCs
  <2> QED BY <1>13, <2>1, <2>2
<1>16. /\ Taken \in Int /\ GivenBack \in Int /\ Sent' = Sent /\ Billed' = Billed
       /\ payments[d].status = "REQUIRES_CAPTURE" =>
            /\ Taken' = Taken + (IF p.status = "CAPTURED" THEN p.amount ELSE 0)
            /\ GivenBack' = GivenBack
  <2>1. payments \in Seq(PayRow) /\ returned \in Seq(Refund) /\ charges \in Seq(Charge)
    BY <1>1 DEF PayTyped
  <2>2. Taken \in Int /\ GivenBack \in Int /\ Sent' = Sent /\ Billed' = Billed
    BY <1>6, <2>1, PaymentTallies, SentTallies, BilledTallies
  <2>3. /\ Taken' = Taken - (IF payments[d].status = "CAPTURED" THEN payments[d].amount ELSE 0)
                          + (IF p.status = "CAPTURED" THEN p.amount ELSE 0)
        /\ GivenBack' = GivenBack - (IF payments[d].status = "REFUNDED" THEN -payments[d].amount ELSE 0)
                                  + (IF p.status = "REFUNDED" THEN -p.amount ELSE 0)
    BY <1>5, <1>7, <2>1, PaymentTallies
  <2>4. p.amount \in Int
    BY DEF PayRow
  <2> QED BY <1>8, <2>2, <2>3, <2>4
<1>17. /\ ToCredit(hs[h]) = 0 /\ ToDebit(hs[h]) = 0 /\ ToDebit(k)' = 0
       /\ ToCredit(k)' = (IF p.status = "CAPTURED" THEN p.amount ELSE 0)
       /\ inv.paid \in Int /\ inv.refunded \in Int /\ p.amount \in Int
  BY <1>1, <1>2, <1>13, <1>14 DEF ToCredit, ToDebit, PayTyped, PayInvoice, PayRow
<1>18. ASSUME PayAloneAt(hs[h]), ReceiptsAt(hs[h]) PROVE PayAloneAt(k)' /\ o = payments[d]
  <2>1. hs[h].inv = inv /\ o = payments[d]
    BY <1>2, <1>3, <1>4, <1>18 DEF PayAloneAt, Holding, Settling, PaymentPCs
  <2>2. payments[d].status = "REQUIRES_CAPTURE" /\ payments[d].amount > 0 /\ payments[d].key = p.key
    BY <1>5, <1>7, <2>1
  <2>3. k.pc \in Holding => k.inv = inv
    BY <1>13, <1>14, <2>1 DEF Holding, PaymentPCs
  <2>4. k.pc \in Crediting => \A j \in DOMAIN receipts : receipts[j].payment # k.id
    <3>1. \A j \in DOMAIN receipts : payments[receipts[j].payment].status = "CAPTURED"
      BY <1>18 DEF ReceiptsAt, ReceiptSound
    <3> QED BY <1>13, <1>14, <2>2, <3>1 DEF Crediting
  <2>5. \A i, j \in DOMAIN payments' :
          i # j /\ payments'[i].amount > 0 /\ payments'[j].amount > 0 => payments'[i].key # payments'[j].key
    BY <1>5, <1>9, <1>18, <2>2 DEF PayAloneAt
  <2>6. inv.paid + ToCredit(k)' <= Taken' /\ inv.refunded + ToDebit(k)' <= GivenBack'
    <3>1. inv.paid <= Taken /\ inv.refunded <= GivenBack
      BY <1>17, <1>18 DEF PayAloneAt
    <3> QED BY <1>16, <1>17, <2>2, <3>1
  <2>7. k.pc \notin Settling /\ k.pc \notin Paying
    BY <1>14 DEF Settling, Paying
  <2> QED BY <1>6, <1>18, <2>1, <2>3, <2>4, <2>5, <2>6, <2>7 DEF PayAloneAt
<1>20. ASSUME PayAloneAt(hs[h]), ReceiptsAt(hs[h]) PROVE ReceiptsAt(k)'
  <2>1. payments[d].status = "REQUIRES_CAPTURE"
    BY <1>5, <1>18, <1>20
  <2>2. CapturedStay
    BY <1>9, <2>1 DEF CapturedStay
  <2>3. k.pc \in Crediting =>
           payments'[k.id].status = "CAPTURED" /\ payments'[k.id].amount = k.pay.amount
    BY <1>9, <1>13, <1>14 DEF Crediting
  <2> QED BY <1>6, <1>20, <2>2, <2>3, ReceiptsKept
<1>19. ASSUME PayAloneAt(hs[h]), ReceiptsAt(hs[h]), PayExactAt(hs[h]) PROVE PayExactAt(k)'
  <2>1. payments[d].status = "REQUIRES_CAPTURE" /\ payments[d].charge = p.charge
    BY <1>5, <1>7, <1>18, <1>19
  <2>2. \A i \in DOMAIN payments' : payments'[i].status # "REQUIRES_CAPTURE"
    <3> SUFFICES ASSUME NEW i \in DOMAIN payments, payments'[i].status = "REQUIRES_CAPTURE" PROVE FALSE
      BY <1>9
    <3>1. i # d
      BY <1>7, <1>9
    <3>2. payments[i].status = "REQUIRES_CAPTURE"
      BY <1>9, <3>1
    <3> QED BY <1>5, <1>19, <2>1, <3>1, <3>2 DEF PayExactAt, PendingAt
  <2>3. BooksAt(k)'
    <3>1. inv.paid = Taken /\ inv.refunded = GivenBack
      BY <1>2, <1>17, <1>19 DEF PayExactAt, BooksAt
    <3>2. inv.paid + ToCredit(k)' = Taken' /\ inv.refunded + ToDebit(k)' = GivenBack'
      BY <1>16, <1>17, <2>1, <3>1
    <3>3. \A i \in DOMAIN payments' : payments'[i].status = "CAPTURED" =>
             (\E j \in DOMAIN receipts : receipts[j].payment = i) \/ (k.pc \in Crediting /\ k.id = i)
      <4> SUFFICES ASSUME NEW i \in DOMAIN payments, payments'[i].status = "CAPTURED"
                   PROVE  (\E j \in DOMAIN receipts : receipts[j].payment = i) \/ (k.pc \in Crediting /\ k.id = i)
        BY <1>9
      <4>1. CASE i = d
        BY <1>9, <1>13, <1>14, <4>1 DEF Crediting
      <4>2. CASE i # d
        <5>1. payments[i].status = "CAPTURED"
          BY <1>9, <4>2
        <5> QED BY <1>2, <1>19, <5>1 DEF PayExactAt, BooksAt, Crediting
      <4> QED BY <4>1, <4>2
    <3>4. \A j \in DOMAIN receipts : receipts[j].number = j
      BY <1>19 DEF PayExactAt, BooksAt
    <3> QED BY <1>6, <1>14, <1>16, <1>17, <3>1, <3>2, <3>3, <3>4 DEF BooksAt
  <2>4. PendingAt(k)'
    BY <2>2 DEF PendingAt
  <2>5. \A c \in DOMAIN charges : OpenAt(hs[h], c) <=> c = p.charge
    BY <1>2, <1>5, <1>19, <2>1 DEF OpenAt, PayExactAt, PendingAt
  <2>6. \A c \in DOMAIN charges : OpenAt(k, c)' <=> p.status = "CAPTURED" /\ c = p.charge
    BY <1>13, <1>14, <2>2 DEF OpenAt
  <2>7. \A c : Worth(c)' = Worth(c)
    BY <1>6 DEF Worth
  <2>9. SentAt(k)'
    BY <1>2, <1>6, <1>14, <1>16, <1>19 DEF PayExactAt, SentAt
  <2>10. TrueAt(k)'
    <3>1. ~misled' => \A i \in DOMAIN payments' : payments'[i].status = "CAPTURED" =>
              \/ i \in DOMAIN payments /\ payments'[i] = payments[i]
              \/ \E q : q = payments'[i] /\ Agrees(q)'
      <4> SUFFICES ASSUME ~misled' PROVE Agrees(p)'
        BY <1>9
      <4> QED BY <1>6, <1>7 DEF Agrees
    <3> QED BY <1>1, <1>6, <1>10, <1>14, <1>19, <3>1, TruthKept DEF PayExactAt
  <2>8. BilledAt(k)'
    <3> SUFFICES ASSUME ~misled' PROVE BilledAt(k)'
      BY DEF BilledAt
    <3>0. ~misled /\ p.status = charges[p.charge].status
      BY <1>1, <1>6, <1>7 DEF Agrees
    <3>1. Billed = inv.paid + Worth(p.charge) /\ inv.paid <= Total /\ charges[p.charge].amount <= Total - inv.paid
      BY <1>8, <1>19, <2>5, <3>0 DEF PayExactAt, BilledAt
    <3>2. \A c \in DOMAIN charges : \E i \in DOMAIN payments' : payments'[i].key = charges[c].key
      <4> SUFFICES ASSUME NEW c \in DOMAIN charges PROVE \E i \in DOMAIN payments' : payments'[i].key = charges[c].key
        OBVIOUS
      <4>1. PICK i \in DOMAIN payments : payments[i].key = charges[c].key
        BY <1>2, <1>19, <3>0 DEF PayExactAt, BilledAt
      <4> QED BY <1>10, <4>1 DEF Progress
    <3>3. \A c \in DOMAIN charges : charges[c].status # "REQUIRES_CAPTURE"
      BY <1>7, <1>8, <1>19, <2>5, <3>0 DEF PayExactAt, BilledAt
    <3>4. ~ (p.status = "CAPTURED") => Billed = inv.paid
      <4>1. ~ (p.status = "CAPTURED") => Worth(p.charge) = 0
        BY <1>7, <1>8, <3>0 DEF Worth
      <4> QED BY <1>17, <3>1, <4>1
    <3> QED BY <1>6, <1>8, <1>16, <2>6, <2>7, <3>1, <3>2, <3>3, <3>4 DEF BilledAt
  <2> QED BY <2>3, <2>4, <2>8, <2>9, <2>10 DEF PayExactAt
<1> QED BY <1>1, <1>6, <1>10, <1>12, <1>13, <1>15, <1>18, <1>19, <1>20, PaySteps

LEMMA RefundCallKeeps == ASSUME PayInv, NEW h \in Handlers, RefundCall(h) PROVE PayInv'
<1>1. PayTyped /\ PaySound(hs[h]) /\ aborts \in Nat /\ misled \in BOOLEAN /\ CoherentPay(inv)
  BY DEF PayInv, PayBase, PayTyped
<1>2. hs[h].pc = "refund.call"
  BY DEF RefundCall
<1>3. hs[h].pay \in PayRow /\ hs[h].pay.key \in Keys /\ hs[h].inv \in PayInvoice /\ hs[h].pc \in Holding
      /\ hs[h].n > 0 /\ hs[h].n \in Nat
  BY <1>1, <1>2 DEF PaySound, Refunding, Holding, PaymentPCs, PayTyped, PayLocal
<1>4. /\ UNCHANGED <<inv, payments, receipts, charges, adapter, aborts>>
      /\ (misled' = misled \/ misled' = TRUE) /\ returned' \in Seq(Refund)
  BY <1>1, <1>3, RefundCallDoes DEF stored
<1>5. PICK k \in PayLocal :
         /\ Stepping(h, k) /\ k.inv = hs[h].inv /\ k.pay = hs[h].pay /\ k.n = hs[h].n
         /\ \/ /\ k.pc = "refund.save"
               /\ \/ UNCHANGED returned
                  \/ \E r \in Refund : returned' = Append(returned, r) /\ r.amount = hs[h].n
            \/ k.pc = "refund.fail" /\ (UNCHANGED returned \/ misled' = TRUE)
  BY <1>1, <1>3, RefundCallDoes
<1>6. PaySound(k)
  BY <1>1, <1>2, <1>5 DEF PaySound, Holding, Paying, Crediting, Settling, Refunding, PaymentPCs
<1>7. Progress
  BY <1>4 DEF Progress
<1>8. returned' \in Seq(Refund) /\ Sent \in Int
      /\ \/ Sent' = Sent
         \/ k.pc = "refund.save" /\ Sent' = Sent + hs[h].n
         \/ misled' = TRUE
  <2>1. returned \in Seq(Refund)
    BY <1>1 DEF PayTyped
  <2>2. CASE UNCHANGED returned
    BY <2>1, <2>2, SentTallies
  <2>3. ASSUME NEW r \in Refund, returned' = Append(returned, r), r.amount = hs[h].n
        PROVE  Sent' = Sent + hs[h].n /\ Sent \in Int
    BY <2>1, <2>3, SentTallies
  <2>4. Sent \in Int
    BY <2>1, SentTallies
  <2> QED BY <1>4, <1>5, <2>2, <2>3, <2>4
<1>9. Records'
  BY <1>1, <1>4, <1>7, <1>8, RecordsKept DEF PayTyped, CoherentPay
<1>10. PaySound(k)'
  BY <1>6, <1>7, SoundKept
<1>11. Taken' = Taken /\ GivenBack' = GivenBack /\ Billed' = Billed
  <2>1. payments \in Seq(PayRow) /\ charges \in Seq(Charge)
    BY <1>1 DEF PayTyped
  <2> QED BY <1>4, <2>1, PaymentTallies, BilledTallies
<1>12. /\ ToCredit(hs[h]) = 0 /\ ToDebit(hs[h]) = 0 /\ ToDebit(k)' = 0 /\ ToCredit(k)' = 0
       /\ inv.refunded \in Int
  BY <1>1, <1>2, <1>5 DEF ToCredit, ToDebit, PayTyped, PayInvoice
<1>13. PayAloneAt(hs[h]) => PayAloneAt(k)'
  <2>1. k.pc \notin Settling /\ k.pc \notin Paying /\ k.pc \notin Crediting
    BY <1>5 DEF Settling, Paying, Crediting
  <2> QED BY <1>3, <1>4, <1>5, <1>11, <1>12, <2>1 DEF PayAloneAt
<1>15. ReceiptsAt(hs[h]) => ReceiptsAt(k)'
  BY <1>4, <1>5, ReceiptsKept DEF CapturedStay, Crediting
<1>14. ASSUME PayExactAt(hs[h]) PROVE PayExactAt(k)'
  <2>1. k.pc \in {"refund.save", "refund.fail"} /\ hs[h].pc \notin Crediting
    BY <1>2, <1>5 DEF Crediting
  <2>2. BooksAt(k)'
    BY <1>4, <1>11, <1>12, <1>14, <2>1 DEF PayExactAt, BooksAt
  <2>3. PendingAt(k)'
    BY <1>4, <1>14, <2>1 DEF PayExactAt, PendingAt
  <2>4. \A c \in DOMAIN charges : (OpenAt(k, c)' <=> OpenAt(hs[h], c)) /\ Worth(c)' = Worth(c)
    BY <1>2, <1>4, <2>1 DEF OpenAt, Worth
  <2>5. BilledAt(k)'
    BY <1>2, <1>4, <1>11, <1>14, <2>4 DEF PayExactAt, BilledAt
  <2>6. SentAt(k)'
    <3> SUFFICES ASSUME ~misled'
                 PROVE  Sent' <= inv.refunded + (IF k.pc \in {"refund.save", "refund.debit"} THEN k.n ELSE 0)
      BY <1>4 DEF SentAt
    <3>1. Sent <= inv.refunded
      BY <1>1, <1>2, <1>4, <1>8, <1>12, <1>14 DEF PayExactAt, SentAt
    <3> QED BY <1>3, <1>5, <1>8, <1>12, <2>1, <3>1
  <2>7. TrueAt(k)'
    BY <1>4, <1>14, <2>1 DEF PayExactAt, TrueAt, Agrees
  <2> QED BY <2>2, <2>3, <2>5, <2>6, <2>7 DEF PayExactAt
<1> QED BY <1>1, <1>4, <1>5, <1>7, <1>9, <1>10, <1>13, <1>14, <1>15, PaySteps

LEMMA RefundSaveKeeps == ASSUME PayInv, NEW h \in Handlers, RefundSave(h) PROVE PayInv'
<1>1. PayTyped /\ PaySound(hs[h]) /\ aborts \in Nat /\ misled \in BOOLEAN
  BY DEF PayInv, PayBase, PayTyped
<1>2. hs[h].pc \in {"refund.save", "refund.fail"}
  BY DEF RefundSave
<1>3. /\ hs[h].pay \in PayRow /\ hs[h].pay.key \in Keys /\ hs[h].pc \in Holding
      /\ hs[h].n > 0 /\ hs[h].n \in Nat
  BY <1>1, <1>2 DEF PaySound, Refunding, Holding, PaymentPCs, PayTyped, PayLocal
<1>4. UNCHANGED <<inv, receipts, charges, returned, adapter, aborts, misled>>
  BY <1>1, <1>3, RefundSaveDoes DEF provider
<1>5. PICK p \in PayRow :
         /\ payments' = Append(payments, p) /\ p.charge = 0 /\ p.amount = -hs[h].n
         /\ \/ hs[h].pc = "refund.fail" /\ p.status = "FAILED" /\ Stepping(h, Resting)
            \/ /\ hs[h].pc = "refund.save" /\ p.status = "REFUNDED"
               /\ \E k \in PayLocal : /\ Stepping(h, k) /\ k.pc = "refund.debit"
                                      /\ k.inv = hs[h].inv /\ k.n = hs[h].n
  BY <1>1, <1>3, RefundSaveDoes
<1>6. Backed(p) /\ p.amount < 0
  BY <1>3, <1>5 DEF Backed
<1>7. /\ Progress /\ Records'
      /\ DOMAIN payments' = 1..(Len(payments) + 1) /\ DOMAIN payments = 1..Len(payments)
      /\ Len(payments) \in Nat /\ payments'[Len(payments) + 1] = p
      /\ \A i \in DOMAIN payments : payments'[i] = payments[i]
  BY <1>4, <1>5, <1>6, PaymentAdded
<1>8. PICK n : n = Len(payments) + 1
  OBVIOUS
<1>9. /\ DOMAIN payments' = DOMAIN payments \cup {n} /\ n \notin DOMAIN payments /\ payments'[n] = p
      /\ \A i \in DOMAIN payments : payments'[i] = payments[i]
  BY <1>7, <1>8
<1>10. PICK k \in PayLocal :
         /\ Stepping(h, k)
         /\ \/ k = Resting /\ hs[h].pc = "refund.fail" /\ p.status = "FAILED"
            \/ /\ hs[h].pc = "refund.save" /\ p.status = "REFUNDED"
               /\ k.pc = "refund.debit" /\ k.inv = hs[h].inv /\ k.n = hs[h].n
  BY <1>5, RestingTyped
<1>11. \/ k.pc = "idle" /\ hs[h].pc = "refund.fail" /\ p.status = "FAILED"
       \/ /\ hs[h].pc = "refund.save" /\ p.status = "REFUNDED"
          /\ k.pc = "refund.debit" /\ k.inv = hs[h].inv /\ k.n = hs[h].n
  <2>1. Resting.pc = "idle"
    BY RestingTyped
  <2> QED BY <1>10, <2>1
<1>12. PaySound(k)'
  <2>1. CASE k = Resting
    BY <2>1, <1>7, RestSound, SoundKept
  <2>2. CASE hs[h].pc = "refund.save" /\ k.pc = "refund.debit" /\ k.inv = hs[h].inv /\ k.n = hs[h].n
    <3>1. PaySound(k)
      BY <1>1, <2>2 DEF PaySound, Holding, Paying, Crediting, Settling, Refunding, PaymentPCs
    <3> QED BY <1>7, <3>1, SoundKept
  <2> QED BY <1>10, <2>1, <2>2
<1>13. /\ Taken \in Int /\ GivenBack \in Int /\ Sent' = Sent /\ Billed' = Billed /\ Sent \in Int
       /\ Taken' = Taken
       /\ GivenBack' = GivenBack + (IF p.status = "REFUNDED" THEN hs[h].n ELSE 0)
  <2>1. payments \in Seq(PayRow) /\ returned \in Seq(Refund) /\ charges \in Seq(Charge)
    BY <1>1 DEF PayTyped
  <2>2. Taken \in Int /\ GivenBack \in Int /\ Sent' = Sent /\ Billed' = Billed /\ Sent \in Int
    BY <1>4, <2>1, PaymentTallies, SentTallies, BilledTallies
  <2>3. /\ Taken' = Taken + (IF p.status = "CAPTURED" THEN p.amount ELSE 0)
        /\ GivenBack' = GivenBack + (IF p.status = "REFUNDED" THEN -p.amount ELSE 0)
    BY <1>5, <2>1, PaymentTallies
  <2>4. -p.amount = hs[h].n
    BY <1>3, <1>5
  <2> QED BY <1>11, <2>2, <2>3, <2>4
<1>14. /\ ToCredit(hs[h]) = 0 /\ ToDebit(hs[h]) = 0 /\ ToCredit(k)' = 0
       /\ ToDebit(k)' = (IF p.status = "REFUNDED" THEN hs[h].n ELSE 0)
       /\ inv.paid \in Int /\ inv.refunded \in Int
  BY <1>1, <1>2, <1>11 DEF ToCredit, ToDebit, PayTyped, PayInvoice
<1>15. k.pc \notin Settling /\ k.pc \notin Paying /\ k.pc \notin Crediting
  BY <1>11 DEF Settling, Paying, Crediting
<1>16. ASSUME PayAloneAt(hs[h]) PROVE PayAloneAt(k)'
  <2>1. k.pc \in Holding => k.inv = inv
    BY <1>3, <1>11, <1>16 DEF PayAloneAt, Holding
  <2>2. \A i, j \in DOMAIN payments' :
          i # j /\ payments'[i].amount > 0 /\ payments'[j].amount > 0 => payments'[i].key # payments'[j].key
    <3>1. ~ (p.amount > 0)
      BY <1>3, <1>5
    <3> QED BY <1>9, <1>16, <3>1 DEF PayAloneAt
  <2>3. inv.paid + ToCredit(k)' <= Taken' /\ inv.refunded + ToDebit(k)' <= GivenBack'
    <3>1. inv.paid <= Taken /\ inv.refunded <= GivenBack
      BY <1>14, <1>16 DEF PayAloneAt
    <3> QED BY <1>3, <1>13, <1>14, <3>1
  <2> QED BY <1>4, <1>15, <1>16, <2>1, <2>2, <2>3 DEF PayAloneAt
<1>18. ReceiptsAt(hs[h]) => ReceiptsAt(k)'
  <2>1. CapturedStay
    BY <1>9 DEF CapturedStay
  <2> QED BY <1>4, <1>15, <2>1, ReceiptsKept
<1>17. ASSUME PayExactAt(hs[h]) PROVE PayExactAt(k)'
  <2>0. p.status # "REQUIRES_CAPTURE" /\ p.status # "CAPTURED" /\ hs[h].pc \notin Crediting
    BY <1>11 DEF Crediting
  <2>1. BooksAt(k)'
    <3>1. inv.paid = Taken /\ inv.refunded = GivenBack
      BY <1>2, <1>14, <1>17 DEF PayExactAt, BooksAt
    <3>2. inv.paid + ToCredit(k)' = Taken' /\ inv.refunded + ToDebit(k)' = GivenBack'
      BY <1>3, <1>13, <1>14, <3>1
    <3>4. \A i \in DOMAIN payments' : payments'[i].status = "CAPTURED" => \E j \in DOMAIN receipts : receipts[j].payment = i
      BY <1>9, <1>17, <2>0 DEF PayExactAt, BooksAt
    <3>5. \A j \in DOMAIN receipts : receipts[j].number = j
      BY <1>17 DEF PayExactAt, BooksAt
    <3>6. k.pc # "receipt.save"
      BY <1>11
    <3> QED BY <1>4, <1>13, <3>2, <3>4, <3>5, <3>6 DEF BooksAt
  <2>2. PendingAt(k)'
    BY <1>9, <1>11, <1>17, <2>0 DEF PayExactAt, PendingAt
  <2>3. \A c \in DOMAIN charges : (OpenAt(k, c)' <=> OpenAt(hs[h], c)) /\ Worth(c)' = Worth(c)
    BY <1>2, <1>4, <1>9, <1>11, <2>0 DEF OpenAt, Worth
  <2>4. BilledAt(k)'
    <3>1. ~misled => \A c \in DOMAIN charges : \E i \in DOMAIN payments' : payments'[i].key = charges[c].key
      BY <1>2, <1>9, <1>17 DEF PayExactAt, BilledAt
    <3> QED BY <1>4, <1>13, <1>17, <2>3, <3>1 DEF PayExactAt, BilledAt
  <2>5. SentAt(k)'
    BY <1>2, <1>4, <1>11, <1>13, <1>17 DEF PayExactAt, SentAt
  <2>6. TrueAt(k)'
    <3>1. ~misled' => \A i \in DOMAIN payments' : payments'[i].status = "CAPTURED" =>
              \/ i \in DOMAIN payments /\ payments'[i] = payments[i]
              \/ \E q : q = payments'[i] /\ Agrees(q)'
      BY <1>9, <2>0
    <3> QED BY <1>4, <1>7, <1>11, <1>17, <3>1, TruthKept DEF PayExactAt, PayInv, PayBase
  <2> QED BY <2>1, <2>2, <2>4, <2>5, <2>6 DEF PayExactAt
<1> QED BY <1>1, <1>4, <1>7, <1>10, <1>12, <1>16, <1>17, <1>18, PaySteps

LEMMA DebitKeeps == ASSUME PayInv, NEW h \in Handlers, Debit(h) PROVE PayInv'
<1>1. PayTyped /\ PaySound(hs[h]) /\ aborts \in Nat /\ misled \in BOOLEAN
  BY DEF PayInv, PayBase, PayTyped
<1>2. /\ UNCHANGED <<payments, receipts, charges, returned, adapter, aborts, misled>>
      /\ hs[h].pc = "refund.debit" /\ inv' = Debited(hs[h].inv, hs[h].n) /\ Stepping(h, Resting)
  BY <1>1, DebitDoes DEF provider
<1>3. PICK i : i = hs[h].inv
  OBVIOUS
<1>4. PICK n : n = hs[h].n
  OBVIOUS
<1>5. i \in PayInvoice /\ CoherentPay(i) /\ n > 0 /\ n <= Refundable(i) /\ n \in Nat
  BY <1>1, <1>2, <1>3, <1>4 DEF PaySound, Holding, Refunding, PaymentPCs, PayTyped, PayLocal
<1>6. /\ i.paid \in Nat /\ i.refunded \in Nat /\ n <= i.paid - i.refunded
      /\ inv.paid \in Nat /\ inv.refunded \in Nat
  BY <1>1, <1>5 DEF PayInvoice, PayTyped, Refundable
<1>7. PICK st : st = IF i.refunded + n >= i.paid THEN "REFUNDED" ELSE "PARTIALLY_REFUNDED"
  OBVIOUS
<1>8. PICK a \in Nat : a = i.refunded + n
  BY <1>5, <1>6
<1>9. PICK v : v = [i EXCEPT !.refunded = a, !.status = st]
  OBVIOUS
<1>10. v \in PayInvoice /\ v.paid = i.paid /\ v.refunded = a /\ v.status = st
  BY <1>5, <1>7, <1>9 DEF PayInvoice, InvoiceStatuses
<1>11. inv' = v
  <2>1. inv' = [i EXCEPT !.refunded = i.refunded + n,
                         !.status = IF i.refunded + n >= i.paid THEN "REFUNDED" ELSE "PARTIALLY_REFUNDED"]
    BY <1>2, <1>3, <1>4 DEF Debited
  <2> QED BY <1>7, <1>8, <1>9, <2>1
<1>12. inv' \in PayInvoice /\ inv'.paid = i.paid /\ inv'.refunded = i.refunded + n /\ inv'.status = st
  BY <1>8, <1>10, <1>11
<1>13. CoherentPay(inv')
  <2>1. st # "PAID" /\ i.refunded + n > 0 /\ i.refunded + n <= i.paid
    BY <1>5, <1>6, <1>7
  <2> QED BY <1>12, <2>1 DEF CoherentPay
<1>14. Progress
  BY <1>2 DEF Progress
<1>15. Records'
  BY <1>1, <1>2, <1>12, <1>13, <1>14, RecordsKept DEF PayTyped
<1>16. PICK k : k = Resting
  OBVIOUS
<1>17. k \in PayLocal /\ k.pc = "idle" /\ Stepping(h, k) /\ PaySound(k)'
  BY <1>2, <1>14, <1>16, RestingTyped, RestSound, SoundKept
<1>18. /\ Taken \in Int /\ GivenBack \in Int /\ Sent \in Int /\ Billed \in Int
       /\ Taken' = Taken /\ GivenBack' = GivenBack /\ Sent' = Sent /\ Billed' = Billed
  <2>1. payments \in Seq(PayRow) /\ returned \in Seq(Refund) /\ charges \in Seq(Charge)
    BY <1>1 DEF PayTyped
  <2> QED BY <1>2, <2>1, PaymentTallies, SentTallies, BilledTallies
<1>19. /\ ToCredit(hs[h]) = 0 /\ ToDebit(hs[h]) = n /\ ToDebit(k)' = 0 /\ ToCredit(k)' = 0
  BY <1>2, <1>4, <1>17 DEF ToCredit, ToDebit
<1>20. k.pc \notin Holding /\ k.pc \notin Settling /\ k.pc \notin Paying /\ k.pc \notin Crediting
       /\ hs[h].pc \in Holding /\ hs[h].pc \notin Crediting
  BY <1>2, <1>17 DEF Holding, Settling, Paying, Crediting, PaymentPCs
<1>21. ASSUME PayAloneAt(hs[h]) PROVE PayAloneAt(k)' /\ i = inv
  <2>1. i = inv
    BY <1>3, <1>20, <1>21 DEF PayAloneAt
  <2>2. inv'.paid + ToCredit(k)' <= Taken' /\ inv'.refunded + ToDebit(k)' <= GivenBack'
    BY <1>5, <1>6, <1>12, <1>18, <1>19, <1>21, <2>1 DEF PayAloneAt
  <2> QED BY <1>2, <1>20, <1>21, <2>1, <2>2 DEF PayAloneAt
<1>23. ReceiptsAt(hs[h]) => ReceiptsAt(k)'
  BY <1>2, <1>20, ReceiptsKept DEF CapturedStay
<1>22. ASSUME PayAloneAt(hs[h]), PayExactAt(hs[h]) PROVE PayExactAt(k)'
  <2>1. i = inv /\ inv'.paid = inv.paid /\ inv'.refunded = inv.refunded + n
    BY <1>12, <1>21, <1>22
  <2>2. BooksAt(k)'
    <3>1. inv'.paid + ToCredit(k)' = Taken' /\ inv'.refunded + ToDebit(k)' = GivenBack'
      BY <1>5, <1>6, <1>18, <1>19, <1>22, <2>1 DEF PayExactAt, BooksAt
    <3> QED BY <1>2, <1>17, <1>20, <1>22, <3>1 DEF PayExactAt, BooksAt
  <2>3. PendingAt(k)'
    BY <1>2, <1>17, <1>22 DEF PayExactAt, PendingAt
  <2>4. \A c \in DOMAIN charges : (OpenAt(k, c)' <=> OpenAt(hs[h], c)) /\ Worth(c)' = Worth(c)
    BY <1>2, <1>17 DEF OpenAt, Worth
  <2>5. BilledAt(k)'
    BY <1>2, <1>18, <1>22, <2>1, <2>4 DEF PayExactAt, BilledAt
  <2>6. SentAt(k)'
    BY <1>2, <1>4, <1>5, <1>6, <1>17, <1>18, <1>22, <2>1 DEF PayExactAt, SentAt
  <2>7. TrueAt(k)'
    BY <1>2, <1>17, <1>22 DEF PayExactAt, TrueAt, Agrees
  <2> QED BY <2>2, <2>3, <2>5, <2>6, <2>7 DEF PayExactAt
<1> QED BY <1>1, <1>2, <1>14, <1>15, <1>17, <1>21, <1>22, <1>23, PaySteps

(* A request that dies leaves what is stored as it is.                      *)
LEMMA PayAbortKeeps == ASSUME PayInv, NEW h \in Handlers, Abort(h) PROVE PayInv'
<1>1. PayTyped /\ PaySound(hs[h]) /\ aborts \in Nat /\ misled \in BOOLEAN
  BY DEF PayInv, PayBase, PayTyped
<1>2. /\ UNCHANGED <<inv, payments, receipts, charges, returned, adapter, misled>>
      /\ aborts' = aborts + 1 /\ Stepping(h, Resting)
  BY AbortDoes DEF PayReads, stored, provider
<1>3. Progress /\ Records'
  BY <1>2 DEF Progress, Records, PayInv, PayBase, PayTyped, CoherentPay, Backed, ChargeSound
<1>4. PICK k : k = Resting
  OBVIOUS
<1>5. k \in PayLocal /\ k.pc = "idle" /\ Stepping(h, k) /\ PaySound(k)'
  BY <1>2, <1>3, <1>4, RestingTyped, RestSound, SoundKept
<1>6. aborts' \in Nat /\ aborts' # 0
  BY <1>1, <1>2
<1>8. ReceiptsAt(hs[h]) => ReceiptsAt(k)'
  BY <1>2, <1>5 DEF ReceiptsAt, ReceiptSound, Crediting
<1>7. ASSUME PayAloneAt(hs[h]) PROVE PayAloneAt(k)'
  <2>1. k.pc \notin Holding /\ k.pc \notin Settling /\ k.pc \notin Paying /\ k.pc \notin Crediting
    BY <1>5 DEF Holding, Settling, Paying, Crediting
  <2>2. /\ Taken \in Int /\ GivenBack \in Int /\ Taken' = Taken /\ GivenBack' = GivenBack
    BY <1>1, <1>2, PaymentTallies DEF PayTyped
  <2>3. ToCredit(hs[h]) >= 0 /\ ToDebit(hs[h]) >= 0 /\ ToDebit(k)' = 0 /\ ToCredit(k)' = 0
        /\ ToCredit(hs[h]) \in Int /\ ToDebit(hs[h]) \in Int
    BY <1>1, <1>5 DEF ToCredit, ToDebit, PaySound, Crediting, Refunding, PayRow, PayTyped, PayLocal
  <2>4. inv.paid + ToCredit(k)' <= Taken' /\ inv.refunded + ToDebit(k)' <= GivenBack'
    BY <1>1, <1>7, <2>2, <2>3 DEF PayAloneAt, PayTyped, PayInvoice
  <2> QED BY <1>2, <1>7, <2>1, <2>4 DEF PayAloneAt
<1> QED BY <1>1, <1>2, <1>3, <1>5, <1>6, <1>7, <1>8, PaySteps

(* The provider decides about a pending charge.                             *)
LEMMA ResolveKeeps == ASSUME PayInv, NEW c \in DOMAIN charges, Resolve(c) PROVE PayInv'
<1>1. PayTyped /\ aborts \in Nat /\ misled \in BOOLEAN /\ CoherentPay(inv) /\ \A d \in DOMAIN charges : ChargeSound(charges[d])
  BY DEF PayInv, PayBase, PayTyped
<1>2. /\ UNCHANGED <<inv, payments, receipts, returned, adapter, hs, overlaps, aborts, misled>>
      /\ charges[c].status = "REQUIRES_CAPTURE"
  BY DEF Resolve, stored, counters
<1>3. charges \in Seq(Charge) /\ charges[c] \in Charge /\ c # 0
  BY <1>1 DEF PayTyped
<1>4. PICK x \in Charge :
         /\ charges' = [charges EXCEPT ![c] = x] /\ x.key = charges[c].key
         /\ x.reply = charges[c].reply /\ x.status \in {"CAPTURED", "FAILED"}
         /\ x.amount <= charges[c].amount
  <2>1. PICK o \in Charge : o = charges[c]
    BY <1>3
  <2>2. CASE charges' = [charges EXCEPT ![c].status = "FAILED"]
    <3> DEFINE x == [o EXCEPT !.status = "FAILED"]
    <3>1. x \in Charge /\ x.key = o.key /\ x.reply = o.reply /\ x.status = "FAILED" /\ x.amount = o.amount
      BY DEF Charge
    <3>2. charges' = [charges EXCEPT ![c] = x]
      BY <1>3, <2>1, <2>2
    <3>3. x.amount <= o.amount
      BY <3>1 DEF Charge
    <3> HIDE DEF x
    <3> QED BY <2>1, <3>1, <3>2, <3>3
  <2>3. ASSUME NEW amount \in 1..charges[c].amount,
               charges' = [charges EXCEPT ![c].status = "CAPTURED", ![c].amount = amount]
        PROVE  \E x \in Charge :
                   /\ charges' = [charges EXCEPT ![c] = x] /\ x.key = charges[c].key
                   /\ x.reply = charges[c].reply /\ x.status \in {"CAPTURED", "FAILED"}
                   /\ x.amount <= charges[c].amount
    <3> DEFINE x == [o EXCEPT !.status = "CAPTURED", !.amount = amount]
    <3>0. amount \in Nat \ {0} /\ amount <= o.amount
      BY <2>1 DEF Charge
    <3>1. x \in Charge /\ x.key = o.key /\ x.reply = o.reply /\ x.status = "CAPTURED" /\ x.amount = amount
      BY <3>0 DEF Charge
    <3>2. charges' = [charges EXCEPT ![c] = x]
      BY <1>3, <2>1, <2>3
    <3> HIDE DEF x
    <3> QED BY <2>1, <3>0, <3>1, <3>2
  <2> QED BY <2>2, <2>3 DEF Resolve
<1>5. /\ charges' \in Seq(Charge) /\ DOMAIN charges' = DOMAIN charges /\ charges'[c] = x
      /\ \A d \in DOMAIN charges \ {c} : charges'[d] = charges[d]
  BY <1>3, <1>4
<1>6. Progress
  BY <1>2, <1>5 DEF Progress
<1>7. ChargeSound(x)
  BY <1>1, <1>2, <1>4 DEF ChargeSound
<1>8. Records'
  BY <1>1, <1>2, <1>5, <1>6, <1>7, RecordsKept DEF PayTyped, CoherentPay
<1>9. PayBase'
  <2>1. PayTyped'
    BY <1>1, <1>2, <1>5 DEF PayTyped, RestingIsResting
  <2>2. ASSUME NEW g \in Handlers PROVE PaySound(hs[g])'
    <3>1. PICK q : q = hs[g]
      OBVIOUS
    <3>2. PaySound(q)'
      BY <1>6, <3>1, SoundKept DEF PayInv, PayBase
    <3> QED BY <1>2, <3>1, <3>2 DEF PaySound, Backed
  <2> QED BY <1>8, <2>1, <2>2 DEF PayBase, Records
<1>10. /\ Taken' = Taken /\ GivenBack' = GivenBack /\ Sent' = Sent /\ Billed \in Int
       /\ Billed' = Billed - charges[c].amount + (IF x.status # "FAILED" THEN x.amount ELSE 0)
  <2>1. payments \in Seq(PayRow) /\ returned \in Seq(Refund)
    BY <1>1 DEF PayTyped
  <2> QED BY <1>2, <1>3, <1>4, <2>1, PaymentTallies, SentTallies, BilledTallies
<1>11. \A q : (Current(q)' <=> Current(q)) /\ (Lone' <=> Lone)
  BY <1>2 DEF Current, Quiet, Lone
<1>12. ASSUME NEW q, PayAloneAt(q) PROVE PayAloneAt(q)'
  BY <1>2, <1>10, <1>12 DEF PayAloneAt, ToCredit, ToDebit
<1>16. ASSUME NEW q, ReceiptsAt(q) PROVE ReceiptsAt(q)'
  BY <1>2, <1>16 DEF ReceiptsAt, ReceiptSound
<1>13. ASSUME NEW q, PayExactAt(q), PaySound(q) PROVE PayExactAt(q)'
  <2>1. BooksAt(q)'
    BY <1>2, <1>10, <1>13 DEF PayExactAt, BooksAt, ToCredit, ToDebit
  <2>2. PendingAt(q)'
    BY <1>2, <1>13 DEF PayExactAt, PendingAt
  <2>3. \A d : OpenAt(q, d)' <=> OpenAt(q, d)
    BY <1>2 DEF OpenAt
  <2>8. SentAt(q)'
    BY <1>2, <1>10, <1>13 DEF PayExactAt, SentAt
  <2>9. TrueAt(q)'
    <3>1. ~misled' => (q.pc = "pay.save" /\ q.pay.status = "CAPTURED" => Agrees(q.pay)')
      <4> SUFFICES ASSUME ~misled, q.pc = "pay.save", q.pay.status = "CAPTURED" PROVE Agrees(q.pay)'
        BY <1>2
      <4>1. PICK p : p = q.pay
        OBVIOUS
      <4>2. Agrees(p) /\ p.status = "CAPTURED"
        BY <1>13, <4>1 DEF PayExactAt, TrueAt
      <4>3. p.charge # c /\ p.charge \in DOMAIN charges
        <5>1. Backed(p)
          BY <1>13, <4>1 DEF PaySound
        <5> QED BY <1>2, <4>2, <5>1 DEF Agrees, Backed
      <4> QED BY <1>5, <4>1, <4>2, <4>3 DEF Agrees
    <3> QED BY <1>1, <1>2, <1>6, <1>13, <3>1, TruthKept DEF PayExactAt, PayInv, PayBase
  <2>7. BilledAt(q)'
    <3> SUFFICES ASSUME ~misled PROVE BilledAt(q)'
      BY <1>2 DEF BilledAt
    <3>a. BilledAt(q) /\ PendingAt(q)
      BY <1>13 DEF PayExactAt
    <3>1. OpenAt(q, c)
      BY <1>2, <3>a DEF BilledAt
    <3>2. \A d : OpenAt(q, d) => d = c
      BY <3>1, <3>a DEF PendingAt, OpenAt
    <3>3. Billed = inv.paid + charges[c].amount /\ charges[c].amount <= Total - inv.paid /\ inv.paid <= Total
      BY <1>2, <3>1, <3>a DEF BilledAt, Worth
    <3>4. inv.paid \in Int /\ charges[c].amount \in Int /\ x.amount \in Int /\ Total \in Int
      BY <1>1, <1>3, TotalAssumption DEF PayTyped, PayInvoice, Charge
    <3>5. Worth(c)' = (IF x.status # "FAILED" THEN x.amount ELSE 0)
      BY <1>5 DEF Worth
    <3>6. Billed' = inv'.paid + Worth(c)' /\ charges'[c].amount <= Total - inv.paid
      BY <1>2, <1>4, <1>5, <1>10, <3>3, <3>4, <3>5
    <3>7. \A d \in DOMAIN charges' : d = c \/ ~OpenAt(q, d)'
      BY <2>3, <3>2
    <3>8. \A d \in DOMAIN charges' : charges'[d].status # "REQUIRES_CAPTURE"
      BY <1>4, <1>5, <3>2, <3>a DEF BilledAt
    <3>9. \A d \in DOMAIN charges' :
             \/ \E i \in DOMAIN payments : payments[i].key = charges'[d].key
             \/ q.pc = "pay.save" /\ q.pay.key = charges'[d].key
      BY <1>4, <1>5, <3>a DEF BilledAt
    <3>10. OpenAt(q, c)' /\ c \in DOMAIN charges'
      BY <1>5, <2>3, <3>1
    <3> QED BY <1>2, <3>3, <3>6, <3>7, <3>8, <3>9, <3>10 DEF BilledAt
  <2> QED BY <2>1, <2>2, <2>7, <2>8, <2>9 DEF PayExactAt
<1>14. PayAlone'
  BY <1>2, <1>11, <1>12, <1>16 DEF PayInv, PayAlone
<1>15. PayExact'
  <2>1. \A q \in {Resting} \cup {hs[h] : h \in Handlers} : PaySound(q)
    BY RestSound, RestingTyped DEF PayInv, PayBase
  <2> QED BY <1>2, <1>11, <1>13, <2>1 DEF PayInv, PayExact
<1> QED BY <1>9, <1>14, <1>15 DEF PayInv

LEMMA PayInitInv == ASSUME Init PROVE PayInv
<1>1. /\ inv = [status |-> "ISSUED", paid |-> 0, refunded |-> 0]
      /\ payments = <<>> /\ receipts = <<>> /\ charges = <<>> /\ returned = <<>>
      /\ overlaps = 0 /\ aborts = 0 /\ misled = FALSE /\ hs = [h \in Handlers |-> Resting]
  BY DEF Init
<1>2. Resting \in PayLocal /\ Resting.pc = "idle" /\ PaySound(Resting)
  BY RestingTyped, RestSound
<1>3. inv \in PayInvoice /\ inv.paid = 0 /\ inv.refunded = 0 /\ inv.status = "ISSUED"
  BY <1>1 DEF PayInvoice, InvoiceStatuses
<1>4. DOMAIN payments = {} /\ DOMAIN receipts = {} /\ DOMAIN charges = {}
  BY <1>1
<1>5. PayTyped
  <2>1. /\ payments \in Seq(PayRow) /\ receipts \in Seq(PayReceipt)
        /\ charges \in Seq(Charge) /\ returned \in Seq(Refund)
    BY <1>1
  <2> QED BY <1>1, <1>2, <1>3, <2>1 DEF PayTyped, RestingIsResting
<1>6. PayBase
  BY <1>1, <1>2, <1>3, <1>4, <1>5, TotalAssumption DEF PayBase, CoherentPay
<1>7. Taken = 0 /\ GivenBack = 0 /\ Sent = 0 /\ Billed = 0
  <2>1. ASSUME NEW w PROVE Weight(w, <<>>) = 0
    <3>1. [i \in DOMAIN <<>> |-> w[<<>>[i]]] = <<>>
      OBVIOUS
    <3> QED BY <3>1, SumEmpty DEF Weight
  <2> QED BY <1>1, <2>1 DEF Taken, GivenBack, Sent, Billed
<1>8. PICK k : k = Resting
  OBVIOUS
<1>9. /\ k.pc = "idle" /\ ToCredit(k) = 0 /\ ToDebit(k) = 0
      /\ k.pc \notin Holding /\ k.pc \notin Settling /\ k.pc \notin Paying /\ k.pc \notin Crediting
  BY <1>2, <1>8 DEF ToCredit, ToDebit, Holding, Settling, Paying, Crediting
<1>10. PayAloneAt(k)
  BY <1>3, <1>4, <1>7, <1>9 DEF PayAloneAt
<1>11. BooksAt(k) /\ PendingAt(k) /\ BilledAt(k)
  BY <1>3, <1>4, <1>7, <1>9, TotalAssumption DEF BooksAt, PendingAt, BilledAt
<1>13. ReceiptsAt(k) /\ SentAt(k) /\ TrueAt(k)
  BY <1>3, <1>4, <1>7, <1>9 DEF ReceiptsAt, SentAt, TrueAt
<1>12. Lone /\ \A q : Current(q) => q = k
  BY <1>1, <1>2, <1>8 DEF Lone, Current
<1> QED BY <1>6, <1>10, <1>11, <1>12, <1>13 DEF PayInv, PayAlone, PayExact, PayExactAt

(* What the properties add up is what the invariants weigh.                 *)
LEMMA SumsAreWeights ==
    /\ payments \in Seq(PayRow) =>
          SumOf(payments, Captured, Amount) = Taken /\ SumOf(payments, RefundDone, Negated) = GivenBack
    /\ returned \in Seq(Refund) => SumOf(returned, Every, Amount) = Sent
    /\ charges \in Seq(Charge) => SumOf(charges, NotFailed, Amount) = Billed
<1>1. ASSUME payments \in Seq(PayRow)
      PROVE  SumOf(payments, Captured, Amount) = Taken /\ SumOf(payments, RefundDone, Negated) = GivenBack
  <2>1. \A i \in DOMAIN payments : payments[i] \in PayRow
    BY <1>1
  <2>2. [i \in DOMAIN payments |-> IF Captured(payments[i]) THEN Amount(payments[i]) ELSE 0]
          = [i \in DOMAIN payments |-> CapturedWeight[payments[i]]]
    BY <2>1 DEF CapturedWeight
  <2>3. [i \in DOMAIN payments |-> IF RefundDone(payments[i]) THEN Negated(payments[i]) ELSE 0]
          = [i \in DOMAIN payments |-> RefundedWeight[payments[i]]]
    BY <2>1 DEF RefundedWeight
  <2> QED BY <2>2, <2>3 DEF SumOf, Taken, GivenBack, Weight
<1>2. ASSUME returned \in Seq(Refund) PROVE SumOf(returned, Every, Amount) = Sent
  <2>1. \A i \in DOMAIN returned : returned[i] \in Refund
    BY <1>2
  <2>2. [i \in DOMAIN returned |-> IF Every(returned[i]) THEN Amount(returned[i]) ELSE 0]
          = [i \in DOMAIN returned |-> ReturnedWeight[returned[i]]]
    BY <2>1 DEF ReturnedWeight, Every
  <2> QED BY <2>2 DEF SumOf, Sent, Weight
<1>3. ASSUME charges \in Seq(Charge) PROVE SumOf(charges, NotFailed, Amount) = Billed
  <2>1. \A i \in DOMAIN charges : charges[i] \in Charge
    BY <1>3
  <2>2. [i \in DOMAIN charges |-> IF NotFailed(charges[i]) THEN Amount(charges[i]) ELSE 0]
          = [i \in DOMAIN charges |-> ChargedWeight[charges[i]]]
    BY <2>1 DEF ChargedWeight
  <2> QED BY <2>2 DEF SumOf, Billed, Weight
<1> QED BY <1>1, <1>2, <1>3

LEMMA PayInvImplies == ASSUME PayInv PROVE MoneyAccounted /\ NothingTwice
<1>1. PayTyped /\ PayBase
  BY DEF PayInv, PayBase
<1>2. /\ payments \in Seq(PayRow) /\ returned \in Seq(Refund) /\ charges \in Seq(Charge)
      /\ inv.paid \in Nat /\ inv.refunded \in Nat /\ overlaps \in Nat /\ aborts \in Nat
      /\ hs \in [Handlers -> PayLocal]
  BY <1>1 DEF PayTyped, PayInvoice
<1>3. /\ SumOf(payments, Captured, Amount) = Taken /\ SumOf(payments, RefundDone, Negated) = GivenBack
      /\ SumOf(returned, Every, Amount) = Sent /\ SumOf(charges, NotFailed, Amount) = Billed
      /\ Taken \in Int /\ GivenBack \in Int /\ Sent \in Int /\ Billed \in Int
  BY <1>2, SumsAreWeights, PaymentTallies, SentTallies, BilledTallies
<1>4. InvoiceCoherent
  BY <1>1 DEF PayBase, CoherentPay, InvoiceCoherent
<1>5. ASSUME overlaps = 0
      PROVE  \E k \in {Resting} \cup {hs[h] : h \in Handlers} : Current(k)
  <2>1. Lone
    BY <1>5 DEF PayInv, PayAlone
  <2>2. CASE Quiet
    BY <2>2 DEF Current
  <2>3. CASE ~Quiet
    <3>1. PICK h \in Handlers : hs[h].pc # "idle"
      BY <2>3 DEF Quiet
    <3>2. \A g \in Handlers \ {h} : hs[g].pc = "idle"
      BY <2>1, <3>1 DEF Lone
    <3> QED BY <3>1, <3>2 DEF Current
  <2> QED BY <2>2, <2>3
<1>6. ASSUME overlaps = 0
      PROVE  \E k \in {Resting} \cup {hs[h] : h \in Handlers} :
                /\ PayAloneAt(k) /\ ReceiptsAt(k) /\ PaySound(k) /\ k \in PayLocal
                /\ aborts = 0 => PayExactAt(k)
                /\ Quiet => k.pc = "idle"
  <2>1. PICK k \in {Resting} \cup {hs[h] : h \in Handlers} : Current(k)
    BY <1>5, <1>6
  <2>5. Resting \in PayLocal /\ Resting.pc = "idle" /\ PaySound(Resting)
    BY RestingTyped, RestSound
  <2>2. PayAloneAt(k) /\ ReceiptsAt(k) /\ (aborts = 0 => PayExactAt(k))
    BY <1>6, <2>1 DEF PayInv, PayAlone, PayExact
  <2>3. PaySound(k) /\ k \in PayLocal
    BY <1>1, <1>2, <2>1, <2>5 DEF PayBase
  <2>4. Quiet => k.pc = "idle"
    BY <2>1, <2>5 DEF Quiet
  <2> QED BY <2>1, <2>2, <2>3, <2>4
<1>7. ASSUME overlaps = 0 PROVE CreditIsBacked /\ ReceiptBacked /\ OneReceiptAlone /\ OnePaymentPerKey
  <2>1. PICK k : PayAloneAt(k) /\ ReceiptsAt(k) /\ PaySound(k) /\ k \in PayLocal
    BY <1>6, <1>7
  <2>2. ToCredit(k) \in Nat /\ ToDebit(k) \in Nat
    BY <2>1 DEF ToCredit, ToDebit, PaySound, Crediting, PayRow, PayLocal
  <2>3. inv.paid <= Taken /\ inv.refunded <= GivenBack
    BY <1>2, <1>3, <2>1, <2>2 DEF PayAloneAt
  <2>4. CreditIsBacked
    BY <1>3, <2>3 DEF CreditIsBacked
  <2>5. ReceiptBacked
    BY <2>1 DEF ReceiptsAt, ReceiptSound, ReceiptBacked
  <2> QED BY <2>1, <2>4, <2>5 DEF PayAloneAt, OneReceiptAlone, OnePaymentPerKey
<1>8. ASSUME Quiet, Undisturbed PROVE BooksBalance
  <2>1. PICK k : PayExactAt(k) /\ k.pc = "idle"
    BY <1>6, <1>8 DEF Undisturbed
  <2>2. ToCredit(k) = 0 /\ ToDebit(k) = 0 /\ k.pc \notin Crediting
    BY <2>1 DEF ToCredit, ToDebit, Crediting
  <2>3. inv.paid = Taken /\ inv.refunded = GivenBack
    BY <1>2, <1>3, <2>1, <2>2 DEF PayExactAt, BooksAt
  <2>4. /\ \A i \in DOMAIN payments : Captured(payments[i]) =>
              \E j \in DOMAIN receipts : receipts[j].payment = i
        /\ \A j \in DOMAIN receipts : receipts[j].number = j
    BY <2>1, <2>2 DEF PayExactAt, BooksAt, Captured
  <2>5. ASSUME ~misled
        PROVE  /\ \A i \in DOMAIN payments : Captured(payments[i]) => Agrees(payments[i])
               /\ Sent <= inv.refunded
    BY <1>2, <1>3, <2>1, <2>5 DEF PayExactAt, SentAt, TrueAt, Captured
  <2> QED BY <1>3, <2>3, <2>4, <2>5 DEF BooksBalance
<1>9. ASSUME Undisturbed, ~misled PROVE NeverOvercharged
  <2>1. PICK k : PayExactAt(k)
    BY <1>6, <1>9 DEF Undisturbed
  <2>2. Billed <= Total
    <3>1. inv.paid <= Total /\ Total \in Int
      BY <1>9, <2>1, TotalAssumption DEF PayExactAt, BilledAt
    <3>2. CASE \A c \in DOMAIN charges : ~OpenAt(k, c)
      BY <1>9, <2>1, <3>1, <3>2 DEF PayExactAt, BilledAt
    <3>3. ASSUME NEW c \in DOMAIN charges, OpenAt(k, c) PROVE Billed <= Total
      <4>1. Billed = inv.paid + Worth(c) /\ charges[c].amount <= Total - inv.paid
        BY <1>9, <2>1, <3>3 DEF PayExactAt, BilledAt
      <4>2. charges[c].amount \in Int
        <5>1. charges[c] \in Charge
          BY <1>2
        <5> QED BY <5>1 DEF Charge
      <4>3. Worth(c) = charges[c].amount \/ Worth(c) = 0
        BY DEF Worth
      <4> QED BY <1>2, <3>1, <4>1, <4>2, <4>3
    <3> QED BY <3>2, <3>3
  <2> QED BY <1>3, <2>2 DEF NeverOvercharged
<1>10. MoneyAccounted
  BY <1>4, <1>7, <1>8 DEF MoneyAccounted, BooksBalance, CreditIsBacked, ReceiptBacked
<1>11. NothingTwice
  BY <1>7, <1>9 DEF NothingTwice, OneReceiptAlone, OnePaymentPerKey
<1> QED BY <1>10, <1>11

-----------------------------------------------------------------------------
(* Tenant invoices: types.                                                  *)

TenantPCs == {"idle", "issue.check", "number.read", "number.write", "issue.invoice", "issue.save",
              "adjust.save", "ledger", "adjust.invoice", "alert",
              "dunning.check", "dunning.invoice", "dunning.notice"}
TenantInvoice == [status : {"ISSUED", "PAID", "OVERDUE", "REFUNDED", "DISPUTED"},
                  payment : {"OVERPAID", "PAID", "PARTIALLY_PAID", "UNPAID"},
                  due : Nat, paid : Nat, refunded : Nat, chargeback : Nat]
Stages == {"GRACE_PERIOD", "FIRST_NOTICE", "FINAL_NOTICE"}
ReceiptTask == [kind : {"RECEIPT"}, reference : References, amount : Nat]
AdjustTask == [kind : {"REFUND", "CHARGEBACK"}, amount : Nat]
DunningTask == [kind : {"DUNNING"}, stage : Stages]
Tasks == ReceiptTask \cup AdjustTask \cup DunningTask
TenantReceipt == [reference : References, number : Nat, amount : Nat]
Adjustment == [kind : {"REFUND", "CHARGEBACK"}, amount : Nat, number : Nat, entries : Nat]
Notice == [stage : Stages, amount : Nat]
TenantLocal == [pc : TenantPCs, inv : TenantInvoice \cup {None}, pay : Tasks \cup {None},
                id : Nat, n : Nat]

TenantTyped ==
    /\ inv \in TenantInvoice /\ receipts \in Seq(TenantReceipt)
    /\ adjustments \in Seq(Adjustment) /\ notices \in Seq(Notice)
    /\ numbers \in [{"RECEIPT", "CREDIT_NOTE"} -> Nat]
    /\ overlaps \in Nat /\ aborts \in Nat
    /\ hs \in [Handlers -> TenantLocal] /\ RestingIsResting

(* Under any interleaving.                                                  *)

(* The handlers that issue a receipt, that adjust, that dun, and those that *)
(* hold a copy of the invoice to write from.                                *)
Numbering == {"number.read", "number.write"}
Issuing == {"issue.check", "issue.invoice", "issue.save"}
Adjusting == {"adjust.save", "ledger", "adjust.invoice"}
Dunning == {"dunning.check", "dunning.invoice", "dunning.notice"}
Copying == TenantPCs \ {"idle", "issue.save", "alert", "dunning.notice"}

CoherentTenant(i) ==
    /\ Net(i) >= 0
    /\ i.due <= (IF Net(i) < Total THEN Total - Net(i) ELSE 0)
    /\ i.status = "OVERDUE" => i.due > 0
    /\ i.status = "REFUNDED" => i.refunded = i.paid

TenantSound(k) ==
    /\ k.pc # "idle" => k.inv \in TenantInvoice /\ k.pay \in Tasks
    /\ k.pc \in Copying => CoherentTenant(k.inv)
    /\ k.pc \in Numbering => k.pay \in ReceiptTask \/ (k.pay \in AdjustTask /\ k.pay.kind = "REFUND")
    /\ k.pc \in Issuing => k.pay \in ReceiptTask
    /\ k.pc \in Adjusting => k.pay \in AdjustTask
    /\ k.pc \in Numbering \cup Adjusting /\ k.pay \in AdjustTask => k.pay.amount <= Net(k.inv) /\ k.pay.amount > 0
    /\ k.pc = "alert" => k.pay \in AdjustTask \cup DunningTask
    /\ k.pc = "ledger" => k.id \in DOMAIN adjustments
    /\ k.pc \in Dunning => k.pay \in DunningTask /\ k.inv.due > 0

TenantBase == TenantTyped /\ CoherentTenant(inv) /\ \A h \in Handlers : TenantSound(hs[h])

ReceiptWeight == [r \in TenantReceipt |-> Amount(r)]
RefundWeight == [a \in Adjustment |-> IF IsRefund(a) THEN Amount(a) ELSE 0]
ChargebackWeight == [a \in Adjustment |-> IF IsChargeback(a) THEN Amount(a) ELSE 0]
ReceiptSum == Weight(ReceiptWeight, receipts)
RefundSum == Weight(RefundWeight, adjustments)
ChargebackSum == Weight(ChargebackWeight, adjustments)

(* What k has written on the invoice and is about to record, and what it    *)
(* has recorded and is about to write.                                      *)
ToRecord(k) == IF k.pc = "issue.save" THEN k.pay.amount ELSE 0
ToReturn(k, kind) ==
    IF k.pc \in {"ledger", "adjust.invoice"} /\ k.pay.kind = kind THEN k.pay.amount ELSE 0

(* The numbers given so far, and that of k, which is newer than all others. *)
NumbersAt(k) ==
    /\ \A i \in DOMAIN receipts : receipts[i].number <= numbers["RECEIPT"]
    /\ \A i \in IsKind("REFUND") : adjustments[i].number <= numbers["CREDIT_NOTE"]
    /\ k.pc = "number.write" => k.n = numbers[IF k.pay.kind = "RECEIPT" THEN "RECEIPT" ELSE "CREDIT_NOTE"] + 1
    /\ k.pc \in {"issue.invoice", "issue.save"} =>
          k.n <= numbers["RECEIPT"] /\ \A i \in DOMAIN receipts : receipts[i].number < k.n
    /\ k.pc = "adjust.save" /\ k.pay.kind = "REFUND" =>
          k.n <= numbers["CREDIT_NOTE"] /\ \A i \in IsKind("REFUND") : adjustments[i].number < k.n
    /\ \A i, j \in DOMAIN receipts : i # j => receipts[i].number # receipts[j].number
    /\ \A i, j \in IsKind("REFUND") : i # j => adjustments[i].number # adjustments[j].number

(* No reference and no stage comes twice. *)
DistinctAt(k) ==
    /\ \A i, j \in DOMAIN receipts : i # j => receipts[i].reference # receipts[j].reference
    /\ \A i, j \in DOMAIN notices : i # j => notices[i].stage # notices[j].stage
    /\ k.pc \in Numbering \cup {"issue.invoice", "issue.save"} /\ k.pay.kind = "RECEIPT" =>
          \A i \in DOMAIN receipts : receipts[i].reference # k.pay.reference
    /\ k.pc \in {"dunning.invoice", "dunning.notice"} =>
          \A i \in DOMAIN notices : notices[i].stage # k.pay.stage

TenantAloneAt(k) ==
    /\ k.pc \in Copying => k.inv = inv
    /\ NumbersAt(k) /\ DistinctAt(k)
    /\ ReceiptSum + ToRecord(k) <= inv.paid
    /\ inv.refunded + ToReturn(k, "REFUND") <= RefundSum
    /\ inv.chargeback + ToReturn(k, "CHARGEBACK") <= ChargebackSum

TenantExactAt(k) ==
    /\ ReceiptSum + ToRecord(k) = inv.paid
    /\ inv.refunded + ToReturn(k, "REFUND") = RefundSum
    /\ inv.chargeback + ToReturn(k, "CHARGEBACK") = ChargebackSum
    /\ k.pc = "ledger" => adjustments[k.id].entries < 2
    /\ \A i \in DOMAIN adjustments :
          \/ adjustments[i].entries = 2 /\ <<"ADJUSTMENT", i>> \in alerts
          \/ k.pc = "ledger" /\ k.id = i /\ adjustments[i].entries < 2
          \/ k.pc \in {"adjust.invoice", "alert"} /\ k.pay.kind # "DUNNING" /\ k.id = i /\ adjustments[i].entries = 2
    /\ \A i \in DOMAIN notices :
          \/ <<"DUNNING", notices[i].stage>> \in alerts
          \/ k.pc = "alert" /\ k.pay.kind = "DUNNING" /\ k.pay.stage = notices[i].stage

TenantAlone ==
    overlaps = 0 => Lone /\ \A k \in {Resting} \cup {hs[h] : h \in Handlers} : Current(k) => TenantAloneAt(k)
TenantExact ==
    overlaps = 0 /\ aborts = 0 =>
        \A k \in {Resting} \cup {hs[h] : h \in Handlers} : Current(k) => TenantExactAt(k)
TenantInv == TenantBase /\ TenantAlone /\ TenantExact

-----------------------------------------------------------------------------
(* What the operators of a tenant invoice make of it.                       *)

(* The task of a handler decides what it may do. *)
LEMMA TasksDiffer ==
    /\ \A t \in ReceiptTask : t.kind = "RECEIPT" /\ t.reference \in References /\ t.amount \in Nat
    /\ \A t \in AdjustTask : t.kind \in {"REFUND", "CHARGEBACK"} /\ t.amount \in Nat
    /\ \A t \in DunningTask : t.kind = "DUNNING" /\ t.stage \in Stages
    /\ \A t \in Tasks : /\ t.kind = "RECEIPT" <=> t \in ReceiptTask
                        /\ t.kind \in {"REFUND", "CHARGEBACK"} <=> t \in AdjustTask
                        /\ t.kind = "DUNNING" <=> t \in DunningTask
<1>1. /\ \A t \in ReceiptTask : t.kind = "RECEIPT" /\ t.reference \in References /\ t.amount \in Nat
      /\ \A t \in AdjustTask : t.kind \in {"REFUND", "CHARGEBACK"} /\ t.amount \in Nat
      /\ \A t \in DunningTask : t.kind = "DUNNING" /\ t.stage \in Stages
  BY DEF ReceiptTask, AdjustTask, DunningTask
<1> QED BY <1>1 DEF Tasks

LEMMA BalanceIs ==
    ASSUME NEW i \in TenantInvoice, NEW p \in Int
    PROVE  LET b == calculatePaymentBalance(i, p)
           IN  /\ b \in TenantInvoice /\ b.status = i.status /\ b.paid = i.paid
               /\ b.refunded = i.refunded /\ b.chargeback = i.chargeback
               /\ b.due = IF p < Total THEN Total - p ELSE 0
<1>1. PICK d : d = IF p < Total THEN Total - p ELSE 0
  OBVIOUS
<1>2. d \in Nat
  BY <1>1, TotalAssumption
<1>3. PICK m : m = CASE p > Total -> "OVERPAID" [] p = Total -> "PAID"
                     [] p \in 1..(Total - 1) -> "PARTIALLY_PAID" [] OTHER -> "UNPAID"
  OBVIOUS
<1>4. m \in {"OVERPAID", "PAID", "PARTIALLY_PAID", "UNPAID"}
  BY <1>3
<1>5. calculatePaymentBalance(i, p) = [i EXCEPT !.due = d, !.payment = m]
  BY <1>1, <1>3 DEF calculatePaymentBalance
<1> QED BY <1>1, <1>2, <1>4, <1>5 DEF TenantInvoice

LEMMA ReceivedIs ==
    ASSUME NEW i \in TenantInvoice, CoherentTenant(i), NEW a \in Nat
    PROVE  LET r == Received(i, a)
           IN  /\ r \in TenantInvoice /\ CoherentTenant(r) /\ r.paid = i.paid + a
               /\ r.refunded = i.refunded /\ r.chargeback = i.chargeback
<1>1. /\ i.paid \in Nat /\ i.refunded \in Nat /\ i.chargeback \in Nat /\ Total \in Nat \ {0}
      /\ i.paid - i.refunded - i.chargeback >= 0
  BY TotalAssumption DEF TenantInvoice, CoherentTenant, Net
<1>2. PICK p \in Nat : p = i.paid + a
  BY <1>1
<1>3. PICK j : j = [i EXCEPT !.paid = p]
  OBVIOUS
<1>4. j \in TenantInvoice /\ j.paid = p /\ j.refunded = i.refunded /\ j.chargeback = i.chargeback
  BY <1>3 DEF TenantInvoice
<1>5. PICK b : b = calculatePaymentBalance(j, p)
  OBVIOUS
<1>6. /\ b \in TenantInvoice /\ b.paid = p /\ b.refunded = i.refunded /\ b.chargeback = i.chargeback
      /\ b.due = IF p < Total THEN Total - p ELSE 0
  BY <1>4, <1>5, BalanceIs
<1>7. PICK st : st = IF Settled(b) THEN "PAID" ELSE "ISSUED"
  OBVIOUS
<1>8. PICK r : r = [b EXCEPT !.status = st]
  OBVIOUS
<1>9. Received(i, a) = r
  <2>1. j = [i EXCEPT !.paid = i.paid + a]
    BY <1>2, <1>3
  <2> QED BY <1>2, <1>5, <1>7, <1>8, <2>1 DEF Received
<1>10. st \in {"PAID", "ISSUED"}
  BY <1>7
<1>11. /\ r \in TenantInvoice /\ r.paid = p /\ r.refunded = i.refunded /\ r.chargeback = i.chargeback
       /\ r.due = b.due /\ r.status = st
  BY <1>6, <1>8, <1>10 DEF TenantInvoice
<1>12. CoherentTenant(r)
  <2>1. p - i.refunded - i.chargeback >= 0 /\ p - i.refunded - i.chargeback <= p
    BY <1>1, <1>2
  <2>2. b.due <= IF p - i.refunded - i.chargeback < Total
                 THEN Total - (p - i.refunded - i.chargeback) ELSE 0
    BY <1>1, <1>6, <2>1
  <2> QED BY <1>10, <1>11, <2>1, <2>2 DEF CoherentTenant, Net
<1> QED BY <1>2, <1>9, <1>11, <1>12

LEMMA AdjustedIs ==
    ASSUME NEW i \in TenantInvoice, CoherentTenant(i), NEW kind \in {"REFUND", "CHARGEBACK"},
           NEW a \in Nat, a > 0, a <= Net(i)
    PROVE  LET r == Adjusted(i, kind, a)
           IN  /\ r \in TenantInvoice /\ CoherentTenant(r) /\ r.paid = i.paid
               /\ r.refunded = i.refunded + (IF kind = "REFUND" THEN a ELSE 0)
               /\ r.chargeback = i.chargeback + (IF kind = "CHARGEBACK" THEN a ELSE 0)
<1>1. /\ i.paid \in Nat /\ i.refunded \in Nat /\ i.chargeback \in Nat /\ Total \in Nat \ {0} /\ i.due \in Nat
      /\ a <= i.paid - i.refunded - i.chargeback
      /\ i.due <= (IF i.paid - i.refunded - i.chargeback < Total
                   THEN Total - (i.paid - i.refunded - i.chargeback) ELSE 0)
      /\ i.status = "OVERDUE" => i.due > 0
      /\ i.status # "REFUNDED"
  BY TotalAssumption DEF TenantInvoice, CoherentTenant, Net
<1>2. PICK new : new = IF kind = "REFUND"
                       THEN [i EXCEPT !.refunded = i.refunded + a,
                                      !.status = IF i.refunded + a >= i.paid THEN "REFUNDED" ELSE i.status]
                       ELSE [i EXCEPT !.chargeback = i.chargeback + a, !.status = "DISPUTED"]
  OBVIOUS
<1>3. /\ new \in TenantInvoice /\ new.paid = i.paid
      /\ new.refunded = i.refunded + (IF kind = "REFUND" THEN a ELSE 0)
      /\ new.chargeback = i.chargeback + (IF kind = "CHARGEBACK" THEN a ELSE 0)
      /\ new.status = IF kind = "CHARGEBACK" THEN "DISPUTED"
                      ELSE IF i.refunded + a >= i.paid THEN "REFUNDED" ELSE i.status
  <2>1. CASE kind = "REFUND"
    <3>1. PICK f \in Nat : f = i.refunded + a
      BY <1>1
    <3>2. PICK st : st = IF f >= i.paid THEN "REFUNDED" ELSE i.status
      OBVIOUS
    <3>3. new = [i EXCEPT !.refunded = f, !.status = st]
      BY <1>2, <2>1, <3>1, <3>2
    <3>4. st \in {"ISSUED", "PAID", "OVERDUE", "REFUNDED", "DISPUTED"}
      BY <3>2 DEF TenantInvoice
    <3>5. /\ new \in TenantInvoice /\ new.paid = i.paid /\ new.refunded = f
          /\ new.chargeback = i.chargeback /\ new.status = st
      BY <3>1, <3>3, <3>4 DEF TenantInvoice
    <3>6. kind # "CHARGEBACK" /\ i.chargeback + 0 = i.chargeback
      BY <1>1, <2>1
    <3> QED BY <2>1, <3>1, <3>2, <3>5, <3>6
  <2>2. CASE kind = "CHARGEBACK"
    <3>1. PICK f \in Nat : f = i.chargeback + a
      BY <1>1
    <3>2. new = [i EXCEPT !.chargeback = f, !.status = "DISPUTED"]
      BY <1>2, <2>2, <3>1
    <3>3. /\ new \in TenantInvoice /\ new.paid = i.paid /\ new.refunded = i.refunded
          /\ new.chargeback = f /\ new.status = "DISPUTED"
      BY <3>1, <3>2 DEF TenantInvoice
    <3>4. kind # "REFUND" /\ i.refunded + 0 = i.refunded
      BY <1>1, <2>2
    <3> QED BY <2>2, <3>1, <3>3, <3>4
  <2> QED BY <2>1, <2>2
<1>4. Net(new) = i.paid - i.refunded - i.chargeback - a
  BY <1>1, <1>3 DEF Net
<1>5. PICK p \in Int : p = Net(new)
  BY <1>1, <1>4
<1>6. PICK r : r = calculatePaymentBalance(new, p)
  OBVIOUS
<1>7. /\ r \in TenantInvoice /\ r.status = new.status /\ r.paid = new.paid
      /\ r.refunded = new.refunded /\ r.chargeback = new.chargeback
      /\ r.due = IF p < Total THEN Total - p ELSE 0
  BY <1>3, <1>6, BalanceIs
<1>8. Adjusted(i, kind, a) = r
  BY <1>2, <1>5, <1>6 DEF Adjusted
<1>9. CoherentTenant(r)
  <2>1. Net(r) = p /\ p >= 0
    BY <1>1, <1>4, <1>5, <1>7 DEF Net
  <2>2. r.due <= (IF Net(r) < Total THEN Total - Net(r) ELSE 0)
    BY <1>1, <1>7, <2>1
  <2>3. r.status = "OVERDUE" => r.due > 0
    <3>1. r.status = "OVERDUE" => i.status = "OVERDUE"
      BY <1>3, <1>7
    <3>2. i.status = "OVERDUE" => p < Total
      BY <1>1, <1>4, <1>5
    <3> QED BY <1>1, <1>7, <3>1, <3>2
  <2>4. r.status = "REFUNDED" => r.refunded = r.paid
    BY <1>1, <1>3, <1>7
  <2> QED BY <2>1, <2>2, <2>3, <2>4 DEF CoherentTenant
<1> QED BY <1>3, <1>7, <1>8, <1>9

(* Only what is asked for is made overdue. *)
LEMMA OverdueIs ==
    ASSUME NEW i \in TenantInvoice, CoherentTenant(i), i.due > 0
    PROVE  LET r == [i EXCEPT !.status = "OVERDUE"]
           IN  /\ r \in TenantInvoice /\ CoherentTenant(r) /\ r.paid = i.paid
               /\ r.refunded = i.refunded /\ r.chargeback = i.chargeback
<1>1. PICK r : r = [i EXCEPT !.status = "OVERDUE"]
  OBVIOUS
<1>2. /\ r \in TenantInvoice /\ r.status = "OVERDUE" /\ r.paid = i.paid
      /\ r.refunded = i.refunded /\ r.chargeback = i.chargeback /\ r.due = i.due
  BY <1>1 DEF TenantInvoice
<1>3. CoherentTenant(r)
  BY <1>2 DEF CoherentTenant, Net
<1> QED BY <1>1, <1>2, <1>3

LEMMA StageOf == \A d : getDunningNoticeDecision(d) # "none" => getDunningNoticeDecision(d) \in Stages
  BY DEF getDunningNoticeDecision, Stages

(* What a step makes of the sums.                                           *)
LEMMA TenantWeightsAre ==
    /\ ReceiptWeight \in [TenantReceipt -> Int]
    /\ RefundWeight \in [Adjustment -> Int] /\ ChargebackWeight \in [Adjustment -> Int]
    /\ \A r \in TenantReceipt : ReceiptWeight[r] = r.amount
    /\ \A a \in Adjustment : /\ RefundWeight[a] = IF a.kind = "REFUND" THEN a.amount ELSE 0
                             /\ ChargebackWeight[a] = IF a.kind = "CHARGEBACK" THEN a.amount ELSE 0
<1>1. ReceiptWeight \in [TenantReceipt -> Int] /\ \A r \in TenantReceipt : ReceiptWeight[r] = r.amount
  BY DEF ReceiptWeight, TenantReceipt, Amount
<1>2. RefundWeight \in [Adjustment -> Int] /\ ChargebackWeight \in [Adjustment -> Int]
  BY DEF RefundWeight, ChargebackWeight, Adjustment, IsRefund, IsChargeback, Amount
<1>3. \A a \in Adjustment : /\ RefundWeight[a] = IF a.kind = "REFUND" THEN a.amount ELSE 0
                            /\ ChargebackWeight[a] = IF a.kind = "CHARGEBACK" THEN a.amount ELSE 0
  BY DEF RefundWeight, ChargebackWeight, IsRefund, IsChargeback, Amount
<1> QED BY <1>1, <1>2, <1>3

LEMMA ReceiptTallies ==
    ASSUME receipts \in Seq(TenantReceipt)
    PROVE  /\ ReceiptSum \in Int /\ (receipts' = receipts => ReceiptSum' = ReceiptSum)
           /\ \A r \in TenantReceipt : receipts' = Append(receipts, r) => ReceiptSum' = ReceiptSum + r.amount
<1> DEFINE w == ReceiptWeight
<1>1. w \in [TenantReceipt -> Int] /\ \A r \in TenantReceipt : w[r] = r.amount
  BY TenantWeightsAre
<1>2. ReceiptSum = Weight(w, receipts) /\ ReceiptSum' = Weight(w, receipts')
  BY DEF ReceiptSum
<1> HIDE DEF w
<1>3. ReceiptSum \in Int
  BY <1>1, <1>2, Weights
<1>4. ASSUME NEW r \in TenantReceipt, receipts' = Append(receipts, r) PROVE ReceiptSum' = ReceiptSum + w[r]
  BY <1>1, <1>2, <1>4, Weights
<1> QED BY <1>1, <1>2, <1>3, <1>4

LEMMA AdjustmentReweighed ==
    ASSUME NEW w \in [Adjustment -> Int], NEW s \in Seq(Adjustment), NEW t \in Seq(Adjustment), Len(t) = Len(s),
           NEW j \in 1..Len(s), \A i \in 1..Len(s) \ {j} : t[i] = s[i]
    PROVE  Weight(w, t) = Weight(w, s) - w[s[j]] + w[t[j]]
  BY Reweighed

LEMMA AdjustmentTallies ==
    ASSUME adjustments \in Seq(Adjustment)
    PROVE  /\ RefundSum \in Int /\ ChargebackSum \in Int
           /\ adjustments' = adjustments => RefundSum' = RefundSum /\ ChargebackSum' = ChargebackSum
           /\ \A a \in Adjustment : adjustments' = Append(adjustments, a) =>
                 /\ RefundSum' = RefundSum + (IF a.kind = "REFUND" THEN a.amount ELSE 0)
                 /\ ChargebackSum' = ChargebackSum + (IF a.kind = "CHARGEBACK" THEN a.amount ELSE 0)
           /\ \A a \in Adjustment, i \in DOMAIN adjustments :
                 /\ adjustments' = [adjustments EXCEPT ![i] = a]
                 /\ a.kind = adjustments[i].kind /\ a.amount = adjustments[i].amount
                 => RefundSum' = RefundSum /\ ChargebackSum' = ChargebackSum
<1> DEFINE rw == RefundWeight
           cw == ChargebackWeight
<1>1. cw \in [Adjustment -> Int] /\ rw \in [Adjustment -> Int]
  BY TenantWeightsAre
<1>2. \A a \in Adjustment : /\ rw[a] = IF a.kind = "REFUND" THEN a.amount ELSE 0
                            /\ cw[a] = IF a.kind = "CHARGEBACK" THEN a.amount ELSE 0
  BY TenantWeightsAre
<1>3. /\ RefundSum = Weight(rw, adjustments) /\ ChargebackSum = Weight(cw, adjustments)
      /\ RefundSum' = Weight(rw, adjustments') /\ ChargebackSum' = Weight(cw, adjustments')
  BY DEF RefundSum, ChargebackSum
<1> HIDE DEF cw, rw
<1>4. RefundSum \in Int /\ ChargebackSum \in Int
  BY <1>1, <1>3, Weights
<1>5. ASSUME NEW a \in Adjustment, adjustments' = Append(adjustments, a)
      PROVE  RefundSum' = RefundSum + rw[a] /\ ChargebackSum' = ChargebackSum + cw[a]
  BY <1>1, <1>3, <1>5, Weights
<1>6. ASSUME NEW a \in Adjustment, NEW i \in DOMAIN adjustments, adjustments' = [adjustments EXCEPT ![i] = a],
             a.kind = adjustments[i].kind, a.amount = adjustments[i].amount
      PROVE  RefundSum' = RefundSum /\ ChargebackSum' = ChargebackSum
  <2> DEFINE s == adjustments
             t == adjustments'
  <2>1. /\ s \in Seq(Adjustment) /\ t \in Seq(Adjustment) /\ Len(t) = Len(s) /\ i \in 1..Len(s)
        /\ \A j \in 1..Len(s) \ {i} : t[j] = s[j]
    BY <1>6
  <2>2. t[i] = a /\ s[i] \in Adjustment
    BY <1>6
  <2>3. rw[s[i]] = rw[t[i]] /\ cw[s[i]] = cw[t[i]] /\ rw[t[i]] \in Int /\ cw[t[i]] \in Int
    BY <1>1, <1>2, <1>6, <2>2
  <2>a. Weight(rw, s) \in Int /\ Weight(cw, s) \in Int
    BY <1>3, <1>4
  <2> HIDE DEF s, t
  <2>4. Weight(rw, t) = Weight(rw, s) - rw[s[i]] + rw[t[i]]
    BY <1>1, <2>1, AdjustmentReweighed
  <2>5. Weight(cw, t) = Weight(cw, s) - cw[s[i]] + cw[t[i]]
    BY <1>1, <2>1, AdjustmentReweighed
  <2>6. Weight(rw, t) = Weight(rw, s) /\ Weight(cw, t) = Weight(cw, s)
    BY <2>3, <2>4, <2>5, <2>a
  <2> QED BY <1>3, <2>6 DEF s, t
<1> QED BY <1>2, <1>3, <1>4, <1>5, <1>6

-----------------------------------------------------------------------------
(* The invariants of a tenant invoice are kept.                             *)

LEMMA TenantRestingTyped ==
    /\ Resting \in TenantLocal /\ Resting.pc = "idle" /\ TenantSound(Resting)
    /\ \A pc \in TenantPCs, i \in TenantInvoice, t \in Tasks :
          LET k == [Resting EXCEPT !.pc = pc, !.inv = i, !.pay = t]
          IN  k \in TenantLocal /\ k.pc = pc /\ k.inv = i /\ k.pay = t
<1>1. /\ Resting \in TenantLocal /\ Resting.pc = "idle"
      /\ \A pc \in TenantPCs, i \in TenantInvoice, t \in Tasks :
            LET k == [Resting EXCEPT !.pc = pc, !.inv = i, !.pay = t]
            IN  k \in TenantLocal /\ k.pc = pc /\ k.inv = i /\ k.pay = t
  <2>1. Resting \in TenantLocal /\ Resting.pc = "idle"
    BY DEF Resting, TenantLocal, TenantPCs
  <2>2. ASSUME NEW pc \in TenantPCs, NEW i \in TenantInvoice, NEW t \in Tasks
        PROVE  LET k == [Resting EXCEPT !.pc = pc, !.inv = i, !.pay = t]
               IN  k \in TenantLocal /\ k.pc = pc /\ k.inv = i /\ k.pay = t
    <3>1. PICK k : k = [Resting EXCEPT !.pc = pc, !.inv = i, !.pay = t]
      OBVIOUS
    <3>2. k \in TenantLocal /\ k.pc = pc /\ k.inv = i /\ k.pay = t
      BY <2>1, <3>1 DEF TenantLocal
    <3> QED BY <3>1, <3>2
  <2> QED BY <2>1, <2>2
<1>2. TenantSound(Resting)
  BY <1>1 DEF TenantSound, Copying, Numbering, Issuing, Adjusting, Dunning
<1> QED BY <1>1, <1>2

LEMMA TenantMoves ==
    ASSUME TenantTyped, NEW h \in Handlers, hs[h].pc # "idle", UNCHANGED overlaps,
           NEW pc \in TenantPCs \ {"idle"}, Move(h, pc)
    PROVE  \E k \in TenantLocal :
              /\ Stepping(h, k) /\ k.pc = pc /\ k.inv = hs[h].inv /\ k.pay = hs[h].pay
              /\ k.id = hs[h].id /\ k.n = hs[h].n
<1> DEFINE k == [hs[h] EXCEPT !.pc = pc]
<1>1. hs[h] \in TenantLocal
  BY DEF TenantTyped
<1>2. /\ k \in TenantLocal /\ k.pc = pc /\ k.inv = hs[h].inv /\ k.pay = hs[h].pay
      /\ k.id = hs[h].id /\ k.n = hs[h].n
  BY <1>1 DEF TenantLocal
<1>3. Update(h, k)
  BY DEF Move
<1> HIDE DEF k
<1> QED BY <1>2, <1>3 DEF Stepping

LEMMA TenantStops ==
    ASSUME NEW h \in Handlers, hs[h].pc # "idle", UNCHANGED overlaps, Stop(h)
    PROVE  \E k \in TenantLocal : Stepping(h, k) /\ k.pc = "idle"
<1>1. Resting \in TenantLocal /\ Resting.pc = "idle" /\ Stepping(h, Resting)
  BY TenantRestingTyped DEF Stop, Stepping
<1> QED BY <1>1

(* The records after a step are typed, and the stored invoice is coherent.  *)
TenantRecords ==
    /\ inv \in TenantInvoice /\ receipts \in Seq(TenantReceipt)
    /\ adjustments \in Seq(Adjustment) /\ notices \in Seq(Notice)
    /\ numbers \in [{"RECEIPT", "CREDIT_NOTE"} -> Nat]
    /\ CoherentTenant(inv)

LEMMA TenantSteps ==
    ASSUME TenantInv, NEW h \in Handlers, NEW k \in TenantLocal, Stepping(h, k),
           DOMAIN adjustments \subseteq DOMAIN adjustments', TenantRecords',
           TenantSound(k)', aborts' \in Nat, aborts' = 0 => aborts = 0,
           TenantAloneAt(hs[h]) => TenantAloneAt(k)',
           aborts' = 0 /\ TenantAloneAt(hs[h]) /\ TenantExactAt(hs[h]) => TenantExactAt(k)'
    PROVE  TenantInv'
<1>1. hs \in [Handlers -> TenantLocal] /\ overlaps \in Nat /\ RestingIsResting
  BY DEF TenantInv, TenantBase, TenantTyped
<1>2. /\ hs'[h] = k /\ \A g \in Handlers \ {h} : hs'[g] = hs[g]
      /\ RestingIsResting' /\ overlaps' \in Nat
      /\ hs' \in [Handlers -> TenantLocal]
      /\ (overlaps = 0 => Lone) /\ overlaps' = 0
            => overlaps = 0 /\ Lone' /\ Current(hs[h]) /\ \A q : Current(q)' => q = k
  BY <1>1, Steps
<1>3. TenantBase'
  <2>1. TenantTyped'
    BY <1>2 DEF TenantRecords, TenantTyped
  <2>2. ASSUME NEW g \in Handlers PROVE TenantSound(hs[g])'
    <3>1. CASE g = h
      BY <1>2, <3>1 DEF TenantSound
    <3>2. CASE g # h
      <4>1. PICK q : q = hs[g]
        OBVIOUS
      <4>2. TenantSound(q)
        BY <4>1 DEF TenantInv, TenantBase
      <4>3. TenantSound(q)'
        BY <4>2 DEF TenantSound
      <4>4. hs'[g] = q
        BY <1>2, <3>2, <4>1
      <4> QED BY <4>3, <4>4 DEF TenantSound
    <3> QED BY <3>1, <3>2
  <2> QED BY <2>1, <2>2 DEF TenantBase, TenantRecords
<1>4. ASSUME overlaps' = 0
      PROVE  overlaps = 0 /\ Lone' /\ TenantAloneAt(hs[h]) /\ Current(hs[h]) /\ \A q : Current(q)' => q = k
  <2>1. overlaps = 0 => Lone
    BY DEF TenantInv, TenantAlone
  <2>2. overlaps = 0 /\ Lone' /\ Current(hs[h]) /\ \A q : Current(q)' => q = k
    BY <1>2, <1>4, <2>1
  <2> QED BY <2>2 DEF TenantInv, TenantAlone
<1>5. TenantAlone'
  <2> SUFFICES ASSUME overlaps' = 0
               PROVE  Lone' /\ \A q \in {Resting} \cup {hs'[g] : g \in Handlers} : Current(q)' => TenantAloneAt(q)'
    BY DEF TenantAlone
  <2> QED BY <1>4
<1>6. TenantExact'
  <2> SUFFICES ASSUME overlaps' = 0, aborts' = 0
               PROVE  \A q \in {Resting} \cup {hs'[g] : g \in Handlers} : Current(q)' => TenantExactAt(q)'
    BY DEF TenantExact
  <2>1. TenantExactAt(hs[h])
    BY <1>4 DEF TenantInv, TenantExact
  <2> QED BY <1>4, <2>1
<1> QED BY <1>3, <1>5, <1>6 DEF TenantInv

(* What is there before a step. *)
LEMMA TenantBefore ==
    ASSUME TenantInv, NEW h \in Handlers
    PROVE  /\ TenantTyped /\ TenantRecords /\ TenantSound(hs[h])
           /\ aborts \in Nat /\ hs[h] \in TenantLocal
           /\ inv.paid \in Nat /\ inv.refunded \in Nat /\ inv.chargeback \in Nat
           /\ ReceiptSum \in Int /\ RefundSum \in Int /\ ChargebackSum \in Int
<1>1. TenantTyped /\ TenantRecords /\ TenantSound(hs[h]) /\ aborts \in Nat /\ hs[h] \in TenantLocal
  BY DEF TenantInv, TenantBase, TenantTyped, TenantRecords
<1>2. inv.paid \in Nat /\ inv.refunded \in Nat /\ inv.chargeback \in Nat
  BY <1>1 DEF TenantRecords, TenantInvoice
<1> QED BY <1>1, <1>2, ReceiptTallies, AdjustmentTallies DEF TenantRecords

(* A step that writes nothing. *)
TenantReads == UNCHANGED <<inv, receipts, adjustments, notices, alerts, numbers>>

(* The handlers that have written or are about to.                          *)
Writing == {"issue.invoice", "issue.save", "ledger", "adjust.invoice", "dunning.notice", "alert"}

LEMMA TenantReading ==
    ASSUME TenantInv, NEW h \in Handlers, NEW k \in TenantLocal, Stepping(h, k), TenantReads, UNCHANGED aborts,
           TenantSound(k), hs[h].pc \notin Writing, k.pc \notin Writing,
           k.pc \in Copying => k.inv = inv \/ (hs[h].pc \in Copying /\ k.inv = hs[h].inv),
           k.pc = "number.write" => k.n = numbers[IF k.pay.kind = "RECEIPT" THEN "RECEIPT" ELSE "CREDIT_NOTE"] + 1,
           k.pc = "adjust.save" => k.pay.kind # "REFUND",
           k.pc \in Numbering /\ k.pay.kind = "RECEIPT" =>
              \/ \A i \in DOMAIN receipts : receipts[i].reference # k.pay.reference
              \/ hs[h].pc \in Numbering /\ k.pay = hs[h].pay,
           k.pc = "dunning.invoice" => \A i \in DOMAIN notices : notices[i].stage # k.pay.stage
    PROVE  TenantInv'
<1>0. UNCHANGED <<inv, receipts, adjustments, notices, alerts, numbers, aborts>>
  BY DEF TenantReads
<1>1. TenantRecords /\ aborts \in Nat
  BY TenantBefore
<1>2. TenantRecords' /\ DOMAIN adjustments \subseteq DOMAIN adjustments'
  BY <1>0, <1>1 DEF TenantRecords, CoherentTenant, Net
<1>3. TenantSound(k)'
  BY <1>0 DEF TenantSound
<1>4. ReceiptSum' = ReceiptSum /\ RefundSum' = RefundSum /\ ChargebackSum' = ChargebackSum
  BY <1>0, <1>1, ReceiptTallies, AdjustmentTallies DEF TenantRecords
<1>5. /\ ToRecord(hs[h]) = 0 /\ ToRecord(k) = 0 /\ ToRecord(k)' = 0
      /\ \A kind : ToReturn(hs[h], kind) = 0 /\ ToReturn(k, kind)' = 0
  BY DEF ToRecord, ToReturn, Writing
<1>6. ASSUME TenantAloneAt(hs[h]) PROVE TenantAloneAt(k)'
  <2>1. k.pc \in Copying => k.inv = inv'
    BY <1>0, <1>6 DEF TenantAloneAt
  <2>2. NumbersAt(k)'
    BY <1>0, <1>6 DEF TenantAloneAt, NumbersAt, IsKind, Writing
  <2>3. DistinctAt(k)'
    <3>1. k.pc \in Numbering \cup {"issue.invoice", "issue.save"} /\ k.pay.kind = "RECEIPT" =>
              \A i \in DOMAIN receipts : receipts[i].reference # k.pay.reference
      BY <1>6 DEF TenantAloneAt, DistinctAt, Writing
    <3> QED BY <1>0, <1>6, <3>1 DEF TenantAloneAt, DistinctAt, Writing
  <2> QED BY <1>0, <1>4, <1>5, <1>6, <2>1, <2>2, <2>3 DEF TenantAloneAt
<1>7. ASSUME TenantExactAt(hs[h]) PROVE TenantExactAt(k)'
  <2>1. hs[h].pc \notin {"ledger", "adjust.invoice", "alert"} /\ k.pc \notin {"ledger", "adjust.invoice", "alert"}
    BY DEF Writing
  <2> QED BY <1>0, <1>4, <1>5, <1>7, <2>1 DEF TenantExactAt
<1> QED BY <1>0, <1>1, <1>2, <1>3, <1>6, <1>7, TenantSteps

(* Nothing is left to do. *)
LEMMA TenantRests ==
    ASSUME TenantInv, NEW h \in Handlers, hs[h].pc \notin Writing, hs[h].pc # "idle",
           UNCHANGED <<overlaps, aborts>>, TenantReads, Stop(h)
    PROVE  TenantInv'
<1>1. Resting \in TenantLocal /\ Resting.pc = "idle" /\ TenantSound(Resting) /\ Stepping(h, Resting)
  BY TenantRestingTyped DEF Stop, Stepping
<1> QED BY <1>1, TenantReading DEF Writing, Copying, Numbering

(* The requests begin. *)
LEMMA Enters ==
    ASSUME TenantInv, NEW h \in Handlers, NEW pc \in TenantPCs \ {"idle"}, NEW t \in Tasks, Enter(h, pc, t)
    PROVE  /\ UNCHANGED aborts /\ hs[h].pc = "idle"
           /\ \E k \in TenantLocal : Stepping(h, k) /\ k.pc = pc /\ k.inv = inv /\ k.pay = t
<1> DEFINE k == [Resting EXCEPT !.pc = pc, !.inv = inv, !.pay = t]
<1>0. inv \in TenantInvoice
  BY TenantBefore DEF TenantRecords
<1>1. k \in TenantLocal /\ k.pc = pc /\ k.inv = inv /\ k.pay = t
  <2>1. Resting \in TenantLocal
    BY TenantRestingTyped
  <2> QED BY <1>0, <2>1 DEF TenantLocal
<1>2. Begin(h, k)
  BY DEF Enter
<1> HIDE DEF k
<1> QED BY <1>1, <1>2, Begins

LEMMA IssueLoadKeeps == ASSUME TenantInv, NEW h \in Handlers, IssueLoad(h) PROVE TenantInv'
<1>1. PICK r \in References, amount \in 1..Total :
          Enter(h, "issue.check", [kind |-> "RECEIPT", reference |-> r, amount |-> amount])
  BY DEF IssueLoad
<1>2. PICK t : t = [kind |-> "RECEIPT", reference |-> r, amount |-> amount]
  OBVIOUS
<1>3. amount \in Nat
  BY TotalAssumption
<1>4. t \in ReceiptTask /\ t \in Tasks /\ t \notin AdjustTask
  BY <1>2, <1>3 DEF Tasks, ReceiptTask, AdjustTask
<1>5. UNCHANGED aborts /\ hs[h].pc = "idle" /\ TenantReads
  BY <1>1, <1>2, <1>4, Enters DEF IssueLoad, TenantReads, TenantPCs
<1>6. PICK k \in TenantLocal : Stepping(h, k) /\ k.pc = "issue.check" /\ k.inv = inv /\ k.pay = t
  BY <1>1, <1>2, <1>4, Enters DEF TenantPCs
<1>7. TenantSound(k)
  BY <1>4, <1>6, TenantBefore
     DEF TenantSound, TenantRecords, Copying, Numbering, Issuing, Adjusting, Dunning
<1> QED BY <1>5, <1>6, <1>7, TenantReading DEF Writing, Numbering

LEMMA AdjustLoadKeeps == ASSUME TenantInv, NEW h \in Handlers, AdjustLoad(h) PROVE TenantInv'
<1>1. PICK kind \in {"REFUND", "CHARGEBACK"}, amount \in 1..Total :
          /\ amount <= availableAdjustmentAmount(inv)
          /\ Enter(h, IF kind = "REFUND" THEN "number.read" ELSE "adjust.save",
                   [kind |-> kind, amount |-> amount])
  BY DEF AdjustLoad
<1>2. PICK t : t = [kind |-> kind, amount |-> amount]
  OBVIOUS
<1>3. PICK pc : pc = IF kind = "REFUND" THEN "number.read" ELSE "adjust.save"
  OBVIOUS
<1>4. amount \in Nat /\ amount > 0 /\ amount <= Net(inv) /\ pc \in TenantPCs \ {"idle"}
  BY <1>1, <1>3, TotalAssumption DEF availableAdjustmentAmount, TenantPCs
<1>5. t \in AdjustTask /\ t \in Tasks /\ t.kind = kind /\ t.amount = amount
  BY <1>2, <1>4 DEF Tasks, AdjustTask
<1>6. UNCHANGED aborts /\ hs[h].pc = "idle" /\ TenantReads
  BY <1>1, <1>2, <1>3, <1>4, <1>5, Enters DEF AdjustLoad, TenantReads
<1>7. PICK k \in TenantLocal : Stepping(h, k) /\ k.pc = pc /\ k.inv = inv /\ k.pay = t
  BY <1>1, <1>2, <1>3, <1>4, <1>5, Enters
<1>8. TenantSound(k)
  BY <1>3, <1>4, <1>5, <1>7, TenantBefore
     DEF TenantSound, TenantRecords, Copying, Numbering, Issuing, Adjusting, Dunning
<1> QED BY <1>3, <1>5, <1>6, <1>7, <1>8, TenantReading DEF Writing, Numbering

LEMMA DunningLoadKeeps == ASSUME TenantInv, NEW h \in Handlers, DunningLoad(h) PROVE TenantInv'
<1>1. PICK t : t = [kind |-> "DUNNING", stage |-> getDunningNoticeDecision(day)]
  OBVIOUS
<1>2. Enter(h, "dunning.check", t) /\ TenantReads /\ inv.due > 0 /\ getDunningNoticeDecision(day) \in Stages
  BY <1>1, StageOf DEF DunningLoad, TenantReads
<1>3. t \in DunningTask /\ t \in Tasks /\ t \notin AdjustTask
  BY <1>1, <1>2 DEF Tasks, DunningTask, AdjustTask
<1>4. UNCHANGED aborts /\ hs[h].pc = "idle"
  BY <1>2, <1>3, Enters DEF TenantPCs
<1>5. PICK k \in TenantLocal : Stepping(h, k) /\ k.pc = "dunning.check" /\ k.inv = inv /\ k.pay = t
  BY <1>2, <1>3, Enters DEF TenantPCs
<1>6. TenantSound(k)
  BY <1>2, <1>3, <1>5, TenantBefore
     DEF TenantSound, TenantRecords, Copying, Numbering, Issuing, Adjusting, Dunning
<1> QED BY <1>2, <1>4, <1>5, <1>6, TenantReading DEF Writing, Numbering

(* The requests look. *)
LEMMA IssueCheckKeeps == ASSUME TenantInv, NEW h \in Handlers, IssueCheck(h) PROVE TenantInv'
<1>1. TenantTyped /\ TenantSound(hs[h])
  BY TenantBefore
<1>2. /\ hs[h].pc = "issue.check" /\ TenantReads /\ UNCHANGED <<overlaps, aborts>>
      /\ IF \E i \in DOMAIN receipts : receipts[i].reference = Task(h).reference
         THEN Stop(h) ELSE Move(h, "number.read")
  BY DEF IssueCheck, TenantReads, counters
<1>3. CASE Stop(h)
  BY <1>2, <1>3, TenantRests DEF Writing
<1>4. CASE Move(h, "number.read") /\ \A i \in DOMAIN receipts : receipts[i].reference # hs[h].pay.reference
  <2>1. PICK k \in TenantLocal : /\ Stepping(h, k) /\ k.pc = "number.read" /\ k.inv = hs[h].inv
                                 /\ k.pay = hs[h].pay
    BY <1>1, <1>2, <1>4, TenantMoves DEF TenantPCs
  <2>2. hs[h].pc \in Copying /\ hs[h].pc \in Issuing
    BY <1>2 DEF Copying, Issuing, TenantPCs
  <2>3. TenantSound(k)
    <3>1. k.pay \in ReceiptTask /\ k.pay \notin AdjustTask
      BY <1>1, <2>1, <2>2 DEF TenantSound, ReceiptTask, AdjustTask
    <3> QED BY <1>1, <1>2, <2>1, <2>2, <3>1
            DEF TenantSound, Copying, Numbering, Issuing, Adjusting, Dunning
  <2> QED BY <1>2, <1>4, <2>1, <2>2, <2>3, TenantReading DEF Writing, Numbering
<1> QED BY <1>2, <1>3, <1>4 DEF Task

LEMMA NumberReadKeeps == ASSUME TenantInv, NEW h \in Handlers, NumberRead(h) PROVE TenantInv'
<1>1. TenantTyped /\ TenantSound(hs[h]) /\ hs[h] \in TenantLocal /\ numbers \in [{"RECEIPT", "CREDIT_NOTE"} -> Nat]
  BY TenantBefore DEF TenantRecords
<1>2. PICK n : n = numbers[Document(h)] + 1
  OBVIOUS
<1>3. PICK k : k = [hs[h] EXCEPT !.pc = "number.write", !.n = n]
  OBVIOUS
<1>4. hs[h].pc = "number.read" /\ TenantReads /\ UNCHANGED <<overlaps, aborts>> /\ Update(h, k)
  BY <1>2, <1>3 DEF NumberRead, TenantReads, counters
<1>5. n \in Nat /\ n = numbers[IF hs[h].pay.kind = "RECEIPT" THEN "RECEIPT" ELSE "CREDIT_NOTE"] + 1
  BY <1>1, <1>2 DEF Document, Task
<1>6. k \in TenantLocal /\ k.pc = "number.write" /\ k.inv = hs[h].inv /\ k.pay = hs[h].pay /\ k.n = n
  BY <1>1, <1>3, <1>5 DEF TenantLocal, TenantPCs
<1>7. Stepping(h, k)
  BY <1>4, <1>6 DEF Stepping
<1>8. hs[h].pc \in Copying /\ hs[h].pc \in Numbering
  BY <1>4 DEF Copying, Numbering, TenantPCs
<1>9. TenantSound(k)
  BY <1>1, <1>4, <1>6, <1>8 DEF TenantSound, Copying, Numbering, Issuing, Adjusting, Dunning
<1> QED BY <1>4, <1>5, <1>6, <1>7, <1>8, <1>9, TenantReading DEF Writing, Numbering

LEMMA DunningCheckKeeps == ASSUME TenantInv, NEW h \in Handlers, DunningCheck(h) PROVE TenantInv'
<1>1. TenantTyped /\ TenantSound(hs[h])
  BY TenantBefore
<1>2. /\ hs[h].pc = "dunning.check" /\ TenantReads /\ UNCHANGED <<overlaps, aborts>>
      /\ IF \E i \in DOMAIN notices : notices[i].stage = Task(h).stage
         THEN Stop(h) ELSE Move(h, "dunning.invoice")
  BY DEF DunningCheck, TenantReads, counters
<1>3. CASE Stop(h)
  BY <1>2, <1>3, TenantRests DEF Writing
<1>4. CASE Move(h, "dunning.invoice") /\ \A i \in DOMAIN notices : notices[i].stage # hs[h].pay.stage
  <2>1. PICK k \in TenantLocal : /\ Stepping(h, k) /\ k.pc = "dunning.invoice" /\ k.inv = hs[h].inv
                                 /\ k.pay = hs[h].pay
    BY <1>1, <1>2, <1>4, TenantMoves DEF TenantPCs
  <2>2. hs[h].pc \in Copying /\ hs[h].pc \in Dunning
    BY <1>2 DEF Copying, Dunning, TenantPCs
  <2>3. TenantSound(k)
    BY <1>1, <1>2, <2>1, <2>2 DEF TenantSound, Copying, Numbering, Issuing, Adjusting, Dunning
  <2> QED BY <1>2, <1>4, <2>1, <2>2, <2>3, TenantReading DEF Writing, Numbering
<1> QED BY <1>2, <1>3, <1>4 DEF Task

(* The number is taken for good. *)
LEMMA NumberWriteKeeps == ASSUME TenantInv, NEW h \in Handlers, NumberWrite(h) PROVE TenantInv'
<1>1. /\ TenantTyped /\ TenantRecords /\ TenantSound(hs[h]) /\ hs[h] \in TenantLocal /\ aborts \in Nat
      /\ ReceiptSum \in Int /\ RefundSum \in Int /\ ChargebackSum \in Int
  BY TenantBefore
<1>2. /\ hs[h].pc = "number.write" /\ UNCHANGED <<inv, receipts, adjustments, notices, alerts, overlaps, aborts>>
      /\ numbers' = [numbers EXCEPT ![Document(h)] = hs[h].n]
      /\ Move(h, IF Task(h).kind = "RECEIPT" THEN "issue.invoice" ELSE "adjust.save")
  BY DEF NumberWrite, counters
<1>3. PICK t : t = hs[h].pay
  OBVIOUS
<1>4. PICK pc : pc = IF t.kind = "RECEIPT" THEN "issue.invoice" ELSE "adjust.save"
  OBVIOUS
<1>5. PICK k \in TenantLocal : /\ Stepping(h, k) /\ k.pc = pc /\ k.inv = hs[h].inv
                               /\ k.pay = t /\ k.id = hs[h].id /\ k.n = hs[h].n
  <2>1. pc \in TenantPCs \ {"idle"} /\ Move(h, pc)
    BY <1>2, <1>3, <1>4 DEF TenantPCs, Task
  <2> QED BY <1>1, <1>2, <1>3, <2>1, TenantMoves
<1>6. hs[h].pc \in Copying /\ hs[h].pc \in Numbering /\ hs[h].pc # "idle"
  BY <1>2 DEF Copying, Numbering, TenantPCs
<1>7. /\ t \in Tasks /\ k.inv \in TenantInvoice /\ CoherentTenant(k.inv)
      /\ t \in ReceiptTask \/ (t \in AdjustTask /\ t.kind = "REFUND")
      /\ t \in AdjustTask => t.amount <= Net(k.inv) /\ t.amount > 0
  BY <1>1, <1>3, <1>5, <1>6 DEF TenantSound
<1>8. /\ t.kind = "RECEIPT" => t \in ReceiptTask /\ t \notin AdjustTask /\ pc = "issue.invoice"
      /\ t.kind # "RECEIPT" => t.kind = "REFUND" /\ t \in AdjustTask /\ pc = "adjust.save"
  BY <1>4, <1>7, TasksDiffer
<1>9. TenantSound(k)
  BY <1>5, <1>7, <1>8 DEF TenantSound, Copying, Numbering, Issuing, Adjusting, Dunning
<1>10. TenantSound(k)'
  BY <1>2, <1>9 DEF TenantSound
<1>11. PICK doc : doc = IF t.kind = "RECEIPT" THEN "RECEIPT" ELSE "CREDIT_NOTE"
  OBVIOUS
<1>12. /\ numbers' = [numbers EXCEPT ![doc] = k.n] /\ k.n \in Nat
       /\ numbers \in [{"RECEIPT", "CREDIT_NOTE"} -> Nat]
  BY <1>1, <1>2, <1>3, <1>5, <1>11 DEF Document, Task, TenantRecords, TenantLocal
<1>13. TenantRecords'
  BY <1>1, <1>2, <1>12 DEF TenantRecords, CoherentTenant, Net
<1>14. ReceiptSum' = ReceiptSum /\ RefundSum' = RefundSum /\ ChargebackSum' = ChargebackSum
  BY <1>1, <1>2, ReceiptTallies, AdjustmentTallies DEF TenantRecords
<1>15. /\ ToRecord(hs[h]) = 0 /\ ToRecord(k)' = 0
       /\ \A kind : ToReturn(hs[h], kind) = 0 /\ ToReturn(k, kind)' = 0
  BY <1>2, <1>5, <1>8 DEF ToRecord, ToReturn
<1>16. ASSUME TenantAloneAt(hs[h]) PROVE TenantAloneAt(k)'
  <2>1. k.inv = inv'
    BY <1>2, <1>5, <1>6, <1>16 DEF TenantAloneAt
  <2>2. k.n = numbers[doc] + 1 /\ numbers["RECEIPT"] \in Nat /\ numbers["CREDIT_NOTE"] \in Nat
    BY <1>2, <1>3, <1>5, <1>11, <1>12, <1>16 DEF TenantAloneAt, NumbersAt
  <2>3. /\ \A i \in DOMAIN receipts : receipts[i].number <= numbers["RECEIPT"] /\ receipts[i].number \in Nat
        /\ \A i \in IsKind("REFUND") :
              adjustments[i].number <= numbers["CREDIT_NOTE"] /\ adjustments[i].number \in Nat
    <3>1. /\ \A i \in DOMAIN receipts : receipts[i] \in TenantReceipt
          /\ \A i \in DOMAIN adjustments : adjustments[i] \in Adjustment
      BY <1>1 DEF TenantRecords
    <3>2. /\ \A i \in DOMAIN receipts : receipts[i].number \in Nat
          /\ \A i \in DOMAIN adjustments : adjustments[i].number \in Nat
      BY <3>1 DEF TenantReceipt, Adjustment
    <3> QED BY <1>16, <3>2 DEF TenantAloneAt, NumbersAt, IsKind
  <2>4. /\ numbers'["RECEIPT"] = (IF t.kind = "RECEIPT" THEN k.n ELSE numbers["RECEIPT"])
        /\ numbers'["CREDIT_NOTE"] = (IF t.kind = "RECEIPT" THEN numbers["CREDIT_NOTE"] ELSE k.n)
    BY <1>11, <1>12
  <2>5. NumbersAt(k)'
    <3>1. /\ \A i \in DOMAIN receipts : receipts[i].number <= numbers'["RECEIPT"]
          /\ \A i \in IsKind("REFUND") : adjustments[i].number <= numbers'["CREDIT_NOTE"]
      BY <1>11, <2>2, <2>3, <2>4
    <3>2. k.pc \in {"issue.invoice", "issue.save"} =>
              k.n <= numbers'["RECEIPT"] /\ \A i \in DOMAIN receipts : receipts[i].number < k.n
      BY <1>5, <1>8, <1>11, <2>2, <2>3, <2>4
    <3>3. k.pc = "adjust.save" =>
              k.n <= numbers'["CREDIT_NOTE"] /\ \A i \in IsKind("REFUND") : adjustments[i].number < k.n
      BY <1>5, <1>8, <1>11, <2>2, <2>3, <2>4
    <3>4. k.pc # "number.write"
      BY <1>5, <1>8
    <3> QED BY <1>2, <1>16, <3>1, <3>2, <3>3, <3>4 DEF TenantAloneAt, NumbersAt, IsKind
  <2>6. DistinctAt(k)'
    BY <1>2, <1>3, <1>5, <1>6, <1>8, <1>16 DEF TenantAloneAt, DistinctAt
  <2> QED BY <1>2, <1>14, <1>15, <1>16, <2>1, <2>5, <2>6 DEF TenantAloneAt
<1>17. ASSUME TenantExactAt(hs[h]) PROVE TenantExactAt(k)'
  BY <1>2, <1>5, <1>8, <1>14, <1>15, <1>17 DEF TenantExactAt
<1> QED BY <1>1, <1>2, <1>5, <1>10, <1>13, <1>16, <1>17, TenantSteps

(* The invoice is written. *)
LEMMA IssueInvoiceKeeps == ASSUME TenantInv, NEW h \in Handlers, IssueInvoice(h) PROVE TenantInv'
<1>1. /\ TenantTyped /\ TenantRecords /\ TenantSound(hs[h]) /\ hs[h] \in TenantLocal /\ aborts \in Nat
      /\ ReceiptSum \in Int /\ RefundSum \in Int /\ ChargebackSum \in Int
      /\ inv.paid \in Nat /\ inv.refunded \in Nat /\ inv.chargeback \in Nat
  BY TenantBefore
<1>2. /\ hs[h].pc = "issue.invoice" /\ Move(h, "issue.save")
      /\ UNCHANGED <<receipts, adjustments, notices, alerts, numbers, overlaps, aborts>>
      /\ inv' = Received(hs[h].inv, Task(h).amount)
  BY DEF IssueInvoice, counters
<1>3. PICK t : t = hs[h].pay
  OBVIOUS
<1>4. PICK i : i = hs[h].inv
  OBVIOUS
<1>5. PICK k \in TenantLocal : /\ Stepping(h, k) /\ k.pc = "issue.save" /\ k.inv = i
                               /\ k.pay = t /\ k.id = hs[h].id /\ k.n = hs[h].n
  BY <1>1, <1>2, <1>3, <1>4, TenantMoves DEF TenantPCs
<1>6. hs[h].pc \in Copying /\ hs[h].pc \in Issuing /\ hs[h].pc # "idle"
  BY <1>2 DEF Copying, Issuing, TenantPCs
<1>7. t \in Tasks /\ i \in TenantInvoice /\ CoherentTenant(i) /\ t \in ReceiptTask
  BY <1>1, <1>3, <1>4, <1>6 DEF TenantSound
<1>8. t.amount \in Nat /\ t.kind = "RECEIPT" /\ t \notin AdjustTask
  BY <1>7, TasksDiffer
<1>9. /\ inv' \in TenantInvoice /\ CoherentTenant(inv') /\ inv'.paid = i.paid + t.amount
      /\ inv'.refunded = i.refunded /\ inv'.chargeback = i.chargeback
  <2>1. inv' = Received(i, t.amount)
    BY <1>2, <1>3, <1>4 DEF Task
  <2> QED BY <1>7, <1>8, <2>1, ReceivedIs
<1>10. TenantSound(k)
  BY <1>5, <1>7, <1>8 DEF TenantSound, Copying, Numbering, Issuing, Adjusting, Dunning
<1>11. TenantSound(k)'
  BY <1>2, <1>10 DEF TenantSound
<1>12. TenantRecords'
  BY <1>1, <1>2, <1>9 DEF TenantRecords
<1>13. ReceiptSum' = ReceiptSum /\ RefundSum' = RefundSum /\ ChargebackSum' = ChargebackSum
  BY <1>1, <1>2, ReceiptTallies, AdjustmentTallies DEF TenantRecords
<1>14. /\ ToRecord(hs[h]) = 0 /\ ToRecord(k)' = t.amount
       /\ \A kind : ToReturn(hs[h], kind) = 0 /\ ToReturn(k, kind)' = 0
  BY <1>2, <1>5 DEF ToRecord, ToReturn
<1>15. k.pc \notin Copying
  BY <1>5 DEF Copying
<1>16. ASSUME TenantAloneAt(hs[h]) PROVE TenantAloneAt(k)' /\ i = inv
  <2>1. i = inv
    BY <1>4, <1>6, <1>16 DEF TenantAloneAt
  <2>2. NumbersAt(k)'
    BY <1>2, <1>5, <1>16 DEF TenantAloneAt, NumbersAt, IsKind
  <2>3. DistinctAt(k)'
    BY <1>2, <1>3, <1>5, <1>8, <1>16 DEF TenantAloneAt, DistinctAt, Numbering
  <2>4. /\ ReceiptSum' + ToRecord(k)' <= inv'.paid
        /\ inv'.refunded + ToReturn(k, "REFUND")' <= RefundSum'
        /\ inv'.chargeback + ToReturn(k, "CHARGEBACK")' <= ChargebackSum'
    BY <1>1, <1>8, <1>9, <1>13, <1>14, <1>16, <2>1 DEF TenantAloneAt
  <2> QED BY <1>15, <2>1, <2>2, <2>3, <2>4 DEF TenantAloneAt
<1>17. ASSUME TenantAloneAt(hs[h]), TenantExactAt(hs[h]) PROVE TenantExactAt(k)'
  <2>1. i = inv
    BY <1>16, <1>17
  <2>2. /\ ReceiptSum' + ToRecord(k)' = inv'.paid
        /\ inv'.refunded + ToReturn(k, "REFUND")' = RefundSum'
        /\ inv'.chargeback + ToReturn(k, "CHARGEBACK")' = ChargebackSum'
    BY <1>1, <1>8, <1>9, <1>13, <1>14, <1>17, <2>1 DEF TenantExactAt
  <2> QED BY <1>2, <1>5, <1>17, <2>2 DEF TenantExactAt
<1> QED BY <1>1, <1>2, <1>5, <1>11, <1>12, <1>16, <1>17, TenantSteps

(* The receipt follows. *)
LEMMA IssueSaveKeeps == ASSUME TenantInv, NEW h \in Handlers, IssueSave(h) PROVE TenantInv'
<1>1. /\ TenantTyped /\ TenantRecords /\ TenantSound(hs[h]) /\ hs[h] \in TenantLocal /\ aborts \in Nat
      /\ ReceiptSum \in Int /\ RefundSum \in Int /\ ChargebackSum \in Int
      /\ inv.paid \in Nat /\ inv.refunded \in Nat /\ inv.chargeback \in Nat
  BY TenantBefore
<1>2. PICK t : t = hs[h].pay
  OBVIOUS
<1>3. PICK n : n = hs[h].n
  OBVIOUS
<1>4. PICK r : r = [reference |-> t.reference, number |-> n, amount |-> t.amount]
  OBVIOUS
<1>5. /\ hs[h].pc = "issue.save" /\ Stop(h) /\ receipts' = Append(receipts, r)
      /\ UNCHANGED <<inv, adjustments, notices, alerts, numbers, overlaps, aborts>>
  BY <1>2, <1>3, <1>4 DEF IssueSave, counters, Task
<1>6. hs[h].pc \in Issuing /\ hs[h].pc # "idle"
  BY <1>5 DEF Issuing
<1>7. t \in ReceiptTask /\ n \in Nat
  BY <1>1, <1>2, <1>3, <1>6 DEF TenantSound, TenantLocal
<1>8. t.amount \in Nat /\ t.kind = "RECEIPT" /\ t.reference \in References
  BY <1>7, TasksDiffer
<1>9. r \in TenantReceipt /\ r.reference = t.reference /\ r.number = n /\ r.amount = t.amount
  BY <1>4, <1>7, <1>8 DEF TenantReceipt
<1>10. PICK k \in TenantLocal : Stepping(h, k) /\ k.pc = "idle"
  BY <1>5, <1>6, TenantStops
<1>11. TenantSound(k)'
  BY <1>10 DEF TenantSound, Copying, Numbering, Issuing, Adjusting, Dunning
<1>12. TenantRecords'
  BY <1>1, <1>5, <1>9 DEF TenantRecords, CoherentTenant, Net
<1>13. ReceiptSum' = ReceiptSum + t.amount /\ RefundSum' = RefundSum /\ ChargebackSum' = ChargebackSum
  BY <1>1, <1>5, <1>9, ReceiptTallies, AdjustmentTallies DEF TenantRecords
<1>14. /\ ToRecord(hs[h]) = t.amount /\ ToRecord(k)' = 0
       /\ \A kind : ToReturn(hs[h], kind) = 0 /\ ToReturn(k, kind)' = 0
  BY <1>2, <1>5, <1>10 DEF ToRecord, ToReturn
<1>15. /\ DOMAIN receipts' = DOMAIN receipts \cup {Len(receipts) + 1}
       /\ Len(receipts) + 1 \notin DOMAIN receipts /\ receipts'[Len(receipts) + 1] = r
       /\ \A i \in DOMAIN receipts : receipts'[i] = receipts[i]
  BY <1>1, <1>5, <1>9 DEF TenantRecords
<1>16. ASSUME TenantAloneAt(hs[h]) PROVE TenantAloneAt(k)'
  <2>1. /\ n <= numbers["RECEIPT"]
        /\ \A i \in DOMAIN receipts : receipts[i].number < n /\ receipts[i].reference # t.reference
        /\ \A i \in DOMAIN receipts : receipts[i].number \in Nat
    <3>1. \A i \in DOMAIN receipts : receipts[i] \in TenantReceipt
      BY <1>1 DEF TenantRecords
    <3> QED BY <1>2, <1>3, <1>5, <1>8, <1>16, <3>1 DEF TenantAloneAt, NumbersAt, DistinctAt, TenantReceipt
  <2>2. /\ \A i \in DOMAIN receipts' : receipts'[i].number <= numbers["RECEIPT"]
        /\ \A i, j \in DOMAIN receipts' : i # j =>
              receipts'[i].number # receipts'[j].number /\ receipts'[i].reference # receipts'[j].reference
    <3>1. \A i \in DOMAIN receipts' :
              \/ i \in DOMAIN receipts /\ receipts'[i] = receipts[i]
              \/ i = Len(receipts) + 1 /\ receipts'[i] = r
      BY <1>15
    <3>2. \A i \in DOMAIN receipts : receipts[i].number <= numbers["RECEIPT"]
      BY <1>16 DEF TenantAloneAt, NumbersAt
    <3>3. \A i, j \in DOMAIN receipts : i # j =>
              receipts[i].number # receipts[j].number /\ receipts[i].reference # receipts[j].reference
      BY <1>16 DEF TenantAloneAt, NumbersAt, DistinctAt
    <3>4. \A i \in DOMAIN receipts : receipts[i].number # r.number /\ receipts[i].reference # r.reference
      BY <1>7, <1>9, <2>1
    <3> QED BY <1>9, <2>1, <3>1, <3>2, <3>3, <3>4
  <2>3. NumbersAt(k)'
    BY <1>5, <1>10, <1>16, <2>2 DEF TenantAloneAt, NumbersAt, IsKind
  <2>4. DistinctAt(k)'
    BY <1>5, <1>10, <1>16, <2>2 DEF TenantAloneAt, DistinctAt, Numbering
  <2>5. /\ ReceiptSum' + ToRecord(k)' <= inv'.paid
        /\ inv'.refunded + ToReturn(k, "REFUND")' <= RefundSum'
        /\ inv'.chargeback + ToReturn(k, "CHARGEBACK")' <= ChargebackSum'
    BY <1>1, <1>5, <1>8, <1>13, <1>14, <1>16 DEF TenantAloneAt
  <2> QED BY <1>10, <2>3, <2>4, <2>5 DEF TenantAloneAt, Copying
<1>17. ASSUME TenantExactAt(hs[h]) PROVE TenantExactAt(k)'
  <2>1. /\ ReceiptSum' + ToRecord(k)' = inv'.paid
        /\ inv'.refunded + ToReturn(k, "REFUND")' = RefundSum'
        /\ inv'.chargeback + ToReturn(k, "CHARGEBACK")' = ChargebackSum'
    BY <1>1, <1>5, <1>8, <1>13, <1>14, <1>17 DEF TenantExactAt
  <2> QED BY <1>5, <1>10, <1>17, <2>1 DEF TenantExactAt
<1> QED BY <1>1, <1>5, <1>10, <1>11, <1>12, <1>16, <1>17, TenantSteps

(* The adjustment is recorded before the invoice shows it. *)
LEMMA AdjustSaveKeeps == ASSUME TenantInv, NEW h \in Handlers, AdjustSave(h) PROVE TenantInv'
<1>1. /\ TenantTyped /\ TenantRecords /\ TenantSound(hs[h]) /\ hs[h] \in TenantLocal /\ aborts \in Nat
      /\ ReceiptSum \in Int /\ RefundSum \in Int /\ ChargebackSum \in Int
      /\ inv.paid \in Nat /\ inv.refunded \in Nat /\ inv.chargeback \in Nat
  BY TenantBefore
<1>2. PICK t : t = hs[h].pay
  OBVIOUS
<1>3. PICK n : n = hs[h].n
  OBVIOUS
<1>4. PICK a : a = [kind |-> t.kind, amount |-> t.amount, number |-> n, entries |-> 0]
  OBVIOUS
<1>5. PICK m : m = Len(adjustments) + 1
  OBVIOUS
<1>6. PICK k : k = [hs[h] EXCEPT !.pc = "ledger", !.id = m]
  OBVIOUS
<1>7. /\ hs[h].pc = "adjust.save" /\ Update(h, k) /\ adjustments' = Append(adjustments, a)
      /\ UNCHANGED <<inv, receipts, notices, alerts, numbers, overlaps, aborts>>
  BY <1>2, <1>3, <1>4, <1>5, <1>6 DEF AdjustSave, counters, Task
<1>8. hs[h].pc \in Adjusting /\ hs[h].pc # "idle" /\ hs[h].pc \in Copying
  BY <1>7 DEF Adjusting, Copying, TenantPCs
<1>9. /\ t \in AdjustTask /\ n \in Nat /\ hs[h].inv \in TenantInvoice /\ CoherentTenant(hs[h].inv)
      /\ t \in Tasks /\ t.amount <= Net(hs[h].inv) /\ t.amount > 0
  BY <1>1, <1>2, <1>3, <1>8 DEF TenantSound, TenantLocal
<1>10. t.amount \in Nat /\ t.kind \in {"REFUND", "CHARGEBACK"}
  BY <1>9, TasksDiffer
<1>11. a \in Adjustment /\ a.kind = t.kind /\ a.number = n /\ a.amount = t.amount /\ a.entries = 0
  BY <1>4, <1>9, <1>10 DEF Adjustment
<1>12. /\ DOMAIN adjustments' = DOMAIN adjustments \cup {m} /\ m \notin DOMAIN adjustments
       /\ adjustments'[m] = a /\ m \in Nat /\ adjustments' \in Seq(Adjustment)
       /\ \A i \in DOMAIN adjustments : adjustments'[i] = adjustments[i]
  BY <1>1, <1>5, <1>7, <1>11 DEF TenantRecords
<1>13. /\ k \in TenantLocal /\ k.pc = "ledger" /\ k.inv = hs[h].inv /\ k.pay = t /\ k.id = m
  BY <1>1, <1>2, <1>6, <1>12 DEF TenantLocal, TenantPCs
<1>14. Stepping(h, k)
  BY <1>7, <1>8, <1>13 DEF Stepping
<1>15. TenantSound(k)'
  BY <1>9, <1>12, <1>13 DEF TenantSound, Copying, Numbering, Issuing, Adjusting, Dunning
<1>16. TenantRecords'
  BY <1>1, <1>7, <1>12 DEF TenantRecords, CoherentTenant, Net
<1>17. /\ ReceiptSum' = ReceiptSum
       /\ RefundSum' = RefundSum + (IF t.kind = "REFUND" THEN t.amount ELSE 0)
       /\ ChargebackSum' = ChargebackSum + (IF t.kind = "CHARGEBACK" THEN t.amount ELSE 0)
  BY <1>1, <1>7, <1>11, ReceiptTallies, AdjustmentTallies DEF TenantRecords
<1>18. /\ ToRecord(hs[h]) = 0 /\ ToRecord(k)' = 0
       /\ \A kind : ToReturn(hs[h], kind) = 0 /\ ToReturn(k, kind)' = IF t.kind = kind THEN t.amount ELSE 0
  BY <1>7, <1>13 DEF ToRecord, ToReturn
<1>19. ASSUME TenantAloneAt(hs[h]) PROVE TenantAloneAt(k)'
  <2>1. k.inv = inv'
    BY <1>7, <1>8, <1>13, <1>19 DEF TenantAloneAt
  <2>2. /\ \A i \in IsKind("REFUND")' : adjustments'[i].number <= numbers["CREDIT_NOTE"]
        /\ \A i, j \in IsKind("REFUND")' : i # j => adjustments'[i].number # adjustments'[j].number
    <3>1. \A i \in IsKind("REFUND")' :
              \/ i \in IsKind("REFUND") /\ adjustments'[i] = adjustments[i]
              \/ i = m /\ adjustments'[i] = a /\ t.kind = "REFUND"
      BY <1>11, <1>12 DEF IsKind
    <3>2. \A i \in IsKind("REFUND") : adjustments[i].number <= numbers["CREDIT_NOTE"]
      BY <1>19 DEF TenantAloneAt, NumbersAt
    <3>3. \A i, j \in IsKind("REFUND") : i # j => adjustments[i].number # adjustments[j].number
      BY <1>19 DEF TenantAloneAt, NumbersAt
    <3>4. t.kind = "REFUND" =>
              n <= numbers["CREDIT_NOTE"] /\ \A i \in IsKind("REFUND") : adjustments[i].number < n
      BY <1>2, <1>3, <1>7, <1>19 DEF TenantAloneAt, NumbersAt
    <3>5. \A i \in IsKind("REFUND") : adjustments[i].number \in Nat
      <4>1. \A i \in DOMAIN adjustments : adjustments[i] \in Adjustment
        BY <1>1 DEF TenantRecords
      <4> QED BY <4>1 DEF IsKind, Adjustment
    <3>6. t.kind = "REFUND" => \A i \in IsKind("REFUND") : adjustments[i].number # n
      BY <1>9, <3>4, <3>5
    <3> QED BY <1>11, <3>1, <3>2, <3>3, <3>4, <3>6
  <2>3. NumbersAt(k)'
    BY <1>7, <1>13, <1>19, <2>2 DEF TenantAloneAt, NumbersAt
  <2>4. DistinctAt(k)'
    BY <1>7, <1>13, <1>19 DEF TenantAloneAt, DistinctAt, Numbering
  <2>5. /\ ReceiptSum' + ToRecord(k)' <= inv'.paid
        /\ inv'.refunded + ToReturn(k, "REFUND")' <= RefundSum'
        /\ inv'.chargeback + ToReturn(k, "CHARGEBACK")' <= ChargebackSum'
    BY <1>1, <1>7, <1>10, <1>17, <1>18, <1>19 DEF TenantAloneAt
  <2> QED BY <2>1, <2>3, <2>4, <2>5 DEF TenantAloneAt
<1>20. ASSUME TenantExactAt(hs[h]) PROVE TenantExactAt(k)'
  <2>1. /\ ReceiptSum' + ToRecord(k)' = inv'.paid
        /\ inv'.refunded + ToReturn(k, "REFUND")' = RefundSum'
        /\ inv'.chargeback + ToReturn(k, "CHARGEBACK")' = ChargebackSum'
    BY <1>1, <1>7, <1>10, <1>17, <1>18, <1>20 DEF TenantExactAt
  <2>2. \A i \in DOMAIN adjustments : adjustments[i].entries = 2 /\ <<"ADJUSTMENT", i>> \in alerts
    BY <1>7, <1>20 DEF TenantExactAt
  <2>3. \A i \in DOMAIN adjustments' :
            i = m \/ (adjustments'[i].entries = 2 /\ <<"ADJUSTMENT", i>> \in alerts)
    BY <1>12, <2>2
  <2>4. adjustments'[m].entries < 2
    BY <1>11, <1>12
  <2> QED BY <1>7, <1>13, <1>20, <2>1, <2>3, <2>4 DEF TenantExactAt
<1> QED BY <1>1, <1>7, <1>12, <1>13, <1>14, <1>15, <1>16, <1>19, <1>20, TenantSteps

(* An entry of the ledger. *)
LEMMA LedgerSaveKeeps == ASSUME TenantInv, NEW h \in Handlers, LedgerSave(h) PROVE TenantInv'
<1>1. /\ TenantTyped /\ TenantRecords /\ TenantSound(hs[h]) /\ hs[h] \in TenantLocal /\ aborts \in Nat
      /\ ReceiptSum \in Int /\ RefundSum \in Int /\ ChargebackSum \in Int
  BY TenantBefore
<1>2. PICK t : t = hs[h].pay
  OBVIOUS
<1>3. PICK m : m = hs[h].id
  OBVIOUS
<1>4. /\ hs[h].pc = "ledger" /\ adjustments' = [adjustments EXCEPT ![m].entries = @ + 1]
      /\ Move(h, IF adjustments'[m].entries = 2 THEN "adjust.invoice" ELSE "ledger")
      /\ UNCHANGED <<inv, receipts, notices, alerts, numbers, overlaps, aborts>>
  BY <1>3 DEF LedgerSave, counters
<1>5. hs[h].pc \in Adjusting /\ hs[h].pc # "idle" /\ hs[h].pc \in Copying
  BY <1>4 DEF Adjusting, Copying, TenantPCs
<1>6. /\ t \in AdjustTask /\ hs[h].inv \in TenantInvoice /\ CoherentTenant(hs[h].inv)
      /\ t \in Tasks /\ t.amount <= Net(hs[h].inv) /\ t.amount > 0 /\ m \in DOMAIN adjustments
  BY <1>1, <1>2, <1>3, <1>4, <1>5 DEF TenantSound
<1>7. t.amount \in Nat /\ t.kind \in {"REFUND", "CHARGEBACK"}
  BY <1>6, TasksDiffer
<1>8. PICK o : o = adjustments[m]
  OBVIOUS
<1>9. o \in Adjustment
  BY <1>1, <1>6, <1>8 DEF TenantRecords
<1>10. PICK e \in Nat : e = o.entries + 1
  BY <1>9 DEF Adjustment
<1>11. PICK a : a = [o EXCEPT !.entries = e]
  OBVIOUS
<1>12. a \in Adjustment /\ a.kind = o.kind /\ a.number = o.number /\ a.amount = o.amount /\ a.entries = o.entries + 1
  BY <1>9, <1>10, <1>11 DEF Adjustment
<1>13. adjustments' = [adjustments EXCEPT ![m] = a]
  BY <1>4, <1>6, <1>8, <1>10, <1>11
<1>14. /\ adjustments' \in Seq(Adjustment) /\ DOMAIN adjustments' = DOMAIN adjustments
       /\ adjustments'[m] = a /\ \A i \in DOMAIN adjustments : i # m => adjustments'[i] = adjustments[i]
  BY <1>1, <1>6, <1>12, <1>13 DEF TenantRecords
<1>15. \A i \in DOMAIN adjustments :
          adjustments'[i].kind = adjustments[i].kind /\ adjustments'[i].number = adjustments[i].number
  BY <1>8, <1>12, <1>14
<1>16. PICK pc : pc = IF a.entries = 2 THEN "adjust.invoice" ELSE "ledger"
  OBVIOUS
<1>17. pc \in TenantPCs \ {"idle"} /\ Move(h, pc)
  BY <1>4, <1>14, <1>16 DEF TenantPCs
<1>18. PICK k \in TenantLocal : /\ Stepping(h, k) /\ k.pc = pc /\ k.inv = hs[h].inv
                                /\ k.pay = t /\ k.id = m
  BY <1>1, <1>2, <1>3, <1>4, <1>5, <1>17, TenantMoves
<1>19. TenantSound(k)'
  BY <1>6, <1>14, <1>16, <1>18 DEF TenantSound, Copying, Numbering, Issuing, Adjusting, Dunning
<1>20. TenantRecords'
  BY <1>1, <1>4, <1>14 DEF TenantRecords, CoherentTenant, Net
<1>21. ReceiptSum' = ReceiptSum /\ RefundSum' = RefundSum /\ ChargebackSum' = ChargebackSum
  BY <1>1, <1>4, <1>6, <1>8, <1>12, <1>13, ReceiptTallies, AdjustmentTallies DEF TenantRecords
<1>22. /\ ToRecord(hs[h]) = 0 /\ ToRecord(k)' = 0
       /\ \A kind : ToReturn(hs[h], kind) = ToReturn(k, kind)'
  BY <1>2, <1>4, <1>16, <1>18 DEF ToRecord, ToReturn
<1>23. IsKind("REFUND")' = IsKind("REFUND") /\ IsKind("REFUND") \subseteq DOMAIN adjustments
  BY <1>14, <1>15 DEF IsKind
<1>24. ASSUME TenantAloneAt(hs[h]) PROVE TenantAloneAt(k)'
  <2>1. k.inv = inv'
    BY <1>4, <1>5, <1>18, <1>24 DEF TenantAloneAt
  <2>2. NumbersAt(k)'
    <3>1. /\ \A i \in IsKind("REFUND")' : adjustments'[i].number <= numbers["CREDIT_NOTE"]
          /\ \A i, j \in IsKind("REFUND")' : i # j => adjustments'[i].number # adjustments'[j].number
      BY <1>15, <1>23, <1>24 DEF TenantAloneAt, NumbersAt
    <3> QED BY <1>4, <1>16, <1>18, <1>24, <3>1 DEF TenantAloneAt, NumbersAt
  <2>3. DistinctAt(k)'
    BY <1>4, <1>16, <1>18, <1>24 DEF TenantAloneAt, DistinctAt, Numbering
  <2> QED BY <1>4, <1>21, <1>22, <1>24, <2>1, <2>2, <2>3 DEF TenantAloneAt
<1>25. ASSUME TenantExactAt(hs[h]) PROVE TenantExactAt(k)'
  <2>1. o.entries \in Nat /\ o.entries < 2
    BY <1>3, <1>4, <1>8, <1>9, <1>25 DEF TenantExactAt, Adjustment
  <2>2. \A i \in DOMAIN adjustments : i # m => adjustments[i].entries = 2 /\ <<"ADJUSTMENT", i>> \in alerts
    BY <1>3, <1>4, <1>25 DEF TenantExactAt
  <2>3. \/ k.pc = "ledger" /\ adjustments'[m].entries < 2
        \/ k.pc = "adjust.invoice" /\ adjustments'[m].entries = 2
    BY <1>12, <1>14, <1>16, <1>18, <2>1
  <2>4. \A i \in DOMAIN adjustments' :
            i = m \/ (adjustments'[i].entries = 2 /\ <<"ADJUSTMENT", i>> \in alerts)
    BY <1>14, <2>2
  <2>5. k.pay.kind # "DUNNING"
    BY <1>7, <1>18
  <2> QED BY <1>4, <1>18, <1>21, <1>22, <1>25, <2>3, <2>4, <2>5 DEF TenantExactAt
<1> QED BY <1>1, <1>4, <1>14, <1>18, <1>19, <1>20, <1>24, <1>25, TenantSteps

(* The invoice follows its adjustment. *)
LEMMA AdjustInvoiceKeeps == ASSUME TenantInv, NEW h \in Handlers, AdjustInvoice(h) PROVE TenantInv'
<1>1. /\ TenantTyped /\ TenantRecords /\ TenantSound(hs[h]) /\ hs[h] \in TenantLocal /\ aborts \in Nat
      /\ ReceiptSum \in Int /\ RefundSum \in Int /\ ChargebackSum \in Int
      /\ inv.paid \in Nat /\ inv.refunded \in Nat /\ inv.chargeback \in Nat
  BY TenantBefore
<1>2. /\ hs[h].pc = "adjust.invoice" /\ Move(h, "alert")
      /\ UNCHANGED <<receipts, adjustments, notices, alerts, numbers, overlaps, aborts>>
      /\ inv' = Adjusted(hs[h].inv, Task(h).kind, Task(h).amount)
  BY DEF AdjustInvoice, counters
<1>3. PICK t : t = hs[h].pay
  OBVIOUS
<1>4. PICK i : i = hs[h].inv
  OBVIOUS
<1>5. PICK k \in TenantLocal : /\ Stepping(h, k) /\ k.pc = "alert" /\ k.inv = i
                               /\ k.pay = t /\ k.id = hs[h].id /\ k.n = hs[h].n
  BY <1>1, <1>2, <1>3, <1>4, TenantMoves DEF TenantPCs
<1>6. hs[h].pc \in Copying /\ hs[h].pc \in Adjusting /\ hs[h].pc # "idle"
  BY <1>2 DEF Copying, Adjusting, TenantPCs
<1>7. /\ t \in Tasks /\ i \in TenantInvoice /\ CoherentTenant(i) /\ t \in AdjustTask
      /\ t.amount <= Net(i) /\ t.amount > 0
  BY <1>1, <1>3, <1>4, <1>6 DEF TenantSound
<1>8. t.amount \in Nat /\ t.kind \in {"REFUND", "CHARGEBACK"}
  BY <1>7, TasksDiffer
<1>9. /\ inv' \in TenantInvoice /\ CoherentTenant(inv') /\ inv'.paid = i.paid
      /\ inv'.refunded = i.refunded + (IF t.kind = "REFUND" THEN t.amount ELSE 0)
      /\ inv'.chargeback = i.chargeback + (IF t.kind = "CHARGEBACK" THEN t.amount ELSE 0)
  <2>1. inv' = Adjusted(i, t.kind, t.amount)
    BY <1>2, <1>3, <1>4 DEF Task
  <2> QED BY <1>7, <1>8, <2>1, AdjustedIs
<1>10. TenantSound(k)
  BY <1>5, <1>7 DEF TenantSound, Copying, Numbering, Issuing, Adjusting, Dunning
<1>11. TenantSound(k)'
  BY <1>2, <1>10 DEF TenantSound
<1>12. TenantRecords'
  BY <1>1, <1>2, <1>9 DEF TenantRecords
<1>13. ReceiptSum' = ReceiptSum /\ RefundSum' = RefundSum /\ ChargebackSum' = ChargebackSum
  BY <1>1, <1>2, ReceiptTallies, AdjustmentTallies DEF TenantRecords
<1>14. /\ ToRecord(hs[h]) = 0 /\ ToRecord(k)' = 0
       /\ \A kind : ToReturn(hs[h], kind) = (IF t.kind = kind THEN t.amount ELSE 0) /\ ToReturn(k, kind)' = 0
  BY <1>2, <1>3, <1>5 DEF ToRecord, ToReturn
<1>15. k.pc \notin Copying
  BY <1>5 DEF Copying
<1>16. ASSUME TenantAloneAt(hs[h]) PROVE TenantAloneAt(k)' /\ i = inv
  <2>1. i = inv
    BY <1>4, <1>6, <1>16 DEF TenantAloneAt
  <2>2. NumbersAt(k)'
    BY <1>2, <1>5, <1>16 DEF TenantAloneAt, NumbersAt, IsKind
  <2>3. DistinctAt(k)'
    BY <1>2, <1>5, <1>16 DEF TenantAloneAt, DistinctAt, Numbering
  <2>4. /\ ReceiptSum' + ToRecord(k)' <= inv'.paid
        /\ inv'.refunded + ToReturn(k, "REFUND")' <= RefundSum'
        /\ inv'.chargeback + ToReturn(k, "CHARGEBACK")' <= ChargebackSum'
    BY <1>1, <1>8, <1>9, <1>13, <1>14, <1>16, <2>1 DEF TenantAloneAt
  <2> QED BY <1>15, <2>1, <2>2, <2>3, <2>4 DEF TenantAloneAt
<1>17. ASSUME TenantAloneAt(hs[h]), TenantExactAt(hs[h]) PROVE TenantExactAt(k)'
  <2>1. i = inv
    BY <1>16, <1>17
  <2>2. /\ ReceiptSum' + ToRecord(k)' = inv'.paid
        /\ inv'.refunded + ToReturn(k, "REFUND")' = RefundSum'
        /\ inv'.chargeback + ToReturn(k, "CHARGEBACK")' = ChargebackSum'
    BY <1>1, <1>8, <1>9, <1>13, <1>14, <1>17, <2>1 DEF TenantExactAt
  <2>3. k.pay.kind # "DUNNING"
    BY <1>5, <1>8
  <2> QED BY <1>2, <1>5, <1>17, <2>2, <2>3 DEF TenantExactAt
<1> QED BY <1>1, <1>2, <1>5, <1>11, <1>12, <1>16, <1>17, TenantSteps

(* The invoice is made overdue. *)
LEMMA DunningInvoiceKeeps == ASSUME TenantInv, NEW h \in Handlers, DunningInvoice(h) PROVE TenantInv'
<1>1. /\ TenantTyped /\ TenantRecords /\ TenantSound(hs[h]) /\ hs[h] \in TenantLocal /\ aborts \in Nat
      /\ ReceiptSum \in Int /\ RefundSum \in Int /\ ChargebackSum \in Int
  BY TenantBefore
<1>2. /\ hs[h].pc = "dunning.invoice" /\ Move(h, "dunning.notice")
      /\ UNCHANGED <<receipts, adjustments, notices, alerts, numbers, overlaps, aborts>>
      /\ inv' = [hs[h].inv EXCEPT !.status = "OVERDUE"]
  BY DEF DunningInvoice, counters
<1>3. PICK t : t = hs[h].pay
  OBVIOUS
<1>4. PICK i : i = hs[h].inv
  OBVIOUS
<1>5. PICK k \in TenantLocal : /\ Stepping(h, k) /\ k.pc = "dunning.notice" /\ k.inv = i
                               /\ k.pay = t /\ k.id = hs[h].id /\ k.n = hs[h].n
  BY <1>1, <1>2, <1>3, <1>4, TenantMoves DEF TenantPCs
<1>6. hs[h].pc \in Copying /\ hs[h].pc \in Dunning /\ hs[h].pc # "idle"
  BY <1>2 DEF Copying, Dunning, TenantPCs
<1>7. t \in Tasks /\ i \in TenantInvoice /\ CoherentTenant(i) /\ t \in DunningTask /\ i.due > 0
  BY <1>1, <1>3, <1>4, <1>6 DEF TenantSound
<1>8. t.kind = "DUNNING" /\ t \notin AdjustTask
  BY <1>7, TasksDiffer
<1>9. /\ inv' \in TenantInvoice /\ CoherentTenant(inv') /\ inv'.paid = i.paid
      /\ inv'.refunded = i.refunded /\ inv'.chargeback = i.chargeback
  BY <1>2, <1>4, <1>7, OverdueIs
<1>10. TenantSound(k)
  BY <1>5, <1>7, <1>8 DEF TenantSound, Copying, Numbering, Issuing, Adjusting, Dunning
<1>11. TenantSound(k)'
  BY <1>2, <1>10 DEF TenantSound
<1>12. TenantRecords'
  BY <1>1, <1>2, <1>9 DEF TenantRecords
<1>13. ReceiptSum' = ReceiptSum /\ RefundSum' = RefundSum /\ ChargebackSum' = ChargebackSum
  BY <1>1, <1>2, ReceiptTallies, AdjustmentTallies DEF TenantRecords
<1>14. /\ ToRecord(hs[h]) = 0 /\ ToRecord(k)' = 0
       /\ \A kind : ToReturn(hs[h], kind) = 0 /\ ToReturn(k, kind)' = 0
  BY <1>2, <1>5 DEF ToRecord, ToReturn
<1>15. k.pc \notin Copying
  BY <1>5 DEF Copying
<1>16. ASSUME TenantAloneAt(hs[h]) PROVE TenantAloneAt(k)' /\ i = inv
  <2>1. i = inv
    BY <1>4, <1>6, <1>16 DEF TenantAloneAt
  <2>2. NumbersAt(k)'
    BY <1>2, <1>5, <1>16 DEF TenantAloneAt, NumbersAt, IsKind
  <2>3. DistinctAt(k)'
    BY <1>2, <1>3, <1>5, <1>16 DEF TenantAloneAt, DistinctAt, Numbering
  <2> QED BY <1>9, <1>13, <1>14, <1>15, <1>16, <2>1, <2>2, <2>3 DEF TenantAloneAt
<1>17. ASSUME TenantAloneAt(hs[h]), TenantExactAt(hs[h]) PROVE TenantExactAt(k)'
  <2>1. i = inv
    BY <1>16, <1>17
  <2> QED BY <1>2, <1>5, <1>9, <1>13, <1>14, <1>17, <2>1 DEF TenantExactAt
<1> QED BY <1>1, <1>2, <1>5, <1>11, <1>12, <1>16, <1>17, TenantSteps

(* The notice follows. *)
LEMMA DunningNoticeKeeps == ASSUME TenantInv, NEW h \in Handlers, DunningNotice(h) PROVE TenantInv'
<1>1. /\ TenantTyped /\ TenantRecords /\ TenantSound(hs[h]) /\ hs[h] \in TenantLocal /\ aborts \in Nat
      /\ ReceiptSum \in Int /\ RefundSum \in Int /\ ChargebackSum \in Int
  BY TenantBefore
<1>2. PICK t : t = hs[h].pay
  OBVIOUS
<1>3. PICK i : i = hs[h].inv
  OBVIOUS
<1>4. PICK o : o = [stage |-> t.stage, amount |-> i.due]
  OBVIOUS
<1>5. /\ hs[h].pc = "dunning.notice" /\ Move(h, "alert") /\ notices' = Append(notices, o)
      /\ UNCHANGED <<inv, receipts, adjustments, alerts, numbers, overlaps, aborts>>
  BY <1>2, <1>3, <1>4 DEF DunningNotice, counters, Task
<1>6. hs[h].pc \in Dunning /\ hs[h].pc # "idle"
  BY <1>5 DEF Dunning
<1>7. PICK k \in TenantLocal : /\ Stepping(h, k) /\ k.pc = "alert" /\ k.inv = i
                               /\ k.pay = t /\ k.id = hs[h].id /\ k.n = hs[h].n
  BY <1>1, <1>2, <1>3, <1>5, TenantMoves DEF TenantPCs
<1>8. t \in Tasks /\ i \in TenantInvoice /\ t \in DunningTask
  BY <1>1, <1>2, <1>3, <1>6 DEF TenantSound
<1>9. t.kind = "DUNNING" /\ t.stage \in Stages
  BY <1>8, TasksDiffer
<1>10. o \in Notice /\ o.stage = t.stage
  BY <1>4, <1>8, <1>9 DEF Notice, TenantInvoice
<1>11. /\ notices' \in Seq(Notice) /\ DOMAIN notices' = DOMAIN notices \cup {Len(notices) + 1}
       /\ notices'[Len(notices) + 1] = o /\ \A n \in DOMAIN notices : notices'[n] = notices[n]
  BY <1>1, <1>5, <1>10 DEF TenantRecords
<1>12. TenantSound(k)
  BY <1>7, <1>8 DEF TenantSound, Copying, Numbering, Issuing, Adjusting, Dunning
<1>13. TenantSound(k)'
  BY <1>5, <1>12 DEF TenantSound
<1>14. TenantRecords'
  BY <1>1, <1>5, <1>11 DEF TenantRecords, CoherentTenant, Net
<1>15. ReceiptSum' = ReceiptSum /\ RefundSum' = RefundSum /\ ChargebackSum' = ChargebackSum
  BY <1>1, <1>5, ReceiptTallies, AdjustmentTallies DEF TenantRecords
<1>16. /\ ToRecord(hs[h]) = 0 /\ ToRecord(k)' = 0
       /\ \A kind : ToReturn(hs[h], kind) = 0 /\ ToReturn(k, kind)' = 0
  BY <1>5, <1>7 DEF ToRecord, ToReturn
<1>17. \A n \in DOMAIN notices' :
          \/ n \in DOMAIN notices /\ notices'[n].stage = notices[n].stage
          \/ n = Len(notices) + 1 /\ notices'[n].stage = t.stage
  BY <1>10, <1>11
<1>18. ASSUME TenantAloneAt(hs[h]) PROVE TenantAloneAt(k)'
  <2>1. NumbersAt(k)'
    BY <1>5, <1>7, <1>18 DEF TenantAloneAt, NumbersAt, IsKind
  <2>2. \A n, m \in DOMAIN notices' : n # m => notices'[n].stage # notices'[m].stage
    <3>1. /\ \A n \in DOMAIN notices : notices[n].stage # t.stage
          /\ \A n, m \in DOMAIN notices : n # m => notices[n].stage # notices[m].stage
      BY <1>2, <1>5, <1>18 DEF TenantAloneAt, DistinctAt
    <3> QED BY <1>17, <3>1
  <2>3. DistinctAt(k)'
    BY <1>5, <1>7, <1>18, <2>2 DEF TenantAloneAt, DistinctAt, Numbering
  <2> QED BY <1>5, <1>7, <1>15, <1>16, <1>18, <2>1, <2>3 DEF TenantAloneAt, Copying
<1>19. ASSUME TenantExactAt(hs[h]) PROVE TenantExactAt(k)'
  <2>1. \A n \in DOMAIN notices' : <<"DUNNING", notices'[n].stage>> \in alerts \/ notices'[n].stage = t.stage
    BY <1>5, <1>17, <1>19 DEF TenantExactAt
  <2> QED BY <1>5, <1>7, <1>9, <1>15, <1>16, <1>19, <2>1 DEF TenantExactAt
<1> QED BY <1>1, <1>5, <1>7, <1>13, <1>14, <1>18, <1>19, TenantSteps

(* The alert ends an adjustment and a dunning. *)
LEMMA AlertSaveKeeps == ASSUME TenantInv, NEW h \in Handlers, AlertSave(h) PROVE TenantInv'
<1>1. /\ TenantTyped /\ TenantRecords /\ TenantSound(hs[h]) /\ hs[h] \in TenantLocal /\ aborts \in Nat
      /\ ReceiptSum \in Int /\ RefundSum \in Int /\ ChargebackSum \in Int
  BY TenantBefore
<1>2. PICK t : t = hs[h].pay
  OBVIOUS
<1>3. /\ hs[h].pc = "alert" /\ Stop(h)
      /\ UNCHANGED <<inv, receipts, adjustments, notices, numbers, overlaps, aborts>>
      /\ alerts' = alerts \cup {IF t.kind = "DUNNING" THEN <<"DUNNING", t.stage>>
                                ELSE <<"ADJUSTMENT", hs[h].id>>}
  BY <1>2 DEF AlertSave, counters, Task
<1>4. PICK k \in TenantLocal : Stepping(h, k) /\ k.pc = "idle"
  BY <1>3, TenantStops
<1>5. TenantSound(k)'
  BY <1>4 DEF TenantSound, Copying, Numbering, Issuing, Adjusting, Dunning
<1>6. TenantRecords'
  BY <1>1, <1>3 DEF TenantRecords, CoherentTenant, Net
<1>7. ReceiptSum' = ReceiptSum /\ RefundSum' = RefundSum /\ ChargebackSum' = ChargebackSum
  BY <1>1, <1>3, ReceiptTallies, AdjustmentTallies DEF TenantRecords
<1>8. /\ ToRecord(hs[h]) = 0 /\ ToRecord(k)' = 0
      /\ \A kind : ToReturn(hs[h], kind) = 0 /\ ToReturn(k, kind)' = 0
  BY <1>3, <1>4 DEF ToRecord, ToReturn
<1>9. ASSUME TenantAloneAt(hs[h]) PROVE TenantAloneAt(k)'
  <2>1. NumbersAt(k)'
    BY <1>3, <1>4, <1>9 DEF TenantAloneAt, NumbersAt, IsKind
  <2>2. DistinctAt(k)'
    BY <1>3, <1>4, <1>9 DEF TenantAloneAt, DistinctAt, Numbering
  <2> QED BY <1>3, <1>4, <1>7, <1>8, <1>9, <2>1, <2>2 DEF TenantAloneAt, Copying
<1>10. ASSUME TenantExactAt(hs[h]) PROVE TenantExactAt(k)'
  <2>1. \A i \in DOMAIN adjustments : adjustments[i].entries = 2 /\ <<"ADJUSTMENT", i>> \in alerts'
    <3> SUFFICES ASSUME NEW i \in DOMAIN adjustments
                 PROVE  adjustments[i].entries = 2 /\ <<"ADJUSTMENT", i>> \in alerts'
      OBVIOUS
    <3>1. \/ adjustments[i].entries = 2 /\ <<"ADJUSTMENT", i>> \in alerts
          \/ t.kind # "DUNNING" /\ hs[h].id = i /\ adjustments[i].entries = 2
      BY <1>2, <1>3, <1>10 DEF TenantExactAt
    <3> QED BY <1>3, <3>1
  <2>2. \A i \in DOMAIN notices : <<"DUNNING", notices[i].stage>> \in alerts'
    <3> SUFFICES ASSUME NEW i \in DOMAIN notices PROVE <<"DUNNING", notices[i].stage>> \in alerts'
      OBVIOUS
    <3>1. \/ <<"DUNNING", notices[i].stage>> \in alerts
          \/ t.kind = "DUNNING" /\ t.stage = notices[i].stage
      BY <1>2, <1>3, <1>10 DEF TenantExactAt
    <3> QED BY <1>3, <3>1
  <2> QED BY <1>3, <1>4, <1>7, <1>8, <1>10, <2>1, <2>2 DEF TenantExactAt
<1> QED BY <1>1, <1>3, <1>4, <1>5, <1>6, <1>9, <1>10, TenantSteps

(* A request that dies leaves what is stored as it is. *)
LEMMA TenantAbortKeeps ==
    ASSUME TenantInv, NEW h \in Handlers, Abort(h), UNCHANGED tenantVars PROVE TenantInv'
<1>1. /\ TenantTyped /\ TenantRecords /\ TenantSound(hs[h]) /\ hs[h] \in TenantLocal /\ aborts \in Nat
      /\ ReceiptSum \in Int /\ RefundSum \in Int /\ ChargebackSum \in Int
      /\ inv.paid \in Nat /\ inv.refunded \in Nat /\ inv.chargeback \in Nat
  BY TenantBefore
<1>2. /\ hs[h].pc # "idle" /\ Stop(h) /\ aborts' = aborts + 1
      /\ UNCHANGED <<inv, receipts, adjustments, notices, alerts, numbers, overlaps>>
  BY DEF Abort, stored, tenantVars
<1>3. PICK k \in TenantLocal : Stepping(h, k) /\ k.pc = "idle"
  BY <1>2, TenantStops
<1>4. TenantSound(k)'
  BY <1>3 DEF TenantSound, Copying, Numbering, Issuing, Adjusting, Dunning
<1>5. TenantRecords'
  BY <1>1, <1>2 DEF TenantRecords, CoherentTenant, Net
<1>6. ReceiptSum' = ReceiptSum /\ RefundSum' = RefundSum /\ ChargebackSum' = ChargebackSum
  BY <1>1, <1>2, ReceiptTallies, AdjustmentTallies DEF TenantRecords
<1>7. hs[h].pc \in {"issue.save", "ledger", "adjust.invoice"} => hs[h].pay.amount \in Nat
  BY <1>1, TasksDiffer DEF TenantSound, Issuing, Adjusting
<1>8. /\ ToRecord(hs[h]) \in Nat /\ ToRecord(k)' = 0
      /\ ToReturn(hs[h], "REFUND") \in Nat /\ ToReturn(hs[h], "CHARGEBACK") \in Nat
      /\ \A kind : ToReturn(k, kind)' = 0
  BY <1>3, <1>7 DEF ToRecord, ToReturn
<1>9. ASSUME TenantAloneAt(hs[h]) PROVE TenantAloneAt(k)'
  <2>1. NumbersAt(k)'
    BY <1>2, <1>3, <1>9 DEF TenantAloneAt, NumbersAt, IsKind
  <2>2. DistinctAt(k)'
    BY <1>2, <1>3, <1>9 DEF TenantAloneAt, DistinctAt, Numbering
  <2>3. /\ ReceiptSum' + ToRecord(k)' <= inv'.paid
        /\ inv'.refunded + ToReturn(k, "REFUND")' <= RefundSum'
        /\ inv'.chargeback + ToReturn(k, "CHARGEBACK")' <= ChargebackSum'
    BY <1>1, <1>2, <1>6, <1>8, <1>9 DEF TenantAloneAt
  <2> QED BY <1>3, <2>1, <2>2, <2>3 DEF TenantAloneAt, Copying
<1>10. aborts' \in Nat /\ aborts' # 0
  BY <1>1, <1>2
<1> QED BY <1>1, <1>2, <1>3, <1>4, <1>5, <1>9, <1>10, TenantSteps

(* A step that changes nothing of it but the day. *)
LEMMA TenantStays ==
    ASSUME TenantInv,
           UNCHANGED <<inv, receipts, adjustments, notices, alerts, numbers, overlaps, aborts, hs>>
    PROVE  TenantInv'
<1>1. TenantBase'
  BY DEF TenantInv, TenantBase, TenantTyped, RestingIsResting, CoherentTenant, Net, TenantSound
<1>2. ReceiptSum' = ReceiptSum /\ RefundSum' = RefundSum /\ ChargebackSum' = ChargebackSum
  BY DEF ReceiptSum, RefundSum, ChargebackSum
<1>3. \A k : /\ NumbersAt(k)' <=> NumbersAt(k)
             /\ DistinctAt(k)' <=> DistinctAt(k)
             /\ ToRecord(k)' = ToRecord(k) /\ \A kind : ToReturn(k, kind)' = ToReturn(k, kind)
  BY DEF NumbersAt, IsKind, DistinctAt, ToRecord, ToReturn
<1>4. \A k : (TenantAloneAt(k)' <=> TenantAloneAt(k)) /\ (TenantExactAt(k)' <=> TenantExactAt(k))
  BY <1>2, <1>3 DEF TenantAloneAt, TenantExactAt
<1>5. (Lone' <=> Lone) /\ \A k : Current(k)' <=> Current(k)
  BY DEF Lone, Current, Quiet
<1>6. TenantAlone'
  BY <1>4, <1>5 DEF TenantInv, TenantAlone
<1>7. TenantExact'
  BY <1>4, <1>5 DEF TenantInv, TenantExact
<1> QED BY <1>1, <1>6, <1>7 DEF TenantInv

LEMMA TenantInitInv == ASSUME TenantInit, Tenant PROVE TenantInv
<1>1. /\ inv = NewInvoice /\ receipts = <<>> /\ adjustments = <<>> /\ notices = <<>>
      /\ numbers = [RECEIPT |-> 0, CREDIT_NOTE |-> 0]
      /\ overlaps = 0 /\ aborts = 0 /\ hs = [h \in Handlers |-> Resting]
  BY DEF TenantInit
<1>2. Resting \in TenantLocal /\ Resting.pc = "idle" /\ TenantSound(Resting)
  BY TenantRestingTyped
<1>3. /\ inv \in TenantInvoice /\ inv.paid = 0 /\ inv.refunded = 0 /\ inv.chargeback = 0
      /\ inv.due = Total /\ inv.status = "ISSUED"
  BY <1>1, TotalAssumption DEF NewInvoice, TenantInvoice
<1>4. CoherentTenant(inv)
  BY <1>3, TotalAssumption DEF CoherentTenant, Net
<1>5. DOMAIN receipts = {} /\ DOMAIN adjustments = {} /\ DOMAIN notices = {}
  BY <1>1
<1>6. TenantTyped
  <2>1. receipts \in Seq(TenantReceipt) /\ adjustments \in Seq(Adjustment) /\ notices \in Seq(Notice)
    BY <1>1
  <2> QED BY <1>1, <1>2, <1>3, <2>1 DEF TenantTyped, RestingIsResting
<1>7. TenantBase
  BY <1>1, <1>2, <1>4, <1>6 DEF TenantBase
<1>8. ReceiptSum = 0 /\ RefundSum = 0 /\ ChargebackSum = 0
  <2>1. ASSUME NEW w PROVE Weight(w, <<>>) = 0
    <3>1. [i \in DOMAIN <<>> |-> w[<<>>[i]]] = <<>>
      OBVIOUS
    <3> QED BY <3>1, SumEmpty DEF Weight
  <2> QED BY <1>1, <2>1 DEF ReceiptSum, RefundSum, ChargebackSum
<1>9. PICK k : k = Resting
  OBVIOUS
<1>10. /\ k.pc = "idle" /\ ToRecord(k) = 0 /\ \A kind : ToReturn(k, kind) = 0
       /\ k.pc \notin Copying /\ k.pc \notin Numbering
  BY <1>2, <1>9 DEF ToRecord, ToReturn, Copying, Numbering
<1>11. TenantAloneAt(k)
  BY <1>3, <1>5, <1>8, <1>10 DEF TenantAloneAt, NumbersAt, DistinctAt, IsKind
<1>12. TenantExactAt(k)
  BY <1>3, <1>5, <1>8, <1>10 DEF TenantExactAt
<1>13. Lone /\ \A q : Current(q) => q = k
  BY <1>1, <1>2, <1>9 DEF Lone, Current
<1> QED BY <1>7, <1>11, <1>12, <1>13 DEF TenantInv, TenantAlone, TenantExact

LEMMA TenantSumsAreWeights ==
    /\ receipts \in Seq(TenantReceipt) => SumOf(receipts, Every, Amount) = ReceiptSum
    /\ adjustments \in Seq(Adjustment) =>
          SumOf(adjustments, IsRefund, Amount) = RefundSum /\ SumOf(adjustments, IsChargeback, Amount) = ChargebackSum
<1>1. ASSUME receipts \in Seq(TenantReceipt) PROVE SumOf(receipts, Every, Amount) = ReceiptSum
  <2>1. \A i \in DOMAIN receipts : receipts[i] \in TenantReceipt
    BY <1>1
  <2>2. [i \in DOMAIN receipts |-> IF Every(receipts[i]) THEN Amount(receipts[i]) ELSE 0]
          = [i \in DOMAIN receipts |-> ReceiptWeight[receipts[i]]]
    BY <2>1 DEF ReceiptWeight, Every
  <2> QED BY <2>2 DEF SumOf, ReceiptSum, Weight
<1>2. ASSUME adjustments \in Seq(Adjustment)
      PROVE  /\ SumOf(adjustments, IsRefund, Amount) = RefundSum
             /\ SumOf(adjustments, IsChargeback, Amount) = ChargebackSum
  <2>1. \A i \in DOMAIN adjustments : adjustments[i] \in Adjustment
    BY <1>2
  <2>2. [i \in DOMAIN adjustments |-> IF IsRefund(adjustments[i]) THEN Amount(adjustments[i]) ELSE 0]
          = [i \in DOMAIN adjustments |-> RefundWeight[adjustments[i]]]
    BY <2>1 DEF RefundWeight
  <2>3. [i \in DOMAIN adjustments |-> IF IsChargeback(adjustments[i]) THEN Amount(adjustments[i]) ELSE 0]
          = [i \in DOMAIN adjustments |-> ChargebackWeight[adjustments[i]]]
    BY <2>1 DEF ChargebackWeight
  <2> QED BY <2>2, <2>3 DEF SumOf, RefundSum, ChargebackSum, Weight
<1> QED BY <1>1, <1>2

LEMMA TenantInvImplies ==
    ASSUME TenantInv PROVE TenantMoneyAccounted /\ TenantNothingTwice
<1>1. /\ TenantTyped /\ TenantRecords /\ overlaps \in Nat /\ aborts \in Nat
      /\ hs \in [Handlers -> TenantLocal] /\ \A h \in Handlers : TenantSound(hs[h])
  BY DEF TenantInv, TenantBase, TenantTyped, TenantRecords
<1>2. /\ SumOf(receipts, Every, Amount) = ReceiptSum /\ ReceiptSum \in Int
      /\ SumOf(adjustments, IsRefund, Amount) = RefundSum /\ RefundSum \in Int
      /\ SumOf(adjustments, IsChargeback, Amount) = ChargebackSum /\ ChargebackSum \in Int
      /\ inv.paid \in Nat /\ inv.refunded \in Nat /\ inv.chargeback \in Nat
  BY <1>1, TenantSumsAreWeights, ReceiptTallies, AdjustmentTallies DEF TenantRecords, TenantInvoice
<1>3. TenantInvoiceCoherent
  BY <1>1 DEF TenantRecords, CoherentTenant, TenantInvoiceCoherent
<1>4. ASSUME overlaps = 0
      PROVE  \E k \in {Resting} \cup {hs[h] : h \in Handlers} : Current(k)
  <2>1. Lone
    BY <1>4 DEF TenantInv, TenantAlone
  <2>2. CASE Quiet
    BY <2>2 DEF Current
  <2>3. CASE ~Quiet
    <3>1. PICK h \in Handlers : hs[h].pc # "idle"
      BY <2>3 DEF Quiet
    <3>2. \A g \in Handlers \ {h} : hs[g].pc = "idle"
      BY <2>1, <3>1 DEF Lone
    <3> QED BY <3>1, <3>2 DEF Current
  <2> QED BY <2>2, <2>3
<1>5. ASSUME overlaps = 0
      PROVE  \E k \in {Resting} \cup {hs[h] : h \in Handlers} :
                /\ TenantAloneAt(k) /\ TenantSound(k) /\ k \in TenantLocal
                /\ aborts = 0 => TenantExactAt(k)
                /\ Quiet => k.pc = "idle"
  <2>1. PICK k \in {Resting} \cup {hs[h] : h \in Handlers} : Current(k)
    BY <1>4, <1>5
  <2>2. Resting \in TenantLocal /\ Resting.pc = "idle" /\ TenantSound(Resting)
    BY TenantRestingTyped
  <2>3. TenantAloneAt(k) /\ (aborts = 0 => TenantExactAt(k))
    BY <1>5, <2>1 DEF TenantInv, TenantAlone, TenantExact
  <2>4. TenantSound(k) /\ k \in TenantLocal
    BY <1>1, <2>1, <2>2
  <2>5. Quiet => k.pc = "idle"
    BY <2>1, <2>2 DEF Quiet
  <2> QED BY <2>1, <2>3, <2>4, <2>5
<1>6. ASSUME overlaps = 0 PROVE TenantCreditIsBacked /\ TenantNothingTwice
  <2>1. PICK k : TenantAloneAt(k) /\ TenantSound(k)
    BY <1>5, <1>6
  <2>2. k.pc \in {"issue.save", "ledger", "adjust.invoice"} => k.pay.amount \in Nat
    BY <2>1, TasksDiffer DEF TenantSound, Issuing, Adjusting
  <2>3. ToRecord(k) \in Nat /\ ToReturn(k, "REFUND") \in Nat /\ ToReturn(k, "CHARGEBACK") \in Nat
    BY <2>2 DEF ToRecord, ToReturn
  <2>4. ReceiptSum <= inv.paid /\ inv.refunded <= RefundSum /\ inv.chargeback <= ChargebackSum
    BY <1>2, <2>1, <2>3 DEF TenantAloneAt
  <2>5. TenantCreditIsBacked
    BY <1>2, <2>4 DEF TenantCreditIsBacked
  <2>6. TenantNothingTwice
    BY <2>1 DEF TenantNothingTwice, TenantAloneAt, NumbersAt, DistinctAt
  <2> QED BY <2>5, <2>6
<1>7. ASSUME Quiet, Undisturbed PROVE TenantBooksBalance
  <2>1. PICK k : TenantExactAt(k) /\ k.pc = "idle"
    BY <1>5, <1>7 DEF Undisturbed
  <2>2. ToRecord(k) = 0 /\ ToReturn(k, "REFUND") = 0 /\ ToReturn(k, "CHARGEBACK") = 0
    BY <2>1 DEF ToRecord, ToReturn
  <2>3. inv.paid = ReceiptSum /\ inv.refunded = RefundSum /\ inv.chargeback = ChargebackSum
    BY <1>2, <2>1, <2>2 DEF TenantExactAt
  <2>4. /\ \A i \in DOMAIN adjustments : adjustments[i].entries = 2 /\ <<"ADJUSTMENT", i>> \in alerts
        /\ \A i \in DOMAIN notices : <<"DUNNING", notices[i].stage>> \in alerts
    BY <2>1 DEF TenantExactAt
  <2> QED BY <1>2, <2>3, <2>4 DEF TenantBooksBalance
<1>8. TenantMoneyAccounted
  BY <1>3, <1>6, <1>7 DEF TenantMoneyAccounted, TenantBooksBalance, TenantCreditIsBacked
<1>9. TenantNothingTwice
  BY <1>6 DEF TenantNothingTwice
<1> QED BY <1>8, <1>9

-----------------------------------------------------------------------------
(* Either book.                                                             *)

Inv == (book = "payment" => PayInv) /\ (book = "tenant" => TenantInv)

LEMMA PayStays ==
    ASSUME PayInv, UNCHANGED <<inv, payments, receipts, charges, returned, overlaps, aborts, misled, hs>>
    PROVE  PayInv'
<1>1. PayBase'
  BY DEF PayInv, PayBase, PayTyped, RestingIsResting, CoherentPay, Backed, ReceiptSound, ChargeSound, PaySound
<1>2. Taken' = Taken /\ GivenBack' = GivenBack /\ Sent' = Sent /\ Billed' = Billed
  BY DEF Taken, GivenBack, Sent, Billed
<1>3. \A k : /\ ToCredit(k)' = ToCredit(k) /\ ToDebit(k)' = ToDebit(k)
             /\ \A c : (OpenAt(k, c)' <=> OpenAt(k, c)) /\ Worth(c)' = Worth(c)
  BY DEF ToCredit, ToDebit, OpenAt, Worth
<1>4. \A k : PayAloneAt(k)' <=> PayAloneAt(k)
  BY <1>2, <1>3 DEF PayAloneAt
<1>9. \A k : ReceiptsAt(k)' <=> ReceiptsAt(k)
  BY DEF ReceiptsAt, ReceiptSound
<1>5. \A k : PayExactAt(k)' <=> PayExactAt(k)
  <2>1. \A k : (BooksAt(k)' <=> BooksAt(k)) /\ (PendingAt(k)' <=> PendingAt(k))
    BY <1>2, <1>3 DEF BooksAt, PendingAt
  <2>2. \A k : (SentAt(k)' <=> SentAt(k)) /\ (BilledAt(k)' <=> BilledAt(k))
    BY <1>2, <1>3 DEF SentAt, BilledAt
  <2>3. \A k : TrueAt(k)' <=> TrueAt(k)
    BY DEF TrueAt, Agrees
  <2> QED BY <2>1, <2>2, <2>3 DEF PayExactAt
<1>6. (Lone' <=> Lone) /\ \A k : Current(k)' <=> Current(k)
  BY DEF Lone, Current, Quiet
<1>7. PayAlone'
  BY <1>4, <1>6, <1>9 DEF PayInv, PayAlone
<1>8. PayExact'
  BY <1>5, <1>6 DEF PayInv, PayExact
<1> QED BY <1>1, <1>7, <1>8 DEF PayInv

LEMMA PaymentStepKeeps ==
    ASSUME PayInv, NEW h \in Handlers, PaymentStep(h) PROVE PayInv' /\ UNCHANGED book
<1>1. UNCHANGED book
  BY DEF PaymentStep, Payment, tenantVars
<1>2. \/ PayLoad(h) \/ PayKey(h) \/ PayLookup(h) \/ PayPending(h) \/ PayCapture(h) \/ PaySave(h)
      \/ Credit(h) \/ ReceiptCount(h) \/ ReceiptSave(h) \/ SettleFind(h) \/ SettleLoad(h) \/ SettleSave(h)
      \/ RefundLoad(h) \/ RefundSource(h) \/ RefundCall(h) \/ RefundSave(h) \/ Debit(h)
  BY DEF PaymentStep
<1>3. CASE PayLoad(h)
  BY <1>1, <1>3, PayLoadKeeps
<1>4. CASE PayKey(h)
  BY <1>1, <1>4, PayKeyKeeps
<1>5. CASE PayLookup(h)
  BY <1>1, <1>5, PayLookupKeeps
<1>6. CASE PayPending(h)
  BY <1>1, <1>6, PayPendingKeeps
<1>7. CASE PayCapture(h)
  BY <1>1, <1>7, PayCaptureKeeps
<1>8. CASE PaySave(h)
  BY <1>1, <1>8, PaySaveKeeps
<1>9. CASE Credit(h)
  BY <1>1, <1>9, CreditKeeps
<1>10. CASE ReceiptCount(h)
  BY <1>1, <1>10, ReceiptCountKeeps
<1>11. CASE ReceiptSave(h)
  BY <1>1, <1>11, ReceiptSaveKeeps
<1>12. CASE SettleFind(h)
  BY <1>1, <1>12, SettleFindKeeps
<1>13. CASE SettleLoad(h)
  BY <1>1, <1>13, SettleLoadKeeps
<1>14. CASE SettleSave(h)
  BY <1>1, <1>14, SettleSaveKeeps
<1>15. CASE RefundLoad(h)
  BY <1>1, <1>15, RefundLoadKeeps
<1>16. CASE RefundSource(h)
  BY <1>1, <1>16, RefundSourceKeeps
<1>17. CASE RefundCall(h)
  BY <1>1, <1>17, RefundCallKeeps
<1>18. CASE RefundSave(h)
  BY <1>1, <1>18, RefundSaveKeeps
<1>19. CASE Debit(h)
  BY <1>1, <1>19, DebitKeeps
<1> QED BY <1>1, <1>2, <1>3, <1>4, <1>5, <1>6, <1>7, <1>8, <1>9, <1>10, <1>11, <1>12, <1>13, <1>14,
           <1>15, <1>16, <1>17, <1>18, <1>19

LEMMA TenantStepKeeps ==
    ASSUME TenantInv, NEW h \in Handlers, TenantStep(h) PROVE TenantInv'
<1>1. CASE IssueLoad(h)
  BY <1>1, IssueLoadKeeps
<1>2. CASE IssueCheck(h)
  BY <1>2, IssueCheckKeeps
<1>3. CASE IssueInvoice(h)
  BY <1>3, IssueInvoiceKeeps
<1>4. CASE IssueSave(h)
  BY <1>4, IssueSaveKeeps
<1>5. CASE NumberRead(h)
  BY <1>5, NumberReadKeeps
<1>6. CASE NumberWrite(h)
  BY <1>6, NumberWriteKeeps
<1>7. CASE AdjustLoad(h)
  BY <1>7, AdjustLoadKeeps
<1>8. CASE AdjustSave(h)
  BY <1>8, AdjustSaveKeeps
<1>9. CASE LedgerSave(h)
  BY <1>9, LedgerSaveKeeps
<1>10. CASE AdjustInvoice(h)
  BY <1>10, AdjustInvoiceKeeps
<1>11. CASE DunningLoad(h)
  BY <1>11, DunningLoadKeeps
<1>12. CASE DunningCheck(h)
  BY <1>12, DunningCheckKeeps
<1>13. CASE DunningInvoice(h)
  BY <1>13, DunningInvoiceKeeps
<1>14. CASE DunningNotice(h)
  BY <1>14, DunningNoticeKeeps
<1>15. CASE AlertSave(h)
  BY <1>15, AlertSaveKeeps
<1> QED BY <1>1, <1>2, <1>3, <1>4, <1>5, <1>6, <1>7, <1>8, <1>9, <1>10, <1>11, <1>12, <1>13, <1>14,
           <1>15 DEF TenantStep

(* The steps of a tenant invoice leave the book, and a payment invoice, alone. *)
LEMMA TenantStepsAreTheirs ==
    ASSUME NEW h \in Handlers, TenantStep(h)
    PROVE  UNCHANGED book /\ (Tenant \/ hs[h].pc \in TenantPCs \ PaymentPCs)
<1>1. UNCHANGED book
  BY DEF TenantStep, Unchanged, IssueLoad, IssueCheck, IssueInvoice, IssueSave, NumberRead, NumberWrite,
         AdjustLoad, AdjustSave, LedgerSave, AdjustInvoice, DunningLoad, DunningCheck, DunningInvoice,
         DunningNotice, AlertSave
<1>2. Tenant \/ hs[h].pc \in {"issue.check", "issue.invoice", "issue.save", "number.read", "number.write",
                              "adjust.save", "ledger", "adjust.invoice", "dunning.check", "dunning.invoice",
                              "dunning.notice", "alert"}
  BY DEF TenantStep, IssueLoad, IssueCheck, IssueInvoice, IssueSave, NumberRead, NumberWrite,
         AdjustLoad, AdjustSave, LedgerSave, AdjustInvoice, DunningLoad, DunningCheck, DunningInvoice,
         DunningNotice, AlertSave
<1> QED BY <1>1, <1>2 DEF TenantPCs, PaymentPCs

LEMMA InvoicesInit == ASSUME TenantInit PROVE Inv
<1>1. book = "tenant" => TenantInv
  BY TenantInitInv DEF Tenant
<1>2. book = "payment" => Init
  BY DEF TenantInit, Tenant
<1> QED BY <1>1, <1>2, PayInitInv DEF Inv

LEMMA InvoicesStep == ASSUME Inv, [InvoicesNext]_allVars PROVE Inv'
<1>1. CASE Tick
  <2>1. book' = "tenant" /\ TenantInv
    BY <1>1 DEF Tick, Tenant, Inv
  <2>2. UNCHANGED <<inv, receipts, adjustments, notices, alerts, numbers, overlaps, aborts, hs>>
    BY <1>1 DEF Tick, vars
  <2> QED BY <2>1, <2>2, TenantStays DEF Inv
<1>2. ASSUME NEW h \in Handlers, PaymentStep(h) PROVE Inv'
  <2>1. book = "payment"
    BY <1>2 DEF PaymentStep, Payment
  <2> QED BY <1>2, <2>1, PaymentStepKeeps DEF Inv
<1>3. ASSUME NEW h \in Handlers, TenantStep(h) PROVE Inv'
  <2>1. CASE book = "tenant"
    <3>1. TenantInv /\ book' = "tenant"
      BY <1>3, <2>1, TenantStepsAreTheirs DEF Inv
    <3> QED BY <1>3, <3>1, TenantStepKeeps DEF Inv
  <2>2. CASE book = "payment"
    <3>1. hs[h].pc \in PaymentPCs
      BY <2>2 DEF Inv, PayInv, PayBase, PayTyped, PayLocal
    <3> QED BY <1>3, <2>2, <3>1, TenantStepsAreTheirs DEF Tenant
  <2>3. CASE book \notin {"tenant", "payment"}
    BY <1>3, <2>3, TenantStepsAreTheirs DEF Inv
  <2> QED BY <2>1, <2>2, <2>3
<1>4. ASSUME NEW h \in Handlers, Abort(h), UNCHANGED tenantVars PROVE Inv'
  <2>1. book' = book
    BY <1>4 DEF tenantVars
  <2>2. book = "payment" => PayInv'
    BY <1>4, PayAbortKeeps DEF Inv
  <2>3. book = "tenant" => TenantInv'
    BY <1>4, TenantAbortKeeps DEF Inv
  <2> QED BY <2>1, <2>2, <2>3 DEF Inv
<1>5. ASSUME NEW c \in DOMAIN charges, Payment, Resolve(c) PROVE Inv'
  <2>1. book = "payment" /\ book' = book
    BY <1>5 DEF Payment, tenantVars
  <2> QED BY <1>5, <2>1, ResolveKeeps DEF Inv
<1>6. CASE UNCHANGED allVars
  <2>1. /\ UNCHANGED <<inv, payments, receipts, charges, returned, overlaps, aborts, misled, hs>>
        /\ UNCHANGED <<adjustments, notices, alerts, numbers, book>>
    BY <1>6 DEF allVars, vars, tenantVars
  <2> QED BY <2>1, PayStays, TenantStays DEF Inv
<1> QED BY <1>1, <1>2, <1>3, <1>4, <1>5, <1>6 DEF InvoicesNext

(* In either book, at every moment, however requests interleave and die:    *)
(* the stored invoice is coherent; of requests that come one at a time no   *)
(* credit and no refund on it is without its payment, receipt or            *)
(* adjustment, whatever settlements say; if none of them dies, the books    *)
(* agree between requests, and with the provider as long as nothing told    *)
(* them otherwise than it did.                                              *)
THEOREM InvoiceMoneyIsAccounted == InvoicesSpec => []InvoiceMoneyAccounted
<1>1. Inv => InvoiceMoneyAccounted
  BY PayInvImplies, TenantInvImplies
     DEF Inv, InvoiceMoneyAccounted, PaymentMoneyAccounted, TenantMoneyAccounted, Tenant
<1> QED BY <1>1, InvoicesInit, InvoicesStep, PTL DEF InvoicesSpec

(* In either book, of requests that come one at a time, whatever dies, no   *)
(* receipt, no payment of a key, no number, no reference and no stage of    *)
(* dunning comes twice; if none dies, and no error and no settlement told   *)
(* the books otherwise than the provider did, nobody is charged twice.      *)
THEOREM NothingIsDoneTwice == InvoicesSpec => []NothingDoneTwice
<1>1. Inv => NothingDoneTwice
  BY PayInvImplies, TenantInvImplies
     DEF Inv, NothingDoneTwice, PaymentNothingTwice, TenantNothingTwice, Tenant
<1> QED BY <1>1, InvoicesInit, InvoicesStep, PTL DEF InvoicesSpec
-----------------------------------------------------------------------------
(* The ledger of mobile money. *)

USE DEF OrderlyTxns, At, Goto, Kinds, Statuses, Results, NoRow, Callback

(* Every value the ledger stores and every callback in work keeps its      *)
(* type, in every environment.                                             *)
THEOREM LedgerTyped == MoneySpec => []MoneyTypeOK
<1>1. MoneyInit => MoneyTypeOK
  BY DEF MoneyInit, MoneyTypeOK
<1>2. MoneyTypeOK /\ [MoneyNext]_moneyVars => MoneyTypeOK'
  <2> SUFFICES ASSUME MoneyTypeOK, [MoneyNext]_moneyVars PROVE MoneyTypeOK'
    OBVIOUS
  <2>1. ASSUME NEW t \in Txns, Create(t) PROVE MoneyTypeOK'
    BY <2>1 DEF MoneyTypeOK, Create
  <2>2. ASSUME NEW t \in Txns, Ask(t) PROVE MoneyTypeOK'
    BY <2>2 DEF MoneyTypeOK, Ask
  <2>3. ASSUME NEW t \in Txns, Answer(t) PROVE MoneyTypeOK'
    BY <2>3 DEF MoneyTypeOK, Answer
  <2>4. ASSUME NEW t \in Txns, Die(t) PROVE MoneyTypeOK'
    BY <2>4 DEF MoneyTypeOK, Die
  <2>5. ASSUME NEW t \in Txns, Decide(t) PROVE MoneyTypeOK'
    BY <2>5 DEF MoneyTypeOK, Decide
  <2>6. ASSUME NEW t \in Txns, CallbackFind(t) PROVE MoneyTypeOK'
    BY <2>6 DEF MoneyTypeOK, CallbackFind, Told
  <2>7. ASSUME NEW c \in handled, CallbackUpdate(c) PROVE MoneyTypeOK'
    BY <2>7 DEF MoneyTypeOK, CallbackUpdate, mapAtPaymentStatus
  <2>8. CASE UNCHANGED moneyVars
    BY <2>8 DEF MoneyTypeOK, moneyVars
  <2> QED BY <2>1, <2>2, <2>3, <2>4, <2>5, <2>6, <2>7, <2>8
          DEF MoneyNext, Requests, Provider, Callbacks
<1> QED BY <1>1, <1>2, PTL DEF MoneySpec
-----------------------------------------------------------------------------
(* What is true of the ledger in every environment: a result a callback    *)
(* carries is the provider's final one, and a row exists from the moment   *)
(* its request goes on.                                                    *)
Honest ==
    /\ \A c \in handled : c.status \in Results => telco[c.txn] = c.status
    /\ \A t \in Txns : ~At(t, "new") => ledger[t].status # "NO_ROW"
    /\ \A t \in Txns : request[t].pc \in {"new", "ask"} => telco[t] = "none"

LEMMA HonestInvariant == MoneySpec => [](Honest /\ SuccessIsReal)
<1> DEFINE IInv == Honest /\ SuccessIsReal
<1>1. MoneyInit => IInv
  BY DEF MoneyInit, Honest, SuccessIsReal
<1>2. MoneyTypeOK /\ IInv /\ [MoneyNext]_moneyVars => IInv'
  <2> SUFFICES ASSUME MoneyTypeOK, Honest, SuccessIsReal, [MoneyNext]_moneyVars
               PROVE  Honest' /\ SuccessIsReal'
    OBVIOUS
  <2> USE DEF MoneyTypeOK, Honest, SuccessIsReal
  <2>1. ASSUME NEW t \in Txns, Create(t) PROVE Honest' /\ SuccessIsReal'
    <3>1. \A x \in Txns : x # t => ledger'[x] = ledger[x] /\ request'[x] = request[x]
      BY <2>1 DEF Create
    <3>2. ledger'[t].status = "REQUESTED" /\ request'[t].pc = "ask"
      BY <2>1 DEF Create
    <3> QED BY <2>1, <3>1, <3>2 DEF Create
  <2>2. ASSUME NEW t \in Txns, Ask(t) PROVE Honest' /\ SuccessIsReal'
    <3>1. \A x \in Txns : x # t => telco'[x] = telco[x] /\ request'[x] = request[x]
      BY <2>2 DEF Ask
    <3>0. PICK reply : reply.pc = "answer" /\ request' = [request EXCEPT ![t] = reply]
      BY <2>2, Zenon DEF Ask
    <3>2. request'[t].pc = "answer" /\ telco[t] = "none"
      BY <2>2, <3>0 DEF Ask
    <3>3. telco'[t] # telco[t] => telco[t] = "none"
      BY <3>2
    <3>4. ledger' = ledger /\ handled' = handled
      BY <2>2 DEF Ask
    <3>5. ledger[t].status # "NO_ROW"
      BY <2>2 DEF Ask
    <3>6. Honest'
      <4>1. \A c \in handled' : c.status \in Results => telco'[c.txn] = c.status
        BY <3>1, <3>2, <3>4
      <4>2. \A x \in Txns : ~At(x, "new")' => ledger'[x].status # "NO_ROW"
        BY <3>0, <3>4, <3>5 DEF At
      <4>3. \A x \in Txns : request'[x].pc \in {"new", "ask"} => telco'[x] = "none"
        <5> SUFFICES ASSUME NEW x \in Txns, request'[x].pc \in {"new", "ask"} PROVE telco'[x] = "none"
          OBVIOUS
        <5>1. x # t
          BY <3>2
        <5>2. request'[x] = request[x] /\ telco'[x] = telco[x]
          BY <3>0, <3>1, <5>1
        <5> QED BY <5>2
      <4> QED BY <4>1, <4>2, <4>3
    <3>7. SuccessIsReal'
      BY <3>1, <3>2, <3>4
    <3> QED BY <3>6, <3>7
  <2>3. ASSUME NEW t \in Txns, Answer(t) PROVE Honest' /\ SuccessIsReal'
    BY <2>3 DEF Answer
  <2>4. ASSUME NEW t \in Txns, Die(t) PROVE Honest' /\ SuccessIsReal'
    BY <2>4 DEF Die
  <2>5. ASSUME NEW t \in Txns, Decide(t) PROVE Honest' /\ SuccessIsReal'
    BY <2>5 DEF Decide
  <2>6. ASSUME NEW t \in Txns, CallbackFind(t) PROVE Honest' /\ SuccessIsReal'
    BY <2>6 DEF CallbackFind, Told
  <2>7. ASSUME NEW c \in handled, CallbackUpdate(c)
        PROVE  Honest' /\ SuccessIsReal'
    <3>1. c.status = "Success" => telco[c.txn] = "Success"
      OBVIOUS
    <3> QED BY <2>7, <3>1 DEF CallbackUpdate, mapAtPaymentStatus
  <2>8. CASE UNCHANGED moneyVars
    BY <2>8 DEF moneyVars
  <2> QED BY <2>1, <2>2, <2>3, <2>4, <2>5, <2>6, <2>7, <2>8
          DEF MoneyNext, Requests, Provider, Callbacks
<1> QED BY <1>1, <1>2, LedgerTyped, PTL DEF MoneySpec

(* A SUCCESS in the ledger is money the provider moved, for any number of  *)
(* rows, over lost, early, repeated and reordered callbacks and crashes.   *)
THEOREM SuccessIsEarned == MoneySpec => []SuccessIsReal
BY HonestInvariant, PTL

(* Every request the provider knows has its row, whatever dies.            *)
THEOREM RowsComeFirst == MoneySpec => []AskedIsRecorded
<1>1. MoneyTypeOK /\ Honest => AskedIsRecorded
  BY DEF MoneyTypeOK, Honest, AskedIsRecorded
<1> QED BY <1>1, LedgerTyped, HonestInvariant, PTL
-----------------------------------------------------------------------------
(* A callback in work for an orderly row is the only one the row ever      *)
(* gets, and it finds the row PENDING.                                     *)
Orderly ==
    /\ \A t \in OrderlyTxns :
          /\ ledger[t].status = "NO_ROW" <=> At(t, "new")
          /\ request[t].pc \in {"ask", "answer"} => ledger[t].status = "REQUESTED"
          /\ ~At(t, "done") => ~ledger[t].id /\ t \notin called
          /\ At(t, "answer") /\ request[t].id => request[t].ok
          /\ ledger[t].id /\ t \notin called => ledger[t].status = "PENDING"
    /\ \A c \in handled : c.txn \in OrderlyTxns =>
          c.txn \in called /\ c.status \in Results /\ ledger[c.txn].status = "PENDING"
    /\ \A c, d \in handled : c.txn \in OrderlyTxns /\ c.txn = d.txn => c = d

LEMMA OrderlyInit == MoneyInit => Orderly /\ FSM!Init
BY DEF MoneyInit, Orderly, FSM!Init, FSM!NoRow

(* What a step changes of an unruly row is nothing to the orderly ones. *)
LEMMA UnrulyStep ==
    ASSUME MoneyTypeOK, Orderly, NEW u \in Unruly, called' = called,
           \A x \in OrderlyTxns : ledger'[x] = ledger[x] /\ request'[x] = request[x],
           \A c \in handled' : c \in handled \/ c.txn = u
    PROVE  /\ Orderly'
           /\ [t \in OrderlyTxns |-> ledger[t].status]' = [t \in OrderlyTxns |-> ledger[t].status]
<1>1. \A c \in handled' : c.txn \in OrderlyTxns => c \in handled
  OBVIOUS
<1>2. Orderly'
  BY <1>1 DEF Orderly
<1> QED BY <1>2

LEMMA OrderlyStep ==
    ASSUME MoneyTypeOK, Orderly, [MoneyNext]_moneyVars
    PROVE  Orderly' /\ [FSM!Next]_([t \in OrderlyTxns |-> ledger[t].status])
<1> DEFINE status == [t \in OrderlyTxns |-> ledger[t].status]
<1> DEFINE Good == Orderly' /\ (FSM!Next \/ status' = status)
<1> SUFFICES Good
  OBVIOUS
<1>1. ASSUME NEW t \in OrderlyTxns, Create(t) PROVE Good
  <2>1. Orderly'
    <3>1. \A x \in Txns : x # t => ledger'[x] = ledger[x] /\ request'[x] = request[x]
      BY <1>1 DEF MoneyTypeOK, Create
    <3>2. ledger'[t].status = "REQUESTED" /\ ~ledger'[t].id /\ request'[t].pc = "ask"
      BY <1>1 DEF MoneyTypeOK, Create
    <3>3. \A c \in handled : c.txn # t
      BY <1>1 DEF Orderly, Create
    <3> QED BY <1>1, <3>1, <3>2, <3>3 DEF MoneyTypeOK, Orderly, Create
  <2>2. status[t] = "NO_ROW" /\ status' = [status EXCEPT ![t] = "REQUESTED"]
    <3>1. PICK row : row.status = "REQUESTED" /\ ledger' = [ledger EXCEPT ![t] = row]
      BY <1>1 DEF Create
    <3>2. ledger[t].status = "NO_ROW"
      BY <1>1 DEF Orderly, Create
    <3> QED BY <3>1, <3>2 DEF MoneyTypeOK
  <2> QED BY <2>1, <2>2 DEF FSM!Next, FSM!Create, FSM!NoRow
<1>2. ASSUME NEW t \in OrderlyTxns, Ask(t) PROVE Good
  BY <1>2 DEF MoneyTypeOK, Orderly, Ask
<1>3. ASSUME NEW t \in OrderlyTxns, Answer(t) PROVE Good
  <2> DEFINE to == IF request[t].ok THEN "PENDING" ELSE "FAILED"
  <2>1. Orderly'
    BY <1>3 DEF MoneyTypeOK, Orderly, Answer
  <2>2. status[t] = "REQUESTED" /\ status' = [status EXCEPT ![t] = to]
    <3>1. status[t] = "REQUESTED"
      BY <1>3 DEF Orderly, Answer
    <3>2. \A x \in OrderlyTxns : x # t => ledger'[x] = ledger[x]
      BY <1>3 DEF MoneyTypeOK, Answer
    <3>3. ledger'[t].status = to
      BY <1>3 DEF MoneyTypeOK, Answer
    <3> QED BY <3>1, <3>2, <3>3
  <2>3. FSM!canTransitionPayment("REQUESTED", to) /\ to \in FSM!PAYMENT_STATUSES
    BY DEF FSM!canTransitionPayment, FSM!NEXT, FSM!PAYMENT_STATUSES
  <2>4. FSM!canTransitionPayment(status[t], to)
    BY <2>2, <2>3
  <2> HIDE DEF status, to
  <2>5. FSM!Move(t)
    BY <2>2, <2>3, <2>4 DEF FSM!Move, status
  <2> QED BY <2>1, <2>5 DEF FSM!Next
<1>4. ASSUME NEW t \in OrderlyTxns, CallbackFind(t) PROVE Good
  BY <1>4 DEF MoneyTypeOK, Orderly, CallbackFind, Told
<1>5. ASSUME NEW c \in handled, c.txn \in OrderlyTxns, CallbackUpdate(c) PROVE Good
  <2> DEFINE to == mapAtPaymentStatus(c.status)
  <2>0. to \in {"SUCCESS", "FAILED"}
    BY <1>5 DEF MoneyTypeOK, Orderly, mapAtPaymentStatus
  <2>1. Orderly'
    <3>1. /\ UNCHANGED <<request, telco, called>> /\ handled' = handled \ {c}
          /\ ledger' = [ledger EXCEPT ![c.txn].status = to]
      BY <1>5 DEF CallbackUpdate
    <3>2. c.txn \in Txns /\ ledger[c.txn].status = "PENDING" /\ c.txn \in called
      BY <1>5 DEF Orderly, OrderlyTxns
    <3>3. \A x \in Txns : /\ x # c.txn => ledger'[x] = ledger[x]
                          /\ ledger'[x].id = ledger[x].id
                          /\ x = c.txn => ledger'[x].status = to
      BY <3>1 DEF MoneyTypeOK
    <3> HIDE DEF to
    <3>4. \A d \in handled' : d.txn \in OrderlyTxns => d.txn # c.txn /\ d \in handled
      BY <1>5, <3>1 DEF Orderly
    <3>5. \A d \in handled' : d.txn \in OrderlyTxns =>
             d.txn \in called' /\ d.status \in Results /\ ledger'[d.txn].status = "PENDING"
      BY <3>1, <3>3, <3>4 DEF Orderly, OrderlyTxns
    <3>6. \A d, e \in handled' : d.txn \in OrderlyTxns /\ d.txn = e.txn => d = e
      BY <3>4 DEF Orderly
    <3>7. ASSUME NEW x \in OrderlyTxns
          PROVE  /\ ledger'[x].status = "NO_ROW" <=> At(x, "new")'
                 /\ request'[x].pc \in {"ask", "answer"} => ledger'[x].status = "REQUESTED"
                 /\ ~At(x, "done")' => ~ledger'[x].id /\ x \notin called'
                 /\ At(x, "answer")' /\ request'[x].id => request'[x].ok
                 /\ ledger'[x].id /\ x \notin called' => ledger'[x].status = "PENDING"
      <4>1. x \in Txns /\ (\A pc : At(x, pc)' <=> At(x, pc))
        BY <3>1 DEF OrderlyTxns, At
      <4>2. CASE x # c.txn
        BY <3>1, <3>3, <4>1, <4>2 DEF Orderly, At
      <4>3. CASE x = c.txn
        <5>1. At(x, "done") /\ request[x].pc \notin {"ask", "answer"} /\ ~At(x, "new") /\ ~At(x, "answer")
          BY <3>2, <4>1, <4>3 DEF Orderly, At, MoneyTypeOK
        <5> QED BY <2>0, <3>1, <3>2, <3>3, <4>1, <4>3, <5>1
      <4> QED BY <4>2, <4>3
    <3> QED BY <3>5, <3>6, <3>7 DEF Orderly
  <2>2. status[c.txn] = "PENDING" /\ status' = [status EXCEPT ![c.txn] = to]
    <3>1. status[c.txn] = "PENDING"
      BY <1>5 DEF Orderly
    <3>2. ledger' = [ledger EXCEPT ![c.txn].status = to] /\ c.txn \in Txns
      BY <1>5 DEF CallbackUpdate, OrderlyTxns
    <3> HIDE DEF to
    <3>3. \A x \in OrderlyTxns : ledger'[x].status = IF x = c.txn THEN to ELSE ledger[x].status
      BY <3>2 DEF MoneyTypeOK, OrderlyTxns
    <3> QED BY <1>5, <3>1, <3>3
  <2>3. FSM!canTransitionPayment("PENDING", to) /\ to \in FSM!PAYMENT_STATUSES
    BY <2>0 DEF FSM!canTransitionPayment, FSM!NEXT, FSM!PAYMENT_STATUSES
  <2>4. FSM!canTransitionPayment(status[c.txn], to)
    BY <2>2, <2>3
  <2> HIDE DEF status, to
  <2>5. FSM!Move(c.txn)
    BY <2>2, <2>3, <2>4 DEF FSM!Move, status
  <2> QED BY <1>5, <2>1, <2>5 DEF FSM!Next
<1>6. ASSUME NEW t \in Txns, Decide(t) PROVE Good
  BY <1>6 DEF MoneyTypeOK, Orderly, Decide
<1>7. ASSUME NEW t \in Unruly, Create(t) \/ Ask(t) \/ Answer(t) \/ CallbackFind(t) PROVE Good
  <2>1. called' = called
    BY <1>7 DEF Create, Ask, Answer, CallbackFind
  <2>2. \A x \in OrderlyTxns : ledger'[x] = ledger[x]
    BY <1>7 DEF Create, Ask, Answer, CallbackFind, MoneyTypeOK
  <2>3. \A x \in OrderlyTxns : request'[x] = request[x]
    BY <1>7 DEF Create, Ask, Answer, CallbackFind, MoneyTypeOK
  <2>4. \A c \in handled' : c \in handled \/ c.txn = t
    BY <1>7 DEF Create, Ask, Answer, CallbackFind
  <2> QED BY <2>1, <2>2, <2>3, <2>4, UnrulyStep
<1>8. ASSUME NEW t \in Txns, Die(t) PROVE Good
  <2>1. \A x \in OrderlyTxns : ledger'[x] = ledger[x] /\ request'[x] = request[x]
    BY <1>8 DEF Die, MoneyTypeOK
  <2> QED BY <1>8, <2>1, UnrulyStep DEF Die
<1>9. ASSUME NEW c \in handled, c.txn \in Unruly, CallbackUpdate(c) PROVE Good
  <2>1. \A x \in OrderlyTxns : ledger'[x] = ledger[x] /\ request'[x] = request[x]
    BY <1>9 DEF CallbackUpdate, MoneyTypeOK
  <2> QED BY <1>9, <2>1, UnrulyStep DEF CallbackUpdate
<1>10. CASE UNCHANGED moneyVars
  BY <1>10 DEF Orderly, moneyVars
<1>11. \A c \in handled : c.txn \in OrderlyTxns \/ c.txn \in Unruly
  BY DEF MoneyTypeOK
<1> QED BY <1>1, <1>2, <1>3, <1>4, <1>5, <1>6, <1>7, <1>8, <1>9, <1>10, <1>11
        DEF MoneyNext, Requests, Provider, Callbacks

(* The orderly rows implement the payment status machine of the domain     *)
(* package, whatever happens to the others and although no code consults   *)
(* it.                                                                     *)
THEOREM ImplementsFSM == MoneySpec => FollowsFSM
<1>1. MoneySpec => []Orderly
  BY OrderlyInit, OrderlyStep, LedgerTyped, PTL DEF MoneySpec
<1> QED BY <1>1, OrderlyInit, OrderlyStep, LedgerTyped, PTL
        DEF MoneySpec, FollowsFSM, FSM!Spec
-----------------------------------------------------------------------------
(***************************************************************************)
(* The rails of one invoice (PaymentRails), for any invoices, deployments  *)
(* and bounds.  What an adapter answers is credited in the same step, so   *)
(* an invariant ties the three books together: what the providers took,    *)
(* what the invoice was credited, and what was paid back.  The one thing   *)
(* asked of the world is that the code's table of decimals is the          *)
(* provider's (TablesAgree).                                               *)
(***************************************************************************)
Unit == ProviderUnit[invoice.currency]
(* The provider counts in the units the code takes it to count in.          *)
TablesAgree == \A i \in Invoices : MinorUnit(i.currency) = ProviderUnit[i.currency]

ChargeStatuses ==
    {"succeeded", "open", "success", "pending", "active", "grace", "hold"}
Charges ==
    [rail : {"stripe", "at", "play"}, key : Nat, ref : PaymentReferences, units : Int,
     worth : Nat, back : Nat, status : ChargeStatuses]
Bookings ==
    [kind : {"capture", "refund"}, provider : {"manual", "unavailable", "stripe", "at", "play"},
     id : Nat, status : PaymentStatuses, ref : PaymentReferences, amount : Int]
Repayments ==
    [rail : {"stripe", "at"}, charge : Nat, worth : Nat \ {0}, good : BOOLEAN]

RailsTyped ==
    /\ booked \in Seq(Bookings) /\ taken \in Seq(Charges) /\ repaid \in Seq(Repayments)
    /\ invoice \in [currency : {i.currency : i \in Invoices}, total : Nat, paid : Int,
                    refunded : Int, status : {"ISSUED", "PAID", "PARTIALLY_REFUNDED", "REFUNDED"}]
    /\ charged \in Int /\ faults \in Nat /\ acked \in BOOLEAN

(* A rail takes against a reference of its own kind only.                   *)
TakenSound ==
    \A c \in DOMAIN taken :
        /\ taken[c].rail = "stripe" =>
              taken[c].ref = "token" /\ taken[c].worth = taken[c].units * Unit
        /\ taken[c].rail = "at" => taken[c].ref = "phone"
        /\ taken[c].rail = "play" => taken[c].ref = "purchase"

(* A captured payment names a charge that its rail took, of its amount.     *)
BookedSound ==
    \A i \in CapturedPayments :
        LET p == booked[i]
        IN  IF p.provider = "manual" THEN p.id = 0
            ELSE /\ p.id \in DOMAIN taken
                 /\ taken[p.id].rail = p.provider
                 /\ taken[p.id].status \in {"succeeded", "success", "active", "grace"}
                 /\ taken[p.id].ref = p.ref
                 /\ p.provider # "play" => taken[p.id].worth = p.amount

(* Africa's Talking is never told to pay back a charge of Stripe.           *)
RepaidSound ==
    \A j \in DOMAIN repaid :
        repaid[j].rail = "at" =>
            \/ repaid[j].charge = 0
            \/ repaid[j].charge \in DOMAIN taken /\ taken[repaid[j].charge].rail # "stripe"

(* A refund on record was asked of its rail.                                *)
RefundsReturned ==
    \A i \in DOMAIN booked :
        (booked[i].kind = "refund" /\ booked[i].status = "REFUNDED"
           /\ booked[i].provider # "manual") =>
        \E j \in DOMAIN repaid :
           /\ repaid[j].rail = booked[i].provider
           /\ repaid[j].worth = booked[i].amount
           /\ repaid[j].rail = "stripe" => repaid[j].charge = booked[i].id

(* Before the first captured payment nothing is credited or paid back.      *)
NothingYet ==
    CapturedPayments = {} =>
        /\ invoice.paid = 0 /\ invoice.refunded = 0
        /\ \A c \in DOMAIN taken : taken[c].back = 0

(* While one payment paid, no more of a charge is paid back than was taken. *)
PaidAtOnce ==
    \A k \in DOMAIN booked : CapturedPayments = {k} =>
        /\ invoice.paid = booked[k].amount
        /\ \A c \in DOMAIN taken : taken[c].back <= taken[c].worth
        /\ booked[k].provider = "at" => taken[booked[k].id].back <= invoice.refunded

(* What is credited is the total to the nearest unit; what is charged is    *)
(* credited, unless an answer was lost.                                     *)
PaidNearly == 2 * invoice.paid <= 2 * invoice.total + Unit
ChargedIsPaid == faults = 0 => charged <= invoice.paid

RailsInv ==
    /\ RailsTyped /\ TakenSound /\ BookedSound /\ RepaidSound /\ RefundsReturned
    /\ NothingYet /\ PaidAtOnce /\ PaidNearly /\ ChargedIsPaid
    /\ RestIsLessThanAUnit /\ PaidIsAcknowledged
-----------------------------------------------------------------------------
(* Arithmetic of roundings. *)

LEMMA Quotient ==
  ASSUME NEW a \in Int, NEW d \in Nat \ {0}
  PROVE  /\ a \div d \in Int
         /\ d * (a \div d) <= a /\ a < d * (a \div d) + d
         /\ a % d = 0 => a = d * (a \div d)
  BY Z3

LEMMA Grows ==
  ASSUME NEW m \in Int, NEW n \in Int, NEW u \in Nat \ {0}, m <= n
  PROVE  m * u \in Int /\ n * u \in Int /\ m * u <= n * u
<1>1. (n - m) * u >= 0
  BY Z3
<1>2. (n - m) * u = n * u - m * u
  BY Z3
<1> QED BY <1>1, <1>2

(* Half up: what is counted is within half a unit, and all of a whole number *)
(* of units.                                                                 *)
LEMMA Rounding ==
  ASSUME NEW o \in Int, o > 0, NEW u \in Nat \ {0}, NEW n, n = (2 * o + u) \div (2 * u)
  PROVE  /\ n \in Nat /\ n * u \in Nat
         /\ 2 * (n * u) <= 2 * o + u
         /\ 2 * o <= 2 * (n * u) + u
         /\ o % u = 0 => o = n * u
<1>1. n \in Int /\ (2 * u) * n <= 2 * o + u /\ 2 * o + u < (2 * u) * n + 2 * u
  BY Quotient, 2 * o + u \in Int, 2 * u \in Nat \ {0}
<1>2. (2 * u) * n = 2 * (n * u) /\ n * u \in Int
  BY <1>1, Z3
<1>3. n >= 0
  <2>1. CASE n <= -1
    <3>1. n * u <= (-1) * u
      BY <1>1, <2>1, Grows, -1 \in Int
    <3> QED BY <1>1, <1>2, <3>1
  <2> QED BY <1>1, <2>1
<1>4. n * u >= 0
  BY <1>1, <1>3, Grows, 0 \in Int
<1>5. ASSUME o % u = 0 PROVE o = n * u
  <2> DEFINE q == o \div u
  <2>1. q \in Int /\ o = u * q
    BY <1>5, Quotient
  <2> HIDE DEF q
  <2>2. u * q = q * u /\ (q + 1) * u = q * u + u /\ (n + 1) * u = n * u + u
    BY <2>1, <1>1, Z3
  <2>3. CASE n < q
    <3>1. (n + 1) * u <= q * u
      BY <2>1, <2>3, <1>1, Grows, n + 1 \in Int, n + 1 <= q
    <3> QED BY <1>1, <1>2, <2>1, <2>2, <3>1
  <2>4. CASE q < n
    <3>1. (q + 1) * u <= n * u
      BY <2>1, <2>4, <1>1, Grows, q + 1 \in Int, q + 1 <= n
    <3> QED BY <1>1, <1>2, <2>1, <2>2, <3>1
  <2> QED BY <1>1, <2>1, <2>2, <2>3, <2>4
<1> QED BY <1>1, <1>2, <1>3, <1>4, <1>5
-----------------------------------------------------------------------------
(* What a capture writes. *)

LEMMA Extended ==
  ASSUME NEW S, NEW s \in Seq(S), NEW e \in S
  PROVE  /\ Append(s, e) \in Seq(S) /\ Len(s) \in Nat
         /\ DOMAIN s = 1..Len(s) /\ DOMAIN Append(s, e) = DOMAIN s \cup {Len(s) + 1}
         /\ Len(s) + 1 \notin DOMAIN s
         /\ \A i \in DOMAIN s : Append(s, e)[i] = s[i]
         /\ Append(s, e)[Len(s) + 1] = e
<1>1. /\ Append(s, e) \in Seq(S) /\ Len(s) \in Nat /\ DOMAIN s = 1..Len(s)
      /\ DOMAIN Append(s, e) = 1..(Len(s) + 1)
      /\ \A i \in DOMAIN s : Append(s, e)[i] = s[i]
      /\ Append(s, e)[Len(s) + 1] = e
  OBVIOUS
<1> QED BY <1>1

(* The row of booked that an answer adds.                                   *)
LEMMA RowAdded ==
  ASSUME RailsTyped, NEW row \in Bookings, booked' = Append(booked, row)
  PROVE  /\ booked' \in Seq(Bookings)
         /\ DOMAIN booked' = DOMAIN booked \cup {Len(booked) + 1}
         /\ Len(booked) + 1 \notin DOMAIN booked
         /\ \A i \in DOMAIN booked : booked'[i] = booked[i]
         /\ booked'[Len(booked) + 1] = row
         /\ CapturedPayments \subseteq DOMAIN booked
         /\ CapturedPayments' = IF row.kind = "capture" /\ row.status = "CAPTURED"
                                THEN CapturedPayments \cup {Len(booked) + 1}
                                ELSE CapturedPayments
<1>1. /\ booked' \in Seq(Bookings)
      /\ DOMAIN booked' = DOMAIN booked \cup {Len(booked) + 1}
      /\ Len(booked) + 1 \notin DOMAIN booked
      /\ \A i \in DOMAIN booked : booked'[i] = booked[i]
      /\ booked'[Len(booked) + 1] = row
  BY Extended DEF RailsTyped
<1>2. CapturedPayments' =
        {i \in DOMAIN booked' : booked'[i].kind = "capture" /\ booked'[i].status = "CAPTURED"}
  BY DEF CapturedPayments
<1>3. CapturedPayments =
        {i \in DOMAIN booked : booked[i].kind = "capture" /\ booked[i].status = "CAPTURED"}
  BY DEF CapturedPayments
<1> QED BY <1>1, <1>2, <1>3

(* What an adapter answers.                                                 *)
Answers ==
    [provider : {"manual", "unavailable", "stripe", "at", "play"}, id : Nat,
     status : PaymentStatuses, amount : Int]

InvoiceKept ==
    /\ invoice' \in [currency : {i.currency : i \in Invoices}, total : Nat, paid : Int,
                     refunded : Int,
                     status : {"ISSUED", "PAID", "PARTIALLY_REFUNDED", "REFUNDED"}]
    /\ invoice'.currency = invoice.currency /\ invoice'.total = invoice.total

LEMMA CaptureBooks ==
  ASSUME RailsTyped, NEW ref \in PaymentReferences, NEW r \in Answers, BookCapture(ref, r)
  PROVE  \E row \in Bookings :
            /\ booked' = Append(booked, row)
            /\ row.kind = "capture" /\ row.provider = r.provider
            /\ row.id = r.id /\ row.status = r.status
            /\ r.status = "CAPTURED" => row.ref = ref /\ row.amount = r.amount
            /\ InvoiceKept
            /\ invoice'.refunded = invoice.refunded
            /\ invoice'.paid = IF r.status = "CAPTURED" THEN invoice.paid + r.amount
                               ELSE invoice.paid
<1> DEFINE row == [kind |-> "capture", provider |-> r.provider, id |-> r.id,
                   status |-> r.status,
                   ref |-> IF r.status = "CAPTURED" THEN ref ELSE "none",
                   amount |-> IF r.status = "CAPTURED" THEN r.amount ELSE ToCollect]
<1>1. ToCollect \in Int
  BY DEF RailsTyped, ToCollect
<1>2. row \in Bookings
  BY <1>1 DEF Bookings, Answers, PaymentReferences
<1>3. booked' = Append(booked, row)
  BY DEF BookCapture
<1>4. InvoiceKept /\ invoice'.refunded = invoice.refunded
      /\ invoice'.paid = IF r.status = "CAPTURED" THEN invoice.paid + r.amount
                         ELSE invoice.paid
  <2>1. r.amount \in Int /\ invoice.paid \in Int
    BY DEF Answers, RailsTyped
  <2>2. invoice.paid + r.amount \in Int
    BY <2>1
  <2>3. CASE r.status # "CAPTURED"
    BY <2>3 DEF BookCapture, RailsTyped, InvoiceKept
  <2>4. CASE r.status = "CAPTURED"
    <3> DEFINE paid == invoice.paid + r.amount
               status == IF invoice.paid + r.amount >= invoice.total
                         THEN "PAID" ELSE invoice.status
    <3>1. invoice' = [invoice EXCEPT !.paid = paid, !.status = status]
      BY <2>4 DEF BookCapture
    <3>2. paid \in Int /\ status \in {"ISSUED", "PAID", "PARTIALLY_REFUNDED", "REFUNDED"}
      BY <2>2 DEF RailsTyped
    <3>3. paid = invoice.paid + r.amount
      OBVIOUS
    <3> HIDE DEF paid, status
    <3> QED BY <2>4, <3>1, <3>2, <3>3 DEF RailsTyped, InvoiceKept
  <2> QED BY <2>3, <2>4
<1> QED BY <1>2, <1>3, <1>4

(* The providers after a capture: what they had is as it was.               *)
ProvidersGrow ==
    /\ taken' \in Seq(Charges) /\ charged' \in Int /\ faults' \in Nat /\ acked' \in BOOLEAN
    /\ TakenSound' /\ repaid' = repaid
    /\ \A c \in DOMAIN taken : c \in DOMAIN taken' /\ taken'[c] = taken[c]
    /\ \A c \in DOMAIN taken' : c \notin DOMAIN taken => taken'[c].back = 0
    /\ acked => acked'
    /\ faults' = 0 => faults = 0

(* A captured payment: as much as was to be collected, to a unit, by a       *)
(* provider that took it.                                                   *)
Earned(ref, r) ==
    /\ ToCollect > 0 /\ 2 * r.amount <= 2 * ToCollect + Unit
    /\ 2 * (ToCollect - r.amount) <= Unit
    /\ ToCollect % Unit = 0 => r.amount = ToCollect
    /\ IF r.provider = "manual" THEN r.id = 0
       ELSE /\ r.id \in DOMAIN taken' /\ taken'[r.id].rail = r.provider
            /\ taken'[r.id].status \in {"succeeded", "success", "active", "grace"}
            /\ taken'[r.id].ref = ref
            /\ r.provider # "play" => taken'[r.id].worth = r.amount
    /\ r.provider = "play" /\ faults' = 0 => acked'

LEMMA CaptureKeeps ==
  ASSUME RailsInv, Unit \in Nat \ {0}, NEW ref \in PaymentReferences, NEW r \in Answers,
         BookCapture(ref, r), ProvidersGrow,
         r.status = "CAPTURED" => Earned(ref, r),
         faults' = 0 =>
            charged' <= charged + IF r.status = "CAPTURED" THEN r.amount ELSE 0
  PROVE  RailsInv'
<1>1. PICK row \in Bookings :
            /\ booked' = Append(booked, row)
            /\ row.kind = "capture" /\ row.provider = r.provider
            /\ row.id = r.id /\ row.status = r.status
            /\ r.status = "CAPTURED" => row.ref = ref /\ row.amount = r.amount
            /\ InvoiceKept
            /\ invoice'.refunded = invoice.refunded
            /\ invoice'.paid = IF r.status = "CAPTURED" THEN invoice.paid + r.amount
                               ELSE invoice.paid
  BY CaptureBooks DEF RailsInv
<1> DEFINE n == Len(booked) + 1
<1>2. /\ booked' \in Seq(Bookings)
      /\ DOMAIN booked' = DOMAIN booked \cup {n}
      /\ n \notin DOMAIN booked
      /\ \A i \in DOMAIN booked : booked'[i] = booked[i]
      /\ booked'[n] = row
      /\ CapturedPayments \subseteq DOMAIN booked
      /\ CapturedPayments' = IF r.status = "CAPTURED"
                             THEN CapturedPayments \cup {n} ELSE CapturedPayments
  BY <1>1, RowAdded DEF RailsInv
<1> HIDE DEF n
<1>3. Unit' = Unit /\ invoice'.total = invoice.total
  BY <1>1 DEF InvoiceKept, Unit
<1>4. /\ invoice.paid \in Int /\ invoice.total \in Nat /\ invoice.refunded \in Int
      /\ r.amount \in Int /\ charged \in Int /\ charged' \in Int
  BY DEF RailsInv, RailsTyped, Answers, ProvidersGrow
<1>5. RailsTyped'
  BY <1>1, <1>2 DEF RailsInv, RailsTyped, ProvidersGrow, InvoiceKept
<1>6. TakenSound'
  BY DEF ProvidersGrow
<1>7. BookedSound'
  <2> SUFFICES ASSUME NEW i \in CapturedPayments'
               PROVE  LET p == booked'[i]
                      IN  IF p.provider = "manual" THEN p.id = 0
                          ELSE /\ p.id \in DOMAIN taken'
                               /\ taken'[p.id].rail = p.provider
                               /\ taken'[p.id].status
                                     \in {"succeeded", "success", "active", "grace"}
                               /\ taken'[p.id].ref = p.ref
                               /\ p.provider # "play" => taken'[p.id].worth = p.amount
    BY DEF BookedSound
  <2>1. CASE i \in CapturedPayments
    <3>1. booked'[i] = booked[i]
      BY <1>2, <2>1
    <3>2. \A c \in DOMAIN taken : c \in DOMAIN taken' /\ taken'[c] = taken[c]
      BY DEF ProvidersGrow
    <3> QED BY <2>1, <3>1, <3>2 DEF RailsInv, BookedSound
  <2>2. CASE i = n /\ r.status = "CAPTURED"
    BY <1>1, <1>2, <2>2 DEF Earned
  <2> QED BY <1>2, <2>1, <2>2
<1>8. RepaidSound'
  BY DEF RailsInv, RepaidSound, ProvidersGrow
<1>9. RefundsReturned'
  BY <1>1, <1>2 DEF RailsInv, RefundsReturned, ProvidersGrow
<1>10. NothingYet'
  BY <1>1, <1>2 DEF RailsInv, NothingYet, ProvidersGrow
<1>11. PaidAtOnce'
  <2> SUFFICES ASSUME NEW k \in DOMAIN booked', CapturedPayments' = {k}
               PROVE  /\ invoice'.paid = booked'[k].amount
                      /\ \A c \in DOMAIN taken' : taken'[c].back <= taken'[c].worth
                      /\ booked'[k].provider = "at" =>
                            taken'[booked'[k].id].back <= invoice'.refunded
    BY DEF PaidAtOnce
  <2>0. \A c \in DOMAIN taken' : taken'[c] \in Charges
    BY DEF ProvidersGrow
  <2>1. CASE r.status = "CAPTURED"
    <3>1. k = n /\ CapturedPayments = {}
      BY <1>2, <2>1
    <3>2. invoice.paid = 0 /\ invoice.refunded = 0
          /\ \A c \in DOMAIN taken : taken[c].back = 0
      BY <3>1 DEF RailsInv, NothingYet
    <3>3. \A c \in DOMAIN taken' : taken'[c].back = 0
      BY <3>2 DEF ProvidersGrow
    <3>4. invoice'.paid = booked'[k].amount
      BY <1>1, <1>2, <1>4, <2>1, <3>1, <3>2
    <3>5. \A c \in DOMAIN taken' : taken'[c].worth >= 0
      BY <2>0 DEF Charges
    <3>6. booked'[k].provider = "at" => booked'[k].id \in DOMAIN taken'
      BY <1>1, <1>2, <2>1, <3>1 DEF Earned
    <3> QED BY <1>1, <3>2, <3>3, <3>4, <3>5, <3>6
  <2>2. CASE r.status # "CAPTURED"
    <3>1. CapturedPayments = {k} /\ k \in DOMAIN booked /\ booked'[k] = booked[k]
      BY <1>2, <2>2
    <3>2. /\ invoice.paid = booked[k].amount
          /\ \A c \in DOMAIN taken : taken[c].back <= taken[c].worth
          /\ booked[k].provider = "at" => taken[booked[k].id].back <= invoice.refunded
      BY <3>1 DEF RailsInv, PaidAtOnce
    <3>3. booked[k].provider = "at" => booked[k].id \in DOMAIN taken
      BY <3>1 DEF RailsInv, BookedSound
    <3>4. \A c \in DOMAIN taken' : taken'[c].back <= taken'[c].worth
      <4> SUFFICES ASSUME NEW c \in DOMAIN taken' PROVE taken'[c].back <= taken'[c].worth
        OBVIOUS
      <4>1. CASE c \in DOMAIN taken
        BY <3>2, <4>1 DEF ProvidersGrow
      <4>2. CASE c \notin DOMAIN taken
        <5>1. taken'[c].back = 0 /\ taken'[c].worth \in Nat
          BY <2>0, <4>2 DEF ProvidersGrow, Charges
        <5> QED BY <5>1
      <4> QED BY <4>1, <4>2
    <3> QED BY <1>1, <2>2, <3>1, <3>2, <3>3, <3>4 DEF ProvidersGrow
  <2> QED BY <2>1, <2>2
<1>12. PaidNearly'
  <2>1. 2 * invoice.paid <= 2 * invoice.total + Unit
    BY DEF RailsInv, PaidNearly
  <2>2. r.status = "CAPTURED" =>
          2 * r.amount <= 2 * (invoice.total - invoice.paid) + Unit
    BY DEF Earned, ToCollect
  <2>3. CASE r.status = "CAPTURED"
    <3>1. invoice'.paid = invoice.paid + r.amount
      BY <1>1, <2>3
    <3>2. 2 * invoice'.paid <= 2 * invoice.total + Unit
      BY <1>4, <2>2, <2>3, <3>1
    <3> QED BY <1>3, <3>2 DEF PaidNearly
  <2>4. CASE r.status # "CAPTURED"
    BY <1>1, <1>3, <2>1, <2>4 DEF PaidNearly
  <2> QED BY <2>3, <2>4
<1>13. ChargedIsPaid'
  <2>1. faults' = 0 => charged <= invoice.paid
    BY DEF RailsInv, ChargedIsPaid, ProvidersGrow
  <2> QED BY <1>1, <1>4, <2>1 DEF ChargedIsPaid
<1>14. RestIsLessThanAUnit'
  <2> SUFFICES ASSUME CapturedPayments' # {}
               PROVE  /\ 2 * (invoice.total - invoice'.paid) <= Unit
                      /\ invoice.total % Unit = 0 => invoice.total - invoice'.paid <= 0
    BY <1>3 DEF RestIsLessThanAUnit, ToCollect, Unit
  <2>0. CapturedPayments # {} =>
           /\ 2 * (invoice.total - invoice.paid) <= Unit
           /\ invoice.total % Unit = 0 => invoice.total - invoice.paid <= 0
    BY DEF RailsInv, RestIsLessThanAUnit, ToCollect, Unit
  <2>1. CASE r.status = "CAPTURED"
    <3>1. invoice'.paid = invoice.paid + r.amount
      BY <1>1, <2>1
    <3>2. /\ invoice.total - invoice.paid > 0
          /\ 2 * (invoice.total - invoice.paid - r.amount) <= Unit
          /\ (invoice.total - invoice.paid) % Unit = 0 => r.amount = invoice.total - invoice.paid
      BY <2>1 DEF Earned, ToCollect
    <3>3. CASE CapturedPayments = {}
      <4>1. invoice.paid = 0 /\ invoice.total - invoice.paid = invoice.total
        BY <1>4, <3>3 DEF RailsInv, NothingYet
      <4>2. 2 * (invoice.total - invoice'.paid) <= Unit
        BY <1>4, <3>1, <3>2
      <4>3. ASSUME invoice.total % Unit = 0 PROVE invoice.total - invoice'.paid <= 0
        <5>1. r.amount = invoice.total
          BY <3>2, <4>1, <4>3
        <5> QED BY <1>4, <3>1, <4>1, <5>1
      <4> QED BY <4>2, <4>3
    <3>4. CASE CapturedPayments # {}
      <4>1. ~(invoice.total % Unit = 0)
        BY <1>4, <2>0, <3>2, <3>4
      <4> QED BY <1>4, <3>1, <3>2, <4>1
    <3> QED BY <3>3, <3>4
  <2>2. CASE r.status # "CAPTURED"
    BY <1>1, <1>2, <2>0, <2>2
  <2> QED BY <2>1, <2>2
<1>15. PaidIsAcknowledged'
  <2> SUFFICES ASSUME faults' = 0, NEW i \in CapturedPayments', booked'[i].provider = "play"
               PROVE  acked'
    BY DEF PaidIsAcknowledged
  <2>1. CASE i \in CapturedPayments
    <3>1. booked'[i] = booked[i]
      BY <1>2, <2>1
    <3> QED BY <2>1, <3>1 DEF RailsInv, PaidIsAcknowledged, ProvidersGrow
  <2>2. CASE i = n /\ r.status = "CAPTURED"
    BY <1>1, <1>2, <2>2 DEF Earned
  <2> QED BY <1>2, <2>1, <2>2
<1> QED BY <1>5, <1>6, <1>7, <1>8, <1>9, <1>10, <1>11, <1>12, <1>13, <1>14, <1>15 DEF RailsInv
-----------------------------------------------------------------------------
(* Each way to collect. *)

LEMMA UnitIs ==
  ASSUME RailsTyped, TablesAgree
  PROVE  Unit \in Nat \ {0} /\ MinorUnit(invoice.currency) = Unit
<1>1. PICK i \in Invoices : i.currency = invoice.currency
  BY DEF RailsTyped
<1>2. ProviderUnit[i.currency] \in Nat \ {0} /\ MinorUnit(i.currency) = ProviderUnit[i.currency]
  BY RailsAssumption DEF TablesAgree
<1> QED BY <1>1, <1>2 DEF Unit

LEMMA UnitKept ==
  ASSUME RailsTyped, NEW ref \in PaymentReferences, NEW r \in Answers, BookCapture(ref, r)
  PROVE  Unit' = Unit
  BY CaptureBooks DEF InvoiceKept, Unit

LEMMA AttemptIs == ASSUME RailsTyped PROVE Attempt \in Nat
<1> DEFINE S == {i \in DOMAIN booked : booked[i].kind = "capture"}
<1>0. Len(booked) \in Nat /\ S \subseteq 1..Len(booked)
  BY DEF RailsTyped
<1>1. IsFiniteSet(1..Len(booked)) /\ S \subseteq 1..Len(booked)
  BY <1>0, FS_Interval, 1 \in Int, Len(booked) \in Int
<1> HIDE DEF S
<1>2. Cardinality(S) \in Nat
  BY <1>1, FS_Subset, FS_CardinalityType
<1> QED BY <1>2 DEF Attempt, S

(* The faults and the acknowledgement of a step only grow.                  *)
OthersGrow ==
    /\ faults' \in Nat /\ acked' \in BOOLEAN /\ repaid' = repaid
    /\ acked => acked'
    /\ faults' = 0 => faults = 0

LEMMA NothingTaken ==
  ASSUME RailsInv, Unit' = Unit, taken' = taken, charged' = charged, OthersGrow
  PROVE  ProvidersGrow
<1>1. TakenSound'
  BY DEF RailsInv, TakenSound
<1> QED BY <1>1 DEF RailsInv, RailsTyped, ProvidersGrow, OthersGrow

TookOne(rail, key, ref, units, worth, status) ==
    /\ taken' \in Seq(Charges) /\ charged' \in Int
    /\ charged' = charged + IF status \in {"succeeded", "success"} THEN worth ELSE 0
    /\ DOMAIN taken' = DOMAIN taken \cup {Len(taken) + 1}
    /\ Len(taken) + 1 \notin DOMAIN taken /\ Len(taken) + 1 \in Nat
    /\ \A c \in DOMAIN taken : taken'[c] = taken[c]
    /\ taken'[Len(taken) + 1] =
          [rail |-> rail, key |-> key, ref |-> ref, units |-> units,
           worth |-> worth, status |-> status, back |-> 0]

LEMMA TakeDoes ==
  ASSUME RailsTyped, NEW rail \in {"stripe", "at", "play"}, NEW key \in Nat,
         NEW ref \in PaymentReferences, NEW units \in Int, NEW worth \in Nat,
         NEW status \in ChargeStatuses, Take(rail, key, ref, units, worth, status)
  PROVE  TookOne(rail, key, ref, units, worth, status)
<1> DEFINE e == [rail |-> rail, key |-> key, ref |-> ref, units |-> units,
                 worth |-> worth, status |-> status, back |-> 0]
<1>1. e \in Charges
  BY DEF Charges
<1>2. taken \in Seq(Charges) /\ charged \in Int
  BY DEF RailsTyped
<1>3. taken' = Append(taken, e)
  BY DEF Take
<1>4. /\ taken' \in Seq(Charges) /\ Len(taken) \in Nat
      /\ DOMAIN taken' = DOMAIN taken \cup {Len(taken) + 1}
      /\ Len(taken) + 1 \notin DOMAIN taken
      /\ \A c \in DOMAIN taken : taken'[c] = taken[c]
      /\ taken'[Len(taken) + 1] = e
  <2> HIDE DEF e
  <2> QED BY <1>1, <1>2, <1>3, Extended
<1>5. charged' = charged + IF status \in {"succeeded", "success"} THEN worth ELSE 0
  BY DEF Take
<1>6. charged' \in Int /\ Len(taken) + 1 \in Nat
  BY <1>2, <1>4, <1>5
<1> QED BY <1>4, <1>5, <1>6 DEF TookOne

LEMMA TakeGrows ==
  ASSUME RailsInv, Unit' = Unit, NEW rail \in {"stripe", "at", "play"}, NEW key \in Nat,
         NEW ref \in PaymentReferences, NEW units \in Int, NEW worth \in Nat,
         NEW status \in ChargeStatuses, Take(rail, key, ref, units, worth, status), OthersGrow,
         rail = "stripe" => ref = "token" /\ worth = units * Unit,
         rail = "at" => ref = "phone", rail = "play" => ref = "purchase"
  PROVE  ProvidersGrow
<1>0. RailsTyped
  BY DEF RailsInv
<1>1. TookOne(rail, key, ref, units, worth, status)
  BY <1>0, TakeDoes
<1>2. TakenSound'
  <2> SUFFICES ASSUME NEW c \in DOMAIN taken'
               PROVE  /\ taken'[c].rail = "stripe" =>
                            taken'[c].ref = "token" /\ taken'[c].worth = taken'[c].units * Unit
                      /\ taken'[c].rail = "at" => taken'[c].ref = "phone"
                      /\ taken'[c].rail = "play" => taken'[c].ref = "purchase"
    BY DEF TakenSound
  <2>1. CASE c \in DOMAIN taken
    BY <1>1, <2>1 DEF RailsInv, TakenSound, TookOne
  <2>2. CASE c = Len(taken) + 1
    BY <1>1, <2>2 DEF TookOne
  <2> QED BY <1>1, <2>1, <2>2 DEF TookOne
<1>3. \A c \in DOMAIN taken' : c \notin DOMAIN taken => taken'[c].back = 0
  BY <1>1 DEF TookOne
<1> QED BY <1>1, <1>2, <1>3 DEF TookOne, ProvidersGrow, OthersGrow

(* The money is taken and the answer is lost.                               *)
LEMMA LostKeeps == ASSUME RailsInv, ProvidersGrow, Unanswered PROVE RailsInv'
<1>1. /\ booked' = booked /\ invoice' = invoice /\ faults' # 0
      /\ CapturedPayments' = CapturedPayments /\ Unit' = Unit
  BY DEF Unanswered, RailsInv, RailsTyped, CapturedPayments, Unit
<1>2. RailsTyped'
  BY <1>1 DEF RailsInv, RailsTyped, ProvidersGrow
<1>3. TakenSound'
  BY DEF ProvidersGrow
<1>4. BookedSound'
  BY <1>1 DEF RailsInv, BookedSound, ProvidersGrow
<1>5. RepaidSound' /\ RefundsReturned'
  BY <1>1 DEF RailsInv, RepaidSound, RefundsReturned, ProvidersGrow
<1>6. NothingYet'
  BY <1>1 DEF RailsInv, NothingYet, ProvidersGrow
<1>7. PaidAtOnce'
  <2> SUFFICES ASSUME NEW k \in DOMAIN booked, CapturedPayments = {k}
               PROVE  /\ invoice.paid = booked[k].amount
                      /\ \A c \in DOMAIN taken' : taken'[c].back <= taken'[c].worth
                      /\ booked[k].provider = "at" =>
                            taken'[booked[k].id].back <= invoice.refunded
    BY <1>1 DEF PaidAtOnce
  <2>1. /\ invoice.paid = booked[k].amount
        /\ \A c \in DOMAIN taken : taken[c].back <= taken[c].worth
        /\ booked[k].provider = "at" => taken[booked[k].id].back <= invoice.refunded
    BY DEF RailsInv, PaidAtOnce
  <2>2. booked[k].provider = "at" => booked[k].id \in DOMAIN taken
    BY DEF RailsInv, BookedSound
  <2>3. ASSUME NEW c \in DOMAIN taken' PROVE taken'[c].back <= taken'[c].worth
    <3>1. CASE c \in DOMAIN taken
      BY <2>1, <3>1 DEF ProvidersGrow
    <3>2. CASE c \notin DOMAIN taken
      <4>1. taken'[c] \in Charges
        BY DEF ProvidersGrow
      <4>2. taken'[c].back = 0 /\ taken'[c].worth \in Nat
        BY <3>2, <4>1 DEF ProvidersGrow, Charges
      <4> QED BY <4>2
    <3> QED BY <3>1, <3>2
  <2> QED BY <2>1, <2>2, <2>3 DEF ProvidersGrow
<1>8. PaidNearly' /\ RestIsLessThanAUnit'
  BY <1>1 DEF RailsInv, PaidNearly, RestIsLessThanAUnit, ToCollect, Unit
<1>9. ChargedIsPaid' /\ PaidIsAcknowledged'
  BY <1>1 DEF ChargedIsPaid, PaidIsAcknowledged
<1> QED BY <1>2, <1>3, <1>4, <1>5, <1>6, <1>7, <1>8, <1>9 DEF RailsInv

(* An answer that is not a capture.                                         *)
LEMMA RefusedKeeps ==
  ASSUME RailsInv, TablesAgree, NEW ref \in PaymentReferences, NEW r \in Answers,
         r.status # "CAPTURED", BookCapture(ref, r),
         taken' = taken, charged' = charged, OthersGrow
  PROVE  RailsInv'
<1>1. RailsTyped
  BY DEF RailsInv
<1>2. Unit \in Nat \ {0} /\ Unit' = Unit
  BY <1>1, UnitIs, UnitKept
<1>3. ProvidersGrow
  BY <1>2, NothingTaken
<1>4. charged' <= charged + IF r.status = "CAPTURED" THEN r.amount ELSE 0
  BY <1>1 DEF RailsTyped
<1> QED BY <1>2, <1>3, <1>4, CaptureKeeps

LEMMA FailedIs ==
  ASSUME NEW p \in {"manual", "unavailable", "stripe", "at", "play"}
  PROVE  failedCapture(p) \in Answers /\ failedCapture(p).status # "CAPTURED"
  BY DEF failedCapture, Result, Answers, PaymentStatuses

LEMMA CaptureWithoutRailKeeps ==
  ASSUME RailsInv, TablesAgree, NEW method, NEW ref \in PaymentReferences,
         CaptureWithoutRail(method, ref), repaid' = repaid
  PROVE  RailsInv'
<1>1. RailsTyped /\ taken' = taken /\ charged' = charged /\ OthersGrow
  BY DEF RailsInv, RailsTyped, CaptureWithoutRail, OthersGrow
<1>2. CASE BookCapture(ref, failedCapture("manual"))
  BY <1>1, <1>2, FailedIs, RefusedKeeps
<1>3. CASE BookCapture(ref, failedCapture("unavailable"))
  BY <1>1, <1>3, FailedIs, RefusedKeeps
<1>4. CASE ValidMoney(ToCollect) /\ BookCapture(ref, Result("manual", 0, "CAPTURED", ToCollect))
  <2> DEFINE r == Result("manual", 0, "CAPTURED", ToCollect)
  <2>1. ToCollect \in Int /\ ToCollect > 0
    BY <1>1, <1>4 DEF RailsTyped, ToCollect, ValidMoney
  <2>2. r \in Answers /\ r.provider = "manual" /\ r.id = 0 /\ r.status = "CAPTURED"
        /\ r.amount = ToCollect
    BY <2>1 DEF Result, Answers, PaymentStatuses
  <2> HIDE DEF r
  <2>3. Unit \in Nat \ {0} /\ Unit' = Unit
    BY <1>1, <1>4, <2>2, UnitIs, UnitKept DEF r
  <2>4. ProvidersGrow
    BY <1>1, <2>3, NothingTaken
  <2>5. Earned(ref, r)
    BY <2>1, <2>2, <2>3 DEF Earned
  <2>6. charged' <= charged + IF r.status = "CAPTURED" THEN r.amount ELSE 0
    BY <1>1, <2>1, <2>2 DEF RailsTyped
  <2>7. BookCapture(ref, r)
    BY <1>4 DEF r
  <2> QED BY <2>2, <2>3, <2>4, <2>5, <2>6, <2>7, CaptureKeeps
<1> QED BY <1>2, <1>3, <1>4 DEF CaptureWithoutRail

(* Units of the provider: as many as the code counts, and worth what the     *)
(* code takes them for.                                                     *)
LEMMA UnitsAre ==
  ASSUME RailsTyped, TablesAgree, ValidMoney(ToCollect),
         NEW units, units = toPaymentProviderMinorUnits(ToCollect, invoice.currency)
  PROVE  /\ ToCollect \in Int /\ ToCollect > 0 /\ units \in Nat
         /\ units * Unit \in Nat
         /\ fromPaymentProviderMinorUnits(units, invoice.currency) = units * Unit
         /\ 2 * (units * Unit) <= 2 * ToCollect + Unit
         /\ 2 * ToCollect <= 2 * (units * Unit) + Unit
         /\ ToCollect % Unit = 0 => units * Unit = ToCollect
<1>1. Unit \in Nat \ {0} /\ MinorUnit(invoice.currency) = Unit
  BY UnitIs
<1>2. ToCollect \in Int /\ ToCollect > 0
  BY DEF RailsTyped, ToCollect, ValidMoney
<1>3. units = (2 * ToCollect + Unit) \div (2 * Unit)
  BY <1>1 DEF toPaymentProviderMinorUnits
<1>4. /\ units \in Nat /\ units * Unit \in Nat
      /\ 2 * (units * Unit) <= 2 * ToCollect + Unit
      /\ 2 * ToCollect <= 2 * (units * Unit) + Unit
      /\ ToCollect % Unit = 0 => ToCollect = units * Unit
  BY <1>1, <1>2, <1>3, Rounding
<1>5. fromPaymentProviderMinorUnits(units, invoice.currency) = units * Unit
  BY <1>1 DEF fromPaymentProviderMinorUnits
<1> QED BY <1>2, <1>4, <1>5

(* Stripe's answer: new, or that of an earlier request of the same key.     *)
StripeAnswer(id, t, units) ==
    LET status == mapStripePaymentIntentStatus(t)
    IN  Result("stripe", id, status,
            IF status = "CAPTURED"
            THEN fromPaymentProviderMinorUnits(units, invoice.currency) ELSE 0)

LEMMA StripeAnswers ==
  ASSUME RailsTyped, TablesAgree, ValidMoney(ToCollect),
         NEW units, units = toPaymentProviderMinorUnits(ToCollect, invoice.currency),
         NEW id \in Nat, NEW t \in ChargeStatuses, NEW r, r = StripeAnswer(id, t, units)
  PROVE  /\ r \in Answers /\ r.provider = "stripe" /\ r.id = id
         /\ r.status = "CAPTURED" <=> t = "succeeded"
         /\ r.status = "CAPTURED" => r.amount = units * Unit
<1>1. fromPaymentProviderMinorUnits(units, invoice.currency) = units * Unit
      /\ units * Unit \in Nat
  BY UnitsAre
<1>2. mapStripePaymentIntentStatus(t) \in {"CAPTURED", "REQUIRES_CAPTURE", "FAILED"}
      /\ (mapStripePaymentIntentStatus(t) = "CAPTURED" <=> t = "succeeded")
  BY DEF mapStripePaymentIntentStatus
<1> QED BY <1>1, <1>2 DEF StripeAnswer, Result, Answers, PaymentStatuses

LEMMA StripeEarns ==
  ASSUME RailsTyped, TablesAgree, ValidMoney(ToCollect),
         NEW units, units = toPaymentProviderMinorUnits(ToCollect, invoice.currency),
         NEW id \in DOMAIN taken', NEW ref,
         NEW r \in Answers, r.provider = "stripe", r.id = id, r.amount = units * Unit,
         taken'[id].rail = "stripe", taken'[id].status = "succeeded", taken'[id].ref = ref,
         taken'[id].worth = units * Unit
  PROVE  Earned(ref, r)
<1>1. /\ ToCollect \in Int /\ ToCollect > 0 /\ units * Unit \in Nat
      /\ 2 * (units * Unit) <= 2 * ToCollect + Unit
      /\ 2 * ToCollect <= 2 * (units * Unit) + Unit
      /\ ToCollect % Unit = 0 => units * Unit = ToCollect
  BY UnitsAre
<1>2. Unit \in Nat \ {0}
  BY UnitIs
<1>3. /\ ToCollect > 0 /\ 2 * r.amount <= 2 * ToCollect + Unit
      /\ 2 * (ToCollect - r.amount) <= Unit
      /\ ToCollect % Unit = 0 => r.amount = ToCollect
  <2> DEFINE w == units * Unit
  <2>1. w = units * Unit /\ r.amount = w
    OBVIOUS
  <2> HIDE DEF w
  <2> QED BY <1>1, <1>2, <2>1
<1> QED BY <1>3 DEF Earned

LEMMA StripeCaptureKeeps ==
  ASSUME RailsInv, TablesAgree, NEW method, NEW ref \in PaymentReferences,
         StripeCapture(method, ref), repaid' = repaid
  PROVE  RailsInv'
<1> DEFINE units == toPaymentProviderMinorUnits(ToCollect, invoice.currency)
           worth == units * Unit
           known == {i \in DOMAIN taken : taken[i].rail = "stripe" /\ taken[i].key = Attempt}
<1>1. RailsTyped /\ acked' = acked /\ acked \in BOOLEAN /\ faults \in Nat /\ charged \in Int
  BY DEF RailsInv, RailsTyped, StripeCapture
<1>2. CASE BookCapture(ref, failedCapture("stripe")) /\ UNCHANGED <<taken, charged, faults>>
  <2>1. OthersGrow
    BY <1>1, <1>2 DEF OthersGrow
  <2> QED BY <1>2, <2>1, FailedIs, RefusedKeeps
<1>3. ASSUME ValidMoney(ToCollect), NEW i \in known, taken[i].units = units, taken[i].ref = ref,
             BookCapture(ref, StripeAnswer(i, taken[i].status, units)),
             UNCHANGED <<taken, charged, faults>>
      PROVE  RailsInv'
  <2> DEFINE r == StripeAnswer(i, taken[i].status, units)
  <2>1. i \in Nat /\ i \in DOMAIN taken /\ taken[i] \in Charges /\ taken[i].rail = "stripe"
    BY <1>1 DEF RailsTyped
  <2>2. taken[i].status \in ChargeStatuses /\ taken[i].worth = worth
    BY <1>3, <2>1 DEF Charges, RailsInv, TakenSound
  <2>3. /\ r \in Answers /\ r.provider = "stripe" /\ r.id = i
        /\ r.status = "CAPTURED" <=> taken[i].status = "succeeded"
        /\ r.status = "CAPTURED" => r.amount = worth
    <3>1. r = StripeAnswer(i, taken[i].status, units)
          /\ units = toPaymentProviderMinorUnits(ToCollect, invoice.currency)
      OBVIOUS
    <3>2. i \in Nat /\ taken[i].status \in ChargeStatuses /\ ValidMoney(ToCollect)
      BY <1>3, <2>1, <2>2
    <3> HIDE DEF r, units
    <3> QED BY <1>1, <2>1, <3>1, <3>2, StripeAnswers
  <2>4. OthersGrow
    BY <1>1, <1>3 DEF OthersGrow
  <2>5. worth \in Nat
    BY <1>1, <1>3, UnitsAre
  <2> HIDE DEF r, units
  <2>6. BookCapture(ref, r)
    BY <1>3 DEF r
  <2>7. Unit \in Nat \ {0} /\ Unit' = Unit
    BY <1>1, <2>3, <2>6, UnitIs, UnitKept
  <2>8. ProvidersGrow
    BY <1>3, <2>4, <2>7, NothingTaken
  <2>9. r.status = "CAPTURED" => Earned(ref, r)
    BY <1>1, <1>3, <2>1, <2>2, <2>3, StripeEarns DEF units
  <2>10. charged' <= charged + IF r.status = "CAPTURED" THEN r.amount ELSE 0
    <3> HIDE DEF worth
    <3> QED BY <1>1, <1>3, <2>3, <2>5
  <2> QED BY <2>3, <2>6, <2>7, <2>8, <2>9, <2>10, CaptureKeeps
<1>4. ASSUME ValidMoney(ToCollect), ref = "token", NEW status \in {"succeeded", "open"},
             Take("stripe", Attempt, ref, units, worth, status),
             \/ BookCapture(ref, StripeAnswer(Len(taken) + 1, status, units)) /\ UNCHANGED faults
             \/ Unanswered
      PROVE  RailsInv'
  <2>1. Attempt \in Nat /\ units \in Int /\ worth \in Nat
    BY <1>1, <1>4, AttemptIs, UnitsAre
  <2> HIDE DEF units
  <2>2. worth = units * Unit
    OBVIOUS
  <2> HIDE DEF worth
  <2>0. status \in ChargeStatuses /\ "stripe" \in {"stripe", "at", "play"}
    BY <1>4 DEF ChargeStatuses
  <2>3. TookOne("stripe", Attempt, ref, units, worth, status)
    BY <1>1, <1>4, <2>0, <2>1, TakeDoes
  <2>4. CASE Unanswered
    <3>1. Unit' = Unit /\ OthersGrow
      BY <1>1, <2>4 DEF Unanswered, Unit, OthersGrow
    <3>2. ProvidersGrow
      BY <1>4, <2>0, <2>1, <2>2, <3>1, TakeGrows
    <3> QED BY <2>4, <3>2, LostKeeps
  <2>5. CASE BookCapture(ref, StripeAnswer(Len(taken) + 1, status, units)) /\ UNCHANGED faults
    <3> DEFINE id == Len(taken) + 1
               r == StripeAnswer(id, status, units)
    <3>1. id \in Nat /\ id \in DOMAIN taken' /\ taken'[id].rail = "stripe"
          /\ taken'[id].status = status /\ taken'[id].ref = ref /\ taken'[id].worth = worth
      BY <2>3 DEF TookOne
    <3> HIDE DEF id
    <3>2. /\ r \in Answers /\ r.provider = "stripe" /\ r.id = id
          /\ r.status = "CAPTURED" <=> status = "succeeded"
          /\ r.status = "CAPTURED" => r.amount = worth
      <4>1. r = StripeAnswer(id, status, units)
            /\ units = toPaymentProviderMinorUnits(ToCollect, invoice.currency)
        BY DEF units
      <4> HIDE DEF r
      <4> QED BY <1>1, <1>4, <2>0, <2>2, <3>1, <4>1, StripeAnswers
    <3> HIDE DEF r
    <3>3. BookCapture(ref, r)
      BY <2>5 DEF r, id
    <3>4. Unit \in Nat \ {0} /\ Unit' = Unit /\ OthersGrow
      BY <1>1, <2>5, <3>2, <3>3, UnitIs, UnitKept DEF OthersGrow
    <3>5. ProvidersGrow
      BY <1>4, <2>0, <2>1, <2>2, <3>4, TakeGrows
    <3>6. r.status = "CAPTURED" => Earned(ref, r)
      BY <1>1, <1>4, <2>2, <3>1, <3>2, StripeEarns DEF units
    <3>7. charged' <= charged + IF r.status = "CAPTURED" THEN r.amount ELSE 0
      <4>1. charged' = charged + IF status \in {"succeeded", "success"} THEN worth ELSE 0
        BY <2>3 DEF TookOne
      <4> QED BY <1>1, <1>4, <2>1, <3>2, <4>1
    <3> QED BY <3>2, <3>3, <3>4, <3>5, <3>6, <3>7, CaptureKeeps
  <2> QED BY <1>4, <2>4, <2>5
<1> HIDE DEF units, worth, known
<1> QED BY <1>2, <1>3, <1>4 DEF StripeCapture, StripeAnswer, units, worth, known, Unit

LEMMA AfricasTalkingCaptureKeeps ==
  ASSUME RailsInv, TablesAgree, NEW method, NEW ref \in PaymentReferences,
         AfricasTalkingCapture(method, ref), repaid' = repaid
  PROVE  RailsInv'
<1> DEFINE Booked(s) ==
             Result("at", Len(taken) + 1, s, IF s = "CAPTURED" THEN ToCollect ELSE 0)
<1>1. RailsTyped /\ acked' = acked /\ acked \in BOOLEAN /\ faults \in Nat /\ charged \in Int
      /\ ToCollect \in Int
  BY DEF RailsInv, RailsTyped, AfricasTalkingCapture, ToCollect
<1>2. CASE BookCapture(ref, failedCapture("at")) /\ UNCHANGED <<taken, charged, faults>>
  <2>1. OthersGrow
    BY <1>1, <1>2 DEF OthersGrow
  <2> QED BY <1>2, <2>1, FailedIs, RefusedKeeps
<1>3. ASSUME ValidMoney(ToCollect), ref = "phone", NEW status \in {"success", "pending"},
             NEW s, s = mapAfricasTalkingCheckoutToFinanceStatus(status),
             Take("at", Attempt, ref, ToCollect, ToCollect, status),
             (BookCapture(ref, Booked(s)) /\ UNCHANGED faults) \/ Unanswered
      PROVE  RailsInv'
  <2>1. Attempt \in Nat /\ ToCollect \in Nat /\ ToCollect > 0 /\ status \in ChargeStatuses
        /\ "at" \in {"stripe", "at", "play"}
    BY <1>1, <1>3, AttemptIs DEF ValidMoney, ChargeStatuses
  <2>2. TookOne("at", Attempt, ref, ToCollect, ToCollect, status)
    BY <1>1, <1>3, <2>1, TakeDoes
  <2>3. CASE Unanswered
    <3>1. Unit' = Unit /\ OthersGrow
      BY <1>1, <2>3 DEF Unanswered, Unit, OthersGrow
    <3>2. ProvidersGrow
      BY <1>3, <2>1, <3>1, TakeGrows
    <3> QED BY <2>3, <3>2, LostKeeps
  <2>4. CASE BookCapture(ref, Booked(s)) /\ UNCHANGED faults
    <3> DEFINE id == Len(taken) + 1
               r == Booked(s)
    <3>1. id \in Nat /\ id \in DOMAIN taken' /\ taken'[id].rail = "at"
          /\ taken'[id].status = status /\ taken'[id].ref = ref /\ taken'[id].worth = ToCollect
      BY <2>2 DEF TookOne
    <3>2. s \in {"CAPTURED", "REQUIRES_CAPTURE", "FAILED"} /\ (s = "CAPTURED" <=> status = "success")
      BY <1>3 DEF mapAfricasTalkingCheckoutToFinanceStatus
    <3>3. r = [provider |-> "at", id |-> id, status |-> s,
               amount |-> IF s = "CAPTURED" THEN ToCollect ELSE 0]
      BY DEF Result
    <3>4. BookCapture(ref, r)
      BY <2>4
    <3> HIDE DEF id, r, Booked
    <3>5. /\ r \in Answers /\ r.provider = "at" /\ r.id = id
          /\ r.status = "CAPTURED" <=> status = "success"
          /\ r.status = "CAPTURED" => r.amount = ToCollect
      BY <1>1, <3>1, <3>2, <3>3 DEF Answers, PaymentStatuses
    <3>6. Unit \in Nat \ {0} /\ Unit' = Unit /\ OthersGrow
      BY <1>1, <2>4, <3>4, <3>5, UnitIs, UnitKept DEF OthersGrow
    <3>7. ProvidersGrow
      BY <1>3, <2>1, <3>6, TakeGrows
    <3>8. r.status = "CAPTURED" => Earned(ref, r)
      BY <2>1, <3>1, <3>5, <3>6 DEF Earned
    <3>9. charged' <= charged + IF r.status = "CAPTURED" THEN r.amount ELSE 0
      <4>1. charged' = charged + IF status \in {"succeeded", "success"} THEN ToCollect ELSE 0
        BY <2>2 DEF TookOne
      <4> QED BY <1>1, <1>3, <2>1, <3>5, <4>1
    <3> QED BY <3>4, <3>5, <3>6, <3>7, <3>8, <3>9, CaptureKeeps
  <2> QED BY <1>3, <2>3, <2>4
<1> QED BY <1>2, <1>3 DEF AfricasTalkingCapture

LEMMA PlayCaptureKeeps ==
  ASSUME RailsInv, TablesAgree, NEW method, NEW ref \in PaymentReferences,
         PlayCapture(method, ref), repaid' = repaid
  PROVE  RailsInv'
<1> DEFINE Booked(s) ==
             Result("play", Len(taken) + 1, s, IF s = "CAPTURED" THEN ToCollect ELSE 0)
<1>1. RailsTyped /\ acked \in BOOLEAN /\ faults \in Nat /\ charged \in Int /\ ToCollect \in Int
  BY DEF RailsInv, RailsTyped, ToCollect
<1>2. CASE BookCapture(ref, failedCapture("play")) /\ UNCHANGED <<taken, charged, acked, faults>>
  <2>1. OthersGrow
    BY <1>1, <1>2 DEF OthersGrow
  <2> QED BY <1>2, <2>1, FailedIs, RefusedKeeps
<1>3. ASSUME ValidMoney(ToCollect), ref = "purchase",
             NEW state \in {"active", "grace", "pending", "hold"},
             NEW s, s = mapPlaySubscriptionState(state),
             Take("play", 0, ref, 0, 0, state), BookCapture(ref, Booked(s)),
             \/ acked' = (acked \/ s = "CAPTURED") /\ UNCHANGED faults
             \/ s = "CAPTURED" /\ ~acked /\ faults' = faults + 1 /\ UNCHANGED acked
      PROVE  RailsInv'
  <2> DEFINE id == Len(taken) + 1
             r == Booked(s)
  <2>1. ToCollect > 0 /\ state \in ChargeStatuses /\ state \notin {"succeeded", "success"}
        /\ "play" \in {"stripe", "at", "play"} /\ 0 \in Nat
    BY <1>1, <1>3 DEF ValidMoney, ChargeStatuses
  <2>2. TookOne("play", 0, ref, 0, 0, state)
    BY <1>1, <1>3, <2>1, TakeDoes
  <2>3. id \in Nat /\ id \in DOMAIN taken' /\ taken'[id].rail = "play"
        /\ taken'[id].status = state /\ taken'[id].ref = ref /\ charged' = charged
    <3>1. id \in Nat /\ id \in DOMAIN taken' /\ taken'[id].rail = "play"
          /\ taken'[id].status = state /\ taken'[id].ref = ref
      BY <2>2 DEF TookOne
    <3>2. charged' = charged + 0
      BY <2>1, <2>2 DEF TookOne
    <3> QED BY <1>1, <3>1, <3>2
  <2>4. s \in {"CAPTURED", "REQUIRES_CAPTURE", "FAILED"}
        /\ (s = "CAPTURED" <=> state \in {"active", "grace"})
    BY <1>3 DEF mapPlaySubscriptionState
  <2>5. r = [provider |-> "play", id |-> id, status |-> s,
             amount |-> IF s = "CAPTURED" THEN ToCollect ELSE 0]
    BY DEF Result
  <2>6. BookCapture(ref, r)
    BY <1>3
  <2> HIDE DEF id, r, Booked
  <2>7. /\ r \in Answers /\ r.provider = "play" /\ r.id = id
        /\ r.status = "CAPTURED" <=> state \in {"active", "grace"}
        /\ r.status = s
        /\ r.amount = IF r.status = "CAPTURED" THEN ToCollect ELSE 0
    BY <1>1, <2>3, <2>4, <2>5 DEF Answers, PaymentStatuses
  <2>8. OthersGrow /\ (r.status = "CAPTURED" /\ faults' = 0 => acked')
    <3>1. CASE acked' = (acked \/ s = "CAPTURED") /\ UNCHANGED faults
      <4>1. faults' \in Nat /\ (faults' = 0 => faults = 0)
        BY <1>1, <3>1
      <4>2. acked' \in BOOLEAN /\ (acked => acked') /\ (s = "CAPTURED" => acked')
        BY <1>1, <3>1, Zenon
      <4> QED BY <2>7, <4>1, <4>2 DEF OthersGrow
    <3>2. CASE s = "CAPTURED" /\ ~acked /\ faults' = faults + 1 /\ UNCHANGED acked
      BY <1>1, <3>2 DEF OthersGrow
    <3> QED BY <1>3, <3>1, <3>2
  <2>9. Unit \in Nat \ {0} /\ Unit' = Unit
    BY <1>1, <2>6, <2>7, UnitIs, UnitKept
  <2>10. ProvidersGrow
    BY <1>3, <2>1, <2>8, <2>9, TakeGrows
  <2>11. r.status = "CAPTURED" => Earned(ref, r)
    BY <1>1, <2>1, <2>3, <2>7, <2>8, <2>9 DEF Earned
  <2>12. charged' <= charged + IF r.status = "CAPTURED" THEN r.amount ELSE 0
    BY <1>1, <2>1, <2>3, <2>7
  <2> QED BY <2>6, <2>7, <2>9, <2>10, <2>11, <2>12, CaptureKeeps
<1> QED BY <1>2, <1>3 DEF PlayCapture

LEMMA payInvoiceKeeps ==
  ASSUME RailsInv, TablesAgree, NEW method \in Methods, NEW given \in PaymentReferences,
         payInvoice(method, given)
  PROVE  RailsInv'
<1> DEFINE ref == ReferenceOf(method, given)
<1>1. ref \in PaymentReferences
  BY DEF ReferenceOf, PaymentReferences
<1>2. /\ repaid' = repaid
      /\ \/ CaptureWithoutRail(method, ref) \/ StripeCapture(method, ref)
         \/ AfricasTalkingCapture(method, ref) \/ PlayCapture(method, ref)
  BY DEF payInvoice
<1> HIDE DEF ref
<1> QED BY <1>1, <1>2, CaptureWithoutRailKeeps, StripeCaptureKeeps, AfricasTalkingCaptureKeeps,
           PlayCaptureKeeps
-----------------------------------------------------------------------------
(* Refunds. *)

LEMMA LastIs ==
  ASSUME RailsTyped, CapturedPayments # {}
  PROVE  LastCapture \in CapturedPayments /\ LastCapture \in DOMAIN booked
<1>1. Len(booked) \in Nat /\ CapturedPayments \in SUBSET (1..Len(booked))
      /\ CapturedPayments \subseteq DOMAIN booked
  BY DEF RailsTyped, CapturedPayments
<1>2. Max(CapturedPayments) \in CapturedPayments
  BY <1>1, Newest
<1> QED BY <1>1, <1>2 DEF LastCapture

LEMMA RefundBooks ==
  ASSUME RailsTyped, NEW amount \in Int, NEW r \in Answers,
         r.status \in {"FAILED", "REFUNDED"}, BookRefund(amount, r)
  PROVE  \E row \in Bookings :
            /\ booked' = Append(booked, row)
            /\ row.kind = "refund" /\ row.provider = r.provider
            /\ row.id = r.id /\ row.status = r.status
            /\ row.amount = IF r.amount # 0 THEN r.amount ELSE amount
            /\ InvoiceKept
            /\ invoice'.paid = invoice.paid
            /\ invoice'.refunded = IF r.status = "FAILED" THEN invoice.refunded
                                   ELSE invoice.refunded + r.amount
<1> DEFINE row == [kind |-> "refund", provider |-> r.provider, id |-> r.id,
                   status |-> r.status, ref |-> "none",
                   amount |-> IF r.amount # 0 THEN r.amount ELSE amount]
<1>1. row \in Bookings
  BY DEF Bookings, Answers, PaymentReferences
<1>2. booked' = Append(booked, row)
  BY DEF BookRefund
<1>3. InvoiceKept /\ invoice'.paid = invoice.paid
      /\ invoice'.refunded = IF r.status = "FAILED" THEN invoice.refunded
                             ELSE invoice.refunded + r.amount
  <2>1. r.amount \in Int /\ invoice.refunded \in Int
    BY DEF Answers, RailsTyped
  <2>2. CASE r.status = "FAILED"
    BY <2>2 DEF BookRefund, RailsTyped, InvoiceKept
  <2>3. CASE r.status # "FAILED"
    <3> DEFINE refunded == invoice.refunded + r.amount
               status == IF invoice.refunded + r.amount >= invoice.paid
                         THEN "REFUNDED" ELSE "PARTIALLY_REFUNDED"
    <3>1. invoice' = [invoice EXCEPT !.refunded = refunded, !.status = status]
      BY <2>3 DEF BookRefund
    <3>2. refunded \in Int /\ status \in {"ISSUED", "PAID", "PARTIALLY_REFUNDED", "REFUNDED"}
          /\ refunded = invoice.refunded + r.amount
      BY <2>1
    <3> HIDE DEF refunded, status
    <3> QED BY <2>3, <3>1, <3>2 DEF RailsTyped, InvoiceKept
  <2> QED BY <2>2, <2>3
<1> QED BY <1>1, <1>2, <1>3

(* A provider that was told to pay back remembers it; what it took differs   *)
(* in what is paid back of it.                                              *)
ProvidersReturn ==
    /\ taken' \in Seq(Charges) /\ DOMAIN taken' = DOMAIN taken
    /\ \A c \in DOMAIN taken :
          /\ taken'[c].rail = taken[c].rail /\ taken'[c].ref = taken[c].ref
          /\ taken'[c].units = taken[c].units /\ taken'[c].worth = taken[c].worth
          /\ taken'[c].status = taken[c].status
    /\ repaid' \in Seq(Repayments) /\ RepaidSound'
    /\ \A j \in DOMAIN repaid : j \in DOMAIN repaid' /\ repaid'[j] = repaid[j]
    /\ charged' = charged /\ faults' = faults /\ acked' = acked

(* Nothing is paid back beyond what was paid at once.                       *)
WithinPaid ==
    \A k \in DOMAIN booked : CapturedPayments = {k} =>
        /\ \A c \in DOMAIN taken : taken'[c].back <= taken[c].worth
        /\ booked[k].provider = "at" => taken'[booked[k].id].back <= invoice'.refunded

LEMMA RefundKeeps ==
  ASSUME RailsInv, CapturedPayments # {}, NEW amount \in Int, NEW r \in Answers,
         r.status \in {"FAILED", "REFUNDED"}, BookRefund(amount, r),
         ProvidersReturn, WithinPaid,
         r.status = "REFUNDED" /\ r.provider # "manual" =>
            /\ r.amount # 0
            /\ \E j \in DOMAIN repaid' :
                  /\ repaid'[j].rail = r.provider /\ repaid'[j].worth = r.amount
                  /\ repaid'[j].rail = "stripe" => repaid'[j].charge = r.id
  PROVE  RailsInv'
<1>1. PICK row \in Bookings :
            /\ booked' = Append(booked, row)
            /\ row.kind = "refund" /\ row.provider = r.provider
            /\ row.id = r.id /\ row.status = r.status
            /\ row.amount = IF r.amount # 0 THEN r.amount ELSE amount
            /\ InvoiceKept
            /\ invoice'.paid = invoice.paid
            /\ invoice'.refunded = IF r.status = "FAILED" THEN invoice.refunded
                                   ELSE invoice.refunded + r.amount
  BY RefundBooks DEF RailsInv
<1> DEFINE n == Len(booked) + 1
<1>2. /\ booked' \in Seq(Bookings)
      /\ DOMAIN booked' = DOMAIN booked \cup {n}
      /\ n \notin DOMAIN booked
      /\ \A i \in DOMAIN booked : booked'[i] = booked[i]
      /\ booked'[n] = row
      /\ CapturedPayments \subseteq DOMAIN booked
      /\ CapturedPayments' = CapturedPayments
  BY <1>1, RowAdded DEF RailsInv
<1> HIDE DEF n
<1>3. Unit' = Unit /\ invoice'.total = invoice.total
  BY <1>1 DEF InvoiceKept, Unit
<1>4. RailsTyped'
  BY <1>1, <1>2 DEF RailsInv, RailsTyped, ProvidersReturn, InvoiceKept
<1>5. TakenSound'
  BY <1>3 DEF RailsInv, TakenSound, ProvidersReturn
<1>6. BookedSound'
  <2> SUFFICES ASSUME NEW i \in CapturedPayments'
               PROVE  LET p == booked'[i]
                      IN  IF p.provider = "manual" THEN p.id = 0
                          ELSE /\ p.id \in DOMAIN taken'
                               /\ taken'[p.id].rail = p.provider
                               /\ taken'[p.id].status
                                     \in {"succeeded", "success", "active", "grace"}
                               /\ taken'[p.id].ref = p.ref
                               /\ p.provider # "play" => taken'[p.id].worth = p.amount
    BY DEF BookedSound
  <2>1. i \in CapturedPayments /\ booked'[i] = booked[i]
    BY <1>2
  <2> QED BY <2>1 DEF RailsInv, BookedSound, ProvidersReturn
<1>7. RepaidSound'
  BY DEF ProvidersReturn
<1>8. RefundsReturned'
  <2> SUFFICES ASSUME NEW i \in DOMAIN booked', booked'[i].kind = "refund",
                      booked'[i].status = "REFUNDED", booked'[i].provider # "manual"
               PROVE  \E j \in DOMAIN repaid' :
                         /\ repaid'[j].rail = booked'[i].provider
                         /\ repaid'[j].worth = booked'[i].amount
                         /\ repaid'[j].rail = "stripe" => repaid'[j].charge = booked'[i].id
    BY DEF RefundsReturned
  <2>1. CASE i \in DOMAIN booked
    <3>1. booked'[i] = booked[i]
      BY <1>2, <2>1
    <3>2. PICK j \in DOMAIN repaid :
             /\ repaid[j].rail = booked[i].provider
             /\ repaid[j].worth = booked[i].amount
             /\ repaid[j].rail = "stripe" => repaid[j].charge = booked[i].id
      BY <2>1, <3>1 DEF RailsInv, RefundsReturned
    <3>3. j \in DOMAIN repaid' /\ repaid'[j] = repaid[j]
      BY DEF ProvidersReturn
    <3> QED BY <3>1, <3>2, <3>3
  <2>2. CASE i = n
    BY <1>1, <1>2, <2>2
  <2> QED BY <1>2, <2>1, <2>2
<1>9. NothingYet'
  BY <1>2 DEF NothingYet
<1>10. PaidAtOnce'
  <2> SUFFICES ASSUME NEW k \in DOMAIN booked', CapturedPayments' = {k}
               PROVE  /\ invoice'.paid = booked'[k].amount
                      /\ \A c \in DOMAIN taken' : taken'[c].back <= taken'[c].worth
                      /\ booked'[k].provider = "at" =>
                            taken'[booked'[k].id].back <= invoice'.refunded
    BY DEF PaidAtOnce
  <2>1. CapturedPayments = {k} /\ k \in DOMAIN booked /\ booked'[k] = booked[k]
    BY <1>2
  <2>2. invoice.paid = booked[k].amount
    BY <2>1 DEF RailsInv, PaidAtOnce
  <2> QED BY <1>1, <2>1, <2>2 DEF WithinPaid, ProvidersReturn
<1>11. PaidNearly'
  BY <1>1, <1>3 DEF RailsInv, PaidNearly
<1>12. ChargedIsPaid'
  BY <1>1 DEF RailsInv, ChargedIsPaid, ProvidersReturn
<1>13. RestIsLessThanAUnit'
  <2>1. ToCollect' = ToCollect
    BY <1>1, <1>3 DEF ToCollect
  <2> QED BY <1>2, <1>3, <2>1 DEF RailsInv, RestIsLessThanAUnit, Unit
<1>14. PaidIsAcknowledged'
  BY <1>2 DEF RailsInv, PaidIsAcknowledged, ProvidersReturn
<1> QED BY <1>4, <1>5, <1>6, <1>7, <1>8, <1>9, <1>10, <1>11, <1>12, <1>13, <1>14 DEF RailsInv

LEMMA NothingReturned ==
  ASSUME RailsInv, NEW amount, NEW r \in Answers, BookRefund(amount, r), amount \in Int,
         r.status \in {"FAILED", "REFUNDED"}, r.amount >= 0,
         UNCHANGED <<taken, repaid, charged, acked, faults>>
  PROVE  ProvidersReturn /\ WithinPaid
<1>1. ProvidersReturn
  BY DEF RailsInv, RailsTyped, RepaidSound, ProvidersReturn
<1>2. invoice'.refunded = IF r.status = "FAILED" THEN invoice.refunded
                          ELSE invoice.refunded + r.amount
  BY RefundBooks DEF RailsInv
<1>3. invoice.refunded \in Int /\ r.amount \in Int
  BY DEF RailsInv, RailsTyped, Answers
<1>4. invoice'.refunded >= invoice.refunded /\ invoice'.refunded \in Int
  BY <1>2, <1>3
<1>5. ASSUME NEW k \in DOMAIN booked, CapturedPayments = {k}
      PROVE  /\ \A c \in DOMAIN taken : taken'[c].back <= taken[c].worth
             /\ booked[k].provider = "at" => taken'[booked[k].id].back <= invoice'.refunded
  <2>1. /\ \A c \in DOMAIN taken : taken[c].back <= taken[c].worth
        /\ booked[k].provider = "at" => taken[booked[k].id].back <= invoice.refunded
    BY <1>5 DEF RailsInv, PaidAtOnce
  <2>2. booked[k].provider = "at" => booked[k].id \in DOMAIN taken
    BY <1>5 DEF RailsInv, BookedSound
  <2>3. booked[k].provider = "at" => taken[booked[k].id].back \in Int
    <3>1. booked[k].provider = "at" => taken[booked[k].id] \in Charges
      BY <2>2 DEF RailsInv, RailsTyped
    <3> QED BY <3>1 DEF Charges
  <2> QED BY <1>3, <1>4, <2>1, <2>3
<1> QED BY <1>1, <1>5 DEF WithinPaid

(* A refund that pays nothing back: refused, or booked by the manual adapter. *)
LEMMA IdleRefundKeeps ==
  ASSUME RailsInv, CapturedPayments # {}, NEW amount \in Int, amount > 0,
         NEW p \in {"manual", "unavailable", "stripe", "at", "play"},
         UNCHANGED <<taken, repaid, charged, acked, faults>>,
         \/ BookRefund(amount, RefundResult(p, 0, "FAILED", 0))
         \/ p = "manual" /\ BookRefund(amount, RefundResult(p, 0, "REFUNDED", amount))
  PROVE  RailsInv'
<1>1. CASE BookRefund(amount, RefundResult(p, 0, "FAILED", 0))
  <2> DEFINE r == RefundResult(p, 0, "FAILED", 0)
  <2>1. r \in Answers /\ r.status = "FAILED" /\ r.amount = 0
    BY DEF RefundResult, Answers, PaymentStatuses
  <2>2. BookRefund(amount, r)
    BY <1>1
  <2> HIDE DEF r
  <2>3. ProvidersReturn /\ WithinPaid
    BY <2>1, <2>2, NothingReturned
  <2> QED BY <2>1, <2>2, <2>3, RefundKeeps
<1>2. CASE p = "manual" /\ BookRefund(amount, RefundResult(p, 0, "REFUNDED", amount))
  <2> DEFINE r == RefundResult(p, 0, "REFUNDED", amount)
  <2>1. r \in Answers /\ r.status = "REFUNDED" /\ r.amount = amount /\ r.provider = "manual"
    BY <1>2 DEF RefundResult, Answers, PaymentStatuses
  <2>2. BookRefund(amount, r)
    BY <1>2
  <2> HIDE DEF r
  <2>3. ProvidersReturn /\ WithinPaid
    BY <2>1, <2>2, NothingReturned
  <2> QED BY <2>1, <2>2, <2>3, RefundKeeps
<1> QED BY <1>1, <1>2

(* What a payment back leaves behind.                                       *)
Returned(rail, charge, worth, good) ==
    /\ \A c \in DOMAIN taken :
          taken'[c].back = IF good /\ c = charge THEN taken[c].back + worth ELSE taken[c].back
    /\ \E j \in DOMAIN repaid' :
          /\ repaid'[j].rail = rail /\ repaid'[j].worth = worth
          /\ repaid'[j].charge = charge

LEMMA ReturnDoes ==
  ASSUME RailsInv, NEW rail \in {"stripe", "at"}, NEW charge \in Nat,
         NEW worth \in Nat \ {0}, NEW good \in BOOLEAN, Return(rail, charge, worth, good),
         rail = "at" => \/ charge = 0
                        \/ charge \in DOMAIN taken /\ taken[charge].rail # "stripe",
         UNCHANGED <<charged, acked, faults>>
  PROVE  ProvidersReturn /\ Returned(rail, charge, worth, good)
<1> DEFINE e == [rail |-> rail, charge |-> charge, worth |-> worth, good |-> good]
<1>1. taken \in Seq(Charges) /\ repaid \in Seq(Repayments) /\ e \in Repayments
  BY DEF RailsInv, RailsTyped, Repayments
<1>2. /\ repaid' \in Seq(Repayments) /\ DOMAIN repaid' = DOMAIN repaid \cup {Len(repaid) + 1}
      /\ \A j \in DOMAIN repaid : repaid'[j] = repaid[j]
      /\ repaid'[Len(repaid) + 1] = e
  <2>1. repaid' = Append(repaid, e)
    BY DEF Return
  <2> HIDE DEF e
  <2> QED BY <1>1, <2>1, Extended
<1>3. /\ taken' \in Seq(Charges) /\ DOMAIN taken' = DOMAIN taken
      /\ \A c \in DOMAIN taken :
            /\ taken'[c].rail = taken[c].rail /\ taken'[c].ref = taken[c].ref
            /\ taken'[c].units = taken[c].units /\ taken'[c].worth = taken[c].worth
            /\ taken'[c].status = taken[c].status
            /\ taken'[c].back = IF good /\ c = charge THEN taken[c].back + worth
                                ELSE taken[c].back
  <2>1. CASE good /\ charge \in DOMAIN taken
    <3> DEFINE back == taken[charge].back + worth
               t == [taken[charge] EXCEPT !.back = back]
    <3>1. taken[charge] \in Charges
      BY <1>1, <2>1
    <3>2. back \in Nat
      BY <3>1 DEF Charges
    <3>3. taken' = [taken EXCEPT ![charge] = t]
      BY <2>1 DEF Return
    <3>4. /\ t \in Charges /\ t.rail = taken[charge].rail /\ t.ref = taken[charge].ref
          /\ t.units = taken[charge].units /\ t.worth = taken[charge].worth
          /\ t.status = taken[charge].status /\ t.back = back
      <4> HIDE DEF back
      <4> QED BY <3>1, <3>2 DEF Charges
    <3> HIDE DEF t
    <3>5. taken' \in Seq(Charges) /\ DOMAIN taken' = DOMAIN taken
          /\ \A c \in DOMAIN taken : taken'[c] = IF c = charge THEN t ELSE taken[c]
      BY <1>1, <2>1, <3>3, <3>4
    <3> QED BY <2>1, <3>4, <3>5
  <2>2. CASE ~(good /\ charge \in DOMAIN taken)
    <3>1. taken' = taken
      BY <2>2 DEF Return
    <3> QED BY <1>1, <2>2, <3>1
  <2> QED BY <2>1, <2>2
<1>4. RepaidSound'
  <2> SUFFICES ASSUME NEW j \in DOMAIN repaid', repaid'[j].rail = "at"
               PROVE  \/ repaid'[j].charge = 0
                      \/ /\ repaid'[j].charge \in DOMAIN taken'
                         /\ taken'[repaid'[j].charge].rail # "stripe"
    BY DEF RepaidSound
  <2>1. CASE j \in DOMAIN repaid
    BY <1>2, <1>3, <2>1 DEF RailsInv, RepaidSound
  <2>2. CASE j = Len(repaid) + 1
    BY <1>2, <1>3, <2>2
  <2> QED BY <1>2, <2>1, <2>2
<1>5. ProvidersReturn
  BY <1>2, <1>3, <1>4 DEF ProvidersReturn
<1> QED BY <1>2, <1>3, <1>5 DEF Returned

LEMMA StripeRefundKeeps ==
  ASSUME RailsInv, TablesAgree, CapturedPayments # {}, NEW amount \in Int, amount > 0,
         NEW rail, StripeRefund(amount, rail), UNCHANGED <<charged, acked, faults>>
  PROVE  RailsInv'
<1> DEFINE p == booked[LastCapture]
           units == toPaymentProviderMinorUnits(amount, invoice.currency)
           worth == units * Unit
           r == RefundResult("stripe", p.id, "REFUNDED",
                    fromPaymentProviderMinorUnits(units, invoice.currency))
<1>1. RailsTyped /\ LastCapture \in CapturedPayments /\ LastCapture \in DOMAIN booked
  BY LastIs DEF RailsInv
<1>2. Unit \in Nat \ {0} /\ MinorUnit(invoice.currency) = Unit
  BY <1>1, UnitIs
<1>3. units \in Nat /\ worth \in Nat
      /\ fromPaymentProviderMinorUnits(units, invoice.currency) = worth
  <2>1. units = (2 * amount + Unit) \div (2 * Unit)
    BY <1>2 DEF toPaymentProviderMinorUnits
  <2> HIDE DEF units
  <2> QED BY <1>2, <2>1, Rounding DEF fromPaymentProviderMinorUnits
<1>4. p.id \in Nat
  <2>1. p \in Bookings
    BY <1>1 DEF RailsTyped
  <2> HIDE DEF p
  <2> QED BY <2>1 DEF Bookings
<1>5. r \in Answers /\ r.provider = "stripe" /\ r.id = p.id /\ r.status = "REFUNDED"
      /\ r.amount = worth
  BY <1>3, <1>4 DEF RefundResult, Answers, PaymentStatuses
<1>6. CASE BookRefund(amount, RefundResult("stripe", 0, "FAILED", 0))
           /\ UNCHANGED <<taken, repaid>>
  BY <1>6, IdleRefundKeeps
<1>7. ASSUME p.provider = "stripe", BookRefund(amount, r), UNCHANGED <<taken, repaid>>,
             NEW i \in DOMAIN repaid, repaid[i].charge = p.id, repaid[i].worth = worth
      PROVE  RailsInv'
  <2>1. p.id \in DOMAIN taken /\ taken[p.id].rail = "stripe" /\ DOMAIN taken = 1..Len(taken)
    BY <1>1, <1>7 DEF RailsInv, RailsTyped, BookedSound
  <2>2. repaid[i] \in Repayments
    BY <1>1 DEF RailsTyped
  <2>3. repaid[i].rail = "stripe" /\ worth # 0
    BY <1>7, <2>1, <2>2 DEF RailsInv, RepaidSound, Repayments
  <2> HIDE DEF r, worth, units
  <2>4. ProvidersReturn /\ WithinPaid
    BY <1>3, <1>5, <1>7, NothingReturned
  <2> HIDE DEF p
  <2> QED BY <1>5, <1>7, <2>3, <2>4, RefundKeeps
<1>8. ASSUME p.provider = "stripe", units > 0, taken[p.id].back + worth <= taken[p.id].worth,
             BookRefund(amount, r), NEW good \in BOOLEAN, Return("stripe", p.id, worth, good)
      PROVE  RailsInv'
  <2>1. worth # 0
    <3>1. 1 * Unit <= units * Unit
      BY <1>2, <1>3, <1>8, Grows, 1 \in Int, units \in Int, 1 <= units
    <3> QED BY <1>2, <3>1
  <2> HIDE DEF r, worth, units
  <2>2. ProvidersReturn /\ Returned("stripe", p.id, worth, good)
    <3> HIDE DEF p
    <3>1. worth \in Nat \ {0} /\ "stripe" \in {"stripe", "at"}
      BY <1>3, <2>1
    <3> QED BY <1>4, <1>8, <3>1, ReturnDoes
  <2>3. WithinPaid
    <3> SUFFICES ASSUME NEW k \in DOMAIN booked, CapturedPayments = {k}
                 PROVE  /\ \A c \in DOMAIN taken : taken'[c].back <= taken[c].worth
                        /\ booked[k].provider = "at" =>
                              taken'[booked[k].id].back <= invoice'.refunded
      BY DEF WithinPaid
    <3>1. LastCapture = k
      BY <1>1
    <3>2. \A c \in DOMAIN taken : taken[c].back <= taken[c].worth
      BY DEF RailsInv, PaidAtOnce
    <3> QED BY <1>8, <2>2, <3>1, <3>2 DEF Returned
  <2>4. \E j \in DOMAIN repaid' :
           /\ repaid'[j].rail = r.provider /\ repaid'[j].worth = r.amount
           /\ repaid'[j].rail = "stripe" => repaid'[j].charge = r.id
    BY <1>5, <2>2 DEF Returned
  <2> QED BY <1>5, <1>8, <2>1, <2>2, <2>3, <2>4, RefundKeeps
<1> HIDE DEF p, units, worth, r
<1> QED BY <1>6, <1>7, <1>8 DEF StripeRefund, p, units, worth, r, Unit

LEMMA AfricasTalkingRefundKeeps ==
  ASSUME RailsInv, CapturedPayments # {}, NEW amount \in Int, amount > 0,
         amount <= StillRefundable,
         NEW rail, AfricasTalkingRefund(amount, rail), UNCHANGED <<charged, acked, faults>>
  PROVE  RailsInv'
<1> DEFINE p == booked[LastCapture]
           r == RefundResult("at", p.id, "REFUNDED", amount)
<1>1. RailsTyped /\ LastCapture \in CapturedPayments /\ LastCapture \in DOMAIN booked
  BY LastIs DEF RailsInv
<1>2. p.id \in Nat
  <2>1. p \in Bookings
    BY <1>1 DEF RailsTyped
  <2> HIDE DEF p
  <2> QED BY <2>1 DEF Bookings
<1>3. r \in Answers /\ r.provider = "at" /\ r.id = p.id /\ r.status = "REFUNDED"
      /\ r.amount = amount
  BY <1>2 DEF RefundResult, Answers, PaymentStatuses
<1>4. CASE BookRefund(amount, RefundResult("at", 0, "FAILED", 0)) /\ UNCHANGED <<taken, repaid>>
  BY <1>4, IdleRefundKeeps
<1>5. ASSUME p.ref = "phone", BookRefund(amount, r), NEW good \in BOOLEAN,
             Return("at", p.id, amount, good)
      PROVE  RailsInv'
  <2>1. IF p.provider = "manual" THEN p.id = 0
        ELSE /\ p.id \in DOMAIN taken /\ taken[p.id].rail = p.provider
             /\ taken[p.id].ref = "phone"
             /\ p.provider # "play" => taken[p.id].worth = p.amount
    BY <1>1, <1>5 DEF RailsInv, BookedSound
  <2>2. p.provider # "manual" => p.provider = "at"
    <3> SUFFICES ASSUME p.provider # "manual" PROVE p.provider = "at"
      OBVIOUS
    <3>1. taken[p.id] \in Charges /\ p.id \in DOMAIN taken
      BY <1>1, <2>1 DEF RailsTyped
    <3>2. taken[p.id].rail \in {"stripe", "at", "play"}
      BY <3>1 DEF Charges
    <3> QED BY <2>1, <3>1, <3>2 DEF RailsInv, TakenSound
  <2> HIDE DEF r
  <2>3. ProvidersReturn /\ Returned("at", p.id, amount, good)
    <3>1. \/ p.id = 0
          \/ p.id \in DOMAIN taken /\ taken[p.id].rail # "stripe"
      BY <2>1, <2>2
    <3>2. amount \in Nat \ {0} /\ "at" \in {"stripe", "at"}
      OBVIOUS
    <3> HIDE DEF p
    <3> QED BY <1>2, <1>5, <3>1, <3>2, ReturnDoes
  <2>4. WithinPaid
    <3> SUFFICES ASSUME NEW k \in DOMAIN booked, CapturedPayments = {k}
                 PROVE  /\ \A c \in DOMAIN taken : taken'[c].back <= taken[c].worth
                        /\ booked[k].provider = "at" =>
                              taken'[booked[k].id].back <= invoice'.refunded
      BY DEF WithinPaid
    <3>1. p = booked[k]
      BY <1>1
    <3>2. /\ invoice.paid = p.amount
          /\ \A c \in DOMAIN taken : taken[c].back <= taken[c].worth
          /\ p.provider = "at" => taken[p.id].back <= invoice.refunded
      BY <3>1 DEF RailsInv, PaidAtOnce
    <3>3. invoice'.refunded = invoice.refunded + amount
          /\ invoice.refunded \in Int /\ invoice.paid \in Int
          /\ amount <= invoice.paid - invoice.refunded
      <4>1. invoice'.refunded = IF r.status = "FAILED" THEN invoice.refunded
                                ELSE invoice.refunded + r.amount
        BY <1>1, <1>3, <1>5, RefundBooks
      <4> QED BY <1>1, <1>3, <4>1 DEF RailsTyped, StillRefundable
    <3>4. \A c \in DOMAIN taken :
             taken'[c].back = IF good /\ c = p.id THEN taken[c].back + amount ELSE taken[c].back
      BY <2>3 DEF Returned
    <3>5. \A c \in DOMAIN taken : taken[c].back \in Nat /\ taken[c].worth \in Nat
      <4>1. \A c \in DOMAIN taken : taken[c] \in Charges
        BY <1>1 DEF RailsTyped
      <4> QED BY <4>1 DEF Charges
    <3>6. CASE p.provider = "manual"
      <4>1. p.id \notin DOMAIN taken
        BY <1>1, <2>1, <3>6 DEF RailsTyped
      <4> QED BY <3>1, <3>2, <3>4, <3>6, <4>1
    <3>7. CASE p.provider = "at"
      <4>1. p.id \in DOMAIN taken /\ taken[p.id].worth = invoice.paid
        BY <2>1, <3>2, <3>7
      <4>2. taken[p.id].back + amount <= taken[p.id].worth
            /\ taken'[p.id].back <= invoice'.refunded
        BY <3>2, <3>3, <3>4, <3>5, <3>7, <4>1
      <4> QED BY <3>1, <3>2, <3>4, <4>1, <4>2
    <3> QED BY <2>2, <3>6, <3>7
  <2>5. \E j \in DOMAIN repaid' :
           /\ repaid'[j].rail = r.provider /\ repaid'[j].worth = r.amount
           /\ repaid'[j].rail = "stripe" => repaid'[j].charge = r.id
    BY <1>3, <2>3 DEF Returned
  <2> QED BY <1>3, <1>5, <2>3, <2>4, <2>5, RefundKeeps
<1> HIDE DEF p, r
<1> QED BY <1>4, <1>5 DEF AfricasTalkingRefund, p, r

LEMMA refundInvoiceKeeps ==
  ASSUME RailsInv, TablesAgree, NEW amount \in RefundAmounts, refundInvoice(amount)
  PROVE  RailsInv'
<1> DEFINE rail == adapterForProvider(config, booked[LastCapture].provider)
<1>1. /\ CapturedPayments # {} /\ amount > 0 /\ amount <= StillRefundable
      /\ UNCHANGED <<charged, acked, faults>>
      /\ \/ RefundWithoutRail(amount, rail) \/ StripeRefund(amount, rail)
         \/ AfricasTalkingRefund(amount, rail)
  BY DEF refundInvoice
<1> HIDE DEF rail
<1>2. amount \in Int
  <2>1. RailsTyped /\ Unit \in Nat \ {0}
    BY UnitIs DEF RailsInv
  <2>2. StillRefundable \in Int /\ Unit \div 2 \in Int
    BY <2>1 DEF RailsTyped, StillRefundable
  <2> QED BY <2>1, <2>2 DEF RefundAmounts, Unit
<1>3. CASE RefundWithoutRail(amount, rail)
  BY <1>1, <1>2, <1>3, IdleRefundKeeps DEF RefundWithoutRail
<1>4. CASE StripeRefund(amount, rail)
  BY <1>1, <1>2, <1>4, StripeRefundKeeps
<1>5. CASE AfricasTalkingRefund(amount, rail)
  BY <1>1, <1>2, <1>5, AfricasTalkingRefundKeeps
<1> QED BY <1>1, <1>3, <1>4, <1>5

(* The beginning, a step, and what the invariant says.                      *)
LEMMA RailsStart == ASSUME RailsInit PROVE RailsInv
<1>1. PICK i \in Invoices :
         invoice = [currency |-> i.currency, total |-> i.total, paid |-> 0,
                    refunded |-> 0, status |-> "ISSUED"]
  BY DEF RailsInit
<1>2. booked = <<>> /\ taken = <<>> /\ repaid = <<>> /\ charged = 0 /\ acked = FALSE /\ faults = 0
  BY DEF RailsInit
<1>3. i.total \in Nat /\ ProviderUnit[i.currency] \in Nat \ {0} /\ i.currency = invoice.currency
  BY <1>1, RailsAssumption
<1>4. RailsTyped
  <2>1. invoice \in [currency : {j.currency : j \in Invoices}, total : Nat, paid : Int,
                     refunded : Int,
                     status : {"ISSUED", "PAID", "PARTIALLY_REFUNDED", "REFUNDED"}]
    BY <1>1, <1>3
  <2>2. booked \in Seq(Bookings) /\ taken \in Seq(Charges) /\ repaid \in Seq(Repayments)
    BY <1>2
  <2>3. charged \in Int /\ faults \in Nat
    BY <1>2
  <2>4. acked \in BOOLEAN
    BY <1>2
  <2> QED BY <2>1, <2>2, <2>3, <2>4 DEF RailsTyped
<1>5. CapturedPayments = {} /\ DOMAIN booked = {} /\ DOMAIN taken = {} /\ DOMAIN repaid = {}
  BY <1>2 DEF CapturedPayments
<1>6. TakenSound /\ BookedSound /\ RepaidSound /\ RefundsReturned /\ PaidAtOnce
  BY <1>5 DEF TakenSound, BookedSound, RepaidSound, RefundsReturned, PaidAtOnce
<1>7. NothingYet /\ RestIsLessThanAUnit /\ PaidIsAcknowledged
  BY <1>1, <1>5 DEF NothingYet, RestIsLessThanAUnit, PaidIsAcknowledged
<1>8. PaidNearly /\ ChargedIsPaid
  BY <1>1, <1>2, <1>3 DEF PaidNearly, ChargedIsPaid, Unit
<1> QED BY <1>4, <1>6, <1>7, <1>8 DEF RailsInv

LEMMA RailsStep == ASSUME RailsInv, TablesAgree, [RailsNext]_railVars PROVE RailsInv'
<1>1. CASE UNCHANGED <<invoice, booked, taken, charged, repaid, acked, faults>>
  <2>1. CapturedPayments' = CapturedPayments /\ Unit' = Unit /\ ToCollect' = ToCollect
    BY <1>1 DEF CapturedPayments, Unit, ToCollect
  <2>2. RailsTyped' /\ TakenSound' /\ RepaidSound' /\ RefundsReturned'
    BY <1>1, <2>1 DEF RailsInv, RailsTyped, TakenSound, RepaidSound, RefundsReturned
  <2>3. BookedSound' /\ NothingYet' /\ PaidAtOnce'
    BY <1>1, <2>1 DEF RailsInv, BookedSound, NothingYet, PaidAtOnce
  <2>4. PaidNearly' /\ ChargedIsPaid' /\ RestIsLessThanAUnit' /\ PaidIsAcknowledged'
    BY <1>1, <2>1 DEF RailsInv, PaidNearly, ChargedIsPaid, RestIsLessThanAUnit,
       PaidIsAcknowledged, Unit
  <2> QED BY <2>2, <2>3, <2>4 DEF RailsInv
<1>2. CASE UNCHANGED railVars
  BY <1>1, <1>2 DEF railVars
<1>3. CASE Redeploy
  BY <1>1, <1>3 DEF Redeploy
<1>4. ASSUME NEW method \in Methods, NEW ref \in PaymentReferences, payInvoice(method, ref)
      PROVE  RailsInv'
  BY <1>4, payInvoiceKeeps
<1>5. ASSUME NEW amount \in RefundAmounts, refundInvoice(amount)
      PROVE  RailsInv'
  BY <1>5, refundInvoiceKeeps
<1> QED BY <1>2, <1>3, <1>4, <1>5 DEF RailsNext

LEMMA RailsInvSays == ASSUME RailsInv PROVE RailsHold
<1>1. BookedIsTaken
  BY DEF RailsInv, BookedSound, BookedIsTaken
<1>2. TakenOnce
  <2>1. /\ invoice.paid \in Int /\ invoice.total \in Nat /\ charged \in Int
        /\ ProviderUnit[invoice.currency] \in Nat
    <3>1. PICK i \in Invoices : i.currency = invoice.currency
      BY DEF RailsInv, RailsTyped
    <3>2. ProviderUnit[i.currency] \in Nat
      BY RailsAssumption
    <3> QED BY <3>1, <3>2 DEF RailsInv, RailsTyped
  <2> QED BY <2>1 DEF RailsInv, PaidNearly, ChargedIsPaid, TakenOnce, Unit
<1>3. RefundIsReturned
  <2>1. ASSUME Cardinality(CapturedPayments) = 1, NEW c \in DOMAIN taken
        PROVE  taken[c].back <= taken[c].worth
    <3>1. Len(booked) \in Nat /\ CapturedPayments \subseteq 1..Len(booked)
          /\ CapturedPayments \subseteq DOMAIN booked
      BY DEF RailsInv, RailsTyped, CapturedPayments
    <3>2. IsFiniteSet(CapturedPayments)
      BY <3>1, FS_Interval, FS_Subset, 1 \in Int, Len(booked) \in Int
    <3>3. PICK k : CapturedPayments = {k}
      BY <2>1, <3>2, FS_Singleton
    <3> QED BY <3>1, <3>3 DEF RailsInv, PaidAtOnce
  <2> QED BY <2>1 DEF RailsInv, RefundsReturned, RefundIsReturned
<1> QED BY <1>1, <1>2, <1>3 DEF RailsInv, RailsHold

(* The providers' books and the invoice's agree in every reachable state:   *)
(* payInvoice and refundInvoice over any route, with any lost answer and any *)
(* redeployment in between.                                                 *)
THEOREM RailsInvariant == ASSUME TablesAgree PROVE RailsSpec => []RailsInv
<1>1. RailsInit => RailsInv
  BY RailsStart
<1>2. RailsInv /\ [RailsNext]_railVars => RailsInv'
  BY RailsStep
<1> QED BY <1>1, <1>2, PTL DEF RailsSpec

(* What payInvoice and refundInvoice book is what the rail took and paid     *)
(* back: once, to the nearest unit, and never more than it took.            *)
THEOREM RailsSound == ASSUME TablesAgree PROVE RailsSpec => []RailsHold
<1>1. RailsInv => RailsHold
  BY RailsInvSays
<1> QED BY <1>1, RailsInvariant, PTL
=============================================================================
