-------------------------- MODULE ChatTurnsProofs --------------------------
(***************************************************************************)
(* Theorems of ChatTurns, for any number of turns, sessions, rounds, lines *)
(* and workers, and histories of any length.                               *)
(***************************************************************************)
EXTENDS ChatTurns, SequenceTheorems, FiniteSetTheorems, WellFoundedInduction, TLAPS

------------------------------------------------------------------------------
(* A history and what a trim leaves of it. *)

Msgs == [from: Turns, kind: {"question", "call", "result", "answer"}]
          \cup [from: 1..Lines, kind: {"line"}]

\* The i-th message of q is one that turn t's stream collected.
Of(q, t, i) == q[i].from = t /\ q[i].kind # "question"

Has(q, m) == \E i \in 1..Len(q) : q[i] = m

Body(t, n) ==
  [i \in 1..n |-> IF i = n THEN Answer(t)
                  ELSE [from |-> t, kind |-> IF i % 2 = 1 THEN "call" ELSE "result"]]

\* The n messages of turn t stand in q from p on, and nowhere else.
Block(q, t, n, p) ==
  /\ n \in Nat \ {0} /\ p \in 1..Len(q) /\ p + n - 1 \in 1..Len(q)
  /\ \A i \in 1..Len(q) : Of(q, t, i) <=> i \in p..p + n - 1
  /\ \A i \in 1..n : q[p + i - 1] = Body(t, n)[i]

\* r is q from its k-th message on, which is a user's.
Suffix(q, r, k) ==
  /\ k \in 1..Len(q) + 1 /\ Len(r) = Len(q) - k + 1
  /\ \A i \in 1..Len(r) : r[i] = q[k + i - 1]
  /\ k = 1 \/ (k \in 1..Len(q) /\ IsUser(q[k]))

LEMMA Least ==
  ASSUME NEW S \in SUBSET Nat, S # {}
  PROVE  \E n \in S : \A k \in S : n <= k
<1> DEFINE LT == {pair \in Nat \X Nat : pair[1] < pair[2]}
<1>1. OpToRel(<, Nat) = LT
  BY Zenon DEF OpToRel
<1>2. IsWellFoundedOn(LT, Nat)
  BY <1>1, NatLessThanWellFounded, Zenon
<1>3. \A k, n \in Nat : k < n => <<k, n>> \in LT
  OBVIOUS
<1> HIDE DEF LT
<1>4. PICK n \in S : \A k \in S : <<k, n>> \notin LT
  BY <1>2, WFMin
<1>5. \A k \in S : ~(k < n)
  BY <1>3, <1>4
<1> QED  BY <1>5

LEMMA MinMax ==
  ASSUME NEW n \in Nat, NEW S \in SUBSET (1..n), S # {}
  PROVE  /\ Min(S) \in S /\ \A x \in S : Min(S) <= x
         /\ Max(S) \in S /\ \A x \in S : x <= Max(S)
<1>1. PICK a \in S : \A x \in S : a <= x
  <2>1. S \in SUBSET Nat
    OBVIOUS
  <2> QED  BY <2>1, Least
<1>2. PICK b \in S : \A x \in S : b >= x
  <2> DEFINE U == {m \in Nat : \A x \in S : x <= m}
  <2>1. n \in U
    OBVIOUS
  <2> HIDE DEF U
  <2>2. PICK m \in U : \A k \in U : m <= k
    <3>1. U \in SUBSET Nat
      BY DEF U
    <3> QED  BY <2>1, <3>1, Least
  <2>3. m \in Nat /\ \A x \in S : x <= m
    BY <2>2 DEF U
  <2>4. m \in S
    <3> SUFFICES ASSUME m \notin S PROVE FALSE
      OBVIOUS
    <3>1. \A x \in S : x <= m - 1 /\ x \in Nat \ {0}
      BY <2>3
    <3>2. m - 1 \in Nat
      BY <2>3, <3>1
    <3>3. m - 1 \in U
      BY <3>1, <3>2 DEF U
    <3> QED  BY <2>2, <2>3, <3>3
  <2> QED  BY <2>3, <2>4
<1>3. Min(S) \in S /\ \A x \in S : Min(S) <= x
  BY <1>1 DEF Min
<1>4. Max(S) \in S /\ \A x \in S : Max(S) >= x
  BY <1>2 DEF Max
<1> QED  BY <1>3, <1>4

LEMMA TrimsGroups ==
  ASSUME NEW q \in Seq(Msgs)
  PROVE  /\ Trimmed(q) \in Seq(Msgs)
         /\ \E k \in 1..Len(q) + 1 :
              /\ Suffix(q, Trimmed(q), k)
              /\ \A m : m \in ToSet(SubSeq(q, 1, Len(q) - Len(Trimmed(q))))
                          <=> \E i \in 1..k - 1 : q[i] = m
<1> DEFINE users == {i \in 1..Len(q) : IsUser(q[i])}
           cuts == {1} \cup {i \in users : \E j \in users : j < i}
           fits == {i \in cuts : Len(q) - i + 1 <= HistoryMax}
           k == IF fits # {} THEN Min(fits) ELSE Max(cuts)
           l == Len(q)
<1>1. l \in Nat
  OBVIOUS
<1>2. cuts \in SUBSET (1..l + 1) /\ cuts # {} /\ fits \subseteq cuts
      /\ \A i \in cuts : i = 1 \/ (i \in 1..l /\ IsUser(q[i]))
  BY <1>1
<1>3. Trimmed(q) = SubSeq(q, k, l)
  BY DEF Trimmed
<1> HIDE DEF cuts, fits
<1>4. k \in cuts
  <2>1. l + 1 \in Nat
    BY <1>1
  <2>2. fits # {} => Min(fits) \in fits
    <3>1. fits \in SUBSET (1..l + 1)
      BY <1>2
    <3> HIDE DEF l
    <3> QED  BY <2>1, <3>1, MinMax
  <2>3. Max(cuts) \in cuts
    <3> HIDE DEF l
    <3> QED  BY <1>2, <2>1, MinMax
  <2> QED  BY <1>2, <2>2, <2>3
<1> HIDE DEF k
<1>5. k \in 1..l + 1 /\ (k = 1 \/ (k \in 1..l /\ IsUser(q[k])))
  BY <1>2, <1>4
<1>6. /\ SubSeq(q, k, l) \in Seq(Msgs)
      /\ Len(SubSeq(q, k, l)) = l - k + 1
      /\ \A i \in 1..l - k + 1 : SubSeq(q, k, l)[i] = q[k + i - 1]
  <2>1. k \in Int /\ l \in Int
    BY <1>1, <1>5
  <2>2. \A i \in k..l : q[i] \in Msgs
    BY <1>5
  <2>3. /\ SubSeq(q, k, l) \in Seq(Msgs)
        /\ Len(SubSeq(q, k, l)) = IF k <= l THEN l - k + 1 ELSE 0
        /\ \A i \in 1..l - k + 1 : SubSeq(q, k, l)[i] = q[k + i - 1]
    <3> HIDE DEF l
    <3> QED  BY <2>1, <2>2, SubSeqProperties
  <2>4. (IF k <= l THEN l - k + 1 ELSE 0) = l - k + 1
    <3> HIDE DEF l
    <3> QED  BY <1>1, <1>5
  <2> QED  BY <2>3, <2>4
<1>7. Suffix(q, Trimmed(q), k)
  BY <1>3, <1>5, <1>6 DEF Suffix
<1>8. l - Len(Trimmed(q)) = k - 1
  <2>1. Len(Trimmed(q)) = l - k + 1
    BY <1>3, <1>6
  <2> HIDE DEF l
  <2> QED  BY <1>1, <1>5, <2>1
<1>9. ASSUME NEW m
      PROVE  m \in ToSet(SubSeq(q, 1, k - 1)) <=> \E i \in 1..k - 1 : q[i] = m
  <2> DEFINE r == SubSeq(q, 1, k - 1)
             j == k - 1
  <2>1. j \in Nat /\ j <= l
    BY <1>1, <1>5
  <2>2. \A i \in 1..j : q[i] \in Msgs
    BY <2>1
  <2> HIDE DEF j
  <2>3. r = SubSeq(q, 1, j)
    BY DEF j
  <2> HIDE DEF r, l
  <2>4. /\ r \in Seq(Msgs) /\ Len(r) = IF 1 <= j THEN j - 1 + 1 ELSE 0
        /\ \A i \in 1..j - 1 + 1 : r[i] = q[1 + i - 1]
    BY <2>1, <2>2, <2>3, SubSeqProperties
  <2>5. Len(r) = j /\ j - 1 + 1 = j /\ \A i \in 1..j : 1 + i - 1 = i
    BY <2>1, <2>4
  <2>6. DOMAIN r = 1..j /\ \A i \in 1..j : r[i] = q[i]
    BY <2>4, <2>5, LenProperties
  <2> QED  BY <2>6 DEF ToSet, r, j
<1> QED  BY <1>3, <1>5, <1>6, <1>7, <1>8, <1>9

\* A user's message is no turn's.
LEMMA UsersAreNobodys ==
  ASSUME NEW q \in Seq(Msgs), NEW k \in 1..Len(q), IsUser(q[k]), NEW t \in Turns
  PROVE  ~Of(q, t, k)
<1>1. q[k] \in Msgs
  OBVIOUS
<1>2. CASE q[k].kind = "question"
  BY <1>2 DEF Of
<1>3. CASE q[k].kind = "line" /\ q[k].from \in UserLines
  <2>1. q[k].from \in 1..Lines
    BY <1>3, BoundsAssumption
  <2> QED  BY <2>1, TurnsAssumption DEF Of
<1> QED  BY <1>2, <1>3 DEF IsUser

LEMMA SuffixKeepsBlock ==
  ASSUME NEW q \in Seq(Msgs), NEW r, NEW k, Suffix(q, r, k), NEW t \in Turns, NEW n, NEW p,
         Block(q, t, n, p)
  PROVE  \/ \A i \in 1..Len(r) : ~Of(r, t, i)
         \/ Block(r, t, n, p - k + 1)
<1> DEFINE a == Len(q)
           b == Len(r)
           j == p - k + 1
<1>1. /\ a \in Nat /\ b = a - k + 1 /\ k \in 1..a + 1
      /\ n \in Nat \ {0} /\ p \in 1..a /\ p + n - 1 \in 1..a
      /\ \A i \in 1..b : r[i] = q[k + i - 1]
      /\ \A i \in 1..a : Of(q, t, i) <=> i \in p..p + n - 1
      /\ \A i \in 1..n : q[p + i - 1] = Body(t, n)[i]
  BY DEF Suffix, Block
<1>2. k = 1 \/ (k \in 1..a /\ ~Of(q, t, k))
  BY UsersAreNobodys DEF Suffix
<1> HIDE DEF a, b, j
<1>3. k <= p \/ p + n - 1 < k
  BY <1>1, <1>2
<1>4. \A i \in 1..b : k + i - 1 \in 1..a /\ (Of(r, t, i) <=> Of(q, t, k + i - 1))
  <2>1. \A i \in 1..b : k + i - 1 \in 1..a
    BY <1>1
  <2>2. \A i \in 1..b : Of(r, t, i) <=> Of(q, t, k + i - 1)
    BY <1>1 DEF Of
  <2> QED  BY <2>1, <2>2
<1>5. CASE p + n - 1 < k
  <2>1. \A i \in 1..b : k + i - 1 \notin p..p + n - 1
    BY <1>1, <1>5
  <2> QED  BY <1>1, <1>4, <2>1 DEF b
<1>6. CASE k <= p
  <2>1. j \in 1..b /\ j + n - 1 \in 1..b
    BY <1>1, <1>6 DEF j
  <2>2. \A i \in 1..b : k + i - 1 \in p..p + n - 1 <=> i \in j..j + n - 1
    BY <1>1, <1>6 DEF j
  <2>3. \A i \in 1..b : Of(r, t, i) <=> i \in j..j + n - 1
    BY <1>1, <1>4, <2>2
  <2>4. \A i \in 1..n : r[j + i - 1] = Body(t, n)[i]
    <3>1. \A i \in 1..n : j + i - 1 \in 1..b /\ k + (j + i - 1) - 1 = p + i - 1
      BY <1>1, <1>6, <2>1 DEF j
    <3> QED  BY <1>1, <3>1
  <2>5. Block(r, t, n, j)
    BY <1>1, <2>1, <2>3, <2>4 DEF Block, b
  <2> QED  BY <2>5 DEF j
<1> QED  BY <1>3, <1>5, <1>6

\* A turn that is in the history of s at all was answered there, and is in it whole.
Entered(q, s, t, how, where, n) ==
  (\E i \in 1..Len(q) : Of(q, t, i)) => how = "answered" /\ where = s /\ \E p : Block(q, t, n, p)

LEMMA EnteredSuffix ==
  ASSUME NEW q \in Seq(Msgs), NEW r, NEW k, Suffix(q, r, k), NEW s, NEW t \in Turns,
         NEW how, NEW where, NEW n, Entered(q, s, t, how, where, n)
  PROVE  Entered(r, s, t, how, where, n)
<1> SUFFICES ASSUME \E i \in 1..Len(r) : Of(r, t, i)
             PROVE  how = "answered" /\ where = s /\ \E p : Block(r, t, n, p)
  BY DEF Entered
<1>1. PICK i \in 1..Len(r) : Of(r, t, i)
  OBVIOUS
<1>2. k + i - 1 \in 1..Len(q) /\ Of(q, t, k + i - 1)
  <2> DEFINE a == Len(q)
             b == Len(r)
  <2>1. a \in Nat /\ b = a - k + 1 /\ k \in 1..a + 1 /\ i \in 1..b
        /\ \A m \in 1..b : r[m] = q[k + m - 1]
    BY DEF Suffix
  <2> HIDE DEF a, b
  <2>2. k + i - 1 \in 1..a
    BY <2>1
  <2>3. r[i] = q[k + i - 1]
    BY <2>1
  <2> QED  BY <1>1, <2>2, <2>3 DEF Of, a
<1>3. how = "answered" /\ where = s /\ \E p : Block(q, t, n, p)
  BY <1>2 DEF Entered
<1> QED  BY <1>1, <1>3, SuffixKeepsBlock

LEMMA Joined ==
  ASSUME NEW q \in Seq(Msgs), NEW new \in Seq(Msgs), NEW r, r = q \o new
  PROVE  /\ r \in Seq(Msgs) /\ Len(r) = Len(q) + Len(new) /\ Len(q) \in Nat /\ Len(new) \in Nat
         /\ \A i \in 1..Len(q) : i \in 1..Len(r) /\ r[i] = q[i]
         /\ \A i \in 1..Len(new) : Len(q) + i \in 1..Len(r) /\ r[Len(q) + i] = new[i]
         /\ \A i \in 1..Len(r) : i \in 1..Len(q) \/ i - Len(q) \in 1..Len(new)
<1>1. /\ r \in Seq(Msgs) /\ Len(r) = Len(q) + Len(new) /\ Len(q) \in Nat /\ Len(new) \in Nat
      /\ \A i \in 1..Len(q) : r[i] = q[i]
      /\ \A i \in 1..Len(new) : r[Len(q) + i] = new[i]
  BY ConcatProperties
<1> DEFINE a == Len(q)
           b == Len(new)
           l == Len(r)
<1>2. l = a + b /\ a \in Nat /\ b \in Nat
  BY <1>1
<1> HIDE DEF a, b, l
<1>3. /\ \A i \in 1..a : i \in 1..l
      /\ \A i \in 1..b : a + i \in 1..l
      /\ \A i \in 1..l : i \in 1..a \/ i - a \in 1..b
  BY <1>2
<1> QED  BY <1>1, <1>3 DEF a, b, l

\* Messages of no stream join a history.
LEMMA EnteredGrown ==
  ASSUME NEW q \in Seq(Msgs), NEW new \in Seq(Msgs), NEW r, r = q \o new,
         NEW s, NEW t \in Turns, NEW how, NEW where, NEW n, Entered(q, s, t, how, where, n),
         \A i \in 1..Len(new) : ~Of(new, t, i)
  PROVE  Entered(r, s, t, how, where, n)
<1> DEFINE a == Len(q)
           l == Len(r)
<1>1. /\ a \in Nat /\ l \in Nat
      /\ \A i \in 1..a : i \in 1..l /\ r[i] = q[i]
      /\ \A i \in 1..l : i \in 1..a \/ i - a \in 1..Len(new)
      /\ \A i \in 1..Len(new) : a + i \in 1..l /\ r[a + i] = new[i]
  BY Joined
<1>2. \A i \in 1..l : Of(r, t, i) <=> i \in 1..a /\ Of(q, t, i)
  <2>1. ASSUME NEW i \in 1..l, i \notin 1..a PROVE ~Of(r, t, i)
    <3>1. i - a \in 1..Len(new) /\ a + (i - a) = i
      <4> HIDE DEF a, l
      <4> QED  BY <1>1, <2>1
    <3>2. r[i] = new[i - a]
      BY <1>1, <3>1
    <3> QED  BY <3>1, <3>2 DEF Of
  <2>2. ASSUME NEW i \in 1..a PROVE Of(r, t, i) <=> Of(q, t, i)
    BY <1>1 DEF Of
  <2> HIDE DEF a, l
  <2> QED  BY <1>1, <2>1, <2>2
<1> SUFFICES ASSUME \E i \in 1..l : Of(r, t, i)
             PROVE  how = "answered" /\ where = s /\ \E p : Block(r, t, n, p)
  BY DEF Entered
<1>3. PICK p : Block(q, t, n, p) /\ how = "answered" /\ where = s
  BY <1>2 DEF Entered
<1>4. /\ n \in Nat \ {0} /\ p \in 1..a /\ p + n - 1 \in 1..a
      /\ \A i \in 1..a : Of(q, t, i) <=> i \in p..p + n - 1
      /\ \A i \in 1..n : q[p + i - 1] = Body(t, n)[i]
  BY <1>3 DEF Block
<1> HIDE DEF a, l
<1>5. p \in 1..l /\ p + n - 1 \in 1..l
  BY <1>1, <1>4
<1>6. \A i \in 1..l : Of(r, t, i) <=> i \in p..p + n - 1
  <2>1. \A i \in p..p + n - 1 : i \in 1..a
    BY <1>1, <1>4
  <2> QED  BY <1>2, <1>4, <2>1
<1>7. \A i \in 1..n : r[p + i - 1] = Body(t, n)[i]
  <2>1. \A i \in 1..n : p + i - 1 \in 1..a
    BY <1>1, <1>4
  <2> QED  BY <1>1, <1>4, <2>1
<1>8. Block(r, t, n, p)
  BY <1>4, <1>5, <1>6, <1>7 DEF Block, l
<1> QED  BY <1>3, <1>8

LEMMA BodyIsOne ==
  ASSUME NEW t \in Turns, NEW n \in Nat \ {0}
  PROVE  /\ Body(t, n) \in Seq(Msgs) /\ Len(Body(t, n)) = n
         /\ \A i \in 1..n : Of(Body(t, n), t, i)
         /\ \A u \in Turns \ {t} : \A i \in 1..n : ~Of(Body(t, n), u, i)
         /\ \A i \in 1..n : Body(t, n)[i] = Answer(t) <=> i = n
<1>1. ASSUME NEW i \in 1..n
      PROVE  /\ Body(t, n)[i] \in Msgs
             /\ Body(t, n)[i].from = t /\ Body(t, n)[i].kind # "question"
             /\ Body(t, n)[i] = Answer(t) <=> i = n
  <2>1. CASE i = n
    <3>1. Body(t, n)[i] = Answer(t)
      BY <2>1 DEF Body
    <3> QED  BY <2>1, <3>1 DEF Answer, Msgs
  <2>2. CASE i # n
    <3>1. PICK kind \in {"call", "result"} : Body(t, n)[i] = [from |-> t, kind |-> kind]
      <4>1. CASE i % 2 = 1
        BY <2>2, <4>1 DEF Body
      <4>2. CASE i % 2 # 1
        BY <2>2, <4>2 DEF Body
      <4> QED  BY <4>1, <4>2
    <3>2. Answer(t).kind = "answer" /\ Body(t, n)[i].kind # "answer"
      BY <3>1 DEF Answer
    <3> QED  BY <2>2, <3>1, <3>2 DEF Msgs
  <2> QED  BY <2>1, <2>2
<1>2. Body(t, n) \in [1..n -> Msgs]
  <2>1. Body(t, n) = [i \in 1..n |-> Body(t, n)[i]]
    BY DEF Body
  <2> QED  BY <1>1, <2>1
<1>3. Body(t, n) \in Seq(Msgs) /\ Len(Body(t, n)) = n
  BY <1>2
<1> QED  BY <1>1, <1>3 DEF Of

\* A turn that is not in a history joins it whole.
LEMMA EnteredAnswered ==
  ASSUME NEW q \in Seq(Msgs), NEW t \in Turns, NEW n \in Nat \ {0},
         \A i \in 1..Len(q) : ~Of(q, t, i), NEW r, r = q \o Body(t, n)
  PROVE  Block(r, t, n, Len(q) + 1)
<1> DEFINE a == Len(q)
           l == Len(r)
           new == Body(t, n)
<1>1. /\ new \in Seq(Msgs) /\ Len(new) = n
      /\ \A i \in 1..n : Of(new, t, i)
  BY BodyIsOne
<1>2. r = q \o new
  OBVIOUS
<1> HIDE DEF new
<1>3. /\ a \in Nat /\ l = a + n
      /\ \A i \in 1..a : r[i] = q[i]
      /\ \A i \in 1..n : r[a + i] = new[i]
  <2>1. /\ Len(r) = Len(q) + Len(new) /\ Len(q) \in Nat
        /\ \A i \in 1..Len(q) : r[i] = q[i]
        /\ \A i \in 1..Len(new) : r[Len(q) + i] = new[i]
    <3>1. new \in Seq(Msgs)
      BY <1>1
    <3> QED  BY <1>2, <3>1, Joined
  <2> QED  BY <1>1, <2>1
<1> HIDE DEF a, l
<1>4. a + 1 \in 1..l /\ (a + 1) + n - 1 = l /\ l \in 1..l
  <2>1. a \in Nat /\ n \in Nat \ {0} /\ l = a + n
    BY <1>3
  <2> QED  BY <2>1
<1>5. ASSUME NEW i \in 1..l PROVE Of(r, t, i) <=> i \in a + 1..l
  <2>1. CASE i \in 1..a
    BY <1>3, <2>1 DEF Of, a
  <2>2. CASE i \notin 1..a
    <3>1. i - a \in 1..n /\ a + (i - a) = i /\ i \in a + 1..l
      BY <1>3, <2>2
    <3>2. r[i] = new[i - a]
      BY <1>3, <3>1
    <3> QED  BY <1>1, <3>1, <3>2 DEF Of
  <2> QED  BY <2>1, <2>2
<1>6. \A i \in 1..n : r[(a + 1) + i - 1] = new[i]
  <2>1. \A i \in 1..n : (a + 1) + i - 1 = a + i
    BY <1>3
  <2> QED  BY <1>3, <2>1
<1>7. Block(r, t, n, a + 1)
  BY <1>4, <1>5, <1>6 DEF Block, l, new
<1> QED  BY <1>7 DEF a

\* The answer of a turn is one message.
LEMMA OneAnswer ==
  ASSUME NEW q \in Seq(Msgs), NEW t \in Turns, NEW n, NEW p, Block(q, t, n, p)
  PROVE  /\ p + n - 1 \in 1..Len(q) /\ q[p + n - 1] = Answer(t)
         /\ \A i \in 1..Len(q) : q[i] = Answer(t) => i = p + n - 1
<1> DEFINE a == Len(q)
<1>1. /\ a \in Nat /\ n \in Nat \ {0} /\ p \in 1..a /\ p + n - 1 \in 1..a
      /\ \A i \in 1..a : Of(q, t, i) <=> i \in p..p + n - 1
      /\ \A i \in 1..n : q[p + i - 1] = Body(t, n)[i]
  BY DEF Block
<1>2. \A i \in 1..n : Body(t, n)[i] = Answer(t) <=> i = n
  BY <1>1, BodyIsOne
<1>3. q[p + n - 1] = Answer(t)
  <2>1. n \in 1..n
    BY <1>1
  <2> QED  BY <1>1, <1>2, <2>1
<1>4. ASSUME NEW i \in 1..a, q[i] = Answer(t) PROVE i = p + n - 1
  <2>1. Of(q, t, i)
    BY <1>4 DEF Of, Answer
  <2> HIDE DEF a
  <2>2. i - p + 1 \in 1..n /\ p + (i - p + 1) - 1 = i
    BY <1>1, <2>1
  <2>3. q[i] = Body(t, n)[i - p + 1]
    BY <1>1, <2>2
  <2>4. i - p + 1 = n
    BY <1>2, <1>4, <2>2, <2>3
  <2> QED  BY <1>1, <2>2, <2>4
<1> QED  BY <1>1, <1>3, <1>4

------------------------------------------------------------------------------
(* The turns: who runs, how a turn came out, what it leaves in the pool. *)

Steps == {"unsent", "stashed", "parked", "waiting", "ghost", "streaming", "called", "tool",
          "unwinding", "closing", "rewriting", "over"}
Results == {"open", "answered", "failed", "left"}

TurnTypes ==
  /\ step \in [Turns -> Steps] /\ result \in [Turns -> Results] /\ rounds \in [Turns -> Nat]
  /\ tool \in [Turns -> Tools \cup {None}] /\ pending \in SUBSET Turns
  /\ home \in [Turns -> Sessions] /\ locked \in SUBSET Turns
  /\ cleanup \in [Turns -> {"none", "due", "begun"}]

\* Where a turn may be when it has come out, and when its generator waits to be cleaned up; a
\* tool that runs is waited for or abandoned.
Outcomes ==
  \A t \in Turns :
    /\ result[t] = "answered" => step[t] \in {"closing", "rewriting", "over"}
    /\ result[t] = "left" => step[t] \in {"unwinding", "closing", "ghost", "over"}
    /\ tool[t] # None => step[t] \in {"called", "tool"} \/ result[t] = "left"
    /\ cleanup[t] # "none" => step[t] \in {"rewriting", "over"}

Alone ==
  \A t \in Turns : Running(t) =>
    /\ lock = t /\ context \in {t, None}
    /\ \A u \in locked \ {t} : result[u] = "left"

TurnInv == TurnTypes /\ Outcomes /\ Alone

LEMMA PostKeepsTurns ==
  ASSUME TurnInv, NEW t \in Turns, Post(t) PROVE TurnInv'
<1>1. TurnTypes'
  BY DEF TurnInv, TurnTypes, Post, Go, coreVars, Steps
<1>2. Outcomes'
  BY DEF TurnInv, TurnTypes, Outcomes, Post, Go, coreVars
<1>3. Alone'
  BY DEF TurnInv, TurnTypes, Alone, Running, Post, Go, coreVars
<1> QED  BY <1>1, <1>2, <1>3 DEF TurnInv

LEMMA OpenKeepsTurns ==
  ASSUME TurnInv, NEW t \in Turns, Open(t) PROVE TurnInv'
<1>1. TurnTypes'
  BY DEF TurnInv, TurnTypes, Open, Go, Settle, coreVars, Steps, Results
<1>2. Outcomes'
  BY DEF TurnInv, TurnTypes, Outcomes, Open, Go, Settle, coreVars
<1>3. Alone'
  BY DEF TurnInv, TurnTypes, Outcomes, Alone, Running, Open, Go, Settle, coreVars
<1> QED  BY <1>1, <1>2, <1>3 DEF TurnInv

LEMMA WaitKeepsTurns ==
  ASSUME TurnInv, NEW t \in Turns, Park(t) \/ Acquire(t) \/ GhostAcquire(t) PROVE TurnInv'
<1>1. CASE Park(t)
  <2>1. TurnTypes' /\ Outcomes'
    BY <1>1 DEF TurnInv, TurnTypes, Outcomes, Park, Go, coreVars, Steps
  <2>2. Alone'
    BY <1>1 DEF TurnInv, TurnTypes, Alone, Running, Park, Go, coreVars
  <2> QED  BY <2>1, <2>2 DEF TurnInv
<1>2. CASE Acquire(t)
  <2>1. TurnTypes' /\ Outcomes'
    BY <1>2 DEF TurnInv, TurnTypes, Outcomes, Acquire, Go, Steps
  <2>2. \A u \in Turns : ~Running(u)
    BY <1>2, TurnsAssumption DEF TurnInv, Alone, Acquire
  <2>3. Alone'
    BY <1>2, <2>2 DEF TurnInv, TurnTypes, Alone, Running, Acquire, Go
  <2> QED  BY <2>1, <2>3 DEF TurnInv
<1>3. CASE GhostAcquire(t)
  <2>1. TurnTypes' /\ Outcomes'
    BY <1>3 DEF TurnInv, TurnTypes, Outcomes, GhostAcquire, turnVars
  <2>2. \A u \in Turns : ~Running(u)
    BY <1>3, TurnsAssumption DEF TurnInv, Alone, GhostAcquire
  <2>3. Alone'
    BY <1>3, <2>2 DEF TurnInv, TurnTypes, Alone, Running, GhostAcquire, turnVars
  <2> QED  BY <2>1, <2>3 DEF TurnInv
<1> QED  BY <1>1, <1>2, <1>3

LEMMA ToolKeepsTurns ==
  ASSUME TurnInv, NEW t \in Turns,
         (\E kind \in Tools : CallTool(t, kind)) \/ StartTool(t) \/ EndTool(t)
  PROVE  TurnInv'
<1>1. ASSUME NEW kind \in Tools, CallTool(t, kind) PROVE TurnInv'
  <2>1. TurnTypes'
    BY <1>1 DEF TurnInv, TurnTypes, CallTool, Go, coreVars, Steps
  <2>2. Outcomes'
    BY <1>1 DEF TurnInv, TurnTypes, Outcomes, CallTool, Event, Go, coreVars
  <2>3. Alone'
    BY <1>1 DEF TurnInv, TurnTypes, Alone, Running, CallTool, Event, Go, coreVars
  <2> QED  BY <2>1, <2>2, <2>3 DEF TurnInv
<1>2. CASE StartTool(t)
  <2>1. TurnTypes'
    BY <1>2 DEF TurnInv, TurnTypes, StartTool, Go, coreVars, Steps
  <2>2. Outcomes'
    BY <1>2 DEF TurnInv, TurnTypes, Outcomes, StartTool, Go, coreVars
  <2>3. Alone'
    BY <1>2 DEF TurnInv, TurnTypes, Alone, Running, StartTool, Go, coreVars
  <2> QED  BY <2>1, <2>2, <2>3 DEF TurnInv
<1>3. CASE EndTool(t)
  <2>1. /\ tool[t] # None /\ step[t] # "called"
        /\ locked' \subseteq locked \cup {t}
        /\ tool' = [tool EXCEPT ![t] = None] /\ result' = result /\ home' = home
        /\ lock' = lock /\ context' = context /\ cleanup' = cleanup
        /\ \/ step[t] = "tool" /\ step' = [step EXCEPT ![t] = "streaming"]
              /\ rounds' = [rounds EXCEPT ![t] = @ + 1] /\ pending' \in SUBSET (pending \cup {t})
           \/ step[t] # "tool" /\ step' = step /\ rounds' = rounds /\ pending' = pending
    BY <1>3 DEF EndTool, Go
  <2>2. TurnTypes'
    BY <2>1 DEF TurnInv, TurnTypes, Steps
  <2>3. Outcomes'
    BY <2>1 DEF TurnInv, TurnTypes, Outcomes
  <2>4. Alone'
    <3>1. step[t] # "tool" => result[t] = "left"
      BY <2>1 DEF TurnInv, Outcomes
    <3>2. \A u \in Turns : Running(u)' => Running(u)
      BY <2>1 DEF TurnInv, TurnTypes, Running
    <3>3. ASSUME NEW u \in Turns, Running(u)
          PROVE  lock' = u /\ context' \in {u, None} /\ \A v \in locked' \ {u} : result'[v] = "left"
      <4>1. lock = u /\ context \in {u, None} /\ \A v \in locked \ {u} : result[v] = "left"
        BY <3>3 DEF TurnInv, Alone
      <4>2. t # u => result[t] = "left"
        <5>1. step[t] = "tool" => lock = t
          BY DEF TurnInv, Alone, Running
        <5> QED  BY <3>1, <4>1, <5>1
      <4> QED  BY <2>1, <4>1, <4>2
    <3> QED  BY <3>2, <3>3 DEF Alone
  <2> QED  BY <2>2, <2>3, <2>4 DEF TurnInv
<1> QED  BY <1>1, <1>2, <1>3

LEMMA EndKeepsTurns ==
  ASSUME TurnInv, NEW t \in Turns, Finish(t) \/ Fail(t) \/ Break(t) \/ HeedCancel(t)
  PROVE  TurnInv'
<1>1. PICK how \in {"answered", "failed", "left"}, to \in {"closing", "unwinding"} :
        /\ step[t] = "streaming" /\ step' = [step EXCEPT ![t] = to]
        /\ how = "answered" => to = "closing"
        /\ result' = [result EXCEPT ![t] = how] /\ home' = home /\ rounds' = rounds /\ tool' = tool
        /\ pending' = pending /\ UNCHANGED coreVars
  BY DEF Finish, Fail, Break, HeedCancel, Event, Go, Settle, coreVars
<1>2. TurnTypes'
  BY <1>1 DEF TurnInv, TurnTypes, Steps, Results, coreVars
<1>3. Outcomes'
  BY <1>1 DEF TurnInv, TurnTypes, Outcomes, coreVars
<1>4. Alone'
  BY <1>1 DEF TurnInv, TurnTypes, Outcomes, Alone, Running, coreVars
<1> QED  BY <1>2, <1>3, <1>4 DEF TurnInv

\* The lock is given up by the turn that runs, and then none does.
LEMMA NoneRuns ==
  ASSUME TurnInv, NEW t \in Turns, Running(t), NEW to \in {"rewriting", "over"},
         step' = [step EXCEPT ![t] = to]
  PROVE  \A u \in Turns : ~Running(u)'
<1>1. \A u \in Turns : Running(u) => lock = u
  BY DEF TurnInv, Alone
<1> QED  BY <1>1 DEF TurnInv, TurnTypes, Running

LEMMA CloseKeepsTurns ==
  ASSUME TurnInv, NEW t \in Turns, Unwind(t) \/ Release(t) PROVE TurnInv'
<1>1. PICK to \in {"rewriting", "over"} :
        /\ step[t] \in {"unwinding", "closing"} /\ step' = [step EXCEPT ![t] = to]
        /\ to = "rewriting" => result[t] = "answered"
        /\ locked' \in {locked, {}} /\ cleanup' \in {cleanup, [cleanup EXCEPT ![t] = "due"]}
        /\ result' = result /\ home' = home /\ rounds' = rounds /\ tool' = tool /\ pending' = pending
  <2>1. CASE Unwind(t)
    BY <2>1 DEF Unwind, Go
  <2>2. CASE Release(t)
    BY <2>2 DEF Release, GoesOn, Go
  <2> QED  BY <2>1, <2>2
<1>2. TurnTypes'
  BY <1>1 DEF TurnInv, TurnTypes, Steps
<1>3. Outcomes'
  BY <1>1 DEF TurnInv, TurnTypes, Outcomes
<1>4. Alone'
  <2>1. Running(t)
    BY <1>1 DEF Running
  <2> QED  BY <1>1, <2>1, NoneRuns DEF Alone
<1> QED  BY <1>2, <1>3, <1>4 DEF TurnInv

\* What a left generator does to the turn that runs by then.
LEMMA CleanUpKeepsTurns ==
  ASSUME TurnInv, NEW t \in Turns, EndTurn(t) \/ ClearContext(t) PROVE TurnInv'
<1>1. /\ cleanup[t] # "none" /\ UNCHANGED turnVars /\ lock' = lock
      /\ context' \in {context, None} /\ locked' \subseteq locked
      /\ cleanup' \in {[cleanup EXCEPT ![t] = "begun"], [cleanup EXCEPT ![t] = "none"]}
  BY DEF EndTurn, ClearContext
<1>2. TurnTypes'
  BY <1>1 DEF TurnInv, TurnTypes, turnVars
<1>3. Outcomes'
  BY <1>1 DEF TurnInv, TurnTypes, Outcomes, turnVars
<1>4. Alone'
  BY <1>1 DEF TurnInv, Alone, Running, turnVars
<1> QED  BY <1>2, <1>3, <1>4 DEF TurnInv

LEMMA LeaveKeepsTurns ==
  ASSUME TurnInv, NEW t \in Turns, Rewrite(t) \/ HangUp(t) \/ CancelJob(t) PROVE TurnInv'
<1>1. CASE Rewrite(t)
  <2>1. TurnTypes' /\ Outcomes'
    BY <1>1 DEF TurnInv, TurnTypes, Outcomes, Rewrite, Go, coreVars, Steps
  <2>2. Alone'
    BY <1>1 DEF TurnInv, TurnTypes, Alone, Running, Rewrite, Go, coreVars
  <2> QED  BY <2>1, <2>2 DEF TurnInv
<1>2. CASE HangUp(t)
  <2>1. PICK to \in {"over", "ghost", "closing", "unwinding"} :
          /\ Holds(t) /\ step' = [step EXCEPT ![t] = to]
          /\ to \in {"closing", "unwinding"} => Running(t)
          /\ result' = [result EXCEPT ![t] = "left"] /\ home' = home /\ rounds' = rounds
          /\ pending' = pending /\ UNCHANGED coreVars
          /\ tool' = [tool EXCEPT ![t] = tool'[t]] /\ tool'[t] \in {tool[t], None}
    <3>1. /\ result' = [result EXCEPT ![t] = "left"] /\ home' = home /\ rounds' = rounds
          /\ pending' = pending /\ UNCHANGED coreVars
          /\ tool' = [tool EXCEPT ![t] = tool'[t]] /\ tool'[t] \in {tool[t], None}
      BY <1>2 DEF HangUp, Settle, TurnInv, TurnTypes
    <3>2. CASE step[t] = "parked"
      BY <1>2, <3>1, <3>2 DEF HangUp, Go
    <3>3. CASE step[t] = "waiting"
      BY <1>2, <3>1, <3>3 DEF HangUp, Go
    <3>4. CASE step[t] \in {"streaming", "called", "tool"}
      BY <1>2, <3>1, <3>4 DEF HangUp, Go, Running
    <3> QED  BY <1>2, <3>2, <3>3, <3>4 DEF HangUp, Holds
  <2>2. TurnTypes' /\ Outcomes'
    BY <2>1 DEF TurnInv, TurnTypes, Outcomes, Holds, Steps, Results, coreVars
  <2>3. Alone'
    <3>1. \A u \in Turns : Running(u)' => Running(u)
      BY <2>1 DEF TurnInv, TurnTypes, Running
    <3> QED  BY <2>1, <3>1 DEF TurnInv, TurnTypes, Alone, coreVars
  <2> QED  BY <2>2, <2>3 DEF TurnInv
<1>3. CASE CancelJob(t)
  BY <1>3 DEF TurnInv, TurnTypes, Outcomes, Alone, Running, CancelJob, coreVars
<1> QED  BY <1>1, <1>2, <1>3

LEMMA CallKeepsTurns ==
  ASSUME TurnInv,
         \/ \E s \in Sessions : NewChat(s)
         \/ StartCall \/ EndCall \/ UNCHANGED vars
         \/ \E f \in Batches : Relay(f)
  PROVE  TurnInv'
<1>1. UNCHANGED <<turnVars, coreVars>>
  BY DEF NewChat, StartCall, EndCall, Relay, vars
<1> QED  BY <1>1 DEF TurnInv, TurnTypes, Outcomes, Alone, Running, turnVars, coreVars

LEMMA AskKeepsTurns ==
  ASSUME TurnInv, NEW t \in Turns, NEW f, Ask(t, f) PROVE TurnInv'
<1>1. TurnTypes' /\ Outcomes'
  BY DEF TurnInv, TurnTypes, Outcomes, Ask, Go, coreVars, Steps
<1>2. Alone'
  BY DEF TurnInv, TurnTypes, Alone, Running, Ask, Go, coreVars
<1> QED  BY <1>1, <1>2 DEF TurnInv

LEMMA NextKeepsTurns ==
  ASSUME TurnInv, [Next]_vars PROVE TurnInv'
<1>1. ASSUME NEW t \in Turns, Serve(t) PROVE TurnInv'
  BY <1>1, WaitKeepsTurns, ToolKeepsTurns, EndKeepsTurns, CloseKeepsTurns,
     CleanUpKeepsTurns, LeaveKeepsTurns
     DEF Serve, Stream
<1> QED  BY <1>1, PostKeepsTurns, OpenKeepsTurns, LeaveKeepsTurns, CallKeepsTurns, AskKeepsTurns
         DEF Next

LEMMA InitTurns == Init => TurnInv
BY TurnsAssumption DEF Init, TurnInv, TurnTypes, Outcomes, Alone, Running, Steps, Results

LEMMA TurnsAreAlone ==
  ASSUME TurnInv, NEW t \in Turns PROVE RunsAlone(t)
BY DEF TurnInv, Alone, RunsAlone

\* Only a generator that was left before can take a running turn's context and locks.
LEMMA StepKeepsContext ==
  ASSUME TurnInv, [Next]_vars, NEW t \in Turns PROVE KeepsItsContext(t)
<1> SUFFICES ASSUME Running(t), context = t, Settled(t), Running(t)'
             PROVE  context' = t /\ locked \subseteq locked' /\ Settled(t)'
  BY DEF KeepsItsContext
<1>1. lock = t /\ t # None
  BY TurnsAssumption DEF TurnInv, Alone
<1>2. \A u \in Turns : cleanup[u] = "none"
  BY DEF Settled, Running, TurnInv, Outcomes
<1>3. \A u \in Turns \ {t} : ~Running(u)
  BY <1>1 DEF TurnInv, Alone
<1>4. ASSUME context' = context, locked \subseteq locked', cleanup' = cleanup
      PROVE  context' = t /\ locked \subseteq locked' /\ Settled(t)'
  BY <1>4 DEF Settled
<1>5. CASE UNCHANGED coreVars
  BY <1>4, <1>5 DEF coreVars
<1>6. ASSUME NEW u \in Turns, Serve(u), ~UNCHANGED coreVars
      PROVE  context' = context /\ locked \subseteq locked' /\ cleanup' = cleanup
  <2>1. ~Acquire(u) /\ ~EndTurn(u) /\ ~ClearContext(u)
    BY <1>1, <1>2 DEF Acquire, EndTurn, ClearContext
  <2>2. ~Unwind(u) /\ ~Release(u)
    <3>1. SUFFICES ASSUME Unwind(u) \/ Release(u) PROVE FALSE
      OBVIOUS
    <3>2. /\ Running(u)
          /\ step' = [step EXCEPT ![u] = "rewriting"] \/ step' = [step EXCEPT ![u] = "over"]
      BY <3>1 DEF Unwind, Release, GoesOn, Go, Running
    <3>3. ~Running(t)'
      BY <3>2, NoneRuns
    <3> QED  BY <3>3
  <2>3. GhostAcquire(u) \/ EndTool(u)
    BY <1>6, <2>1, <2>2 DEF Serve, Stream, Park, CallTool, Finish, Fail, Break, HeedCancel, StartTool,
                            Rewrite
  <2> QED  BY <2>3 DEF GhostAcquire, EndTool
<1>7. CASE Next /\ ~UNCHANGED coreVars
  <2>1. PICK u \in Turns : Serve(u)
    BY <1>7 DEF Next, Post, Open, HangUp, CancelJob, NewChat, StartCall, EndCall, Relay, Ask
  <2> QED  BY <1>4, <1>6, <1>7, <2>1
<1> QED  BY <1>5, <1>7 DEF vars

\* Turns run alone: one at a time, and none under another's context; a turn that has its
\* context when no generator of an earlier turn is left to clean up keeps it to the end.
THEOREM RunAlone == Spec => TurnsRunAlone
<1>1. TurnInv /\ [Next]_vars => TurnInv'
  BY NextKeepsTurns
<1>2. TurnInv => \A t \in Turns : RunsAlone(t)
  BY TurnsAreAlone
<1>3. TurnInv /\ [Next]_vars => [\A t \in Turns : KeepsItsContext(t)]_vars
  BY StepKeepsContext
<1> QED  BY <1>1, <1>2, <1>3, InitTurns, PTL DEF Spec, TurnsRunAlone

------------------------------------------------------------------------------
(* The histories: a turn is in one whole, and its chart is bound to its answer. *)

\* The messages a trim took, when r is left of q.
Lost(q, r) == ToSet(SubSeq(q, 1, Len(q) - Len(r)))

LEMMA TrimmedHistory ==
  ASSUME NEW q \in Seq(Msgs), NEW r, r = Trimmed(q), NEW lost,
         lost = Lost(q, r),
         NEW s, NEW t \in Turns, NEW how, NEW where, NEW n, Entered(q, s, t, how, where, n)
  PROVE  /\ Entered(r, s, t, how, where, n)
         /\ Has(r, Answer(t)) <=> Has(q, Answer(t)) /\ Answer(t) \notin lost
<1> DEFINE m == Answer(t)
<1>1. PICK k \in 1..Len(q) + 1 :
        Suffix(q, r, k) /\ (m \in lost <=> \E i \in 1..k - 1 : q[i] = m)
  BY TrimsGroups DEF Lost
<1>2. Entered(r, s, t, how, where, n)
  BY <1>1, EnteredSuffix
<1> DEFINE a == Len(q)
           b == Len(r)
<1>3. /\ a \in Nat /\ k \in 1..a + 1 /\ b = a - k + 1
      /\ \A i \in 1..b : r[i] = q[k + i - 1]
  BY <1>1 DEF Suffix
<1>4. \A i \in 1..a, j \in 1..a : q[i] = m /\ q[j] = m => i = j
  <2> SUFFICES ASSUME NEW i \in 1..a, NEW j \in 1..a, q[i] = m, q[j] = m PROVE i = j
    OBVIOUS
  <2>1. Of(q, t, i)
    BY DEF Of, Answer
  <2>2. PICK p : Block(q, t, n, p)
    BY <2>1 DEF Entered
  <2> QED  BY <2>2, OneAnswer
<1>5. Has(r, m) <=> \E i \in k..a : q[i] = m
  <2>1. \A i \in 1..b : k + i - 1 \in k..a
    <3> HIDE DEF a, b
    <3> QED  BY <1>3
  <2>2. \A i \in k..a : i - k + 1 \in 1..b /\ k + (i - k + 1) - 1 = i
    <3> HIDE DEF a, b
    <3> QED  BY <1>3
  <2>3. \A i \in 1..b : r[i] = m => q[k + i - 1] = m
    BY <1>3
  <2>4. \A i \in k..a : q[i] = m => r[i - k + 1] = m
    <3> SUFFICES ASSUME NEW i \in k..a, q[i] = m PROVE r[i - k + 1] = m
      OBVIOUS
    <3>1. r[i - k + 1] = q[k + (i - k + 1) - 1]
      BY <1>3, <2>2
    <3> QED  BY <2>2, <3>1
  <2>5. Has(r, m) <=> \E i \in 1..b : r[i] = m
    BY DEF Has
  <2> HIDE DEF m, a, b
  <2> QED  BY <2>1, <2>2, <2>3, <2>4, <2>5
<1>6. Has(q, m) <=> \E i \in 1..a : q[i] = m
  BY DEF Has
<1> HIDE DEF m, a, b
<1>7. Has(r, m) <=> Has(q, m) /\ m \notin lost
  <2>1. \A i \in 1..a : i \in 1..k - 1 \/ i \in k..a
    BY <1>3
  <2>2. \A i \in 1..k - 1 : i \in 1..a
    BY <1>3
  <2>3. \A i \in k..a : i \in 1..a /\ i \notin 1..k - 1
    BY <1>3
  <2> QED  BY <1>1, <1>4, <1>5, <1>6, <2>1, <2>2, <2>3
<1> QED  BY <1>2, <1>7 DEF m

StoreTypes ==
  /\ chat \in [Sessions -> Seq(Msgs)] /\ charts \in [Sessions -> SUBSET Turns]
  /\ homeless \in SUBSET Turns

Whole ==
  \A s \in Sessions, t \in Turns :
    Entered(chat[s], s, t, result[t], home[t], 2 * rounds[t] + 1)

Bound ==
  \A s \in Sessions, t \in Turns :
    t \notin homeless => (t \in charts[s] <=> t \in pending /\ Has(chat[s], Answer(t)))

HistInv == TurnInv /\ StoreTypes /\ Whole /\ Bound

\* What an answered turn was does not change any more.
Frozen ==
  \A t \in Turns :
    result[t] = "answered" =>
      /\ result'[t] = result[t] /\ home'[t] = home[t] /\ rounds'[t] = rounds[t]
      /\ t \in pending' <=> t \in pending

\* An answer is one of the messages its turn collected.
LEMMA HasOf ==
  ASSUME NEW q, NEW t, Has(q, Answer(t)) PROVE \E i \in 1..Len(q) : Of(q, t, i)
BY DEF Has, Of, Answer

LEMMA EmptyHistory ==
  ASSUME NEW s, NEW t, NEW how, NEW where, NEW n
  PROVE  <<>> \in Seq(Msgs) /\ Entered(<<>>, s, t, how, where, n) /\ ~Has(<<>>, Answer(t))
<1>1. <<>> \in Seq(Msgs) /\ Len(<<>>) = 0 /\ 1..0 = {}
  OBVIOUS
<1> QED  BY <1>1 DEF Entered, Has

\* A history that a step leaves alone.
LEMMA FrozenKeeps ==
  ASSUME HistInv, Frozen, NEW s \in Sessions, NEW t \in Turns, NEW q, q = chat[s],
         NEW cs, cs = charts[s], NEW how, NEW where, NEW n, NEW bound,
         how = result[t]' /\ where = home[t]' /\ n = 2 * rounds'[t] + 1,
         bound <=> t \in pending'
  PROVE  /\ Entered(q, s, t, how, where, n)
         /\ t \notin homeless => (t \in cs <=> bound /\ Has(q, Answer(t)))
<1>1. Entered(q, s, t, result[t], home[t], 2 * rounds[t] + 1)
  BY DEF HistInv, Whole
<1>2. t \notin homeless => (t \in cs <=> t \in pending /\ Has(q, Answer(t)))
  BY DEF HistInv, Bound
<1>3. CASE result[t] = "answered"
  BY <1>1, <1>2, <1>3 DEF Frozen
<1>4. CASE result[t] # "answered"
  <2>1. ~\E i \in 1..Len(q) : Of(q, t, i)
    BY <1>1, <1>4 DEF Entered
  <2>2. ~Has(q, Answer(t))
    BY <2>1, HasOf
  <2> QED  BY <1>2, <2>1, <2>2 DEF Entered
<1> QED  BY <1>3, <1>4

LEMMA PlainKeeps ==
  ASSUME HistInv, TurnInv', Frozen, UNCHANGED <<chat, charts, homeless>> PROVE HistInv'
<1>1. StoreTypes'
  BY DEF HistInv, StoreTypes
<1>2. ASSUME NEW s \in Sessions, NEW t \in Turns
      PROVE  /\ Entered(chat[s], s, t, result[t], home[t], 2 * rounds[t] + 1)'
             /\ (t \notin homeless => (t \in charts[s] <=> t \in pending /\ Has(chat[s], Answer(t))))'
  <2>1. PICK q : q = chat[s]
    OBVIOUS
  <2>2. PICK cs : cs = charts[s]
    OBVIOUS
  <2>3. PICK how, where, n : how = result'[t] /\ where = home'[t] /\ n = 2 * rounds'[t] + 1
    OBVIOUS
  <2>4. PICK bound : bound <=> t \in pending'
    OBVIOUS
  <2>5. /\ Entered(q, s, t, how, where, n)
        /\ t \notin homeless => (t \in cs <=> bound /\ Has(q, Answer(t)))
    BY <2>1, <2>2, <2>3, <2>4, FrozenKeeps
  <2>6. q = chat'[s] /\ cs = charts'[s] /\ homeless' = homeless
    BY <2>1, <2>2
  <2> QED  BY <2>3, <2>4, <2>5, <2>6
<1> QED  BY <1>1, <1>2 DEF HistInv, Whole, Bound

\* What Store promises of a history it grows: the growth holds turns whole, and cs has the
\* charts of the answers in it.
FitsTurn(g, s, cs, t) ==
  /\ Entered(g, s, t, result'[t], home'[t], 2 * rounds'[t] + 1)
  /\ t \notin homeless => (t \in cs <=> t \in pending' /\ Has(g, Answer(t)))

Fits(g, s, cs) ==
  g \in Seq(Msgs) /\ cs \in SUBSET Turns /\ \A t \in Turns : FitsTurn(g, s, cs, t)

LEMMA StoreKeeps ==
  ASSUME HistInv, TurnInv', Frozen, NEW s \in Sessions, NEW new, NEW cs, NEW gone,
         Store(s, new, cs, gone), NEW g, g = chat[s] \o new, Fits(g, s, cs)
  PROVE  HistInv'
<1>1. PICK r : r = Trimmed(g)
  OBVIOUS
<1>2. PICK lost : lost = Lost(g, r)
  OBVIOUS
<1>3. g \in Seq(Msgs) /\ cs \in SUBSET Turns
  BY DEF Fits
<1>4. r \in Seq(Msgs)
  BY <1>1, <1>3, TrimsGroups
<1>5. /\ chat' = [x \in Sessions |-> IF x = s THEN r ELSE IF x \in gone THEN <<>> ELSE chat[x]]
      /\ charts' = [x \in Sessions |-> IF x = s THEN {t \in cs : Answer(t) \notin lost}
                                       ELSE IF x \in gone THEN {} ELSE charts[x]]
      /\ homeless \subseteq homeless' /\ homeless' \in SUBSET (homeless \cup Turns)
  BY <1>1, <1>2 DEF Store, Lost
<1>6. StoreTypes'
  <2>1. <<>> \in Seq(Msgs)
    OBVIOUS
  <2>2. chat \in [Sessions -> Seq(Msgs)] /\ charts \in [Sessions -> SUBSET Turns]
        /\ homeless \in SUBSET Turns
    BY DEF HistInv, StoreTypes
  <2>3. chat' \in [Sessions -> Seq(Msgs)]
    BY <1>4, <1>5, <2>1, <2>2
  <2>4. charts' \in [Sessions -> SUBSET Turns]
    BY <1>3, <1>5, <2>2
  <2>5. homeless' \in SUBSET Turns
    BY <1>5, <2>2
  <2> QED  BY <2>3, <2>4, <2>5 DEF StoreTypes
<1>7. ASSUME NEW x \in Sessions, NEW t \in Turns
      PROVE  /\ Entered(chat[x], x, t, result[t], home[t], 2 * rounds[t] + 1)'
             /\ (t \notin homeless => (t \in charts[x] <=> t \in pending /\ Has(chat[x], Answer(t))))'
  <2>1. PICK how, where, n : how = result'[t] /\ where = home'[t] /\ n = 2 * rounds'[t] + 1
    OBVIOUS
  <2>2. PICK bound : bound <=> t \in pending'
    OBVIOUS
  <2>3. PICK q : q = chat'[x]
    OBVIOUS
  <2>4. PICK ds : ds = charts'[x]
    OBVIOUS
  <2> SUFFICES /\ Entered(q, x, t, how, where, n)
               /\ t \notin homeless => (t \in ds <=> bound /\ Has(q, Answer(t)))
    BY <1>5, <2>1, <2>2, <2>3, <2>4
  <2>5. CASE x = s
    <3>1. q = r /\ ds = {u \in cs : Answer(u) \notin lost}
      BY <1>5, <2>3, <2>4, <2>5
    <3>2. Entered(g, s, t, how, where, n)
      BY <2>1 DEF Fits, FitsTurn
    <3>3. t \notin homeless => (t \in cs <=> bound /\ Has(g, Answer(t)))
      BY <2>2 DEF Fits, FitsTurn
    <3>4. /\ Entered(r, s, t, how, where, n)
          /\ Has(r, Answer(t)) <=> Has(g, Answer(t)) /\ Answer(t) \notin lost
      <4>1. g \in Seq(Msgs)
        BY <1>3
      <4>2. r = Trimmed(g) /\ lost = Lost(g, r)
        BY <1>1, <1>2
      <4> QED  BY <3>2, <4>1, <4>2, TrimmedHistory
    <3> QED  BY <2>5, <3>1, <3>3, <3>4
  <2>6. CASE x # s /\ x \in gone
    <3>1. q = <<>> /\ ds = {}
      BY <1>5, <2>3, <2>4, <2>6
    <3> QED  BY <3>1, EmptyHistory
  <2>7. CASE x # s /\ x \notin gone
    <3>1. q = chat[x] /\ ds = charts[x]
      BY <1>5, <2>3, <2>4, <2>7
    <3> QED  BY <2>1, <2>2, <3>1, FrozenKeeps
  <2> QED  BY <2>5, <2>6, <2>7
<1> QED  BY <1>6, <1>7 DEF HistInv, Whole, Bound

\* A history that grows by messages of other streams than t's.
LEMMA GrownKeeps ==
  ASSUME HistInv, Frozen, NEW s \in Sessions, NEW new \in Seq(Msgs), NEW t \in Turns,
         \A i \in 1..Len(new) : ~Of(new, t, i),
         NEW g, g = chat[s] \o new, NEW cs, cs = charts[s]
  PROVE  FitsTurn(g, s, cs, t)
<1>1. PICK q : q = chat[s]
  OBVIOUS
<1>2. q \in Seq(Msgs) /\ cs \in SUBSET Turns
  BY <1>1 DEF HistInv, StoreTypes
<1>3. g = q \o new
  BY <1>1
<1>4. /\ g \in Seq(Msgs)
      /\ \A i \in 1..Len(q) : i \in 1..Len(g) /\ g[i] = q[i]
      /\ \A i \in 1..Len(g) : i \in 1..Len(q) \/ i - Len(q) \in 1..Len(new)
      /\ \A i \in 1..Len(new) : Len(q) + i \in 1..Len(g) /\ g[Len(q) + i] = new[i]
  BY <1>2, <1>3, Joined
<1>5. PICK how, where, n : how = result'[t] /\ where = home'[t] /\ n = 2 * rounds'[t] + 1
  OBVIOUS
<1>6. PICK bound : bound <=> t \in pending'
  OBVIOUS
<1>7. /\ Entered(q, s, t, how, where, n)
      /\ t \notin homeless => (t \in cs <=> bound /\ Has(q, Answer(t)))
  BY <1>1, <1>5, <1>6, FrozenKeeps
<1>8. Entered(g, s, t, how, where, n)
  BY <1>2, <1>3, <1>7, EnteredGrown
<1>9. Has(g, Answer(t)) <=> Has(q, Answer(t))
  <2>1. \A i \in 1..Len(new) : new[i] # Answer(t)
    <3>1. Answer(t).from = t /\ Answer(t).kind # "question"
      BY DEF Answer
    <3> QED  BY <3>1 DEF Of
  <2>2. ASSUME NEW i \in 1..Len(g), i \notin 1..Len(q) PROVE g[i] # Answer(t)
    <3> DEFINE a == Len(q)
    <3>1. a \in Nat /\ i \in Nat /\ i - a \in 1..Len(new)
      BY <1>2, <1>4, <2>2
    <3>2. a + (i - a) = i
      <4> HIDE DEF a
      <4> QED  BY <3>1
    <3>3. g[i] = new[i - a]
      <4>1. g[a + (i - a)] = new[i - a]
        BY <1>4, <3>1
      <4> HIDE DEF a
      <4> QED  BY <3>2, <4>1
    <3> QED  BY <2>1, <3>1, <3>3
  <2> QED  BY <1>4, <2>2 DEF Has
<1> QED  BY <1>5, <1>6, <1>7, <1>8, <1>9 DEF FitsTurn

LEMMA FitsGrown ==
  ASSUME HistInv, Frozen, NEW s \in Sessions, NEW new \in Seq(Msgs),
         \A t \in Turns : \A i \in 1..Len(new) : ~Of(new, t, i),
         NEW g, g = chat[s] \o new, NEW cs, cs = charts[s]
  PROVE  Fits(g, s, cs)
<1>1. g \in Seq(Msgs) /\ cs \in SUBSET Turns
  <2>1. PICK q : q = chat[s]
    OBVIOUS
  <2>2. q \in Seq(Msgs) /\ cs \in SUBSET Turns
    BY <2>1 DEF HistInv, StoreTypes
  <2> QED  BY <2>1, <2>2, Joined
<1>2. ASSUME NEW t \in Turns
      PROVE  FitsTurn(g, s, cs, t)
  <2>1. \A i \in 1..Len(new) : ~Of(new, t, i)
    OBVIOUS
  <2> QED  BY <2>1, GrownKeeps
<1> QED  BY <1>1, <1>2 DEF Fits

LEMMA EnterKeeps ==
  ASSUME HistInv, TurnInv', Frozen, NEW s \in Sessions, NEW new \in Seq(Msgs),
         \A t \in Turns : \A i \in 1..Len(new) : ~Of(new, t, i), Enter(s, new)
  PROVE  HistInv'
<1>1. PICK gone : Store(s, new, charts[s], gone)
  BY DEF Enter
<1>2. PICK g : g = chat[s] \o new
  OBVIOUS
<1>3. PICK cs : cs = charts[s]
  OBVIOUS
<1>4. Fits(g, s, cs)
  BY <1>2, <1>3, FitsGrown
<1> QED  BY <1>1, <1>2, <1>3, <1>4, StoreKeeps

LEMMA NothingEnters ==
  ASSUME HistInv, TurnInv', Frozen, NEW s \in Sessions, Enter(s, <<>>) PROVE HistInv'
<1>1. <<>> \in Seq(Msgs) /\ Len(<<>>) = 0 /\ 1..0 = {}
  OBVIOUS
<1>2. PICK new : new = <<>>
  OBVIOUS
<1> QED  BY <1>1, <1>2, EnterKeeps

LEMMA DropKeeps ==
  ASSUME HistInv, NEW s \in Sessions, NewChat(s) PROVE HistInv'
<1>1. TurnInv'
  BY CallKeepsTurns DEF HistInv
<1>2. /\ chat' = [chat EXCEPT ![s] = <<>>] /\ charts' = [charts EXCEPT ![s] = {}]
      /\ homeless \subseteq homeless' /\ homeless' \in SUBSET (homeless \cup Turns)
      /\ UNCHANGED turnVars
  BY DEF NewChat, DropHistory
<1>3. /\ chat \in [Sessions -> Seq(Msgs)] /\ charts \in [Sessions -> SUBSET Turns]
      /\ homeless \in SUBSET Turns
  BY DEF HistInv, StoreTypes
<1>4. StoreTypes'
  <2>1. <<>> \in Seq(Msgs)
    OBVIOUS
  <2> QED  BY <1>2, <1>3, <2>1 DEF StoreTypes
<1>5. Frozen
  BY <1>2 DEF Frozen, turnVars
<1>6. ASSUME NEW x \in Sessions, NEW t \in Turns
      PROVE  /\ Entered(chat[x], x, t, result[t], home[t], 2 * rounds[t] + 1)'
             /\ (t \notin homeless => (t \in charts[x] <=> t \in pending /\ Has(chat[x], Answer(t))))'
  <2>1. PICK how, where, n : how = result'[t] /\ where = home'[t] /\ n = 2 * rounds'[t] + 1
    OBVIOUS
  <2>2. PICK bound : bound <=> t \in pending'
    OBVIOUS
  <2>3. PICK q : q = chat'[x]
    OBVIOUS
  <2>4. PICK ds : ds = charts'[x]
    OBVIOUS
  <2> SUFFICES /\ Entered(q, x, t, how, where, n)
               /\ t \notin homeless => (t \in ds <=> bound /\ Has(q, Answer(t)))
    BY <1>2, <2>1, <2>2, <2>3, <2>4
  <2>5. CASE x = s
    <3>1. q = <<>> /\ ds = {}
      BY <1>2, <1>3, <2>3, <2>4, <2>5
    <3> QED  BY <3>1, EmptyHistory
  <2>6. CASE x # s
    <3>1. q = chat[x] /\ ds = charts[x]
      BY <1>2, <1>3, <2>3, <2>4, <2>6
    <3> QED  BY <1>5, <2>1, <2>2, <3>1, FrozenKeeps
  <2> QED  BY <2>5, <2>6
<1> QED  BY <1>1, <1>4, <1>6 DEF HistInv, Whole, Bound

\* A turn that has not come out is in no history.
LEMMA NotYet ==
  ASSUME HistInv, NEW s \in Sessions, NEW t \in Turns, result[t] # "answered",
         NEW q, q = chat[s]
  PROVE  (\A i \in 1..Len(q) : ~Of(q, t, i)) /\ ~Has(q, Answer(t))
<1>1. \A i \in 1..Len(q) : ~Of(q, t, i)
  <2>1. Entered(q, s, t, result[t], home[t], 2 * rounds[t] + 1)
    BY DEF HistInv, Whole
  <2> QED  BY <2>1 DEF Entered
<1> QED  BY <1>1, HasOf

LEMMA FinishFits ==
  ASSUME HistInv, Frozen, NEW t \in Turns, NEW s \in Sessions, s = home[t],
         result[t] # "answered", result'[t] = "answered", home' = home, rounds' = rounds,
         pending' = pending, NEW g, g = chat[s] \o (IF t \in homeless THEN <<>> ELSE Collected(t)),
         NEW cs, cs = charts[s] \cup ({t} \cap pending)
  PROVE  Fits(g, s, cs)
<1>1. PICK ds : ds = charts[s]
  OBVIOUS
<1>2. PICK q : q = chat[s]
  OBVIOUS
<1>3. (\A i \in 1..Len(q) : ~Of(q, t, i)) /\ ~Has(q, Answer(t))
  BY <1>2, NotYet
<1>4. PICK n : n = 2 * rounds[t] + 1
  OBVIOUS
<1>5. n \in Nat \ {0}
  <2>1. rounds[t] \in Nat
    BY DEF HistInv, TurnInv, TurnTypes
  <2> QED  BY <1>4, <2>1
<1>6. q \in Seq(Msgs) /\ ds \in SUBSET Turns /\ cs \in SUBSET Turns
  BY <1>1, <1>2 DEF HistInv, StoreTypes
<1>7. CASE t \in homeless
  <2>1. PICK new : new = <<>>
    OBVIOUS
  <2>2. new \in Seq(Msgs)
    BY <2>1
  <2>3. \A u \in Turns : \A i \in 1..Len(new) : ~Of(new, u, i)
    BY <2>1
  <2>4. g = chat[s] \o new
    BY <1>7, <2>1
  <2>5. Fits(g, s, ds)
    BY <1>1, <2>2, <2>3, <2>4, FitsGrown
  <2>6. \A u \in Turns : u \notin homeless => (u \in cs <=> u \in ds)
    BY <1>1, <1>7
  <2> QED  BY <1>6, <2>5, <2>6 DEF Fits, FitsTurn
<1>8. CASE t \notin homeless
  <2>1. PICK new : new = Body(t, n)
    OBVIOUS
  <2>2. /\ new \in Seq(Msgs) /\ Len(new) = n
        /\ \A u \in Turns \ {t} : \A i \in 1..n : ~Of(new, u, i)
    BY <1>5, <2>1, BodyIsOne
  <2>3. g = chat[s] \o new
    <3>1. Collected(t) = Body(t, n)
      BY <1>4 DEF Collected, Body
    <3> QED  BY <1>8, <2>1, <3>1
  <2>4. g = q \o Body(t, n)
    BY <1>2, <2>1, <2>3
  <2>5. Block(g, t, n, Len(q) + 1)
    BY <1>3, <1>5, <1>6, <2>4, EnteredAnswered
  <2>6. g \in Seq(Msgs)
    BY <1>2, <1>6, <2>2, <2>3, Joined
  <2>7. ASSUME NEW u \in Turns, u # t
        PROVE  FitsTurn(g, s, cs, u)
    <3>1. new \in Seq(Msgs)
      BY <2>2
    <3>2. \A i \in 1..Len(new) : ~Of(new, u, i)
      BY <2>2, <2>7
    <3>3. FitsTurn(g, s, ds, u)
      BY <1>1, <2>3, <3>1, <3>2, GrownKeeps
    <3>4. u \in cs <=> u \in ds
      BY <1>1, <2>7
    <3> QED  BY <3>3, <3>4 DEF FitsTurn
  <2>8. Entered(g, s, t, "answered", s, n)
    BY <2>5 DEF Entered
  <2>9. Has(g, Answer(t))
    <3> DEFINE p == Len(q) + 1
    <3>1. Block(g, t, n, p)
      BY <2>5
    <3> HIDE DEF p
    <3>2. p + n - 1 \in 1..Len(g) /\ g[p + n - 1] = Answer(t)
      BY <2>6, <3>1, OneAnswer
    <3> QED  BY <3>2 DEF Has
  <2>10. t \in cs <=> t \in pending
    <3>1. t \notin ds
      BY <1>1, <1>2, <1>3, <1>8 DEF HistInv, Bound
    <3> QED  BY <1>1, <3>1
  <2>11. FitsTurn(g, s, cs, t)
    BY <1>4, <2>8, <2>9, <2>10 DEF FitsTurn
  <2> QED  BY <1>6, <2>6, <2>7, <2>11 DEF Fits
<1> QED  BY <1>7, <1>8

LEMMA EndKeepsHistories ==
  ASSUME HistInv, NEW t \in Turns, Finish(t) \/ Fail(t) \/ Break(t) \/ HeedCancel(t)
  PROVE  HistInv'
<1>1. TurnInv'
  BY EndKeepsTurns DEF HistInv
<1>2. PICK s \in Sessions : s = home[t]
  BY DEF HistInv, TurnInv, TurnTypes
<1>3. /\ step[t] = "streaming" /\ home' = home /\ rounds' = rounds /\ pending' = pending
      /\ \E how \in {"answered", "failed", "left"} : result' = [result EXCEPT ![t] = how]
  BY DEF Finish, Fail, Break, HeedCancel, Event, Settle
<1>4. result \in [Turns -> Results] /\ result[t] # "answered"
  BY <1>3 DEF HistInv, TurnInv, TurnTypes, Outcomes
<1>5. Frozen
  BY <1>3, <1>4 DEF Frozen
<1>6. CASE Finish(t)
  <2>1. PICK new : new = IF t \in homeless THEN <<>> ELSE Collected(t)
    OBVIOUS
  <2>2. PICK cs : cs = charts[s] \cup ({t} \cap pending)
    OBVIOUS
  <2>3. PICK g : g = chat[s] \o new
    OBVIOUS
  <2>4. Store(s, new, cs, {})
    BY <1>2, <1>6, <2>1, <2>2 DEF Finish
  <2>5. result'[t] = "answered"
    BY <1>4, <1>6 DEF Finish, Settle
  <2>6. Fits(g, s, cs)
    BY <1>2, <1>3, <1>4, <1>5, <2>1, <2>2, <2>3, <2>5, FinishFits
  <2> QED  BY <1>1, <1>5, <2>3, <2>4, <2>6, StoreKeeps
<1>7. CASE Fail(t)
  <2>1. PICK new : new = <<>>
    OBVIOUS
  <2>2. PICK cs : cs = charts[s]
    OBVIOUS
  <2>3. PICK g : g = chat[s] \o new
    OBVIOUS
  <2>4. Store(s, new, cs, {})
    BY <1>2, <1>7, <2>1, <2>2 DEF Fail
  <2>5. Fits(g, s, cs)
    <3>1. new \in Seq(Msgs)
      BY <2>1
    <3>2. \A u \in Turns : \A i \in 1..Len(new) : ~Of(new, u, i)
      BY <2>1
    <3> QED  BY <1>5, <2>2, <2>3, <3>1, <3>2, FitsGrown
  <2> QED  BY <1>1, <1>5, <2>3, <2>4, <2>5, StoreKeeps
<1>8. CASE Break(t) \/ HeedCancel(t)
  BY <1>1, <1>5, <1>8, PlainKeeps DEF Break, HeedCancel, storeVars
<1> QED  BY <1>6, <1>7, <1>8

LEMMA OpenKeepsHistories ==
  ASSUME HistInv, NEW t \in Turns, Post(t) \/ Open(t) PROVE HistInv'
<1>1. TurnInv'
  BY PostKeepsTurns, OpenKeepsTurns DEF HistInv
<1>2. step[t] \in {"unsent", "stashed"} /\ rounds' = rounds /\ pending' = pending
      /\ \A u \in Turns \ {t} : result'[u] = result[u] /\ home'[u] = home[u]
  BY DEF Post, Open, Settle, HistInv, TurnInv, TurnTypes
<1>3. result[t] # "answered"
  BY <1>2 DEF HistInv, TurnInv, Outcomes
<1>4. Frozen
  BY <1>2, <1>3 DEF Frozen
<1>5. CASE Post(t)
  <2>1. PICK s \in Sessions : Enter(s, <<Question(t)>>)
    BY <1>5 DEF Post
  <2>2. PICK new : new = <<Question(t)>>
    OBVIOUS
  <2>3. new \in Seq(Msgs) /\ Len(new) = 1 /\ new[1] = Question(t)
    BY <2>2 DEF Question, Msgs
  <2>4. \A u \in Turns : \A i \in 1..Len(new) : ~Of(new, u, i)
    BY <2>3 DEF Of, Question
  <2> QED  BY <1>1, <1>4, <2>1, <2>2, <2>3, <2>4, EnterKeeps
<1>6. CASE Open(t)
  <2>1. PICK s \in Sessions : s = home[t]
    BY DEF HistInv, TurnInv, TurnTypes
  <2>2. Enter(s, <<>>)
    BY <1>6, <2>1 DEF Open
  <2> QED  BY <1>1, <1>4, <2>2, NothingEnters
<1> QED  BY <1>5, <1>6

LEMMA ServeKeepsHistories ==
  ASSUME HistInv, NEW t \in Turns,
         \/ Park(t) \/ Acquire(t) \/ GhostAcquire(t) \/ (\E kind \in Tools : CallTool(t, kind))
         \/ StartTool(t) \/ EndTool(t) \/ Unwind(t) \/ Release(t) \/ EndTurn(t) \/ ClearContext(t)
         \/ Rewrite(t) \/ HangUp(t) \/ CancelJob(t)
  PROVE  HistInv'
<1>1. TurnInv'
  BY WaitKeepsTurns, ToolKeepsTurns, CloseKeepsTurns, CleanUpKeepsTurns, LeaveKeepsTurns DEF HistInv
<1>2. UNCHANGED storeVars
  BY DEF Park, Acquire, GhostAcquire, CallTool, StartTool, EndTool, Unwind, Release, EndTurn,
         ClearContext, Rewrite, HangUp, CancelJob
<1>3. Frozen
  <2>1. CASE \/ Park(t) \/ Acquire(t) \/ GhostAcquire(t) \/ (\E kind \in Tools : CallTool(t, kind))
             \/ StartTool(t) \/ Unwind(t) \/ Release(t) \/ EndTurn(t) \/ ClearContext(t)
             \/ Rewrite(t) \/ CancelJob(t)
    BY <2>1 DEF Frozen, Park, Acquire, GhostAcquire, CallTool, StartTool, Unwind, Release, EndTurn,
                ClearContext, Rewrite, CancelJob, turnVars
  <2>2. CASE EndTool(t)
    <3>1. /\ home' = home /\ result' = result
          /\ \/ step[t] = "tool" /\ rounds' = [rounds EXCEPT ![t] = @ + 1]
                /\ pending' \in {pending, pending \cup {t}}
             \/ rounds' = rounds /\ pending' = pending
      BY <2>2 DEF EndTool
    <3>2. step[t] = "tool" => result[t] # "answered"
      BY DEF HistInv, TurnInv, Outcomes
    <3>3. rounds \in [Turns -> Nat]
      BY DEF HistInv, TurnInv, TurnTypes
    <3> QED  BY <3>1, <3>2, <3>3 DEF Frozen
  <2>3. CASE HangUp(t)
    <3>1. Holds(t) /\ result' = [result EXCEPT ![t] = "left"]
          /\ home' = home /\ rounds' = rounds /\ pending' = pending
      BY <2>3 DEF HangUp, Settle
    <3>2. result \in [Turns -> Results] /\ result[t] # "answered"
      BY <3>1 DEF HistInv, TurnInv, TurnTypes, Outcomes, Holds
    <3> QED  BY <3>1, <3>2 DEF Frozen
  <2> QED  BY <2>1, <2>2, <2>3
<1> QED  BY <1>1, <1>2, <1>3, PlainKeeps DEF storeVars

------------------------------------------------------------------------------
(* The lines of the call. *)

Spoken(q, i) == q[i].kind = "line"

\* The lines in q follow one another, and cur is the last one's number.
InOrder(q, cur) ==
  /\ \A i \in 1..Len(q), j \in 1..Len(q) :
       Spoken(q, i) /\ Spoken(q, j) /\ i < j
         /\ (\A m \in 1..Len(q) : Spoken(q, m) => m <= i \/ j <= m)
       => q[j].from = q[i].from + 1
  /\ \A i \in 1..Len(q) :
       Spoken(q, i) /\ (\A m \in 1..Len(q) : Spoken(q, m) => m <= i) => q[i].from = cur

CallInv ==
  /\ relayed \in Nat /\ cursor \in Nat
  /\ call # "ended" => cursor = relayed /\ InOrder(chat[Caller], cursor)

LEMMA MaxOfTwo ==
  ASSUME NEW x \in Nat, NEW y \in Nat
  PROVE  Max({x, y}) \in Nat /\ Max({x, y}) = IF x <= y THEN y ELSE x
<1> DEFINE m == IF x <= y THEN y ELSE x
<1>1. m \in {x, y} /\ \A z \in {x, y} : m >= z
  OBVIOUS
<1>2. \A z \in {x, y} : (\A w \in {x, y} : z >= w) => z = m
  OBVIOUS
<1> HIDE DEF m
<1>3. Max({x, y}) \in {x, y} /\ \A z \in {x, y} : Max({x, y}) >= z
  BY <1>1 DEF Max
<1>4. Max({x, y}) = m
  BY <1>2, <1>3
<1> QED  BY <1>1, <1>4 DEF m

\* What SubSeq(q, a, l) holds.
Excerpt(q, a, l) ==
  /\ SubSeq(q, a, l) \in Seq(Msgs)
  /\ Len(SubSeq(q, a, l)) = IF a <= l THEN l - a + 1 ELSE 0
  /\ \A i \in 1..l - a + 1 : SubSeq(q, a, l)[i] = q[a + i - 1]

LEMMA ExcerptHolds ==
  ASSUME NEW q, NEW a \in Int, NEW l \in Int, \A i \in a..l : q[i] \in Msgs
  PROVE  Excerpt(q, a, l)
BY SubSeqProperties DEF Excerpt

LEMMA BatchIsLines ==
  ASSUME relayed \in Nat, cursor \in Nat, NEW f \in Batches,
         NEW a, a = Max({f.first, cursor + 1}), NEW new, new = Unrelayed(f)
  PROVE  /\ a \in Nat \ {0} /\ f.last \in 0..Lines /\ f.first \in 1..relayed + 1
         /\ a = IF f.first <= cursor + 1 THEN cursor + 1 ELSE f.first
         /\ new \in Seq(Msgs)
         /\ Len(new) = IF a <= f.last THEN f.last - a + 1 ELSE 0
         /\ \A i \in 1..Len(new) : new[i] = Line(a + i - 1)
<1>1. f.first \in 1..relayed + 1 /\ f.last \in 0..Lines /\ Lines \in Nat
  BY BoundsAssumption DEF Batches
<1>2. PICK l : l = f.last
  OBVIOUS
<1>3. PICK b : b = f.first
  OBVIOUS
<1>4. PICK c : c = cursor + 1
  OBVIOUS
<1>5. l \in 0..Lines /\ l \in Nat /\ b \in Nat \ {0} /\ c \in Nat \ {0}
  BY <1>1, <1>2, <1>3, <1>4
<1>6. a \in Nat \ {0} /\ a = IF b <= c THEN c ELSE b
  <2>1. a = Max({b, c})
    BY <1>3, <1>4
  <2> QED  BY <1>5, <2>1, MaxOfTwo
<1> DEFINE q == [i \in 1..l |-> Line(i)]
<1>7. \A i \in 1..l : q[i] \in Msgs /\ q[i] = Line(i)
  BY <1>1, <1>5 DEF Line, Msgs
<1>8. q \in Seq(Msgs) /\ Len(q) = l
  <2>1. q \in [1..l -> Msgs]
    BY <1>7
  <2> QED  BY <1>5, <2>1
<1>9. new = SubSeq(q, a, l)
  BY <1>2 DEF Unrelayed
<1> HIDE DEF q
<1>10. /\ new \in Seq(Msgs) /\ Len(new) = IF a <= l THEN l - a + 1 ELSE 0
       /\ \A i \in 1..l - a + 1 : new[i] = q[a + i - 1]
  <2>1. \A i \in a..l : q[i] \in Msgs
    BY <1>5, <1>6, <1>7
  <2>2. a \in Int /\ l \in Int
    BY <1>5, <1>6
  <2>3. /\ SubSeq(q, a, l) \in Seq(Msgs)
        /\ Len(SubSeq(q, a, l)) = IF a <= l THEN l - a + 1 ELSE 0
        /\ \A i \in 1..l - a + 1 : SubSeq(q, a, l)[i] = q[a + i - 1]
    <3>1. a \in Int
      BY <2>2
    <3>2. l \in Int
      BY <2>2
    <3>3. PICK r : r = q
      OBVIOUS
    <3>4. \A i \in a..l : r[i] \in Msgs
      BY <2>1, <3>3
    <3>5. Excerpt(r, a, l)
      BY <3>1, <3>2, <3>4, ExcerptHolds
    <3> QED  BY <3>3, <3>5 DEF Excerpt
  <2> QED  BY <1>9, <2>3
<1>11. \A i \in 1..Len(new) : new[i] = Line(a + i - 1)
  <2>1. \A i \in 1..Len(new) : i \in 1..l - a + 1 /\ a + i - 1 \in 1..l
    <3> DEFINE n == Len(new)
    <3>1. n = IF a <= l THEN l - a + 1 ELSE 0
      BY <1>10
    <3> HIDE DEF n
    <3>2. \A i \in 1..n : i \in 1..l - a + 1 /\ a + i - 1 \in 1..l
      BY <1>5, <1>6, <3>1
    <3> QED  BY <3>2 DEF n
  <2> QED  BY <1>7, <1>10, <2>1
<1> QED  BY <1>1, <1>2, <1>3, <1>4, <1>6, <1>10, <1>11

\* Lines are of no turn.
LEMMA LinesAreNobodys ==
  ASSUME NEW new \in Seq(Msgs), \A i \in 1..Len(new) : \E n : new[i] = Line(n)
  PROVE  \A t \in Turns : \A i \in 1..Len(new) : ~Of(new, t, i)
<1> SUFFICES ASSUME NEW t \in Turns, NEW i \in 1..Len(new) PROVE ~Of(new, t, i)
  OBVIOUS
<1>1. new[i] \in Msgs /\ new[i].kind = "line"
  <2>1. PICK n : new[i] = Line(n)
    OBVIOUS
  <2>2. new[i] \in Msgs
    OBVIOUS
  <2> QED  BY <2>1, <2>2 DEF Line
<1>2. new[i].from \in 1..Lines
  BY <1>1 DEF Msgs
<1> QED  BY <1>2, TurnsAssumption DEF Of

LEMMA RelayKeepsHistories ==
  ASSUME HistInv, TurnInv', Frozen, relayed \in Nat, cursor \in Nat, NEW f \in Batches, Apply(f)
  PROVE  HistInv'
<1>1. PICK new : new = Unrelayed(f)
  OBVIOUS
<1>2. PICK a : a = Max({f.first, cursor + 1})
  OBVIOUS
<1>3. new \in Seq(Msgs) /\ \A i \in 1..Len(new) : new[i] = Line(a + i - 1)
  BY <1>1, <1>2, BatchIsLines
<1>4. new \in Seq(Msgs)
  BY <1>3
<1>5. \A t \in Turns : \A i \in 1..Len(new) : ~Of(new, t, i)
  <2>1. \A i \in 1..Len(new) : \E n : new[i] = Line(n)
    BY <1>3
  <2> QED  BY <1>4, <2>1, LinesAreNobodys
<1>6. CASE new = <<>>
  BY <1>1, <1>6, PlainKeeps DEF Apply, storeVars
<1>7. CASE new # <<>>
  <2>1. Enter(Caller, new)
    BY <1>1, <1>7 DEF Apply
  <2>2. Caller \in Sessions
    BY TurnsAssumption
  <2> QED  BY <1>4, <1>5, <2>1, <2>2, EnterKeeps
<1> QED  BY <1>6, <1>7

LEMMA CallKeepsHistories ==
  ASSUME HistInv, relayed \in Nat, cursor \in Nat,
         \/ StartCall \/ EndCall \/ UNCHANGED vars
         \/ \E f \in Batches : Relay(f)
         \/ \E f \in Batches, t \in Turns : Ask(t, f)
  PROVE  HistInv'
<1>1. TurnInv'
  BY CallKeepsTurns, AskKeepsTurns DEF HistInv
<1>2. Frozen
  <2>1. result' = result /\ home' = home /\ rounds' = rounds /\ pending' = pending
    BY DEF StartCall, EndCall, Relay, Ask, vars, turnVars
  <2> QED  BY <2>1 DEF Frozen
<1>3. CASE StartCall \/ EndCall
  <2>1. Enter(Caller, <<>>)
    BY <1>3 DEF StartCall, EndCall
  <2> QED  BY <1>1, <1>2, <2>1, TurnsAssumption, NothingEnters
<1>4. CASE UNCHANGED vars
  BY <1>1, <1>2, <1>4, PlainKeeps DEF vars, storeVars
<1>5. CASE (\E f \in Batches : Relay(f)) \/ (\E f \in Batches, t \in Turns : Ask(t, f))
  <2>1. PICK f \in Batches : Apply(f)
    BY <1>5 DEF Relay, Ask
  <2> QED  BY <1>1, <1>2, <2>1, RelayKeepsHistories
<1> QED  BY <1>3, <1>4, <1>5

LEMMA NextKeepsHistories ==
  ASSUME HistInv, relayed \in Nat, cursor \in Nat, [Next]_vars PROVE HistInv'
<1>1. ASSUME NEW t \in Turns, Serve(t) PROVE HistInv'
  BY <1>1, EndKeepsHistories, ServeKeepsHistories DEF Serve, Stream
<1>2. ASSUME NEW t \in Turns, Post(t) \/ Open(t) PROVE HistInv'
  BY <1>2, OpenKeepsHistories
<1>3. ASSUME NEW t \in Turns, HangUp(t) \/ CancelJob(t) PROVE HistInv'
  BY <1>3, ServeKeepsHistories
<1>4. ASSUME NEW s \in Sessions, NewChat(s) PROVE HistInv'
  BY <1>4, DropKeeps
<1> QED  BY <1>1, <1>2, <1>3, <1>4, CallKeepsHistories DEF Next

LEMMA OrderedSuffix ==
  ASSUME NEW q \in Seq(Msgs), NEW r, NEW k, Suffix(q, r, k), NEW cur, InOrder(q, cur)
  PROVE  InOrder(r, cur)
<1> DEFINE a == Len(q)
           b == Len(r)
<1>1. /\ a \in Nat /\ b = a - k + 1 /\ k \in 1..a + 1
      /\ \A i \in 1..b : r[i] = q[k + i - 1]
  BY DEF Suffix
<1>2. /\ \A i \in 1..a, j \in 1..a :
           Spoken(q, i) /\ Spoken(q, j) /\ i < j
             /\ (\A m \in 1..a : Spoken(q, m) => m <= i \/ j <= m) => q[j].from = q[i].from + 1
      /\ \A i \in 1..a : Spoken(q, i) /\ (\A m \in 1..a : Spoken(q, m) => m <= i) => q[i].from = cur
  BY DEF InOrder
<1> HIDE DEF a, b
<1>3. \A i \in 1..b : k + i - 1 \in 1..a /\ (Spoken(r, i) <=> Spoken(q, k + i - 1))
  <2>1. \A i \in 1..b : k + i - 1 \in 1..a
    BY <1>1
  <2> QED  BY <1>1, <2>1 DEF Spoken
<1>4. \A m \in 1..a : m < k \/ (m - k + 1 \in 1..b /\ k + (m - k + 1) - 1 = m)
  BY <1>1
<1>5. \A m \in 1..a : Spoken(q, m) => m < k \/ (m - k + 1 \in 1..b /\ Spoken(r, m - k + 1))
  BY <1>3, <1>4
<1>6. ASSUME NEW i \in 1..b, NEW j \in 1..b, Spoken(r, i), Spoken(r, j), i < j,
             \A m \in 1..b : Spoken(r, m) => m <= i \/ j <= m
      PROVE  r[j].from = r[i].from + 1
  <2>1. ASSUME NEW m \in 1..a, Spoken(q, m) PROVE m <= k + i - 1 \/ k + j - 1 <= m
    <3>1. CASE m < k
      BY <1>1, <3>1
    <3>2. CASE m - k + 1 \in 1..b /\ Spoken(r, m - k + 1)
      <4>1. m - k + 1 <= i \/ j <= m - k + 1
        BY <1>6, <3>2
      <4> QED  BY <1>1, <4>1
    <3> QED  BY <1>5, <2>1, <3>1, <3>2
  <2>2. k + i - 1 < k + j - 1
    BY <1>1, <1>6
  <2>3. q[k + j - 1].from = q[k + i - 1].from + 1
    BY <1>2, <1>3, <1>6, <2>1, <2>2
  <2> QED  BY <1>1, <2>3
<1>7. ASSUME NEW i \in 1..b, Spoken(r, i), \A m \in 1..b : Spoken(r, m) => m <= i
      PROVE  r[i].from = cur
  <2>1. ASSUME NEW m \in 1..a, Spoken(q, m) PROVE m <= k + i - 1
    <3>1. CASE m < k
      BY <1>1, <3>1
    <3>2. CASE m - k + 1 \in 1..b /\ Spoken(r, m - k + 1)
      <4>1. m - k + 1 <= i
        BY <1>7, <3>2
      <4> QED  BY <1>1, <4>1
    <3> QED  BY <1>5, <2>1, <3>1, <3>2
  <2>2. q[k + i - 1].from = cur
    BY <1>2, <1>3, <1>7, <2>1
  <2> QED  BY <1>1, <2>2
<1> QED  BY <1>6, <1>7 DEF InOrder, b

\* The next n lines join a history that holds its lines in order, or messages that are none.
LEMMA OrderedGrown ==
  ASSUME NEW q \in Seq(Msgs), NEW new \in Seq(Msgs), NEW r, r = q \o new, NEW cur \in Nat,
         NEW next \in Nat, InOrder(q, cur),
         \/ next = cur /\ \A i \in 1..Len(new) : ~Spoken(new, i)
         \/ /\ next = cur + Len(new) /\ Len(new) # 0
            /\ \A i \in 1..Len(new) : new[i] = Line(cur + i)
  PROVE  InOrder(r, next)
<1> DEFINE a == Len(q)
           n == Len(new)
           b == Len(r)
<1>1. /\ b = a + n /\ a \in Nat /\ n \in Nat
      /\ \A i \in 1..a : r[i] = q[i]
      /\ \A i \in 1..n : r[a + i] = new[i]
  BY Joined
<1>2. /\ \A i \in 1..a, j \in 1..a :
           Spoken(q, i) /\ Spoken(q, j) /\ i < j
             /\ (\A m \in 1..a : Spoken(q, m) => m <= i \/ j <= m) => q[j].from = q[i].from + 1
      /\ \A i \in 1..a : Spoken(q, i) /\ (\A m \in 1..a : Spoken(q, m) => m <= i) => q[i].from = cur
  BY DEF InOrder
<1>3. \/ next = cur /\ \A i \in 1..n : ~Spoken(new, i)
      \/ next = cur + n /\ n # 0 /\ \A i \in 1..n : new[i] = Line(cur + i)
  OBVIOUS
<1> HIDE DEF a, n, b
<1>4. /\ \A i \in 1..a : i \in 1..b /\ (Spoken(r, i) <=> Spoken(q, i))
      /\ \A i \in 1..n : a + i \in 1..b /\ (Spoken(r, a + i) <=> Spoken(new, i))
      /\ \A i \in 1..b : i \in 1..a \/ (i - a \in 1..n /\ a + (i - a) = i)
  <2>1. /\ \A i \in 1..a : i \in 1..b
        /\ \A i \in 1..n : a + i \in 1..b
        /\ \A i \in 1..b : i \in 1..a \/ (i - a \in 1..n /\ a + (i - a) = i)
    BY <1>1
  <2> QED  BY <1>1, <2>1 DEF Spoken
<1>5. CASE next = cur /\ \A i \in 1..n : ~Spoken(new, i)
  <2>1. \A i \in 1..b : Spoken(r, i) <=> (i \in 1..a /\ Spoken(q, i))
    BY <1>4, <1>5
  <2>2. ASSUME NEW i \in 1..b, NEW j \in 1..b, Spoken(r, i), Spoken(r, j), i < j,
               \A m \in 1..b : Spoken(r, m) => m <= i \/ j <= m
        PROVE  r[j].from = r[i].from + 1
    <3>1. i \in 1..a /\ j \in 1..a /\ Spoken(q, i) /\ Spoken(q, j)
      BY <2>1, <2>2
    <3>2. \A m \in 1..a : Spoken(q, m) => m <= i \/ j <= m
      BY <1>4, <2>2
    <3> QED  BY <1>1, <1>2, <2>2, <3>1, <3>2
  <2>3. ASSUME NEW i \in 1..b, Spoken(r, i), \A m \in 1..b : Spoken(r, m) => m <= i
        PROVE  r[i].from = next
    <3>1. i \in 1..a /\ Spoken(q, i)
      BY <2>1, <2>3
    <3>2. \A m \in 1..a : Spoken(q, m) => m <= i
      BY <1>4, <2>3
    <3> QED  BY <1>1, <1>2, <1>5, <3>1, <3>2
  <2> QED  BY <2>2, <2>3 DEF InOrder, b
<1>6. CASE next = cur + n /\ n # 0 /\ \A i \in 1..n : new[i] = Line(cur + i)
  <2>1. \A i \in 1..n : Spoken(r, a + i) /\ r[a + i].from = cur + i
    <3>1. \A x : Line(x).kind = "line" /\ Line(x).from = x
      BY DEF Line
    <3> QED  BY <1>1, <1>6, <3>1 DEF Spoken
  <2>2. ASSUME NEW i \in 1..b, NEW j \in 1..b, Spoken(r, i), Spoken(r, j), i < j,
               \A m \in 1..b : Spoken(r, m) => m <= i \/ j <= m
        PROVE  r[j].from = r[i].from + 1
    <3>1. CASE j \in 1..a
      <4>1. i \in 1..a
        BY <1>1, <2>2, <3>1
      <4>2. Spoken(q, i) /\ Spoken(q, j)
        BY <1>4, <2>2, <3>1, <4>1
      <4>3. \A m \in 1..a : Spoken(q, m) => m <= i \/ j <= m
        BY <1>4, <2>2
      <4> QED  BY <1>1, <1>2, <2>2, <3>1, <4>1, <4>2, <4>3
    <3>2. CASE i \in 1..a /\ j \notin 1..a
      <4>1. 1 \in 1..n
        BY <1>1, <1>6
      <4>2. j = a + 1
        <5>1. a + 1 \in 1..b /\ Spoken(r, a + 1)
          BY <1>4, <2>1, <4>1
        <5>2. a + 1 <= i \/ j <= a + 1
          BY <2>2, <5>1
        <5> QED  BY <1>1, <3>2, <5>2
      <4>3. Spoken(q, i)
        BY <1>4, <2>2, <3>2
      <4>4. ASSUME NEW m \in 1..a, Spoken(q, m) PROVE m <= i
        <5>1. m \in 1..b /\ Spoken(r, m)
          BY <1>4, <4>4
        <5>2. m <= i \/ j <= m
          BY <2>2, <5>1
        <5> QED  BY <1>1, <3>2, <4>2, <5>2
      <4>5. r[i].from = cur
        BY <1>1, <1>2, <3>2, <4>3, <4>4
      <4> QED  BY <2>1, <4>1, <4>2, <4>5
    <3>3. CASE i \notin 1..a
      <4>1. i - a \in 1..n /\ a + (i - a) = i /\ j - a \in 1..n /\ a + (j - a) = j
        BY <1>1, <2>2, <3>3
      <4>2. j = i + 1
        <5>1. i + 1 \in 1..b /\ (i - a) + 1 \in 1..n /\ a + ((i - a) + 1) = i + 1
          BY <1>1, <2>2, <3>3
        <5>2. Spoken(r, i + 1)
          BY <2>1, <5>1
        <5>3. i + 1 <= i \/ j <= i + 1
          BY <2>2, <5>1, <5>2
        <5> QED  BY <2>2, <5>3
      <4>3. r[i].from = cur + (i - a) /\ r[j].from = cur + (j - a)
        BY <2>1, <4>1
      <4> QED  BY <1>1, <4>2, <4>3
    <3> QED  BY <3>1, <3>2, <3>3
  <2>3. ASSUME NEW i \in 1..b, Spoken(r, i), \A m \in 1..b : Spoken(r, m) => m <= i
        PROVE  r[i].from = next
    <3>1. n \in 1..n /\ a + n = b /\ b \in 1..b
      BY <1>1, <1>6
    <3>2. b <= i
      BY <2>1, <2>3, <3>1
    <3>3. i = a + n
      BY <1>1, <3>1, <3>2
    <3> QED  BY <1>6, <2>1, <3>1, <3>3
  <2> QED  BY <2>2, <2>3 DEF InOrder, b
<1> QED  BY <1>3, <1>5, <1>6

LEMMA EmptyIsOrdered ==
  ASSUME NEW cur PROVE InOrder(<<>>, cur)
BY DEF InOrder

\* What Store leaves of a history.
LEMMA StoredChat ==
  ASSUME NEW s \in Sessions, NEW new, NEW cs, NEW gone, Store(s, new, cs, gone),
         NEW x \in Sessions, NEW q, q = chat[x], NEW r, r = chat'[x]
  PROVE  IF x = s THEN r = Trimmed(q \o new) ELSE r \in {q, <<>>}
BY DEF Store

LEMMA StoreKeepsOrder ==
  ASSUME HistInv, NEW cur \in Nat, NEW next \in Nat, InOrder(chat[Caller], cur),
         NEW s \in Sessions, NEW new \in Seq(Msgs), NEW cs, NEW gone, Store(s, new, cs, gone),
         \/ next = cur /\ \A i \in 1..Len(new) : ~Spoken(new, i)
         \/ /\ s = Caller /\ next = cur + Len(new) /\ Len(new) # 0
            /\ \A i \in 1..Len(new) : new[i] = Line(cur + i)
  PROVE  InOrder(chat'[Caller], next)
<1>1. PICK q : q = chat[Caller]
  OBVIOUS
<1>2. PICK r : r = chat'[Caller]
  OBVIOUS
<1>3. q \in Seq(Msgs) /\ Caller \in Sessions
  BY <1>1, TurnsAssumption DEF HistInv, StoreTypes
<1>4. IF Caller = s THEN r = Trimmed(q \o new) ELSE r \in {q, <<>>}
  BY <1>1, <1>2, <1>3, StoredChat
<1>5. InOrder(q, cur)
  BY <1>1
<1>6. CASE Caller = s
  <2>1. PICK g : g = q \o new
    OBVIOUS
  <2>2. InOrder(g, next)
    BY <1>3, <1>5, <2>1, OrderedGrown
  <2>3. g \in Seq(Msgs)
    BY <1>3, <2>1, Joined
  <2>4. PICK k \in 1..Len(g) + 1 : Suffix(g, Trimmed(g), k)
    BY <2>3, TrimsGroups
  <2>5. r = Trimmed(g)
    BY <1>4, <1>6, <2>1
  <2>6. Suffix(g, r, k)
    BY <2>4, <2>5
  <2> QED  BY <1>2, <2>2, <2>3, <2>6, OrderedSuffix
<1>7. CASE Caller # s
  BY <1>2, <1>4, <1>5, <1>7, EmptyIsOrdered
<1> QED  BY <1>6, <1>7

\* Messages that are no lines.
LEMMA NothingSpoken ==
  ASSUME HistInv, NEW t \in Turns, NEW new,
         new \in {<<>>, <<Question(t)>>, Collected(t)}
  PROVE  new \in Seq(Msgs) /\ \A i \in 1..Len(new) : ~Spoken(new, i)
<1>1. CASE new = <<>>
  BY <1>1
<1>2. CASE new = <<Question(t)>>
  BY <1>2 DEF Question, Msgs, Spoken
<1>3. CASE new = Collected(t)
  <2>1. PICK n : n = 2 * rounds[t] + 1
    OBVIOUS
  <2>2. n \in Nat \ {0}
    <3>1. rounds[t] \in Nat
      BY DEF HistInv, TurnInv, TurnTypes
    <3> QED  BY <2>1, <3>1
  <2>3. new = Body(t, n)
    BY <1>3, <2>1 DEF Collected, Body
  <2>4. /\ new \in Seq(Msgs) /\ Len(new) = n
        /\ \A i \in 1..n : Of(new, t, i)
    BY <2>2, <2>3, BodyIsOne
  <2>5. ASSUME NEW i \in 1..n PROVE ~Spoken(new, i)
    <3>1. new[i] \in Msgs
      BY <2>4, <2>5
    <3>2. new[i].from = t
      BY <2>4 DEF Of
    <3> QED  BY <3>1, <3>2, TurnsAssumption DEF Msgs, Spoken
  <2> QED  BY <2>4, <2>5
<1> QED  BY <1>1, <1>2, <1>3

\* A step that leaves the call alone.
LEMMA QuietKeepsCall ==
  ASSUME HistInv, CallInv, UNCHANGED callVars,
         \/ UNCHANGED chat
         \/ \E s \in Sessions : chat' = [chat EXCEPT ![s] = <<>>]
         \/ \E s \in Sessions, new \in Seq(Msgs) :
              /\ \A i \in 1..Len(new) : ~Spoken(new, i)
              /\ \E cs, gone : Store(s, new, cs, gone)
  PROVE  CallInv'
<1> SUFFICES ASSUME call # "ended" PROVE InOrder(chat'[Caller], cursor)
  BY DEF CallInv, callVars
<1>1. InOrder(chat[Caller], cursor) /\ cursor \in Nat
  BY DEF CallInv
<1>2. PICK cur \in Nat : cur = cursor
  BY <1>1
<1>3. ASSUME NEW s \in Sessions, chat' = [chat EXCEPT ![s] = <<>>]
      PROVE  InOrder(chat'[Caller], cursor)
  <2>1. chat'[Caller] = chat[Caller] \/ chat'[Caller] = <<>>
    BY <1>3, TurnsAssumption DEF HistInv, StoreTypes
  <2> QED  BY <1>1, <2>1, EmptyIsOrdered
<1>4. ASSUME NEW s \in Sessions, NEW new \in Seq(Msgs), NEW cs, NEW gone,
             Store(s, new, cs, gone), \A i \in 1..Len(new) : ~Spoken(new, i)
      PROVE  InOrder(chat'[Caller], cursor)
  <2>1. InOrder(chat[Caller], cur)
    BY <1>1, <1>2
  <2>2. InOrder(chat'[Caller], cur)
    BY <1>4, <2>1, StoreKeepsOrder
  <2> QED  BY <1>2, <2>2
<1> QED  BY <1>1, <1>3, <1>4

LEMMA ServeKeepsCall ==
  ASSUME HistInv, CallInv, NEW t \in Turns,
         Post(t) \/ Open(t) \/ Serve(t) \/ HangUp(t) \/ CancelJob(t)
  PROVE  CallInv'
<1>1. UNCHANGED callVars
  BY DEF Post, Open, Serve, Stream, HangUp, CancelJob, Park, Acquire, GhostAcquire, CallTool,
         StartTool, EndTool, Unwind, Release, EndTurn, ClearContext, Rewrite, Finish, Fail, Break,
         HeedCancel
<1>2. CASE Post(t) \/ Open(t) \/ Finish(t) \/ Fail(t)
  <2>1. PICK s \in Sessions, new \in {<<>>, <<Question(t)>>, Collected(t)} :
          \E cs, gone : Store(s, new, cs, gone)
    <3>1. home[t] \in Sessions
      BY DEF HistInv, TurnInv, TurnTypes
    <3>2. CASE Post(t)
      BY <3>2 DEF Post, Enter
    <3>3. CASE Open(t)
      BY <3>1, <3>3 DEF Open, Enter
    <3>4. CASE Finish(t)
      BY <3>1, <3>4 DEF Finish
    <3>5. CASE Fail(t)
      BY <3>1, <3>5 DEF Fail
    <3> QED  BY <1>2, <3>2, <3>3, <3>4, <3>5
  <2>2. new \in Seq(Msgs) /\ \A i \in 1..Len(new) : ~Spoken(new, i)
    BY NothingSpoken
  <2>3. PICK cs, gone : Store(s, new, cs, gone)
    BY <2>1
  <2> QED  BY <1>1, <2>2, <2>3, QuietKeepsCall
<1>3. CASE ~(Post(t) \/ Open(t) \/ Finish(t) \/ Fail(t))
  <2>1. UNCHANGED chat
    BY <1>3 DEF Serve, Stream, HangUp, CancelJob, Park, Acquire, GhostAcquire, CallTool,
                StartTool, EndTool, Unwind, Release, EndTurn, ClearContext, Rewrite, Break,
                HeedCancel, storeVars
  <2> QED  BY <1>1, <2>1, QuietKeepsCall
<1> QED  BY <1>2, <1>3

LEMMA RelayKeepsCall ==
  ASSUME HistInv, CallInv, NEW f \in Batches, Apply(f), call' = call PROVE CallInv'
<1>1. PICK new : new = Unrelayed(f)
  OBVIOUS
<1>2. PICK a : a = Max({f.first, cursor + 1})
  OBVIOUS
<1>3. PICK l : l = f.last
  OBVIOUS
<1>4. relayed \in Nat /\ cursor \in Nat
  BY DEF CallInv
<1>5. /\ f.first \in 1..relayed + 1 /\ l \in 0..Lines
      /\ a = IF f.first <= cursor + 1 THEN cursor + 1 ELSE f.first
      /\ new \in Seq(Msgs)
      /\ Len(new) = IF a <= l THEN l - a + 1 ELSE 0
      /\ \A i \in 1..Len(new) : new[i] = Line(a + i - 1)
  BY <1>1, <1>2, <1>3, <1>4, BatchIsLines
<1>6. l \in Nat
  BY <1>5, BoundsAssumption
<1>7. CASE new = <<>>
  BY <1>1, <1>7 DEF Apply, CallInv, storeVars
<1>8. CASE new # <<>>
  <2>1. Enter(Caller, new) /\ cursor' = l /\ relayed' = Max({relayed, l})
    BY <1>1, <1>3, <1>8 DEF Apply
  <2>2. relayed' \in Nat /\ relayed' = IF relayed <= l THEN l ELSE relayed
    <3>1. relayed \in Nat
      BY <1>4
    <3> QED  BY <1>6, <2>1, <3>1, MaxOfTwo
  <2>3. Len(new) # 0
    BY <1>5, <1>8
  <2>4. CASE call = "ended"
    BY <1>6, <2>1, <2>2, <2>4 DEF CallInv
  <2>5. CASE call # "ended"
    <3>1. cursor = relayed /\ InOrder(chat[Caller], cursor)
      BY <2>5 DEF CallInv
    <3>2. PICK cur \in Nat : cur = cursor
      BY <1>4
    <3>3. PICK n : n = Len(new)
      OBVIOUS
    <3>4. a = cur + 1 /\ l = cur + n /\ n \in Nat /\ l = Max({relayed, l})
      <4>1. f.first <= cursor + 1 /\ f.first \in Nat
        BY <1>4, <1>5, <3>1
      <4>2. a = cur + 1
        BY <1>5, <3>2, <4>1
      <4>3. a <= l /\ n = l - a + 1
        BY <1>5, <2>3, <3>3
      <4>4. l = cur + n /\ n \in Nat /\ cur <= l
        BY <1>6, <4>2, <4>3
      <4> QED  BY <2>1, <2>2, <3>1, <3>2, <4>2, <4>4
    <3>5. \A i \in 1..Len(new) : new[i] = Line(cur + i)
      <4>1. n \in Nat /\ \A i \in 1..n : a + i - 1 = cur + i
        BY <3>4
      <4> QED  BY <1>5, <3>3, <4>1
    <3>6. PICK gone : Store(Caller, new, charts[Caller], gone)
      BY <2>1 DEF Enter
    <3>7. InOrder(chat'[Caller], l)
      <4>1. new \in Seq(Msgs)
        BY <1>5
      <4>2. InOrder(chat[Caller], cur)
        BY <3>1, <3>2
      <4>3. l = cur + Len(new)
        BY <3>3, <3>4
      <4>4. Caller \in Sessions
        BY TurnsAssumption
      <4> QED  BY <1>6, <2>3, <3>5, <3>6, <4>1, <4>2, <4>3, <4>4, StoreKeepsOrder
    <3> QED  BY <1>6, <2>1, <3>4, <3>7 DEF CallInv
  <2> QED  BY <2>4, <2>5
<1> QED  BY <1>7, <1>8

LEMMA NextKeepsCall ==
  ASSUME HistInv, CallInv, [Next]_vars PROVE CallInv'
<1>1. ASSUME NEW t \in Turns, Post(t) \/ Open(t) \/ Serve(t) \/ HangUp(t) \/ CancelJob(t)
      PROVE  CallInv'
  BY <1>1, ServeKeepsCall
<1>2. ASSUME NEW s \in Sessions, NewChat(s) PROVE CallInv'
  BY <1>2, QuietKeepsCall DEF NewChat, DropHistory
<1>3. CASE StartCall
  <2>1. call = "idle" /\ relayed' = relayed /\ cursor' = cursor /\ Enter(Caller, <<>>)
    BY <1>3 DEF StartCall
  <2>2. PICK gone : Store(Caller, <<>>, charts[Caller], gone)
    BY <2>1 DEF Enter
  <2>3. cursor = relayed /\ InOrder(chat[Caller], cursor) /\ cursor \in Nat /\ relayed \in Nat
    BY <2>1 DEF CallInv
  <2>4. InOrder(chat'[Caller], cursor)
    <3>1. PICK cur \in Nat : cur = cursor
      BY <2>3
    <3>2. PICK new : new = <<>>
      OBVIOUS
    <3>3. new \in Seq(Msgs) /\ \A i \in 1..Len(new) : ~Spoken(new, i)
      BY <3>2
    <3>4. InOrder(chat[Caller], cur) /\ Caller \in Sessions
      BY <2>3, <3>1, TurnsAssumption
    <3>5. Store(Caller, new, charts[Caller], gone)
      BY <2>2, <3>2
    <3>6. InOrder(chat'[Caller], cur)
      BY <3>3, <3>4, <3>5, StoreKeepsOrder
    <3> QED  BY <3>1, <3>6
  <2> QED  BY <2>1, <2>3, <2>4 DEF CallInv
<1>4. CASE EndCall
  BY <1>4 DEF EndCall, CallInv
<1>5. CASE UNCHANGED vars
  BY <1>5, QuietKeepsCall DEF vars, storeVars
<1>6. CASE (\E f \in Batches : Relay(f)) \/ (\E f \in Batches, t \in Turns : Ask(t, f))
  <2>1. PICK f \in Batches : Apply(f) /\ call' = call
    BY <1>6 DEF Relay, Ask
  <2> QED  BY <2>1, RelayKeepsCall
<1> QED  BY <1>1, <1>2, <1>3, <1>4, <1>5, <1>6 DEF Next

StoreInv == HistInv /\ CallInv

LEMMA InitStore == Init => StoreInv
<1> SUFFICES ASSUME Init PROVE StoreInv
  OBVIOUS
<1>1. TurnInv
  BY InitTurns
<1>2. StoreTypes
  BY DEF Init, StoreTypes
<1>3. Whole /\ Bound
  BY EmptyHistory DEF Init, Whole, Bound
<1>4. CallInv
  BY EmptyIsOrdered, TurnsAssumption DEF Init, CallInv
<1> QED  BY <1>1, <1>2, <1>3, <1>4 DEF StoreInv, HistInv

LEMMA StoreInvariant == Spec => []StoreInv
<1>1. StoreInv /\ [Next]_vars => StoreInv'
  BY NextKeepsHistories, NextKeepsCall DEF StoreInv, CallInv
<1> QED  BY <1>1, InitStore, PTL DEF Spec

\* A block of n messages is n messages in one piece.
LEMMA BlockIsOnePiece ==
  ASSUME NEW q \in Seq(Msgs), NEW t \in Turns, NEW n, NEW p, Block(q, t, n, p),
         NEW at, at = {i \in 1..Len(q) : Of(q, t, i)}
  PROVE  Cardinality(at) = n /\ SubSeq(q, Min(at), Max(at)) = Body(t, n)
<1> DEFINE a == Len(q)
           z == p + n - 1
<1>1. /\ a \in Nat /\ n \in Nat \ {0} /\ p \in 1..a /\ z \in 1..a
      /\ \A i \in 1..a : Of(q, t, i) <=> i \in p..z
      /\ \A i \in 1..n : q[p + i - 1] = Body(t, n)[i]
  BY DEF Block
<1> HIDE DEF a
<1>2. at = p..z /\ p <= z
  <2>1. \A i \in p..z : i \in 1..a
    BY <1>1
  <2> QED  BY <1>1, <2>1 DEF a
<1>3. Min(at) = p /\ Max(at) = z
  <2>1. /\ Min(at) \in at /\ \A x \in at : Min(at) <= x
        /\ Max(at) \in at /\ \A x \in at : x <= Max(at)
    <3>1. at \in SUBSET (1..a) /\ at # {} /\ a \in Nat
      BY <1>1, <1>2
    <3> QED  BY <3>1, MinMax
  <2>2. p \in at /\ z \in at /\ \A x \in at : p <= x /\ x <= z
    BY <1>1, <1>2
  <2> DEFINE x == Min(at)
             y == Max(at)
  <2>3. x \in at /\ y \in at /\ x <= p /\ z <= y
    BY <2>1, <2>2
  <2> HIDE DEF x, y
  <2>4. p <= x /\ y <= z /\ x \in Int /\ y \in Int
    BY <1>1, <1>2, <2>2, <2>3
  <2>5. x = p /\ y = z
    BY <1>1, <2>3, <2>4
  <2> QED  BY <2>5 DEF x, y
<1>4. Cardinality(at) = n
  <2>1. p \in Int /\ z \in Int /\ z - p + 1 = n
    BY <1>1
  <2>2. Cardinality(p..z) = z - p + 1
    BY <1>1, <1>2, <2>1, FS_Interval
  <2> QED  BY <1>2, <2>1, <2>2
<1>5. SubSeq(q, p, z) = Body(t, n)
  <2> DEFINE r == SubSeq(q, p, z)
  <2>1. Excerpt(q, p, z)
    <3>1. \A i \in p..z : q[i] \in Msgs
      <4>1. \A i \in p..z : i \in 1..Len(q)
        BY <1>1 DEF a
      <4> QED  BY <4>1
    <3>2. p \in Int /\ z \in Int
      BY <1>1
    <3> HIDE DEF z
    <3> QED  BY <3>1, <3>2, ExcerptHolds
  <2>2. z - p + 1 = n /\ (IF p <= z THEN z - p + 1 ELSE 0) = n
    BY <1>1, <1>2
  <2>3. r \in Seq(Msgs) /\ Len(r) = n /\ \A i \in 1..n : r[i] = q[p + i - 1]
    <3> HIDE DEF z
    <3> QED  BY <2>1, <2>2 DEF Excerpt
  <2> HIDE DEF r
  <2>4. Body(t, n) \in Seq(Msgs) /\ Len(Body(t, n)) = n
    BY <1>1, BodyIsOne
  <2>5. \A i \in 1..Len(r) : r[i] = Body(t, n)[i]
    BY <1>1, <2>3
  <2>6. r = Body(t, n)
    <3>1. r \in Seq(Msgs)
      BY <2>3
    <3>2. Body(t, n) \in Seq(Msgs)
      BY <2>4
    <3>3. Len(r) = Len(Body(t, n))
      BY <2>3, <2>4
    <3> QED  BY <2>5, <3>1, <3>2, <3>3, SeqEqual
  <2> QED  BY <2>6 DEF r
<1> QED  BY <1>3, <1>4, <1>5

\* What chat_stream records of a turn stands in one history, in one piece, or nowhere, however
\* often the histories are trimmed, evicted and dropped meanwhile.
THEOREM TurnsWhole == Spec => []TurnsEnterWhole
<1>1. ASSUME StoreInv, NEW s \in Sessions, NEW t \in Turns,
             NEW at, at = {i \in 1..Len(chat[s]) :
                             chat[s][i].from = t /\ chat[s][i].kind # "question"},
             at # {}
      PROVE  /\ result[t] = "answered" /\ home[t] = s
             /\ Cardinality(at) = 2 * rounds[t] + 1
             /\ SubSeq(chat[s], Min(at), Max(at)) = Collected(t)
  <2>1. PICK q \in Seq(Msgs) : q = chat[s]
    BY <1>1 DEF StoreInv, HistInv, StoreTypes
  <2>2. PICK n : n = 2 * rounds[t] + 1
    OBVIOUS
  <2>3. at = {i \in 1..Len(q) : Of(q, t, i)} /\ at # {}
    BY <1>1, <2>1 DEF Of
  <2>4. Entered(q, s, t, result[t], home[t], n)
    BY <1>1, <2>1, <2>2 DEF StoreInv, HistInv, Whole
  <2>5. PICK p : Block(q, t, n, p) /\ result[t] = "answered" /\ home[t] = s
    BY <2>3, <2>4 DEF Entered
  <2>6. Cardinality(at) = n /\ SubSeq(q, Min(at), Max(at)) = Body(t, n)
    BY <2>3, <2>5, BlockIsOnePiece
  <2>7. Collected(t) = Body(t, n)
    BY <2>2 DEF Collected, Body
  <2> QED  BY <2>1, <2>2, <2>5, <2>6, <2>7
<1>2. ASSUME StoreInv, NEW s \in Sessions, NEW t \in Turns
      PROVE  LET at == {i \in 1..Len(chat[s]) : chat[s][i].from = t /\ chat[s][i].kind # "question"}
             IN  at # {} => /\ result[t] = "answered" /\ home[t] = s
                            /\ Cardinality(at) = 2 * rounds[t] + 1
                            /\ SubSeq(chat[s], Min(at), Max(at)) = Collected(t)
  BY <1>1, <1>2
<1>3. StoreInv => TurnsEnterWhole
  BY <1>2, Zenon DEF TurnsEnterWhole
<1> QED  BY <1>3, StoreInvariant, PTL

\* The sidecar of a session binds a chart to an answer exactly as long as that answer is in
\* its history ("an archived spec never outlives the assistant message it belongs to").
THEOREM ChartsFollow == Spec => []ChartsFollowAnswers
<1>1. ASSUME StoreInv PROVE ChartsFollowAnswers
  <2> SUFFICES ASSUME NEW s \in Sessions, NEW t \in Turns
               PROVE  t \notin homeless =>
                        (t \in charts[s] <=> t \in pending /\ Answer(t) \in ToSet(chat[s]))
    BY DEF ChartsFollowAnswers
  <2>1. PICK q \in Seq(Msgs) : q = chat[s]
    BY <1>1 DEF StoreInv, HistInv, StoreTypes
  <2>2. t \notin homeless => (t \in charts[s] <=> t \in pending /\ Has(q, Answer(t)))
    BY <1>1, <2>1 DEF StoreInv, HistInv, Bound
  <2>3. Has(q, Answer(t)) <=> Answer(t) \in ToSet(q)
    <3>1. DOMAIN q = 1..Len(q)
      BY LenProperties
    <3> QED  BY <3>1 DEF Has, ToSet
  <2> QED  BY <2>1, <2>2, <2>3
<1> QED  BY <1>1, StoreInvariant, PTL

\* Until the call has ended, what it spoke stands in the history once, in order and without a
\* gap, whatever relays were late, lost, repeated or overtaken (_apply_call_events).
THEOREM LinesOnce == Spec => []LinesRelayedOnce
<1>1. ASSUME StoreInv PROVE LinesRelayedOnce
  <2>1. PICK q : q = chat[Caller]
    OBVIOUS
  <2>2. call # "ended" => InOrder(q, cursor)
    BY <1>1, <2>1 DEF StoreInv, CallInv
  <2> DEFINE lines == {i \in 1..Len(q) : q[i].kind = "line"}
  <2>3. ASSUME call # "ended", NEW i \in lines, NEW k \in lines, i < k,
               \A m \in lines : m <= i \/ k <= m
        PROVE  q[k].from = q[i].from + 1
    <3>1. \A m \in 1..Len(q) : Spoken(q, m) => m <= i \/ k <= m
      BY <2>3 DEF Spoken
    <3>2. i \in 1..Len(q) /\ k \in 1..Len(q) /\ Spoken(q, i) /\ Spoken(q, k)
      BY DEF Spoken
    <3> QED  BY <2>2, <2>3, <3>1, <3>2 DEF InOrder
  <2> QED  BY <2>1, <2>3 DEF LinesRelayedOnce
<1> QED  BY <1>1, StoreInvariant, PTL

=============================================================================
