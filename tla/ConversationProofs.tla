------------------------- MODULE ConversationProofs -------------------------
(***************************************************************************)
(* For all files, answers and limits, under the two bounded policies:      *)
(* edits are grounded in what was read, a context shows the run as it was, *)
(* and the training data made of a run are its real actions.               *)
(*                                                                         *)
(* The native policy is in the model, but not in the theorems: its context *)
(* shows every answer, and nothing of what a compression replaced, and so  *)
(* needs another invariant.  TLC checks the same properties under it.      *)
(***************************************************************************)
EXTENDS ConversationSafety, FiniteSetTheorems, NaturalsInduction, SequenceTheorems,
        WellFoundedInduction, TLAPS

-----------------------------------------------------------------------------
(* Sequences.                                                              *)

\* A set of numbers that has zero and the successor of each of its members.
LEMMA InductiveSet ==
  ASSUME NEW S, 0 \in S, \A n \in Nat : n \in S => n + 1 \in S
  PROVE  Nat \subseteq S
<1> SUFFICES ASSUME Nat \ S # {} PROVE FALSE
  OBVIOUS
<1>1. Nat \ S \subseteq Nat
  OBVIOUS
<1>2. PICK u \in Nat \ S : \A v \in Nat \ S : <<v, u>> \notin OpToRel(<, Nat)
  BY <1>1, NatLessThanWellFounded, WFMin, Zenon
<1>3. u # 0
  BY <1>2
<1>4. u - 1 \in Nat /\ u - 1 < u /\ u - 1 + 1 = u
  BY <1>3
<1>5. u - 1 \in S
  BY <1>2, <1>4 DEF OpToRel
<1> QED
  BY <1>4, <1>5

\* The equation that determines what FlattenSeq computes, up to n.
IsFlat(f, ss, n) == f = [i \in 1 .. n |-> IF i = 1 THEN ss[i] ELSE f[i - 1] \o ss[i]]

LEMMA FlattenUnfolds ==
  ASSUME NEW ss, Len(ss) # 0
  PROVE  FlattenSeq(ss) = (CHOOSE f : IsFlat(f, ss, Len(ss)))[Len(ss)]
BY DEF FlattenSeq, IsFlat

LEMMA FlatAt ==
  ASSUME NEW ss, NEW n, NEW f, IsFlat(f, ss, n), NEW i \in 1 .. n
  PROVE  f[i] = IF i = 1 THEN ss[i] ELSE f[i - 1] \o ss[i]
BY DEF IsFlat

LEMMA FlatExists ==
  ASSUME NEW ss, NEW n \in Nat
  PROVE  \E f : IsFlat(f, ss, n)
<1> DEFINE S == {m \in Nat : \E f : IsFlat(f, ss, m)}
<1>1. 0 \in S
  <2> DEFINE f == [i \in 1 .. 0 |-> {}]
  <2>1. f = [i \in 1 .. 0 |-> IF i = 1 THEN ss[i] ELSE f[i - 1] \o ss[i]]
    OBVIOUS
  <2> QED
    BY <2>1 DEF IsFlat
<1>2. ASSUME NEW m \in Nat, m \in S
      PROVE  m + 1 \in S
  <2>1. PICK f : IsFlat(f, ss, m)
    BY <1>2
  <2> DEFINE g == [i \in 1 .. m + 1 |-> IF i = m + 1 THEN (IF m = 0 THEN ss[1] ELSE f[m] \o ss[m + 1]) ELSE f[i]]
  <2>2. ASSUME NEW i \in 1 .. m + 1
        PROVE  g[i] = IF i = 1 THEN ss[i] ELSE g[i - 1] \o ss[i]
    <3>1. CASE i = m + 1
      <4>1. CASE m = 0
        BY <3>1, <4>1
      <4>2. CASE m # 0
        <5>1. i - 1 = m /\ m \in 1 .. m + 1 /\ m # m + 1 /\ i # 1
          BY <3>1, <4>2
        <5>2. g[m] = f[m]
          BY <5>1
        <5> QED
          BY <3>1, <4>2, <5>1, <5>2
      <4> QED
        BY <4>1, <4>2
    <3>2. CASE i # m + 1
      <4>1. i \in 1 .. m /\ g[i] = f[i]
        BY <3>2
      <4>2. f[i] = IF i = 1 THEN ss[i] ELSE f[i - 1] \o ss[i]
        BY <2>1, <4>1 DEF IsFlat
      <4>3. i # 1 => g[i - 1] = f[i - 1]
        BY <4>1
      <4> QED
        BY <4>1, <4>2, <4>3
    <3> QED
      BY <3>1, <3>2
  <2> HIDE DEF g
  <2>3. g = [i \in 1 .. m + 1 |-> IF i = 1 THEN ss[i] ELSE g[i - 1] \o ss[i]]
    <3>1. g = [i \in 1 .. m + 1 |-> g[i]]
      BY DEF g
    <3> QED
      BY <2>2, <3>1
  <2>4. IsFlat(g, ss, m + 1)
    BY <2>3 DEF IsFlat
  <2> QED
    BY <2>4
<1>3. Nat \subseteq S
  <2> HIDE DEF S
  <2> QED
    BY <1>1, <1>2, InductiveSet
<1> QED
  BY <1>3

\* Its values depend on the sequences up to there, and are sequences.
LEMMA FlatIsDetermined ==
  ASSUME NEW T, NEW n \in Nat, NEW m \in Nat, n <= m,
         NEW ss, NEW tt, \A i \in 1 .. n : ss[i] \in Seq(T) /\ tt[i] = ss[i],
         NEW f, IsFlat(f, ss, n), NEW g, IsFlat(g, tt, m)
  PROVE  \A i \in 1 .. n : f[i] = g[i] /\ f[i] \in Seq(T)
<1> DEFINE S == {k \in Nat : \A i \in 1 .. n : i <= k => f[i] = g[i] /\ f[i] \in Seq(T)}
<1>1. 0 \in S
  OBVIOUS
<1>2. ASSUME NEW k \in Nat, k \in S
      PROVE  k + 1 \in S
  <2> SUFFICES ASSUME NEW i \in 1 .. n, i = k + 1
               PROVE  f[i] = g[i] /\ f[i] \in Seq(T)
    BY <1>2
  <2>1. /\ f[i] = IF i = 1 THEN ss[i] ELSE f[i - 1] \o ss[i]
        /\ g[i] = IF i = 1 THEN tt[i] ELSE g[i - 1] \o tt[i]
    <3>1. i \in 1 .. m
      OBVIOUS
    <3> QED
      BY <3>1, FlatAt
  <2>2. i # 1 => i - 1 \in 1 .. n /\ i - 1 <= k
    OBVIOUS
  <2>3. i # 1 => f[i - 1] = g[i - 1] /\ f[i - 1] \in Seq(T)
    BY <1>2, <2>2
  <2>4. ss[i] \in Seq(T) /\ tt[i] = ss[i]
    OBVIOUS
  <2>5. i # 1 => f[i - 1] \o ss[i] \in Seq(T)
    BY <2>3, <2>4
  <2> QED
    BY <2>1, <2>3, <2>4, <2>5
<1>3. Nat \subseteq S
  <2> HIDE DEF S
  <2> QED
    BY <1>1, <1>2, InductiveSet
<1>4. n \in S
  BY <1>3
<1> QED
  BY <1>4

LEMMA FlattenEmpty == FlattenSeq(<<>>) = <<>>
BY DEF FlattenSeq

\* A sequence that is added comes last.
LEMMA FlattenAppend ==
  ASSUME NEW T, NEW R, \A r \in R : r \in Seq(T), NEW ss \in Seq(R), NEW s \in R
  PROVE  /\ FlattenSeq(Append(ss, s)) = FlattenSeq(ss) \o s
         /\ FlattenSeq(ss) \in Seq(T)
<1>0. PICK n, m, tt : n = Len(ss) /\ m = n + 1 /\ tt = Append(ss, s)
  OBVIOUS
<1>1. /\ n \in Nat /\ m \in Nat /\ Len(tt) = m /\ m # 0 /\ m \in 1 .. m /\ m - 1 = n /\ n <= m /\ tt[m] = s
      /\ \A i \in 1 .. n : ss[i] \in R /\ tt[i] = ss[i]
  BY <1>0
<1>2. PICK g : g = (CHOOSE e : IsFlat(e, tt, m)) /\ IsFlat(g, tt, m)
  <2>1. \E e : IsFlat(e, tt, m)
    BY <1>1, FlatExists
  <2> QED
    BY <2>1
<1>3. FlattenSeq(tt) = g[m]
  BY <1>1, <1>2, FlattenUnfolds
<1>4. g[m] = IF m = 1 THEN tt[m] ELSE g[m - 1] \o tt[m]
  BY <1>1, <1>2, FlatAt
<1>5. CASE n = 0
  <2>1. ss = <<>>
    <3>1. Len(ss) = 0
      BY <1>0, <1>5
    <3> QED
      BY <3>1
  <2>2. FlattenSeq(ss) = <<>>
    BY <2>1, FlattenEmpty
  <2>3. g[m] = s
    BY <1>0, <1>1, <1>4, <1>5
  <2>4. s \in Seq(T)
    OBVIOUS
  <2>5. <<>> \o s = s /\ <<>> \in Seq(T)
    BY <2>4
  <2> QED
    BY <1>0, <1>3, <2>2, <2>3, <2>5
<1>6. CASE n # 0
  <2>1. PICK f : f = (CHOOSE e : IsFlat(e, ss, n)) /\ IsFlat(f, ss, n)
    <3>1. \E e : IsFlat(e, ss, n)
      BY <1>1, FlatExists
    <3> QED
      BY <3>1
  <2>2. FlattenSeq(ss) = f[n]
    BY <1>0, <1>6, <2>1, FlattenUnfolds
  <2>3. \A i \in 1 .. n : ss[i] \in Seq(T) /\ tt[i] = ss[i]
    BY <1>1
  <2>4. \A i \in 1 .. n : f[i] = g[i] /\ f[i] \in Seq(T)
    <3>1. n \in Nat /\ m \in Nat /\ n <= m
      BY <1>1
    <3>2. IsFlat(f, ss, n) /\ IsFlat(g, tt, m)
      BY <1>2, <2>1
    <3> QED
      BY <2>3, <3>1, <3>2, FlatIsDetermined
  <2>5. n \in 1 .. n /\ m # 1
    BY <1>0, <1>1, <1>6
  <2>6. f[n] = g[n] /\ f[n] \in Seq(T)
    BY <2>4, <2>5
  <2>7. g[m] = g[n] \o s
    BY <1>1, <1>4, <2>5
  <2> QED
    BY <1>0, <1>3, <2>2, <2>6, <2>7
<1> QED
  BY <1>1, <1>5, <1>6

\* A set that has the empty sequence and with each sequence the longer ones.
LEMMA InductiveSequences ==
  ASSUME NEW T, NEW S, <<>> \in S, \A u \in Seq(T), x \in T : u \in S => Append(u, x) \in S
  PROVE  Seq(T) \subseteq S
<1> DEFINE L == {n \in Nat : \A s \in Seq(T) : Len(s) = n => s \in S}
<1>1. 0 \in L
  <2> SUFFICES ASSUME NEW s \in Seq(T), Len(s) = 0
               PROVE  s \in S
    OBVIOUS
  <2>1. s = <<>>
    OBVIOUS
  <2> QED
    BY <2>1
<1>2. ASSUME NEW n \in Nat, n \in L
      PROVE  n + 1 \in L
  <2> SUFFICES ASSUME NEW s \in Seq(T), Len(s) = n + 1
               PROVE  s \in S
    OBVIOUS
  <2>1. PICK u, x : u = SubSeq(s, 1, n) /\ x = s[n + 1]
    OBVIOUS
  <2>2. u \in Seq(T) /\ x \in T /\ Len(u) = n /\ s = Append(u, x)
    BY <2>1
  <2>3. u \in S
    BY <1>2, <2>2
  <2> QED
    BY <2>2, <2>3
<1>3. Nat \subseteq L
  <2> HIDE DEF L
  <2> QED
    BY <1>1, <1>2, InductiveSet
<1> SUFFICES ASSUME NEW s \in Seq(T)
             PROVE  s \in S
  OBVIOUS
<1>4. Len(s) \in L
  BY <1>3
<1> QED
  BY <1>4

LEMMA PickedEmpty ==
  ASSUME NEW I
  PROVE  Picked(<<>>, I) = <<>>
<1>1. [n \in DOMAIN <<>> |-> IF n \in I THEN <<(<<>>)[n]>> ELSE <<>>] = <<>>
  OBVIOUS
<1> QED
  BY <1>1, FlattenEmpty DEF Picked

\* What is picked of a longer sequence.
LEMMA PickedAppend ==
  ASSUME NEW T, NEW s \in Seq(T), NEW x \in T, NEW I
  PROVE  /\ Picked(Append(s, x), I) = IF Len(s) + 1 \in I THEN Append(Picked(s, I), x) ELSE Picked(s, I)
         /\ Picked(s, I) \in Seq(T)
<1>1. PICK R : R = {<<t>> : t \in T} \cup {<<>>}
  OBVIOUS
<1>2. PICK ss : ss = [n \in DOMAIN s |-> IF n \in I THEN <<s[n]>> ELSE <<>>]
  OBVIOUS
<1>3. PICK q : q = IF Len(s) + 1 \in I THEN <<x>> ELSE <<>>
  OBVIOUS
<1>4. \A r \in R : r \in Seq(T)
  <2>1. <<>> \in Seq(T) /\ \A t \in T : <<t>> \in Seq(T)
    OBVIOUS
  <2> QED
    BY <1>1, <2>1, Zenon
<1>5. ss \in Seq(R) /\ Len(ss) = Len(s) /\ q \in R
  <2>1. DOMAIN s = 1 .. Len(s) /\ Len(s) \in Nat /\ \A n \in 1 .. Len(s) : s[n] \in T
    OBVIOUS
  <2>2. \A n \in 1 .. Len(s) : ss[n] \in R
    BY <1>1, <1>2, <2>1
  <2>3. ss = [n \in 1 .. Len(s) |-> ss[n]]
    BY <1>2, <2>1
  <2> QED
    BY <1>1, <1>3, <2>1, <2>2, <2>3
<1>6. [n \in DOMAIN Append(s, x) |-> IF n \in I THEN <<Append(s, x)[n]>> ELSE <<>>] = Append(ss, q)
  <2>1. PICK u : u = Append(s, x)
    OBVIOUS
  <2>2. /\ DOMAIN u = 1 .. Len(s) + 1 /\ u[Len(s) + 1] = x /\ \A n \in 1 .. Len(s) : u[n] = s[n]
        /\ DOMAIN s = 1 .. Len(s) /\ Len(s) \in Nat
    BY <2>1
  <2>3. PICK v : v = Append(ss, q)
    OBVIOUS
  <2>4. DOMAIN v = 1 .. Len(s) + 1 /\ v[Len(s) + 1] = q /\ (\A n \in 1 .. Len(s) : v[n] = ss[n])
        /\ v = [n \in 1 .. Len(s) + 1 |-> v[n]]
    <3>1. v \in Seq(R) /\ Len(v) = Len(s) + 1
      BY <1>5, <2>3
    <3>2. v = [n \in 1 .. Len(v) |-> v[n]] /\ DOMAIN v = 1 .. Len(v)
      BY <3>1
    <3>3. v[Len(s) + 1] = q /\ \A n \in 1 .. Len(s) : v[n] = ss[n]
      BY <1>5, <2>3
    <3> QED
      BY <3>1, <3>2, <3>3
  <2>5. ASSUME NEW n \in 1 .. Len(s) + 1
        PROVE  v[n] = IF n \in I THEN <<u[n]>> ELSE <<>>
    <3>1. CASE n = Len(s) + 1
      BY <1>3, <2>2, <2>4, <3>1
    <3>2. CASE n # Len(s) + 1
      <4>1. n \in 1 .. Len(s)
        BY <2>2, <3>2
      <4>2. ss[n] = IF n \in I THEN <<s[n]>> ELSE <<>>
        BY <1>2, <2>2, <4>1
      <4> QED
        BY <2>2, <2>4, <4>1, <4>2
    <3> QED
      BY <3>1, <3>2
  <2> QED
    BY <2>1, <2>2, <2>3, <2>4, <2>5
<1>7. FlattenSeq(Append(ss, q)) = FlattenSeq(ss) \o q /\ FlattenSeq(ss) \in Seq(T)
  BY <1>4, <1>5, FlattenAppend
<1>8. Picked(s, I) = FlattenSeq(ss) /\ Picked(Append(s, x), I) = FlattenSeq(ss) \o q
  BY <1>2, <1>6, <1>7 DEF Picked
<1>9. PICK f : f = Picked(s, I) /\ f \in Seq(T)
  BY <1>7, <1>8
<1>10. f \o <<x>> = Append(f, x) /\ f \o <<>> = f
  BY <1>9
<1> QED
  BY <1>3, <1>8, <1>9, <1>10

LEMMA PickedTyping ==
  ASSUME NEW T, NEW s \in Seq(T), NEW I
  PROVE  Picked(s, I) \in Seq(T)
<1>1. CASE T = {}
  <2>1. s = <<>>
    BY <1>1
  <2> QED
    BY <2>1, PickedEmpty
<1>2. CASE T # {}
  <2>1. PICK x : x \in T
    BY <1>2
  <2> QED
    BY <2>1, PickedAppend
<1> QED
  BY <1>1, <1>2

\* What is picked are the elements at the positions, and all of these.
LEMMA PickedElements ==
  ASSUME NEW T, NEW s \in Seq(T), NEW I
  PROVE  /\ \A k \in DOMAIN Picked(s, I) : \E n \in DOMAIN s : n \in I /\ Picked(s, I)[k] = s[n]
         /\ \A n \in DOMAIN s : n \in I => \E k \in DOMAIN Picked(s, I) : Picked(s, I)[k] = s[n]
<1> DEFINE All(u) == /\ \A k \in DOMAIN Picked(u, I) : \E n \in DOMAIN u : n \in I /\ Picked(u, I)[k] = u[n]
                     /\ \A n \in DOMAIN u : n \in I => \E k \in DOMAIN Picked(u, I) : Picked(u, I)[k] = u[n]
           S == {u \in Seq(T) : All(u)}
<1>1. <<>> \in S
  BY PickedEmpty
<1>2. ASSUME NEW u \in Seq(T), NEW x \in T, u \in S
      PROVE  Append(u, x) \in S
  <2>1. PICK v, f, g : v = Append(u, x) /\ f = Picked(u, I) /\ g = Picked(v, I)
    OBVIOUS
  <2>2. f \in Seq(T) /\ g = IF Len(u) + 1 \in I THEN Append(f, x) ELSE f
    BY <2>1, PickedAppend
  <2>3. /\ v \in Seq(T) /\ Len(u) \in Nat /\ DOMAIN u = 1 .. Len(u) /\ DOMAIN v = 1 .. Len(u) + 1
        /\ v[Len(u) + 1] = x /\ \A n \in 1 .. Len(u) : v[n] = u[n]
    BY <2>1
  <2>4. /\ \A k \in DOMAIN f : \E n \in DOMAIN u : n \in I /\ f[k] = u[n]
        /\ \A n \in DOMAIN u : n \in I => \E k \in DOMAIN f : f[k] = u[n]
    BY <1>2, <2>1
  <2>5. \A k \in DOMAIN f : \E n \in DOMAIN v : n \in I /\ f[k] = v[n]
    BY <2>3, <2>4
  <2>6. CASE Len(u) + 1 \in I
    <3>1. /\ Len(f) \in Nat /\ DOMAIN f = 1 .. Len(f) /\ DOMAIN g = 1 .. Len(f) + 1
          /\ g[Len(f) + 1] = x /\ \A k \in 1 .. Len(f) : g[k] = f[k]
      BY <2>2, <2>6
    <3>2. ASSUME NEW k \in DOMAIN g
          PROVE  \E n \in DOMAIN v : n \in I /\ g[k] = v[n]
      <4>1. CASE k = Len(f) + 1
        <5>1. Len(u) + 1 \in DOMAIN v /\ g[k] = v[Len(u) + 1]
          BY <2>3, <3>1, <4>1
        <5> QED
          BY <2>6, <5>1
      <4>2. CASE k # Len(f) + 1
        <5>1. k \in DOMAIN f /\ g[k] = f[k]
          BY <3>1, <3>2, <4>2
        <5> QED
          BY <2>5, <5>1
      <4> QED
        BY <4>1, <4>2
    <3>3. ASSUME NEW n \in DOMAIN v, n \in I
          PROVE  \E k \in DOMAIN g : g[k] = v[n]
      <4>1. CASE n = Len(u) + 1
        <5>1. Len(f) + 1 \in DOMAIN g /\ g[Len(f) + 1] = v[n]
          BY <2>3, <3>1, <4>1
        <5> QED
          BY <5>1
      <4>2. CASE n # Len(u) + 1
        <5>1. n \in DOMAIN u /\ v[n] = u[n]
          BY <2>3, <3>3, <4>2
        <5>2. PICK k \in DOMAIN f : f[k] = u[n]
          BY <2>4, <3>3, <5>1
        <5>3. k \in DOMAIN g /\ g[k] = f[k]
          BY <3>1, <5>2
        <5> QED
          BY <5>1, <5>2, <5>3
      <4> QED
        BY <4>1, <4>2
    <3>4. All(v)
      BY <2>1, <3>2, <3>3
    <3> QED
      BY <2>1, <2>3, <3>4
  <2>7. CASE Len(u) + 1 \notin I
    <3>1. g = f
      BY <2>2, <2>7
    <3>2. \A n \in DOMAIN v : n \in I => n \in DOMAIN u /\ v[n] = u[n]
      BY <2>3, <2>7
    <3>3. All(v)
      BY <2>1, <2>4, <2>5, <3>1, <3>2
    <3> QED
      BY <2>1, <2>3, <3>3
  <2> QED
    BY <2>6, <2>7
<1>3. Seq(T) \subseteq S
  <2> HIDE DEF S
  <2> QED
    BY <1>1, <1>2, InductiveSequences
<1> QED
  BY <1>3

-----------------------------------------------------------------------------
(* Answers and actions.                                                    *)

\* The actions a response is parsed into: a read asks for lines there may be.
Parsed == {a \in Actions : a.kind = "read" => 1 <= a.from /\ a.from <= a.to /\ a.to <= a.from + ReadMax - 1}

LEMMA Kinds ==
  ASSUME NEW a \in Actions
  PROVE  /\ a.kind \in {"edit", "read", "search", "command", "done"}
         /\ a.kind = "edit" => a.path \in Paths /\ a.before \in Lines /\ a.after \in Lines
         /\ a.kind = "read" => a.path \in Paths /\ a.from \in Nat /\ a.to \in Nat
         /\ a.kind = "search" => a.path \in Paths /\ a.query \in Lines
         /\ a.kind = "command" => a.command \in Commands \cup {Empty}
         /\ a.kind = "done" <=> a = Done
BY DEF Actions, Done

LEMMA InvalidIsNoAction == Invalid \notin Actions /\ Invalid.kind = "invalid" /\ Done \in Actions /\ Done.kind = "done"
<1>1. Invalid.kind = "invalid" /\ Done \in Actions /\ Done.kind = "done"
  BY DEF Invalid, Actions, Done
<1> QED
  BY <1>1, Kinds

\* The end of a read after it was cut.
LEMMA ReadIsCut ==
  ASSUME NEW from \in Nat, NEW to \in Nat, 1 <= from, from <= to
  PROVE  LET m == Min({to, from + ReadMax - 1})
         IN  m \in Nat /\ from <= m /\ m <= from + ReadMax - 1 /\ (to <= from + ReadMax - 1 => m = to)
<1>1. ReadMax \in Nat \ {0}
  BY AgentActionsAssumption
<1>2. PICK k, m : k = from + ReadMax - 1 /\ m = Min({to, k})
  OBVIOUS
<1>3. k \in Nat /\ from <= k
  BY <1>1, <1>2
<1>4. m \in {to, k} /\ m <= to /\ m <= k
  <2>1. \E x \in {to, k} : \A y \in {to, k} : x <= y
    BY <1>3
  <2> QED
    BY <1>2, <2>1 DEF Min
<1> QED
  BY <1>2, <1>3, <1>4

LEMMA ValidatedTyping ==
  ASSUME NEW a \in Actions
  PROVE  /\ Validated(a) = Invalid \/ (Validated(a) \in Parsed /\ Validated(a).kind = a.kind)
         /\ a \in Parsed /\ a.kind = "edit" /\ a.before # a.after => Validated(a) = a
<1>1. CASE a.kind = "edit"
  BY <1>1 DEF Validated, Parsed
<1>2. CASE a.kind = "read"
  <2>1. CASE 1 <= a.from /\ a.from <= a.to
    <3>1. a = [kind |-> "read", path |-> a.path, from |-> a.from, to |-> a.to] /\ a.from \in Nat /\ a.to \in Nat /\ a.path \in Paths
      BY <1>2 DEF Actions, Done
    <3>2. PICK m : m = Min({a.to, a.from + ReadMax - 1})
      OBVIOUS
    <3>3. m \in Nat /\ a.from <= m /\ m <= a.from + ReadMax - 1
      BY <2>1, <3>1, <3>2, ReadIsCut
    <3>4. Validated(a) = [a EXCEPT !.to = m]
      BY <1>2, <2>1, <3>2 DEF Validated
    <3>5. [a EXCEPT !.to = m] = [kind |-> "read", path |-> a.path, from |-> a.from, to |-> m]
      BY <3>1
    <3>6. [kind |-> "read", path |-> a.path, from |-> a.from, to |-> m] \in Actions
      BY <3>1, <3>3 DEF Actions
    <3> QED
      BY <1>2, <2>1, <3>3, <3>4, <3>5, <3>6 DEF Parsed
  <2> QED
    BY <1>2, <2>1 DEF Validated
<1>3. CASE a.kind = "command"
  BY <1>3 DEF Validated, Parsed
<1>4. CASE a.kind \in {"search", "done"}
  BY <1>4 DEF Validated, Parsed
<1> QED
  BY <1>1, <1>2, <1>3, <1>4, Kinds

\* What passed its validation passes it again, unchanged.
LEMMA ValidatedTwice ==
  ASSUME NEW a \in Actions, Validated(a) # Invalid
  PROVE  Validated(Validated(a)) = Validated(a)
<1>1. CASE a.kind = "read"
  <2>0. 1 <= a.from /\ a.from <= a.to
    BY <1>1 DEF Validated
  <2>1. PICK b, k : b = Validated(a) /\ k = b.from + ReadMax - 1
    OBVIOUS
  <2>2. b \in Parsed /\ b.kind = "read"
    BY <1>1, <2>1, ValidatedTyping
  <2>3. b \in Actions /\ 1 <= b.from /\ b.from <= b.to /\ b.to <= k
    BY <2>1, <2>2 DEF Parsed
  <2>4. b = [kind |-> "read", path |-> b.path, from |-> b.from, to |-> b.to] /\ b.from \in Nat /\ b.to \in Nat
    BY <2>2, <2>3 DEF Actions, Done
  <2>5. Min({b.to, k}) = b.to
    BY <2>1, <2>3, <2>4, ReadIsCut
  <2>6. Validated(b) = [b EXCEPT !.to = b.to]
    BY <2>1, <2>2, <2>3, <2>5 DEF Validated
  <2>7. [b EXCEPT !.to = b.to] = b
    BY <2>4
  <2> QED
    BY <2>1, <2>6, <2>7
<1>2. CASE a.kind # "read"
  BY <1>2 DEF Validated
<1> QED
  BY <1>1, <1>2

LEMMA ObjectTyping ==
  ASSUME NEW o \in Objects
  PROVE  /\ o.arg \in Actions /\ o.done \in BOOLEAN /\ o.keys \subseteq {"edit", "read", "search", "command"}
         /\ o.keys \cap Tools = {} /\ ~o.done => o.arg.kind = "command"
BY DEF Objects, Tools

\* An object is refused or gives an action that passes its validation.
LEMMA ParsedObject ==
  ASSUME NEW o \in Objects
  PROVE  \/ ParseObject(o) \in {Invalid, Done}
         \/ \E a \in Actions : ParseObject(o) = Validated(a) /\ a.kind \in Tools \cup {"command"}
<1>1. PICK clear \in BOOLEAN : clear = (o.keys \cap Tools # {} => o.keys = {o.arg.kind} /\ ~o.done)
  OBVIOUS
<1>2. ParseObject(o) = IF ~(o.typed /\ clear) THEN Invalid ELSE IF o.done THEN Done ELSE Validated(o.arg)
  BY <1>1 DEF ParseObject
<1>3. clear /\ ~o.done => o.arg.kind \in Tools \cup {"command"}
  <2>1. CASE o.keys \cap Tools = {}
    BY <2>1, ObjectTyping
  <2>2. CASE o.keys \cap Tools # {}
    BY <1>1, <2>2
  <2> QED
    BY <2>1, <2>2
<1> QED
  BY <1>2, <1>3, ObjectTyping

\* A response is refused, finishes, is a command as it stands, or a validated action.
LEMMA ParsedAnswer ==
  ASSUME NEW r \in Answers
  PROVE  \/ ParseAction(r) \in {Invalid, Done}
         \/ ParseAction(r) \in Actions /\ ParseAction(r).kind = "command"
         \/ \E a \in Actions : ParseAction(r) = Validated(a) /\ a.kind \in Tools \cup {"command"}
<1>1. r.objects \in Seq(Objects) /\ (r.form \in {"call", "envelope"} /\ r.objects # <<>> => Head(r.objects).arg.kind = "command")
  BY DEF Answers
<1>2. CASE r.objects = <<>>
  BY <1>2 DEF ParseAction
<1>3. CASE r.objects # <<>>
  <2>1. PICK h, l : h = Head(r.objects) /\ l = Last(r.objects)
    OBVIOUS
  <2>2. h \in Objects /\ l \in Objects
    BY <1>1, <1>3, <2>1 DEF Last
  <2>3. CASE r.form = "envelope"
    <3>1. ParseAction(r) = IF h.done THEN Done ELSE h.arg
      BY <1>3, <2>1, <2>3 DEF ParseAction
    <3> QED
      BY <1>1, <1>3, <2>1, <2>2, <2>3, <3>1, ObjectTyping
  <2>4. CASE r.form = "call" /\ h.arg.command # Empty
    <3>1. ParseAction(r) = h.arg
      BY <1>3, <2>1, <2>4 DEF ParseAction
    <3> QED
      BY <1>1, <1>3, <2>1, <2>2, <2>4, <3>1, ObjectTyping
  <2>5. CASE r.form # "envelope" /\ ~(r.form = "call" /\ h.arg.command # Empty)
    <3>1. PICK s : s = (IF r.form = "call" THEN Tail(r.objects) ELSE r.objects)
      OBVIOUS
    <3>2. s \in Seq(Objects)
      BY <1>1, <1>3, <3>1
    <3>3. ParseAction(r) = IF s = <<>> THEN Invalid ELSE ParseObject(Chosen(s))
      BY <1>3, <2>1, <2>5, <3>1 DEF ParseAction
    <3>4. CASE s = <<>>
      BY <3>3, <3>4
    <3>5. CASE s # <<>>
      <4>1. PICK o : o = Chosen(s) /\ o \in Objects
        BY <3>2, <3>5 DEF Chosen, Last
      <4> QED
        BY <3>3, <3>5, <4>1, ParsedObject
    <3> QED
      BY <3>4, <3>5
  <2> QED
    BY <2>3, <2>4, <2>5
<1> QED
  BY <1>2, <1>3

LEMMA ParseTyping ==
  ASSUME NEW r \in Answers
  PROVE  ParseAction(r) \in Parsed \cup {Invalid}
<1>1. CASE ParseAction(r) \in {Invalid, Done}
  BY <1>1, InvalidIsNoAction DEF Parsed
<1>2. CASE ParseAction(r) \in Actions /\ ParseAction(r).kind = "command"
  BY <1>2 DEF Parsed
<1>3. ASSUME NEW a \in Actions, ParseAction(r) = Validated(a)
      PROVE  ParseAction(r) \in Parsed \cup {Invalid}
  BY <1>3, ValidatedTyping
<1> QED
  BY <1>1, <1>2, <1>3, ParsedAnswer

\* The canonical form of an action that ran is parsed into the same action.
LEMMA CanonicalForm ==
  ASSUME NEW r \in Answers, NEW a, a = ParseAction(r), Executable(a)
  PROVE  a \in Parsed /\ Plain(a) \in Answers /\ ParseAction(Plain(a)) = a
<1>1. a # Invalid /\ a # Done /\ a \in Parsed /\ a \in Actions
  <2>1. a.kind # "invalid" /\ a.kind # "done"
    BY DEF Executable, Tools
  <2> QED
    BY <2>1, ParseTyping, InvalidIsNoAction DEF Parsed
<1>2. Validated(a) = a
  <2>1. CASE a.kind = "command"
    BY <2>1 DEF Validated, Executable, Tools
  <2>2. CASE a.kind # "command"
    BY <1>1, <2>2, ParsedAnswer, ValidatedTwice
  <2> QED
    BY <2>1, <2>2
<1>3. PICK o : o = Object(a)
  OBVIOUS
<1>4. a.kind \in Tools \cup {"command"}
  BY DEF Executable
<1>5. o.keys = {a.kind} /\ o.done = FALSE /\ o.typed = TRUE /\ o.arg = a
  BY <1>3, <1>4 DEF Object, Tools
<1>6. o \in Objects
  <2>1. o = [keys |-> o.keys, done |-> o.done, typed |-> o.typed, arg |-> o.arg]
    BY <1>3 DEF Object
  <2>2. o \in [keys : SUBSET (Tools \cup {"command"}), done : BOOLEAN, typed : BOOLEAN, arg : Actions]
    BY <1>1, <1>4, <1>5, <2>1
  <2>3. o.keys \cap Tools = {} /\ ~o.done => o.arg.kind = "command"
    BY <1>4, <1>5
  <2> QED
    BY <2>2, <2>3 DEF Objects
<1>7. ParseObject(o) = a
  <2>1. CASE a.kind \in Tools
    <3>1. o.keys = {o.arg.kind} /\ ~o.done
      BY <1>5
    <3> QED
      BY <1>2, <1>5, <3>1 DEF ParseObject
  <2>2. CASE a.kind = "command"
    <3>1. o.keys \cap Tools = {}
      BY <1>5, <2>2 DEF Tools
    <3> QED
      BY <1>2, <1>5, <3>1 DEF ParseObject
  <2> QED
    BY <1>4, <2>1, <2>2
<1>8. PICK p : p = Plain(a)
  OBVIOUS
<1>9. p = [form |-> "json", objects |-> <<o>>] /\ p.form = "json" /\ p.objects = <<o>>
  BY <1>3, <1>8 DEF Plain
<1>10. p \in Answers
  <2>1. <<o>> \in Seq(Objects)
    BY <1>6
  <2> QED
    BY <1>9, <2>1 DEF Answers
<1>11. <<o>> # <<>> /\ Len(<<o>>) = 1 /\ Head(<<o>>) = o /\ Last(<<o>>) = o
  BY DEF Last
<1>12. ParseAction(p) = a
  BY <1>7, <1>9, <1>11 DEF ParseAction, Chosen
<1> QED
  BY <1>1, <1>8, <1>10, <1>12

-----------------------------------------------------------------------------
(* Types.                                                                  *)

Contents == Seq(Lines)

Packets == [path : Paths, sha : Contents, text : Contents]

ReceiptTypes == [ok : BOOLEAN, out : Nat, cut : BOOLEAN, packet : Seq(Packets), format : {"raw", "source"}]

MessageTypes ==
  {System, Task, Feedback}
    \cup [role : {"assistant"}, response : Answers]
    \cup [role : {"result"}, receipt : ReceiptTypes]
    \cup [role : {"rejection"}, why : {"invalid", "navigation", "repeated"}]
    \cup [role : {"warning"}, about : {"invalid", "navigation", "repeated", "unverified", "failed", "checkpoint"}]

Outcomes == {"ran", "rejected", "unverified", "navigation", "repeated", "finished", "unparsed"}

Trees == [Paths -> Contents]

TurnTypes ==
  [answer : Answers, action : Parsed \cup {Invalid}, outcome : Outcomes, context : Seq(MessageTypes),
   before : Trees, after : Trees, expected : Contents, receipt : ReceiptTypes \cup {<<>>}]

\* A turn is about the action of its answer, one of those its outcome is for.
TurnIsWhole(t) ==
  /\ t.action = ParseAction(t.answer)
  /\ t.outcome \in {"ran", "repeated"} => t.action.kind \in Tools \cup {"command"}
  /\ t.outcome = "ran" => t.receipt \in ReceiptTypes /\ t.receipt.format = "raw"
  /\ t.outcome = "ran" /\ t.action.kind = "read" /\ t.receipt.ok => Len(t.receipt.packet) = 1
  /\ t.outcome \in {"finished", "unverified"} => t.action = Done
  /\ t.outcome = "navigation" => t.action.kind = "read"
  /\ t.outcome \in {"rejected", "unparsed"} => t.action = Invalid \/ t.action.kind = "edit"

Typing ==
  /\ policy \in BoundedPolicies
  /\ files \in Trees /\ tested \in Trees
  /\ observations \in Seq(Packets)
  /\ answer \in Seq(Responses) /\ Len(answer) <= 1
  /\ turns \in Seq(TurnTypes)
  /\ \A n \in DOMAIN turns : TurnIsWhole(turns[n])
  /\ status \in {"running", "completed", "failed", "interrupted"}

\* The parts of a message, by its role.
LEMMA Roles ==
  ASSUME NEW m \in MessageTypes
  PROVE  /\ m.role \in {"system", "task", "feedback", "assistant", "result", "rejection", "warning"}
         /\ m.role = "assistant" => m.response \in Answers /\ m = Assistant(m.response)
         /\ m.role = "result" => m.receipt \in ReceiptTypes /\ m = Result(m.receipt)
         /\ m.role = "rejection" => m = Rejection(m.why)
         /\ m.role = "warning" => m = Warning(m.about)
         /\ m.role = "system" <=> m = System
         /\ m.role = "task" <=> m = Task
BY DEF MessageTypes, System, Task, Feedback, Assistant, Result, Rejection, Warning

LEMMA MessagesTyping ==
  /\ System \in MessageTypes /\ Task \in MessageTypes /\ Feedback \in MessageTypes
  /\ \A r \in Answers : Assistant(r) \in MessageTypes
  /\ \A r \in ReceiptTypes : Result(r) \in MessageTypes
  /\ \A w \in {"invalid", "navigation", "repeated"} : Rejection(w) \in MessageTypes
  /\ \A w \in {"invalid", "navigation", "repeated", "unverified", "failed", "checkpoint"} : Warning(w) \in MessageTypes
BY DEF MessageTypes, System, Task, Feedback, Assistant, Result, Rejection, Warning

LEMMA AnswerTyping ==
  ASSUME Typing, answer # <<>>
  PROVE  /\ answer = <<answer[1]>> /\ answer[1] \in Responses /\ answer[1] \in Answers
         /\ Action \in Parsed \cup {Invalid}
         /\ Action # Invalid => Action \in Actions
<1>1. Len(answer) = 1 /\ answer[1] \in Responses /\ answer = <<answer[1]>>
  <2>1. answer \in Seq(Responses) /\ Len(answer) <= 1 /\ Len(answer) \in Nat
    BY DEF Typing
  <2>2. Len(answer) = 1
    <3>1. PICK l : l = Len(answer)
      OBVIOUS
    <3>2. l # 0
      BY <2>1, <3>1
    <3> QED
      BY <2>1, <3>1, <3>2
  <2> QED
    BY <2>1, <2>2
<1>2. answer[1] \in Answers
  BY <1>1, ConversationAssumption
<1>3. Action \in Parsed \cup {Invalid}
  BY <1>2, ParseTyping DEF Action
<1> QED
  BY <1>1, <1>2, <1>3 DEF Parsed

-----------------------------------------------------------------------------
(* What the tools answer.                                                  *)

LEMMA ReceiptTyping ==
  ASSUME NEW ok \in BOOLEAN, NEW out \in Nat
  PROVE  /\ Receipt(ok, out) \in ReceiptTypes
         /\ Receipt(ok, out).ok = ok /\ Receipt(ok, out).format = "raw" /\ Receipt(ok, out).out = out
<1>1. <<>> \in Seq(Packets)
  OBVIOUS
<1> QED
  BY <1>1 DEF Receipt, ReceiptTypes

\* The largest member of a set of numbers below a bound.
LEMMA Largest ==
  ASSUME NEW S, NEW k \in Nat, S \subseteq 0 .. k, S # {}
  PROVE  Max(S) \in S /\ \A x \in S : x <= Max(S)
<1> DEFINE B == {n \in Nat : \A R \in SUBSET (0 .. n) : R # {} => \E x \in R : \A y \in R : x >= y}
<1>1. 0 \in B
  <2> SUFFICES ASSUME NEW R \in SUBSET (0 .. 0), R # {}
               PROVE  \E x \in R : \A y \in R : x >= y
    OBVIOUS
  <2>1. \A y \in R : y \in 0 .. 0
    OBVIOUS
  <2>2. \A y \in R : y = 0
    BY <2>1
  <2>3. 0 \in R
    BY <2>2
  <2> QED
    BY <2>2, <2>3
<1>2. ASSUME NEW n \in Nat, n \in B
      PROVE  n + 1 \in B
  <2> SUFFICES ASSUME NEW R \in SUBSET (0 .. n + 1), R # {}
               PROVE  \E x \in R : \A y \in R : x >= y
    OBVIOUS
  <2>1. CASE n + 1 \in R
    <3>1. \A y \in R : n + 1 >= y
      OBVIOUS
    <3> QED
      BY <2>1, <3>1
  <2>2. CASE n + 1 \notin R
    <3>1. R \in SUBSET (0 .. n)
      BY <2>2
    <3> QED
      BY <1>2, <3>1
  <2> QED
    BY <2>1, <2>2
<1>3. Nat \subseteq B
  <2> HIDE DEF B
  <2> QED
    BY <1>1, <1>2, InductiveSet
<1>4. k \in B
  BY <1>3
<1>5. \E x \in S : \A y \in S : x >= y
  BY <1>4
<1>6. Max(S) \in S /\ \A y \in S : Max(S) >= y
  BY <1>5 DEF Max
<1> QED
  BY <1>6

LEMMA OccurrencesAreFinite ==
  ASSUME NEW c \in Contents, NEW line
  PROVE  IsFiniteSet(Occurrences(c, line)) /\ Cardinality(Occurrences(c, line)) \in Nat
<1>1. DOMAIN c = 1 .. Len(c) /\ Len(c) \in Nat
  BY DEF Contents
<1>2. IsFiniteSet(1 .. Len(c))
  BY <1>1, FS_Interval
<1>3. Occurrences(c, line) \subseteq 1 .. Len(c)
  BY <1>1 DEF Occurrences
<1>4. IsFiniteSet(Occurrences(c, line))
  BY <1>2, <1>3, FS_Subset
<1> QED
  BY <1>4, FS_CardinalityType

\* A read answers with the version of the file and some of its lines, or fails.
LEMMA ReadTyping ==
  ASSUME NEW c \in Contents, NEW a \in Parsed, a.kind = "read"
  PROVE  LET r == ReadReceipt(c, a) IN
         /\ r \in ReceiptTypes /\ r.format = "raw"
         /\ r.ok => \E text \in Contents : r.packet = <<[path |-> a.path, sha |-> c, text |-> text]>>
<1>1. /\ a.path \in Paths /\ a.from \in Nat /\ a.to \in Nat /\ 1 <= a.from /\ a.from <= a.to
      /\ Len(c) \in Nat /\ c \in Seq(Lines)
  BY Kinds DEF Parsed, Contents
<1>2. CASE Ends(c, a) = {}
  <2>1. ReadReceipt(c, a) = Receipt(FALSE, 1)
    BY <1>2 DEF ReadReceipt
  <2>2. Receipt(FALSE, 1) \in ReceiptTypes /\ Receipt(FALSE, 1).ok = FALSE /\ Receipt(FALSE, 1).format = "raw"
    BY ReceiptTyping
  <2> QED
    BY <2>1, <2>2
<1>3. CASE Ends(c, a) # {}
  <2>1. PICK m : m = Min({a.to, Len(c)})
    OBVIOUS
  <2>2. m \in Nat /\ m <= Len(c)
    <3>1. \E x \in {a.to, Len(c)} : \A y \in {a.to, Len(c)} : x <= y
      BY <1>1
    <3>2. m \in {a.to, Len(c)} /\ \A y \in {a.to, Len(c)} : m <= y
      BY <2>1, <3>1 DEF Min
    <3> QED
      BY <1>1, <3>2
  <2>3. Ends(c, a) \subseteq a.from .. m
    BY <2>1 DEF Ends
  <2>4. Ends(c, a) \subseteq 0 .. m
    BY <1>1, <2>2, <2>3
  <2>5. PICK k : k = Max(Ends(c, a)) /\ k \in Ends(c, a)
    BY <1>3, <2>2, <2>4, Largest
  <2>6. k \in Nat /\ a.from <= k /\ k <= Len(c)
    BY <1>1, <2>2, <2>3, <2>5
  <2>7. PICK text : text = SubSeq(c, a.from, k)
    OBVIOUS
  <2>8. text \in Contents /\ Len(text) \in Nat
    <3>1. \A i \in a.from .. k : i \in 1 .. Len(c)
      BY <1>1, <2>6
    <3>2. text \in Seq(Lines)
      BY <1>1, <2>6, <2>7, <3>1
    <3> QED
      BY <3>2 DEF Contents
  <2>9. PICK p : p = [path |-> a.path, sha |-> c, text |-> text]
    OBVIOUS
  <2>10. p \in Packets
    BY <1>1, <2>8, <2>9 DEF Packets
  <2>11. <<p>> \in Seq(Packets)
    BY <2>10
  <2>12. PICK r0 : r0 = Receipt(TRUE, Len(text)) /\ r0 \in ReceiptTypes /\ r0.format = "raw"
    BY <2>8, ReceiptTyping
  <2>13. PICK r : r = [r0 EXCEPT !.packet = <<p>>]
    OBVIOUS
  <2>14. ReadReceipt(c, a) = r
    BY <1>3, <2>5, <2>7, <2>9, <2>12, <2>13 DEF ReadReceipt
  <2>15. r \in ReceiptTypes /\ r.format = "raw" /\ r.packet = <<p>>
    BY <2>11, <2>12, <2>13 DEF ReceiptTypes
  <2> QED
    BY <2>8, <2>9, <2>14, <2>15
<1> QED
  BY <1>2, <1>3

LEMMA UpdatedTyping ==
  ASSUME NEW c \in Contents, NEW a \in Actions, a.kind = "edit"
  PROVE  Updated(c, a) \in Contents
<1>1. DOMAIN c = 1 .. Len(c) /\ Len(c) \in Nat /\ a.after \in Lines /\ \A n \in 1 .. Len(c) : c[n] \in Lines
  BY Kinds DEF Contents
<1>2. Updated(c, a) = [n \in 1 .. Len(c) |-> IF c[n] = a.before THEN a.after ELSE c[n]]
  BY <1>1 DEF Updated
<1>3. \A n \in 1 .. Len(c) : (IF c[n] = a.before THEN a.after ELSE c[n]) \in Lines
  BY <1>1
<1>4. [n \in 1 .. Len(c) |-> IF c[n] = a.before THEN a.after ELSE c[n]] \in Seq(Lines)
  BY <1>1, <1>3
<1> QED
  BY <1>2, <1>4 DEF Contents

\* The possible outcomes of a tool, tool by tool.
LEMMA Outcome ==
  ASSUME Typing, Runs, NEW o \in ToolOutcomes
  PROVE  /\ o.receipt \in ReceiptTypes /\ o.receipt.format = "raw" /\ o.files \in Trees
         /\ Action.kind \in Tools \cup {"command"} /\ Action \in Parsed
         /\ Action.kind = "edit" =>
              IF Applies(files[Action.path], Action, Expected)
              THEN o.receipt.ok /\ o.files = [files EXCEPT ![Action.path] = Updated(@, Action)]
              ELSE ~o.receipt.ok /\ o.files = files
         /\ Action.kind = "read" =>
              /\ o.files = files
              /\ o.receipt.ok => \E text \in Contents : o.receipt.packet = <<[path |-> Action.path, sha |-> files[Action.path], text |-> text]>>
         /\ Action.kind = "search" => o.files = files
<1>1. answer # <<>> /\ Action # Invalid /\ Action.kind # "done"
  BY DEF Runs, Answered, Valid
<1>2. Action \in Parsed /\ Action \in Actions
  BY <1>1, AnswerTyping
<1>3. Action.kind \in {"edit", "read", "search", "command"}
  BY <1>1, <1>2, Kinds
<1>4. files \in Trees /\ (\A p \in Paths : files[p] \in Contents)
  BY DEF Typing, Trees
<1>5. /\ Receipt(TRUE, 0) \in ReceiptTypes /\ Receipt(TRUE, 0).format = "raw" /\ Receipt(TRUE, 0).ok
      /\ Receipt(FALSE, 1) \in ReceiptTypes /\ Receipt(FALSE, 1).format = "raw" /\ ~Receipt(FALSE, 1).ok
      /\ \A ok \in BOOLEAN : Receipt(ok, LatestChars + 1) \in ReceiptTypes /\ Receipt(ok, LatestChars + 1).format = "raw"
  <2>1. LatestChars + 1 \in Nat
    BY ContextHistoryAssumption
  <2> QED
    BY <2>1, ReceiptTyping
<1>6. CASE Action.kind = "edit"
  <2>1. PICK c : c = files[Action.path] /\ c \in Contents /\ Action.path \in Paths
    BY <1>2, <1>4, <1>6, Kinds
  <2>4. o = IF Applies(files[Action.path], Action, Expected)
            THEN [receipt |-> Receipt(TRUE, 0), files |-> [files EXCEPT ![Action.path] = Updated(@, Action)]]
            ELSE [receipt |-> Receipt(FALSE, 1), files |-> files]
    <3>1. ToolOutcomes = {IF Applies(files[Action.path], Action, Expected)
                          THEN [receipt |-> Receipt(TRUE, 0), files |-> [files EXCEPT ![Action.path] = Updated(@, Action)]]
                          ELSE [receipt |-> Receipt(FALSE, 1), files |-> files]}
      BY <1>6 DEF ToolOutcomes
    <3> QED
      BY <3>1
  <2>2. CASE Applies(c, Action, Expected)
    <3>1. o = [receipt |-> Receipt(TRUE, 0), files |-> [files EXCEPT ![Action.path] = Updated(@, Action)]]
      BY <2>1, <2>2, <2>4
    <3>2. [files EXCEPT ![Action.path] = Updated(@, Action)] \in Trees
      BY <1>2, <1>4, <1>6, <2>1, UpdatedTyping DEF Trees
    <3> QED
      BY <1>2, <1>5, <1>6, <2>1, <2>2, <3>1, <3>2 DEF Tools
  <2>3. CASE ~Applies(c, Action, Expected)
    <3>1. o = [receipt |-> Receipt(FALSE, 1), files |-> files]
      BY <2>1, <2>3, <2>4
    <3> QED
      BY <1>2, <1>4, <1>5, <1>6, <2>1, <2>3, <3>1 DEF Tools
  <2> QED
    BY <2>2, <2>3
<1>7. CASE Action.kind = "read"
  <2>1. PICK c : c = files[Action.path] /\ c \in Contents /\ Action.path \in Paths
    BY <1>2, <1>4, <1>7, Kinds
  <2>2. o = [receipt |-> ReadReceipt(c, Action), files |-> files]
    BY <1>7, <2>1 DEF ToolOutcomes
  <2>3. PICK r : r = ReadReceipt(c, Action)
    OBVIOUS
  <2>4. /\ r \in ReceiptTypes /\ r.format = "raw"
        /\ r.ok => \E text \in Contents : r.packet = <<[path |-> Action.path, sha |-> c, text |-> text]>>
    BY <1>2, <1>7, <2>1, <2>3, ReadTyping
  <2>5. o.receipt = r /\ o.files = files
    BY <2>2, <2>3
  <2> QED
    BY <1>2, <1>4, <1>7, <2>1, <2>4, <2>5 DEF Tools
<1>8. CASE Action.kind = "search"
  <2>1. PICK c : c = files[Action.path] /\ c \in Contents /\ Action.path \in Paths
    BY <1>2, <1>4, <1>8, Kinds
  <2>2. o = [receipt |-> SearchReceipt(c, Action), files |-> files]
    BY <1>8, <2>1 DEF ToolOutcomes
  <2>3. SearchReceipt(c, Action) \in ReceiptTypes /\ SearchReceipt(c, Action).format = "raw"
    BY <2>1, OccurrencesAreFinite, ReceiptTyping DEF SearchReceipt
  <2> QED
    BY <1>2, <1>4, <1>8, <2>2, <2>3 DEF Tools
<1>9. CASE Action.kind = "command"
  <2>1. CASE Action.command \in Writers
    <3>1. PICK p \in Paths, c \in Rewritten : o = [receipt |-> Receipt(TRUE, LatestChars + 1), files |-> [files EXCEPT ![p] = c]]
      <4>1. ToolOutcomes = UNION {{[receipt |-> Receipt(TRUE, LatestChars + 1), files |-> [files EXCEPT ![p] = c]] :
                                     c \in Rewritten} : p \in Paths}
        BY <1>9, <2>1 DEF ToolOutcomes
      <4> QED
        BY <4>1
    <3>2. c \in Contents
      BY ConversationAssumption DEF Contents
    <3>3. [files EXCEPT ![p] = c] \in Trees
      BY <1>4, <3>2 DEF Trees
    <3> QED
      BY <1>2, <1>5, <1>9, <3>1, <3>3
  <2>2. CASE Action.command \notin Writers
    <3>1. PICK ok \in BOOLEAN : o = [receipt |-> Receipt(ok, LatestChars + 1), files |-> files]
      BY <1>9, <2>2 DEF ToolOutcomes
    <3> QED
      BY <1>2, <1>4, <1>5, <1>9, <3>1
  <2> QED
    BY <2>1, <2>2
<1> QED
  BY <1>3, <1>6, <1>7, <1>8, <1>9

-----------------------------------------------------------------------------
(* Messages, read one after the other.                                     *)

IsReceipt(m) == m.role \in {"result", "rejection"}

Dialogues ==
  [action : {m \in MessageTypes : m.role = "assistant"}, receipt : {m \in MessageTypes : IsReceipt(m)}]

\* The answers since the last receipt.
Unanswered(ms) == {j \in DOMAIN ms : j > LastReceipt(ms, Len(ms)) /\ ms[j].role = "assistant"}

\* Interventions, each once.
Interventions(w) ==
  /\ w \in Seq(MessageTypes)
  /\ \A k \in DOMAIN w : w[k].role = "warning"
  /\ \A i, j \in DOMAIN w : w[i] = w[j] => i = j

\* Messages with their interactions, the answers that have no receipt yet and
\* the interventions that are active.  The answer to a receipt comes right before it.
Scanned(ms, xs, open, w) ==
  /\ ms \in Seq(MessageTypes) /\ Len(ms) >= 2 /\ ms[1] = System /\ ms[2] = Task
  /\ \A i \in Receipts(ms) : ActionsBefore(ms, i) = {i - 1}
  /\ Interactions(ms) = xs /\ xs \in Seq(Dialogues)
  /\ xs = <<>> <=> Receipts(ms) = {}
  /\ xs # <<>> => LET i == LastReceipt(ms, Len(ms))
                  IN  i \in Receipts(ms) /\ xs[Len(xs)] = [action |-> ms[i - 1], receipt |-> ms[i]]
  /\ (\E i \in DOMAIN ms : ms[i].role = "rejection") <=> (\E k \in DOMAIN xs : xs[k].receipt.role = "rejection")
  /\ Unanswered(ms) = open
  /\ Active(ms) = w /\ Interventions(w)

LEMMA ReceiptsBelow ==
  ASSUME NEW ms \in Seq(MessageTypes), NEW n \in Nat
  PROVE  /\ LastReceipt(ms, n) \in Nat /\ 2 <= LastReceipt(ms, n)
         /\ LastReceipt(ms, n) = 2 \/ (LastReceipt(ms, n) \in Receipts(ms) /\ LastReceipt(ms, n) <= n)
         /\ \A i \in Receipts(ms) : i <= n => i <= LastReceipt(ms, n)
<1>1. PICK S : S = {j \in Receipts(ms) : j <= n} \cup {2}
  OBVIOUS
<1>2. Receipts(ms) \subseteq 1 .. Len(ms) /\ Len(ms) \in Nat
  BY DEF Receipts
<1>3. PICK k \in Nat : n <= k /\ 2 <= k
  <2>1. n <= n + 2 /\ 2 <= n + 2 /\ n + 2 \in Nat
    OBVIOUS
  <2> QED
    BY <2>1
<1>4. S \subseteq 0 .. k /\ S # {}
  <2>1. \A j \in Receipts(ms) : j \in Nat
    BY <1>2
  <2>2. \A j \in S : j \in Nat /\ j <= k
    BY <1>1, <1>3, <2>1
  <2> QED
    BY <1>1, <2>2
<1>5. Max(S) \in S /\ \A x \in S : x <= Max(S)
  BY <1>3, <1>4, Largest
<1>6. LastReceipt(ms, n) = Max(S)
  BY <1>1 DEF LastReceipt
<1>7. 2 \in S /\ \A i \in Receipts(ms) : i <= n => i \in S
  BY <1>1
<1>8. Max(S) \in Nat
  <2>1. \A j \in S : j \in Nat
    BY <1>3, <1>4
  <2> QED
    BY <1>5, <2>1
<1> QED
  BY <1>1, <1>5, <1>6, <1>7, <1>8

\* What a message changes.
NextInteractions(xs, ms, m) ==
  IF IsReceipt(m) THEN Append(xs, [action |-> ms[Len(ms)], receipt |-> m]) ELSE xs

NextOpen(open, ms, m) ==
  IF IsReceipt(m) THEN {} ELSE IF m.role = "assistant" THEN open \cup {Len(ms) + 1} ELSE open

NextActive(w, m) ==
  IF IsReceipt(m) THEN <<>>
  ELSE IF m.role = "warning" /\ ~(\E k \in DOMAIN w : w[k] = m) THEN Append(w, m) ELSE w

\* One more message does not change what was read before.
OneLonger(u, ms, m, n) ==
  /\ u = Append(ms, m)
  /\ u \in Seq(MessageTypes) /\ n \in Nat /\ Len(u) = n + 1 /\ DOMAIN ms = 1 .. n /\ DOMAIN u = 1 .. n + 1
  /\ u[n + 1] = m /\ \A i \in 1 .. n : u[i] = ms[i] /\ ms[i] \in MessageTypes
  /\ \A i : i \in Receipts(u) <=> i \in Receipts(ms) \/ (i = n + 1 /\ IsReceipt(m))
  /\ Receipts(ms) \subseteq 1 .. n
  /\ \A k \in 0 .. n : LastReceipt(u, k) = LastReceipt(ms, k)
  /\ \A i \in 1 .. n : ActionsBefore(u, i) = ActionsBefore(ms, i)

LEMMA OneMore ==
  ASSUME NEW ms \in Seq(MessageTypes), NEW m \in MessageTypes, NEW u, u = Append(ms, m), NEW n, n = Len(ms)
  PROVE  OneLonger(u, ms, m, n)
<1>1. /\ u \in Seq(MessageTypes) /\ n \in Nat /\ Len(u) = n + 1 /\ DOMAIN ms = 1 .. n /\ DOMAIN u = 1 .. n + 1
      /\ u[n + 1] = m /\ \A i \in 1 .. n : u[i] = ms[i] /\ ms[i] \in MessageTypes
  OBVIOUS
<1>2. Receipts(ms) \subseteq 1 .. n /\ Receipts(u) \subseteq 1 .. n + 1 /\ \A i \in 1 .. n : i \in Receipts(u) <=> i \in Receipts(ms)
  BY <1>1 DEF Receipts
<1>3. n + 1 \in Receipts(u) <=> IsReceipt(m)
  BY <1>1 DEF Receipts, IsReceipt
<1>4. \A k \in 0 .. n : LastReceipt(u, k) = LastReceipt(ms, k)
  <2> SUFFICES ASSUME NEW k \in 0 .. n
               PROVE  LastReceipt(u, k) = LastReceipt(ms, k)
    OBVIOUS
  <2>1. {j \in Receipts(u) : j <= k} = {j \in Receipts(ms) : j <= k}
    BY <1>1, <1>2
  <2> QED
    BY <2>1 DEF LastReceipt
<1>5. \A i \in 1 .. n : ActionsBefore(u, i) = ActionsBefore(ms, i)
  <2> SUFFICES ASSUME NEW i \in 1 .. n
               PROVE  ActionsBefore(u, i) = ActionsBefore(ms, i)
    OBVIOUS
  <2>1. i - 1 \in 0 .. n /\ i - 1 \in Nat
    BY <1>1
  <2>2. PICK l : l = LastReceipt(ms, i - 1) /\ l = LastReceipt(u, i - 1) /\ l \in Nat
    BY <1>4, <2>1, ReceiptsBelow
  <2>3. \A j \in l + 1 .. i : j \in 1 .. n /\ u[j] = ms[j]
    BY <1>1, <2>2
  <2>4. {j \in l + 1 .. i : u[j].role = "assistant"} = {j \in l + 1 .. i : ms[j].role = "assistant"}
    BY <2>3
  <2> QED
    BY <2>2, <2>4 DEF ActionsBefore
<1>6. \A i : i \in Receipts(u) <=> i \in Receipts(ms) \/ (i = n + 1 /\ IsReceipt(m))
  <2>1. \A i : i \in 1 .. n + 1 <=> i \in 1 .. n \/ i = n + 1
    BY <1>1
  <2>2. n + 1 \notin 1 .. n
    BY <1>1
  <2>3. n + 1 \notin Receipts(ms)
    BY <1>2, <2>2
  <2> QED
    BY <1>2, <1>3, <2>1, <2>2, <2>3
<1> QED
  BY <1>1, <1>2, <1>4, <1>5, <1>6 DEF OneLonger

LEMMA ScannedStart ==
  ASSUME NEW ms, ms = <<System, Task>>
  PROVE  Scanned(ms, <<>>, {}, <<>>)
<1>1. ms \in Seq(MessageTypes) /\ Len(ms) = 2 /\ ms[1] = System /\ ms[2] = Task /\ DOMAIN ms = 1 .. 2
  BY MessagesTyping
<1>2. System.role = "system" /\ Task.role = "task"
  BY DEF System, Task
<1>3. \A i \in 1 .. 2 : ms[i].role \in {"system", "task"}
  BY <1>1, <1>2
<1>4. Receipts(ms) = {} /\ Warnings(ms) = {}
  BY <1>1, <1>3 DEF Receipts, Warnings
<1>5. Unanswered(ms) = {}
  BY <1>1, <1>3 DEF Unanswered
<1>6. Active(ms) = <<>>
  <2>1. Active(ms) = Picked(ms, {})
    <3>1. PICK since : since = {i \in Warnings(ms) : i > LastReceipt(ms, Len(ms))}
      OBVIOUS
    <3>2. since = {} /\ {i \in since : \A j \in since : j < i => ms[j] # ms[i]} = {}
      BY <1>4, <3>1
    <3>3. Active(ms) = Picked(ms, {i \in since : \A j \in since : j < i => ms[j] # ms[i]})
      BY <3>1 DEF Active
    <3> QED
      BY <3>2, <3>3
  <2>2. PICK I, p : I = {} /\ p = Picked(ms, I)
    OBVIOUS
  <2>3. p \in Seq(MessageTypes) /\ \A k \in DOMAIN p : \E n \in DOMAIN ms : n \in I
    <3>1. Picked(ms, I) \in Seq(MessageTypes)
      BY <1>1, PickedTyping
    <3>2. \A k \in DOMAIN Picked(ms, I) : \E n \in DOMAIN ms : n \in I
      BY <1>1, PickedElements
    <3> QED
      BY <2>2, <3>1, <3>2
  <2>4. p \in Seq(MessageTypes) /\ DOMAIN p = {}
    BY <2>2, <2>3
  <2>5. p = <<>>
    BY <2>4
  <2> QED
    BY <2>1, <2>2, <2>5
<1>7. Interactions(ms) = <<>>
  <2>1. PICK f : f = [i \in DOMAIN ms |-> IF i \in Receipts(ms)
                THEN <<[action |-> ms[Max(ActionsBefore(ms, i))], receipt |-> ms[i]]>> ELSE <<>>]
    OBVIOUS
  <2>2. f = [i \in 1 .. 2 |-> <<>>]
    BY <1>1, <1>4, <2>1
  <2>3. f = Append(Append(<<>>, <<>>), <<>>)
    BY <2>2
  <2>4. PICK T, R, e, q : T = {0} /\ R = {<<>>} /\ e = <<>> /\ q = Append(<<>>, e)
    OBVIOUS
  <2>5. \A r \in R : r \in Seq(T)
    BY <2>4
  <2>10. e \in R /\ <<>> \in Seq(R) /\ q \in Seq(R)
    BY <2>4
  <2>6. FlattenSeq(Append(<<>>, e)) = FlattenSeq(<<>>) \o e
    BY <2>5, <2>10, FlattenAppend, ZenonT(60)
  <2>7. FlattenSeq(Append(q, e)) = FlattenSeq(q) \o e
    BY <2>5, <2>10, FlattenAppend, ZenonT(60)
  <2>8. <<>> \o <<>> = <<>>
    OBVIOUS
  <2>9. FlattenSeq(f) = <<>>
    BY <2>3, <2>4, <2>6, <2>7, <2>8, FlattenEmpty
  <2> QED
    BY <2>1, <2>9 DEF Interactions
<1>8. <<>> \in Seq(Dialogues) /\ Interventions(<<>>)
  <2>1. <<>> \in Seq(Dialogues) /\ <<>> \in Seq(MessageTypes) /\ DOMAIN <<>> = {}
    OBVIOUS
  <2> QED
    BY <2>1 DEF Interventions
<1> QED
  BY <1>1, <1>3, <1>4, <1>5, <1>6, <1>7, <1>8 DEF Scanned


\* FlattenAppend with its hypotheses as facts.
LEMMA FlattenLast ==
  ASSUME NEW T, NEW R, NEW ss, NEW q, \A r \in R : r \in Seq(T), ss \in Seq(R), q \in R
  PROVE  FlattenSeq(Append(ss, q)) = FlattenSeq(ss) \o q
BY FlattenAppend

\* Only the positions in the sequence count.
LEMMA PickedSame ==
  ASSUME NEW s, NEW I, NEW J, \A n \in DOMAIN s : n \in I <=> n \in J
  PROVE  Picked(s, I) = Picked(s, J)
<1>1. [n \in DOMAIN s |-> IF n \in I THEN <<s[n]>> ELSE <<>>] = [n \in DOMAIN s |-> IF n \in J THEN <<s[n]>> ELSE <<>>]
  OBVIOUS
<1> QED
  BY <1>1 DEF Picked

\* The interventions since the last receipt, and the first occurrence of each.
SinceReceipt(ms) == {i \in Warnings(ms) : i > LastReceipt(ms, Len(ms))}

Firsts(ms) == {i \in SinceReceipt(ms) : \A j \in SinceReceipt(ms) : j < i => ms[j] # ms[i]}

LEMMA ActiveFirsts ==
  ASSUME NEW ms
  PROVE  Active(ms) = Picked(ms, Firsts(ms))
BY DEF Active, Firsts, SinceReceipt

LEMMA SinceReceiptTyping ==
  ASSUME NEW ms \in Seq(MessageTypes)
  PROVE  SinceReceipt(ms) \subseteq 1 .. Len(ms)
BY DEF SinceReceipt, Warnings

\* The active interventions are those since the last receipt.
LEMMA ActiveElements ==
  ASSUME NEW ms \in Seq(MessageTypes), NEW m
  PROVE  (\E k \in DOMAIN Active(ms) : Active(ms)[k] = m) <=> (\E j \in SinceReceipt(ms) : ms[j] = m)
<1>1. PICK I, w : I = Firsts(ms) /\ w = Picked(ms, I) /\ w = Active(ms)
  BY ActiveFirsts
<1>2. /\ \A k \in DOMAIN w : \E n \in DOMAIN ms : n \in I /\ w[k] = ms[n]
      /\ \A n \in DOMAIN ms : n \in I => \E k \in DOMAIN w : w[k] = ms[n]
  <2>1. /\ \A k \in DOMAIN Picked(ms, I) : \E n \in DOMAIN ms : n \in I /\ Picked(ms, I)[k] = ms[n]
        /\ \A n \in DOMAIN ms : n \in I => \E k \in DOMAIN Picked(ms, I) : Picked(ms, I)[k] = ms[n]
    BY PickedElements
  <2> QED
    BY <1>1, <2>1
<1>3. ASSUME NEW k \in DOMAIN w, w[k] = m
      PROVE  \E j \in SinceReceipt(ms) : ms[j] = m
  <2>1. PICK n \in DOMAIN ms : n \in I /\ w[k] = ms[n]
    BY <1>2
  <2>2. n \in SinceReceipt(ms)
    BY <1>1, <2>1 DEF Firsts
  <2> QED
    BY <1>3, <2>1, <2>2
<1>4. ASSUME NEW j \in SinceReceipt(ms), ms[j] = m
      PROVE  \E k \in DOMAIN w : w[k] = m
  <2> DEFINE S == {i \in SinceReceipt(ms) : ms[i] = m}
  <2>1. S \subseteq Nat /\ S # {}
    BY <1>4, SinceReceiptTyping
  <2>2. PICK i \in S : \A v \in S : <<v, i>> \notin OpToRel(<, Nat)
    BY <2>1, NatLessThanWellFounded, WFMin, Zenon
  <2>3. \A v \in S : ~(v < i)
    BY <2>1, <2>2 DEF OpToRel
  <2>4. i \in I
    BY <1>1, <2>2, <2>3 DEF Firsts
  <2>5. i \in DOMAIN ms /\ ms[i] = m
    <3>1. i \in SinceReceipt(ms) /\ ms[i] = m
      BY <2>2
    <3>2. SinceReceipt(ms) \subseteq 1 .. Len(ms) /\ DOMAIN ms = 1 .. Len(ms)
      BY SinceReceiptTyping
    <3> QED
      BY <3>1, <3>2
  <2> QED
    BY <1>2, <2>4, <2>5
<1> QED
  BY <1>1, <1>3, <1>4

\* The answers a further receipt is for are those without a receipt so far.
LEMMA OneMoreReceipt ==
  ASSUME NEW ms, NEW m, NEW u, NEW n, ms \in Seq(MessageTypes), n = Len(ms), OneLonger(u, ms, m, n), IsReceipt(m)
  PROVE  ActionsBefore(u, n + 1) = Unanswered(ms)
<1>1. /\ n \in Nat /\ DOMAIN ms = 1 .. n /\ u[n + 1] = m /\ (\A i \in 1 .. n : u[i] = ms[i])
      /\ LastReceipt(u, n) = LastReceipt(ms, n)
  BY DEF OneLonger
<1>2. m.role # "assistant"
  BY DEF IsReceipt
<1>3. PICK l : l = LastReceipt(ms, n) /\ l \in Nat
  BY <1>1, ReceiptsBelow
<1>4. ActionsBefore(u, n + 1) = {j \in l + 1 .. n + 1 : u[j].role = "assistant"}
  BY <1>1, <1>3 DEF ActionsBefore
<1>5. Unanswered(ms) = {j \in 1 .. n : j > l /\ ms[j].role = "assistant"}
  BY <1>1, <1>3 DEF Unanswered
<1>6. \A j : j \in l + 1 .. n + 1 <=> (j \in 1 .. n /\ j > l) \/ (j = n + 1 /\ l <= n)
  BY <1>1, <1>3
<1>7. \A j : j \in {i \in l + 1 .. n + 1 : u[i].role = "assistant"} <=> j \in {i \in 1 .. n : i > l /\ ms[i].role = "assistant"}
  BY <1>1, <1>2, <1>6
<1> QED
  BY <1>4, <1>5, <1>7

\* The receipts of more messages, as interactions.
LEMMA InteractionsAppend ==
  ASSUME NEW ms, NEW xs, NEW open, NEW w, Scanned(ms, xs, open, w),
         NEW m, NEW u, NEW n, n = Len(ms), m \in MessageTypes, OneLonger(u, ms, m, n),
         IsReceipt(m) => open = {n}
  PROVE  Interactions(u) = NextInteractions(xs, ms, m)
<1>0. /\ ms \in Seq(MessageTypes)
      /\ Interactions(ms) = xs /\ xs \in Seq(Dialogues)
      /\ (\A i \in Receipts(ms) : ActionsBefore(ms, i) = {i - 1})
      /\ Unanswered(ms) = open
  BY DEF Scanned
<1>1. /\ u \in Seq(MessageTypes) /\ n \in Nat /\ Len(u) = n + 1 /\ DOMAIN ms = 1 .. n /\ DOMAIN u = 1 .. n + 1
      /\ u[n + 1] = m /\ (\A i \in 1 .. n : u[i] = ms[i] /\ ms[i] \in MessageTypes)
      /\ (\A i \in 1 .. n : ActionsBefore(u, i) = ActionsBefore(ms, i))
      /\ (\A i : i \in Receipts(u) <=> i \in Receipts(ms) \/ (i = n + 1 /\ IsReceipt(m)))
      /\ Receipts(ms) \subseteq 1 .. n
  BY DEF OneLonger
<1>15. IsReceipt(m) => ActionsBefore(u, n + 1) = {n} /\ n \in DOMAIN ms
  <2>1. ASSUME IsReceipt(m)
        PROVE  ActionsBefore(u, n + 1) = Unanswered(ms)
    BY <1>0, <2>1, OneMoreReceipt
  <2>2. Unanswered(ms) \subseteq DOMAIN ms
    BY DEF Unanswered
  <2> QED
    BY <1>0, <2>1, <2>2
<1>2. \A i \in Int : Max({i - 1}) = i - 1
  BY DEF Max
<1>3. PICK T, R, e, ss, q :
        /\ T = [action : MessageTypes, receipt : MessageTypes]
        /\ R = {<<>>} \cup {<<d>> : d \in T}
        /\ e = [action |-> ms[n], receipt |-> m]
        /\ ss = [i \in DOMAIN ms |-> IF i \in Receipts(ms)
                   THEN <<[action |-> ms[Max(ActionsBefore(ms, i))], receipt |-> ms[i]]>> ELSE <<>>]
        /\ q = IF IsReceipt(m) THEN <<e>> ELSE <<>>
  OBVIOUS
<1>4. \A r \in R : r \in Seq(T)
  <2>1. \A d \in T : <<d>> \in Seq(T)
    OBVIOUS
  <2>2. <<>> \in Seq(T)
    OBVIOUS
  <2> QED
    BY <1>3, <2>1, <2>2, Zenon
<1>5. \A i \in Receipts(ms) : Max(ActionsBefore(ms, i)) = i - 1 /\ i - 1 \in 1 .. n /\ i \in 1 .. n
  <2> SUFFICES ASSUME NEW i \in Receipts(ms)
               PROVE  Max(ActionsBefore(ms, i)) = i - 1 /\ i - 1 \in 1 .. n /\ i \in 1 .. n
    OBVIOUS
  <2>1. i \in 1 .. n /\ i \in Int
    BY <1>1
  <2>2. ActionsBefore(ms, i) = {i - 1}
    BY <1>0
  <2>3. Max(ActionsBefore(ms, i)) = i - 1
    BY <1>2, <2>1, <2>2
  <2>4. i - 1 \in LastReceipt(ms, i - 1) + 1 .. i
    BY <2>2 DEF ActionsBefore
  <2>5. 2 <= LastReceipt(ms, i - 1) /\ LastReceipt(ms, i - 1) \in Nat
    <3>1. i - 1 \in Nat
      BY <2>1
    <3> QED
      BY <1>0, <3>1, ReceiptsBelow
  <2> QED
    BY <2>1, <2>3, <2>4, <2>5
<1>6. ss \in Seq(R) /\ Len(ss) = n /\ q \in R /\ \A i \in 1 .. n : ss[i] \in R
  <2>1. ASSUME NEW i \in 1 .. n
        PROVE  ss[i] \in R
    <3>1. CASE i \in Receipts(ms)
      <4>1. PICK d : d = [action |-> ms[Max(ActionsBefore(ms, i))], receipt |-> ms[i]]
        OBVIOUS
      <4>2. d \in [action : MessageTypes, receipt : MessageTypes] /\ ss[i] = <<d>>
        BY <1>1, <1>3, <1>5, <3>1, <4>1
      <4> QED
        BY <1>3, <4>2
    <3>2. CASE i \notin Receipts(ms)
      BY <1>1, <1>3, <3>2
    <3> QED
      BY <3>1, <3>2
  <2>2. q \in R
    <3>1. CASE IsReceipt(m)
      <4>1. e \in [action : MessageTypes, receipt : MessageTypes]
        BY <1>1, <1>3, <1>15, <3>1
      <4> QED
        BY <1>3, <3>1, <4>1
    <3>2. CASE ~IsReceipt(m)
      BY <1>3, <3>2
    <3> QED
      BY <3>1, <3>2
  <2>3. ss = [i \in 1 .. n |-> ss[i]]
    BY <1>1, <1>3
  <2> QED
    BY <1>1, <2>1, <2>2, <2>3
<1>7. PICK v : v = [i \in DOMAIN u |-> IF i \in Receipts(u)
                   THEN <<[action |-> u[Max(ActionsBefore(u, i))], receipt |-> u[i]]>> ELSE <<>>]
  OBVIOUS
<1>8. \A i \in 1 .. n : v[i] = ss[i]
  <2> SUFFICES ASSUME NEW i \in 1 .. n
               PROVE  v[i] = ss[i]
    OBVIOUS
  <2>1. i \in Receipts(u) <=> i \in Receipts(ms)
    BY <1>1
  <2>2. CASE i \in Receipts(ms)
    <3>1. Max(ActionsBefore(ms, i)) \in 1 .. n
      BY <1>5, <2>2
    <3> QED
      BY <1>1, <1>3, <1>7, <2>1, <2>2, <3>1
  <2>3. CASE i \notin Receipts(ms)
    BY <1>1, <1>3, <1>7, <2>1, <2>3
  <2> QED
    BY <2>2, <2>3
<1>9. v[n + 1] = q
  <2>1. CASE IsReceipt(m)
    <3>1. Max(ActionsBefore(u, n + 1)) = n
      <4>1. Max({n}) = n
        BY <1>1 DEF Max
      <4> QED
        BY <1>15, <2>1, <4>1
    <3>2. n + 1 \in Receipts(u) /\ n \in 1 .. n /\ u[n] = ms[n]
      BY <1>1, <1>15, <2>1
    <3> QED
      BY <1>1, <1>3, <1>7, <2>1, <3>1, <3>2
  <2>2. CASE ~IsReceipt(m)
    <3>1. n + 1 \notin Receipts(u)
      BY <1>1, <2>2
    <3> QED
      BY <1>1, <1>3, <1>7, <2>2, <3>1
  <2> QED
    BY <2>1, <2>2
<1>10. v = Append(ss, q)
  <2>1. PICK t : t = Append(ss, q)
    OBVIOUS
  <2>2. t \in Seq(R) /\ Len(t) = n + 1 /\ t[n + 1] = q /\ \A i \in 1 .. n : t[i] = ss[i]
    BY <1>1, <1>6, <2>1
  <2>3. t = [i \in 1 .. n + 1 |-> t[i]]
    BY <2>2
  <2>4. v = [i \in 1 .. n + 1 |-> v[i]]
    BY <1>1, <1>7
  <2>5. \A i \in 1 .. n + 1 : v[i] = t[i]
    <3>1. \A i \in 1 .. n + 1 : i \in 1 .. n \/ i = n + 1
      BY <1>1
    <3> QED
      BY <1>8, <1>9, <2>2, <3>1
  <2> QED
    BY <2>1, <2>3, <2>4, <2>5
<1>11. FlattenSeq(Append(ss, q)) = FlattenSeq(ss) \o q
  BY <1>4, <1>6, FlattenLast
<1>12. Interactions(ms) = FlattenSeq(ss) /\ Interactions(u) = FlattenSeq(v)
  BY <1>3, <1>7 DEF Interactions
<1>13. PICK f : f = Interactions(ms) /\ f \in Seq(Dialogues) /\ f = xs
  BY <1>0
<1>14. f \o <<e>> = Append(f, e) /\ f \o <<>> = f
  BY <1>13
<1> QED
  BY <1>3, <1>10, <1>11, <1>12, <1>13, <1>14 DEF NextInteractions

LEMMA LastReceiptMore ==
  ASSUME NEW ms, NEW m, NEW u, NEW n, ms \in Seq(MessageTypes), n = Len(ms), n >= 2, OneLonger(u, ms, m, n)
  PROVE  LastReceipt(u, n + 1) = IF IsReceipt(m) THEN n + 1 ELSE LastReceipt(ms, n)
<1>1. /\ n \in Nat /\ u \in Seq(MessageTypes) /\ Receipts(ms) \subseteq 1 .. n
      /\ \A i : i \in Receipts(u) <=> i \in Receipts(ms) \/ (i = n + 1 /\ IsReceipt(m))
  BY DEF OneLonger
<1>2. CASE IsReceipt(m)
  <2>1. PICK l : l = LastReceipt(u, n + 1)
    OBVIOUS
  <2>2. /\ l \in Nat /\ (l = 2 \/ (l \in Receipts(u) /\ l <= n + 1))
        /\ \A i \in Receipts(u) : i <= n + 1 => i <= l
    <3>1. n + 1 \in Nat
      BY <1>1
    <3> QED
      BY <1>1, <2>1, <3>1, ReceiptsBelow
  <2>3. n + 1 \in Receipts(u)
    BY <1>1, <1>2
  <2> QED
    BY <1>1, <1>2, <2>1, <2>2, <2>3
<1>3. CASE ~IsReceipt(m)
  <2>1. {j \in Receipts(u) : j <= n + 1} = {j \in Receipts(ms) : j <= n}
    <3>1. \A j \in 1 .. n : j <= n /\ j <= n + 1
      BY <1>1
    <3>2. \A j : j \in Receipts(u) <=> j \in Receipts(ms)
      BY <1>1, <1>3
    <3> QED
      BY <1>1, <3>1, <3>2
  <2> QED
    BY <1>3, <2>1 DEF LastReceipt
<1> QED
  BY <1>2, <1>3

LEMMA UnansweredMore ==
  ASSUME NEW ms, NEW m, NEW u, NEW n, ms \in Seq(MessageTypes), n = Len(ms), n >= 2, OneLonger(u, ms, m, n),
         m \in MessageTypes
  PROVE  Unanswered(u) = NextOpen(Unanswered(ms), ms, m)
<1>1. /\ n \in Nat /\ Len(u) = n + 1 /\ DOMAIN ms = 1 .. n /\ DOMAIN u = 1 .. n + 1
      /\ u[n + 1] = m /\ \A i \in 1 .. n : u[i] = ms[i]
  BY DEF OneLonger
<1>2. PICK l : l = LastReceipt(ms, n) /\ l \in Nat /\ l <= n
  <2>1. /\ LastReceipt(ms, n) \in Nat
        /\ LastReceipt(ms, n) = 2 \/ (LastReceipt(ms, n) \in Receipts(ms) /\ LastReceipt(ms, n) <= n)
    BY <1>1, ReceiptsBelow
  <2> QED
    BY <1>1, <2>1
<1>3. \A j : j \in 1 .. n + 1 <=> j \in 1 .. n \/ j = n + 1
  BY <1>1
<1>4. Unanswered(ms) = {j \in 1 .. n : j > l /\ ms[j].role = "assistant"}
  BY <1>1, <1>2 DEF Unanswered
<1>5. CASE IsReceipt(m)
  <2>1. LastReceipt(u, n + 1) = n + 1
    BY <1>5, LastReceiptMore
  <2>2. \A j \in 1 .. n + 1 : ~(j > n + 1)
    BY <1>1
  <2> QED
    BY <1>1, <1>5, <2>1, <2>2 DEF Unanswered, NextOpen
<1>6. CASE ~IsReceipt(m)
  <2>1. LastReceipt(u, n + 1) = l
    BY <1>2, <1>6, LastReceiptMore
  <2>2. Unanswered(u) = {j \in 1 .. n + 1 : j > l /\ u[j].role = "assistant"}
    BY <1>1, <2>1 DEF Unanswered
  <2>3. n + 1 > l
    BY <1>1, <1>2
  <2>4. \A j : j \in Unanswered(u) <=> j \in Unanswered(ms) \/ (j = n + 1 /\ m.role = "assistant")
    BY <1>1, <1>3, <1>4, <2>2, <2>3
  <2> QED
    BY <1>6, <2>4 DEF NextOpen
<1> QED
  BY <1>5, <1>6

LEMMA ActiveMore ==
  ASSUME NEW ms, NEW m, NEW u, NEW n, ms \in Seq(MessageTypes), n = Len(ms), n >= 2, OneLonger(u, ms, m, n),
         m \in MessageTypes, NEW w, w = Active(ms), w \in Seq(MessageTypes)
  PROVE  Active(u) = NextActive(w, m)
<1>1. /\ u = Append(ms, m) /\ n \in Nat /\ Len(u) = n + 1 /\ DOMAIN ms = 1 .. n /\ DOMAIN u = 1 .. n + 1 /\ u \in Seq(MessageTypes)
      /\ u[n + 1] = m /\ \A i \in 1 .. n : u[i] = ms[i]
  BY DEF OneLonger
<1>2. PICK l : l = LastReceipt(ms, n) /\ l \in Nat /\ l <= n
  <2>1. /\ LastReceipt(ms, n) \in Nat
        /\ LastReceipt(ms, n) = 2 \/ (LastReceipt(ms, n) \in Receipts(ms) /\ LastReceipt(ms, n) <= n)
    BY <1>1, ReceiptsBelow
  <2> QED
    BY <1>1, <2>1
<1>3. \A j : j \in 1 .. n + 1 <=> j \in 1 .. n \/ j = n + 1
  BY <1>1
<1>4. PICK since, first, J, now : since = SinceReceipt(ms) /\ first = Firsts(ms) /\ J = Firsts(u) /\ now = SinceReceipt(u)
  OBVIOUS
<1>5. since = {j \in 1 .. n : ms[j].role = "warning" /\ j > l}
  BY <1>1, <1>2, <1>4 DEF SinceReceipt, Warnings
<1>6. first = {i \in since : \A j \in since : j < i => ms[j] # ms[i]} /\ J = {i \in now : \A j \in now : j < i => u[j] # u[i]}
  BY <1>4 DEF Firsts
<1>7. Active(u) = Picked(u, J) /\ w = Picked(ms, first)
  BY <1>4, ActiveFirsts
<1>8. Picked(Append(ms, m), J) = IF n + 1 \in J THEN Append(Picked(ms, J), m) ELSE Picked(ms, J)
  BY PickedAppend
<1>9. CASE IsReceipt(m)
  <2>1. LastReceipt(u, n + 1) = n + 1
    BY <1>9, LastReceiptMore
  <2>2. now = {}
    BY <1>1, <1>4, <2>1 DEF SinceReceipt, Warnings
  <2>3. J = {}
    BY <1>6, <2>2
  <2>4. Picked(u, J) = <<>>
    <3>1. \A k \in DOMAIN Picked(u, J) : \E i \in DOMAIN u : i \in J
      BY <1>1, PickedElements
    <3>2. Picked(u, J) \in Seq(MessageTypes)
      BY <1>1, PickedTyping
    <3>3. PICK p : p = Picked(u, J)
      OBVIOUS
    <3>4. p \in Seq(MessageTypes) /\ DOMAIN p = {}
      BY <2>3, <3>1, <3>2, <3>3
    <3>5. p = <<>>
      BY <3>4
    <3> QED
      BY <3>3, <3>5
  <2> QED
    BY <1>7, <1>9, <2>4 DEF NextActive
<1>10. CASE ~IsReceipt(m)
  <2>1. LastReceipt(u, n + 1) = l
    BY <1>2, <1>10, LastReceiptMore
  <2>2. now = {j \in 1 .. n + 1 : u[j].role = "warning" /\ j > l}
    BY <1>1, <1>4, <2>1 DEF SinceReceipt, Warnings
  <2>3. n + 1 > l /\ \A j \in 1 .. n : j < n + 1
    BY <1>1, <1>2
  <2>4. \A j : j \in now <=> j \in since \/ (j = n + 1 /\ m.role = "warning")
    BY <1>1, <1>3, <1>5, <2>2, <2>3
  <2>5. \A i \in 1 .. n : i \in J <=> i \in first
    <3> SUFFICES ASSUME NEW i \in 1 .. n
                 PROVE  i \in J <=> i \in first
      OBVIOUS
    <3>1. ~(n + 1 < i) /\ i # n + 1
      BY <1>1
    <3>2. \A j \in since : j \in 1 .. n
      BY <1>5
    <3>3. i \in now <=> i \in since
      BY <2>4, <3>1
    <3>4. (\A j \in now : j < i => u[j] # u[i]) <=> (\A j \in since : j < i => ms[j] # ms[i])
      BY <1>1, <2>4, <3>1, <3>2
    <3> QED
      BY <1>6, <3>3, <3>4
  <2>6. Picked(ms, J) = w
    <3>1. Picked(ms, J) = Picked(ms, first)
      BY <1>1, <2>5, PickedSame
    <3> QED
      BY <1>7, <3>1
  <2>7. n + 1 \in J <=> m.role = "warning" /\ ~(\E k \in DOMAIN w : w[k] = m)
    <3>1. (\E k \in DOMAIN w : w[k] = m) <=> (\E j \in since : ms[j] = m)
      <4>1. (\E k \in DOMAIN Active(ms) : Active(ms)[k] = m) <=> (\E j \in SinceReceipt(ms) : ms[j] = m)
        BY ActiveElements
      <4> QED
        BY <1>4, <4>1
    <3>2. n + 1 \in now <=> m.role = "warning"
      <4>1. n + 1 \notin since
        BY <1>1, <1>5
      <4> QED
        BY <2>4, <4>1
    <3>3. \A j \in since : j \in now /\ j < n + 1 /\ u[j] = ms[j]
      BY <1>1, <1>5, <2>3, <2>4
    <3>4. \A j \in now : j < n + 1 => j \in since
      BY <1>1, <2>4
    <3>5. (\A j \in now : j < n + 1 => u[j] # u[n + 1]) <=> ~(\E j \in since : ms[j] = m)
      BY <1>1, <3>3, <3>4
    <3> QED
      BY <1>6, <3>1, <3>2, <3>5
  <2> QED
    BY <1>1, <1>7, <1>8, <1>10, <2>6, <2>7 DEF NextActive
<1> QED
  BY <1>9, <1>10

\* One more message, read: an answer, the receipt of the last answer or an aside.
LEMMA ScannedMore ==
  ASSUME NEW ms, NEW xs, NEW open, NEW w, Scanned(ms, xs, open, w),
         NEW m, NEW u, NEW n, n = Len(ms), m \in MessageTypes, m.role \notin {"system", "task"}, OneLonger(u, ms, m, n),
         IsReceipt(m) => open = {n}
  PROVE  Scanned(u, NextInteractions(xs, ms, m), NextOpen(open, ms, m), NextActive(w, m))
<1>0. PICK ys, o, v : ys = NextInteractions(xs, ms, m) /\ o = NextOpen(open, ms, m) /\ v = NextActive(w, m)
  OBVIOUS
<1>16. ys = IF IsReceipt(m) THEN Append(xs, [action |-> ms[n], receipt |-> m]) ELSE xs
  BY <1>0 DEF NextInteractions
<1>1. /\ ms \in Seq(MessageTypes) /\ n >= 2 /\ ms[1] = System /\ ms[2] = Task
      /\ (\A i \in Receipts(ms) : ActionsBefore(ms, i) = {i - 1})
      /\ xs \in Seq(Dialogues) /\ Unanswered(ms) = open /\ w = Active(ms) /\ w \in Seq(MessageTypes)
  BY DEF Scanned, Interventions
<1>2. OneLonger(u, ms, m, n)
  OBVIOUS
<1>3. /\ u \in Seq(MessageTypes) /\ n \in Nat /\ Len(u) = n + 1 /\ DOMAIN ms = 1 .. n /\ DOMAIN u = 1 .. n + 1
      /\ u[n + 1] = m /\ (\A i \in 1 .. n : u[i] = ms[i] /\ ms[i] \in MessageTypes)
      /\ (\A i : i \in Receipts(u) <=> i \in Receipts(ms) \/ (i = n + 1 /\ IsReceipt(m)))
      /\ Receipts(ms) \subseteq 1 .. n
      /\ (\A k \in 0 .. n : LastReceipt(u, k) = LastReceipt(ms, k))
      /\ (\A i \in 1 .. n : ActionsBefore(u, i) = ActionsBefore(ms, i))
  BY <1>2 DEF OneLonger
<1>4. Len(u) >= 2 /\ u[1] = System /\ u[2] = Task
  BY <1>1, <1>3
<1>5. IsReceipt(m) => ActionsBefore(u, n + 1) = {n} /\ n \in DOMAIN ms /\ ms[n].role = "assistant"
  <2> SUFFICES ASSUME IsReceipt(m)
               PROVE  ActionsBefore(u, n + 1) = {n} /\ n \in DOMAIN ms /\ ms[n].role = "assistant"
    OBVIOUS
  <2>1. ActionsBefore(u, n + 1) = Unanswered(ms)
    BY <1>1, <1>2, OneMoreReceipt
  <2>2. n \in Unanswered(ms)
    BY <1>1
  <2> QED
    BY <1>1, <2>1, <2>2 DEF Unanswered
<1>6. \A i \in Receipts(u) : ActionsBefore(u, i) = {i - 1}
  <2> SUFFICES ASSUME NEW i \in Receipts(u)
               PROVE  ActionsBefore(u, i) = {i - 1}
    OBVIOUS
  <2>1. CASE i \in Receipts(ms)
    BY <1>1, <1>3, <2>1
  <2>2. CASE i = n + 1 /\ IsReceipt(m)
    <3>1. i - 1 = n
      BY <1>3, <2>2
    <3> QED
      BY <1>5, <2>2, <3>1
  <2> QED
    BY <1>3, <2>1, <2>2
<1>7. Interactions(u) = ys
  BY <1>0, InteractionsAppend
<1>8. ys \in Seq(Dialogues)
  <2>1. CASE IsReceipt(m)
    <3>1. [action |-> ms[n], receipt |-> m] \in Dialogues
      BY <1>3, <1>5, <2>1 DEF Dialogues
    <3> QED
      BY <1>16, <1>1, <2>1, <3>1
  <2>2. CASE ~IsReceipt(m)
    BY <1>16, <1>1, <2>2
  <2> QED
    BY <2>1, <2>2
<1>9. ys = <<>> <=> Receipts(u) = {}
  <2>1. CASE IsReceipt(m)
    <3>1. ys # <<>>
      BY <1>16, <1>1, <2>1
    <3>2. n + 1 \in Receipts(u)
      BY <1>3, <2>1
    <3> QED
      BY <3>1, <3>2
  <2>2. CASE ~IsReceipt(m)
    <3>1. xs = <<>> <=> Receipts(ms) = {}
      BY DEF Scanned
    <3> QED
      BY <1>16, <1>3, <2>2, <3>1
  <2> QED
    BY <2>1, <2>2
<1>10. ASSUME ys # <<>>
       PROVE  LET i == LastReceipt(u, Len(u)) IN i \in Receipts(u) /\ ys[Len(ys)] = [action |-> u[i - 1], receipt |-> u[i]]
  <2>1. LastReceipt(u, Len(u)) = IF IsReceipt(m) THEN n + 1 ELSE LastReceipt(ms, n)
    BY <1>1, <1>2, <1>3, LastReceiptMore
  <2>2. CASE IsReceipt(m)
    <3>1. n + 1 \in Receipts(u) /\ n + 1 - 1 = n /\ u[n] = ms[n] /\ u[n + 1] = m
      BY <1>3, <1>5, <2>2
    <3>2. ys[Len(ys)] = [action |-> ms[n], receipt |-> m]
      BY <1>16, <1>1, <1>8, <2>2
    <3>3. LastReceipt(u, Len(u)) = n + 1
      BY <2>1, <2>2
    <3>4. [action |-> u[n + 1 - 1], receipt |-> u[n + 1]] = [action |-> ms[n], receipt |-> m]
      BY <3>1
    <3> QED
      BY <3>1, <3>2, <3>3, <3>4
  <2>3. CASE ~IsReceipt(m)
    <3>1. PICK i : i = LastReceipt(ms, n)
      OBVIOUS
    <3>2. i \in Receipts(ms) /\ xs[Len(xs)] = [action |-> ms[i - 1], receipt |-> ms[i]]
      BY <1>16, <1>10, <2>3, <3>1 DEF Scanned
    <3>3. i - 1 \in 1 .. n
      <4>1. i - 1 \in ActionsBefore(ms, i)
        BY <1>1, <3>2
      <4>2. i - 1 >= LastReceipt(ms, i - 1) + 1
        BY <4>1 DEF ActionsBefore
      <4>3. i \in 1 .. n
        BY <1>3, <3>2
      <4>4. i - 1 \in Nat
        BY <4>3
      <4>5. LastReceipt(ms, i - 1) \in Nat
        BY <1>1, <4>4, ReceiptsBelow
      <4> QED
        BY <4>2, <4>3, <4>4, <4>5
    <3>4. i \in Receipts(u) /\ u[i] = ms[i] /\ u[i - 1] = ms[i - 1]
      BY <1>3, <3>2, <3>3
    <3>5. LastReceipt(u, Len(u)) = i /\ ys = xs
      BY <1>16, <2>1, <2>3, <3>1
    <3> QED
      BY <3>2, <3>4, <3>5
  <2> QED
    BY <2>2, <2>3
<1>11. (\E i \in DOMAIN u : u[i].role = "rejection") <=> (\E k \in DOMAIN ys : ys[k].receipt.role = "rejection")
  <2>1. (\E i \in DOMAIN ms : ms[i].role = "rejection") <=> (\E k \in DOMAIN xs : xs[k].receipt.role = "rejection")
    BY DEF Scanned
  <2>2. (\E i \in DOMAIN u : u[i].role = "rejection") <=> (\E i \in DOMAIN ms : ms[i].role = "rejection") \/ m.role = "rejection"
    <3>1. \A j : j \in 1 .. n + 1 <=> j \in 1 .. n \/ j = n + 1
      BY <1>3
    <3> QED
      BY <1>3, <3>1
  <2>3. CASE IsReceipt(m)
    <3>1. PICK d, k : d = [action |-> ms[n], receipt |-> m] /\ k = Len(xs)
      OBVIOUS
    <3>2. k \in Nat /\ DOMAIN xs = 1 .. k /\ DOMAIN ys = 1 .. k + 1 /\ ys[k + 1] = d /\ \A i \in 1 .. k : ys[i] = xs[i]
      <4>1. ys = Append(xs, d)
        BY <1>16, <2>3, <3>1
      <4> QED
        BY <1>1, <3>1, <4>1
    <3>3. \A j : j \in 1 .. k + 1 <=> j \in 1 .. k \/ j = k + 1
      BY <3>2
    <3>4. d.receipt = m
      BY <3>1
    <3> QED
      BY <2>1, <2>2, <3>2, <3>3, <3>4
  <2>4. CASE ~IsReceipt(m)
    <3>1. m.role # "rejection" /\ ys = xs
      BY <1>16, <2>4 DEF IsReceipt
    <3> QED
      BY <2>1, <2>2, <3>1
  <2> QED
    BY <2>3, <2>4
<1>12. Unanswered(u) = o
  BY <1>0, <1>1, <1>2, UnansweredMore
<1>13. Active(u) = v
  BY <1>0, <1>1, <1>2, ActiveMore
<1>14. Interventions(v)
  <2>1. Interventions(w)
    BY DEF Scanned
  <2>2. CASE v = <<>>
    <3>1. <<>> \in Seq(MessageTypes) /\ DOMAIN <<>> = {}
      OBVIOUS
    <3> QED
      BY <2>2, <3>1 DEF Interventions
  <2>3. CASE v = w
    BY <2>1, <2>3
  <2>4. CASE v = Append(w, m) /\ m.role = "warning" /\ ~(\E k \in DOMAIN w : w[k] = m)
    <3>1. PICK k : k = Len(w)
      OBVIOUS
    <3>2. /\ k \in Nat /\ DOMAIN w = 1 .. k /\ DOMAIN v = 1 .. k + 1 /\ v[k + 1] = m /\ v \in Seq(MessageTypes)
          /\ \A i \in 1 .. k : v[i] = w[i]
      BY <1>1, <2>4, <3>1
    <3>3. \A j : j \in 1 .. k + 1 <=> j \in 1 .. k \/ j = k + 1
      BY <3>2
    <3>4. \A i \in DOMAIN v : v[i].role = "warning"
      BY <2>1, <2>4, <3>2, <3>3 DEF Interventions
    <3>5. \A i, j \in DOMAIN v : v[i] = v[j] => i = j
      BY <2>1, <2>4, <3>2, <3>3 DEF Interventions
    <3> QED
      BY <3>2, <3>4, <3>5 DEF Interventions
  <2>5. v = <<>> \/ v = w \/ (v = Append(w, m) /\ m.role = "warning" /\ ~(\E k \in DOMAIN w : w[k] = m))
    BY <1>0 DEF NextActive
  <2> QED
    BY <2>2, <2>3, <2>4, <2>5
<1>15. Scanned(u, ys, o, v)
  BY <1>3, <1>4, <1>6, <1>7, <1>8, <1>9, <1>10, <1>11, <1>12, <1>13, <1>14 DEF Scanned
<1> QED
  BY <1>0, <1>15

-----------------------------------------------------------------------------
(* Contexts.                                                               *)

Opening == <<System, Task>>

\* Interactions as messages, each answer with its receipt.
Exchange(d) == <<d.action, d.receipt>>

Flat(ds) == FlattenSeq([k \in DOMAIN ds |-> Exchange(ds[k])])

LEMMA DialogueTyping ==
  ASSUME NEW d \in Dialogues
  PROVE  /\ d.action \in MessageTypes /\ d.receipt \in MessageTypes
         /\ d.action.role = "assistant" /\ IsReceipt(d.receipt)
         /\ d = [action |-> d.action, receipt |-> d.receipt]
BY DEF Dialogues

LEMMA FlatMore ==
  ASSUME NEW ds \in Seq(Dialogues), NEW d \in Dialogues
  PROVE  Flat(Append(ds, d)) = Flat(ds) \o Exchange(d) /\ Flat(ds) \in Seq(MessageTypes)
<1>1. PICK R, ss, q, n, es : /\ R = {Exchange(e) : e \in Dialogues} /\ ss = [k \in DOMAIN ds |-> Exchange(ds[k])]
                             /\ q = Exchange(d) /\ n = Len(ds) /\ es = Append(ds, d)
  OBVIOUS
<1>2. \A r \in R : r \in Seq(MessageTypes)
  <2> SUFFICES ASSUME NEW e \in Dialogues
               PROVE  Exchange(e) \in Seq(MessageTypes)
    BY <1>1
  <2> QED
    BY DialogueTyping DEF Exchange
<1>3. /\ n \in Nat /\ DOMAIN ds = 1 .. n /\ (\A k \in 1 .. n : ds[k] \in Dialogues /\ es[k] = ds[k])
      /\ DOMAIN es = 1 .. n + 1 /\ es[n + 1] = d
  BY <1>1
<1>4. ss = [k \in 1 .. n |-> ss[k]] /\ (\A k \in 1 .. n : ss[k] \in R /\ ss[k] = Exchange(ds[k])) /\ q \in R
  BY <1>1, <1>3
<1>5. ss \in Seq(R) /\ Len(ss) = n
  BY <1>3, <1>4
<1>6. [k \in DOMAIN es |-> Exchange(es[k])] = Append(ss, q)
  <2>1. PICK t : t = Append(ss, q)
    OBVIOUS
  <2>2. t = [k \in 1 .. n + 1 |-> t[k]] /\ t[n + 1] = q /\ \A k \in 1 .. n : t[k] = ss[k]
    <3>1. t \in Seq(R) /\ Len(t) = n + 1 /\ t[n + 1] = q /\ \A k \in 1 .. n : t[k] = ss[k]
      BY <1>3, <1>4, <1>5, <2>1
    <3> QED
      BY <3>1
  <2>3. \A k \in 1 .. n + 1 : t[k] = Exchange(es[k])
    <3>1. \A k \in 1 .. n + 1 : k \in 1 .. n \/ k = n + 1
      BY <1>3
    <3> QED
      BY <1>1, <1>3, <1>4, <2>2, <3>1
  <2> QED
    BY <1>3, <2>1, <2>2, <2>3
<1>7. FlattenSeq(Append(ss, q)) = FlattenSeq(ss) \o q /\ FlattenSeq(ss) \in Seq(MessageTypes)
  BY <1>2, <1>4, <1>5, FlattenAppend
<1> QED
  BY <1>1, <1>6, <1>7 DEF Flat

LEMMA FlatEmpty == Flat(<<>>) = <<>>
<1>1. [k \in DOMAIN <<>> |-> Exchange((<<>>)[k])] = <<>>
  OBVIOUS
<1> QED
  BY <1>1, FlattenEmpty DEF Flat

\* One more answer and its receipt.
LEMMA ScannedExchange ==
  ASSUME NEW ms, NEW ds, NEW w, Scanned(ms, ds, {}, w), NEW d \in Dialogues
  PROVE  Scanned(ms \o Exchange(d), Append(ds, d), {}, <<>>)
<1>1. PICK n, u, v : n = Len(ms) /\ u = Append(ms, d.action) /\ v = Append(u, d.receipt)
  OBVIOUS
<1>2. ms \in Seq(MessageTypes) /\ n \in Nat
  BY <1>1 DEF Scanned
<1>3. /\ d.action \in MessageTypes /\ d.receipt \in MessageTypes
      /\ d.action.role = "assistant" /\ IsReceipt(d.receipt)
      /\ d = [action |-> d.action, receipt |-> d.receipt]
  BY DialogueTyping
<1>4. ~IsReceipt(d.action) /\ d.action.role \notin {"system", "task"} /\ d.receipt.role \notin {"system", "task"}
  BY <1>3 DEF IsReceipt
<1>5. OneLonger(u, ms, d.action, n)
  BY <1>1, <1>2, <1>3, OneMore
<1>6. u \in Seq(MessageTypes) /\ Len(u) = n + 1 /\ u[n + 1] = d.action
  BY <1>1, <1>2, <1>3
<1>7. PICK w1 : w1 = NextActive(w, d.action)
  OBVIOUS
<1>8. Scanned(u, ds, {n + 1}, w1)
  <2>1. Scanned(u, NextInteractions(ds, ms, d.action), NextOpen({}, ms, d.action), NextActive(w, d.action))
    BY <1>1, <1>3, <1>4, <1>5, ScannedMore
  <2>2. NextInteractions(ds, ms, d.action) = ds
    BY <1>4 DEF NextInteractions
  <2>3. NextOpen({}, ms, d.action) = {n + 1}
    BY <1>1, <1>3, <1>4 DEF NextOpen
  <2> QED
    BY <1>7, <2>1, <2>2, <2>3
<1>9. PICK k : k = n + 1
  OBVIOUS
<1>10. OneLonger(v, u, d.receipt, k)
  BY <1>1, <1>3, <1>6, <1>9, OneMore
<1>11. Scanned(v, NextInteractions(ds, u, d.receipt), NextOpen({k}, u, d.receipt), NextActive(w1, d.receipt))
  BY <1>3, <1>4, <1>6, <1>8, <1>9, <1>10, ScannedMore
<1>12. NextInteractions(ds, u, d.receipt) = Append(ds, d)
  BY <1>3, <1>6 DEF NextInteractions
<1>13. NextOpen({k}, u, d.receipt) = {} /\ NextActive(w1, d.receipt) = <<>>
  BY <1>3 DEF NextOpen, NextActive
<1>14. ms \o Exchange(d) = v
  BY <1>1, <1>2, <1>3 DEF Exchange
<1> QED
  BY <1>11, <1>12, <1>13, <1>14

LEMMA ScannedFlat ==
  ASSUME NEW ds \in Seq(Dialogues)
  PROVE  Scanned(Opening \o Flat(ds), ds, {}, <<>>)
<1> DEFINE S == {es \in Seq(Dialogues) : Scanned(Opening \o Flat(es), es, {}, <<>>)}
<1>0. Opening \in Seq(MessageTypes)
  BY MessagesTyping DEF Opening
<1>1. <<>> \in S
  <2>1. Opening \o <<>> = Opening
    BY <1>0
  <2>2. Scanned(Opening, <<>>, {}, <<>>)
    BY ScannedStart DEF Opening
  <2> QED
    <3>1. Opening \o Flat(<<>>) = Opening
      BY <2>1, FlatEmpty
    <3>2. <<>> \in Seq(Dialogues)
      OBVIOUS
    <3>3. Scanned(Opening \o Flat(<<>>), <<>>, {}, <<>>)
      BY <2>2, <3>1
    <3> QED
      BY <3>2, <3>3
<1>2. ASSUME NEW es \in Seq(Dialogues), NEW d \in Dialogues, es \in S
      PROVE  Append(es, d) \in S
  <2>1. Scanned(Opening \o Flat(es), es, {}, <<>>)
    BY <1>2
  <2>2. PICK f, x : f = Flat(es) /\ x = Exchange(d)
    OBVIOUS
  <2>3. f \in Seq(MessageTypes) /\ x \in Seq(MessageTypes) /\ Flat(Append(es, d)) = f \o x
    BY <2>2, FlatMore, DialogueTyping DEF Exchange
  <2>4. Scanned((Opening \o f) \o x, Append(es, d), {}, <<>>)
    BY <2>1, <2>2, ScannedExchange
  <2>5. (Opening \o f) \o x = Opening \o (f \o x)
    BY <1>0, <2>3, SMTT(30)
  <2> QED
    <3>4. Append(es, d) \in Seq(Dialogues)
      OBVIOUS
    <3>1. PICK e : e = Append(es, d) /\ e \in Seq(Dialogues)
      BY <3>4
    <3>2. Opening \o Flat(e) = (Opening \o f) \o x
      BY <2>3, <2>5, <3>1
    <3>3. Scanned(Opening \o Flat(e), e, {}, <<>>)
      BY <2>4, <3>1, <3>2
    <3> QED
      BY <3>1, <3>3
<1>3. Seq(Dialogues) \subseteq S
  <2> HIDE DEF S
  <2> QED
    BY <1>1, <1>2, InductiveSequences
<1> QED
  BY <1>3

\* Interventions that are added become active.
LEMMA ScannedTold ==
  ASSUME NEW ms, NEW ds, Scanned(ms, ds, {}, <<>>), NEW w, Interventions(w)
  PROVE  Scanned(ms \o w, ds, {}, w)
<1> DEFINE S == {v \in Seq(MessageTypes) : Interventions(v) => Scanned(ms \o v, ds, {}, v)}
<1>0. ms \in Seq(MessageTypes)
  BY DEF Scanned
<1>1. <<>> \in S
  <2>1. ms \o <<>> = ms
    BY <1>0
  <2> QED
    BY <2>1
<1>2. ASSUME NEW v \in Seq(MessageTypes), NEW m \in MessageTypes, v \in S
      PROVE  Append(v, m) \in S
  <2> SUFFICES ASSUME Interventions(Append(v, m))
               PROVE  Scanned(ms \o Append(v, m), ds, {}, Append(v, m))
    OBVIOUS
  <2>1. PICK k, x : k = Len(v) /\ x = Append(v, m)
    OBVIOUS
  <2>2. /\ k \in Nat /\ DOMAIN v = 1 .. k /\ DOMAIN x = 1 .. k + 1 /\ x[k + 1] = m /\ \A i \in 1 .. k : x[i] = v[i]
        /\ x \in Seq(MessageTypes)
    BY <2>1
  <2>3. (\A i \in DOMAIN x : x[i].role = "warning") /\ \A i, j \in DOMAIN x : x[i] = x[j] => i = j
    BY <2>1 DEF Interventions
  <2>4. m.role = "warning" /\ ~(\E i \in DOMAIN v : v[i] = m)
    <3>1. k + 1 \in DOMAIN x /\ \A i \in 1 .. k : i \in DOMAIN x /\ i # k + 1
      BY <2>2
    <3> QED
      BY <2>2, <2>3, <3>1
  <2>5. Interventions(v)
    <3>1. \A i \in 1 .. k : i \in DOMAIN x
      BY <2>2
    <3> QED
      BY <2>2, <2>3, <3>1 DEF Interventions
  <2>6. Scanned(ms \o v, ds, {}, v)
    BY <1>2, <2>5
  <2>7. PICK u, n, y : u = ms \o v /\ n = Len(u) /\ y = Append(u, m)
    OBVIOUS
  <2>8. u \in Seq(MessageTypes) /\ ms \o Append(v, m) = y
    BY <1>0, <2>7
  <2>9. OneLonger(y, u, m, n)
    BY <2>7, <2>8, OneMore
  <2>10. Scanned(y, NextInteractions(ds, u, m), NextOpen({}, u, m), NextActive(v, m))
    <3>1. ~IsReceipt(m) /\ m.role \notin {"system", "task"}
      BY <2>4 DEF IsReceipt
    <3> QED
      BY <2>6, <2>7, <2>9, <3>1, ScannedMore
  <2>11. NextInteractions(ds, u, m) = ds /\ NextOpen({}, u, m) = {} /\ NextActive(v, m) = Append(v, m)
    BY <2>4 DEF IsReceipt, NextInteractions, NextOpen, NextActive
  <2> QED
    BY <2>8, <2>10, <2>11
<1>3. Seq(MessageTypes) \subseteq S
  <2> HIDE DEF S
  <2> QED
    BY <1>1, <1>2, InductiveSequences
<1>4. w \in Seq(MessageTypes)
  BY DEF Interventions
<1> QED
  BY <1>3, <1>4

\* An interaction as a policy shows it: canonical and bounded if it has a result.
Canonical(x, limit) ==
  IF x.receipt.role = "rejection" THEN x
  ELSE [action |-> Assistant(Plain(ActionOf(x.action))),
        receipt |-> Result(Truncated(ToolObservation(ActionOf(x.action), x.receipt.receipt), limit))]

Real(x) ==
  x.receipt.role = "result" => Executable(ActionOf(x.action)) /\ Observable(ActionOf(x.action), x.receipt.receipt)

Retained(xs, n) ==
  LET s == LastOf(xs, n)
  IN  [k \in DOMAIN s |-> Canonical(s[k], IF k = Len(s) THEN LatestChars ELSE OlderChars)]

LEMMA LastOfTyping ==
  ASSUME NEW T, NEW xs \in Seq(T), NEW n \in Nat \ {0}
  PROVE  LET s == LastOf(xs, n) IN
         /\ s \in Seq(T) /\ Len(s) \in Nat /\ Len(s) <= Len(xs) /\ Len(s) <= n
         /\ Len(s) = Len(xs) \/ Len(s) = n
         /\ \A k \in 1 .. Len(s) : Len(xs) - Len(s) + k \in 1 .. Len(xs) /\ s[k] = xs[Len(xs) - Len(s) + k]
<1>1. PICK l, f, s : l = Len(xs) /\ f = (IF l > n THEN l - n + 1 ELSE 1) /\ s = SubSeq(xs, f, l)
  OBVIOUS
<1>2. l \in Nat /\ f \in Nat /\ 1 <= f /\ f <= l + 1 /\ l - f + 1 <= n /\ (l - f + 1 = l \/ l - f + 1 = n)
  BY <1>1
<1>3. LastOf(xs, n) = s
  BY <1>1 DEF LastOf
<1>4. \A i \in f .. l : i \in 1 .. l
  BY <1>2
<1>5. s \in Seq(T) /\ Len(s) = l - f + 1 /\ \A k \in 1 .. l - f + 1 : s[k] = SubSeq(xs, f, l)[k] /\ s[k] = xs[f + k - 1]
  <2>1. f \in 1 .. Len(xs) + 1 /\ l \in f - 1 .. Len(xs)
    BY <1>1, <1>2
  <2>2. /\ SubSeq(xs, f, l) \in Seq(T) /\ Len(SubSeq(xs, f, l)) = l - f + 1
        /\ \A k \in 1 .. l - f + 1 : SubSeq(xs, f, l)[k] = xs[f + k - 1]
    BY <2>1, SubSeqProperties
  <2> QED
    BY <1>1, <2>2
<1>6. Len(s) = l - f + 1
  BY <1>5
<1>7. \A k \in 1 .. l - f + 1 : s[k] = xs[f + k - 1]
  BY <1>5
<1>8. PICK z : z = Len(s)
  OBVIOUS
<1>9. z \in Nat /\ z <= l /\ z <= n /\ (z = l \/ z = n) /\ f = l - z + 1
  BY <1>2, <1>6, <1>8
<1>10. \A k \in 1 .. z : l - z + k \in 1 .. l /\ s[k] = xs[l - z + k]
  <2> SUFFICES ASSUME NEW k \in 1 .. z
               PROVE  l - z + k \in 1 .. l /\ s[k] = xs[l - z + k]
    OBVIOUS
  <2>1. k \in 1 .. l - f + 1 /\ f + k - 1 = l - z + k /\ l - z + k \in 1 .. l
    BY <1>2, <1>6, <1>8, <1>9
  <2> QED
    BY <1>7, <2>1
<1> QED
  BY <1>1, <1>3, <1>5, <1>8, <1>9, <1>10

LEMMA TruncatedTyping ==
  ASSUME NEW r \in ReceiptTypes, NEW limit \in Nat
  PROVE  /\ Truncated(r, limit) \in ReceiptTypes
         /\ Truncated(r, limit).ok = r.ok /\ Truncated(r, limit).format = r.format
<1>1. PICK m, c : m = Min({r.out, limit}) /\ c = (r.cut \/ r.out > limit)
  OBVIOUS
<1>2. r.out \in Nat /\ r.ok \in BOOLEAN /\ r.cut \in BOOLEAN /\ r.packet \in Seq(Packets) /\ r.format \in {"raw", "source"}
      /\ r = [ok |-> r.ok, out |-> r.out, cut |-> r.cut, packet |-> r.packet, format |-> r.format]
  BY DEF ReceiptTypes
<1>3. m \in Nat
  <2>1. \E x \in {r.out, limit} : \A y \in {r.out, limit} : x <= y
    BY <1>2
  <2>2. m \in {r.out, limit}
    BY <1>1, <2>1 DEF Min
  <2> QED
    BY <1>2, <2>2
<1>4. c \in BOOLEAN
  BY <1>1
<1>5. PICK t : t = [ok |-> r.ok, out |-> m, cut |-> c, packet |-> r.packet, format |-> r.format]
  OBVIOUS
<1>6. t \in ReceiptTypes /\ t.ok = r.ok /\ t.format = r.format
  BY <1>2, <1>3, <1>4, <1>5 DEF ReceiptTypes
<1>7. Truncated(r, limit) = t
  <2>1. Truncated(r, limit) = [r EXCEPT !.out = m, !.cut = c]
    BY <1>1 DEF Truncated
  <2>2. [r EXCEPT !.out = m] = [ok |-> r.ok, out |-> m, cut |-> r.cut, packet |-> r.packet, format |-> r.format]
    BY <1>2
  <2>3. PICK q : q = [r EXCEPT !.out = m]
    OBVIOUS
  <2>5. /\ q = [ok |-> q.ok, out |-> q.out, cut |-> q.cut, packet |-> q.packet, format |-> q.format]
        /\ q.ok = r.ok /\ q.out = m /\ q.packet = r.packet /\ q.format = r.format
    BY <2>2, <2>3
  <2>6. [q EXCEPT !.cut = c] = [ok |-> q.ok, out |-> q.out, cut |-> c, packet |-> q.packet, format |-> q.format]
    BY <2>5
  <2>4. [q EXCEPT !.cut = c] = t
    BY <1>5, <2>5, <2>6
  <2> QED
    BY <2>1, <2>3, <2>4
<1> QED
  BY <1>6, <1>7

LEMMA ObservationTyping ==
  ASSUME NEW r \in ReceiptTypes, NEW a
  PROVE  /\ ToolObservation(a, r) \in ReceiptTypes /\ ToolObservation(a, r).ok = r.ok
         /\ ToolObservation(a, r).format = IF a.kind = "read" /\ r.ok THEN "source" ELSE r.format
<1>1. CASE a.kind = "read" /\ r.ok
  <2>1. PICK t : t = [r EXCEPT !.format = "source"]
    OBVIOUS
  <2>2. t \in ReceiptTypes /\ t.ok = r.ok /\ t.format = "source"
    BY <2>1 DEF ReceiptTypes
  <2> QED
    BY <1>1, <2>1, <2>2 DEF ToolObservation
<1>2. CASE ~(a.kind = "read" /\ r.ok)
  BY <1>2 DEF ToolObservation
<1> QED
  BY <1>1, <1>2

\* A dialogue whose receipt is a result, and one that was rejected.
LEMMA DialogueParts ==
  ASSUME NEW x \in Dialogues
  PROVE  /\ x.action.response \in Answers /\ ActionOf(x.action) = ParseAction(x.action.response)
         /\ x.action = Assistant(x.action.response)
         /\ x.receipt.role \in {"result", "rejection"}
         /\ x.receipt.role = "result" => x.receipt.receipt \in ReceiptTypes /\ x.receipt = Result(x.receipt.receipt)
<1>1. /\ x.action \in MessageTypes /\ x.receipt \in MessageTypes
      /\ x.action.role = "assistant" /\ IsReceipt(x.receipt)
  BY DialogueTyping
<1>2. x.action.response \in Answers /\ x.action = Assistant(x.action.response)
  BY <1>1, Roles
<1>3. x.receipt.role = "result" => x.receipt.receipt \in ReceiptTypes /\ x.receipt = Result(x.receipt.receipt)
  BY <1>1, Roles
<1> QED
  BY <1>1, <1>2, <1>3 DEF ActionOf, IsReceipt

\* A result in its canonical form.
LEMMA ResultPair ==
  ASSUME NEW p \in Answers, NEW r \in ReceiptTypes, NEW d, d = [action |-> Assistant(p), receipt |-> Result(r)]
  PROVE  /\ d \in Dialogues /\ d.receipt.role = "result" /\ d.receipt.receipt = r
         /\ d.action.response = p /\ ActionOf(d.action) = ParseAction(p)
<1>1. Assistant(p) \in MessageTypes /\ Assistant(p).role = "assistant" /\ Assistant(p).response = p
  BY MessagesTyping DEF Assistant
<1>2. Result(r) \in MessageTypes /\ Result(r).role = "result" /\ Result(r).receipt = r
  BY MessagesTyping DEF Result
<1> QED
  BY <1>1, <1>2 DEF Dialogues, IsReceipt, ActionOf

LEMMA CanonicalTyping ==
  ASSUME NEW x \in Dialogues, Real(x), NEW limit \in Nat
  PROVE  /\ Canonical(x, limit) \in Dialogues
         /\ Canonical(x, limit).receipt.role = x.receipt.role
         /\ x.receipt.role = "rejection" => Canonical(x, limit) = x
         /\ x.receipt.role = "result" => ActionOf(Canonical(x, limit).action) = ActionOf(x.action) /\ Executable(ActionOf(x.action))
<1>1. CASE x.receipt.role = "rejection"
  BY <1>1 DEF Canonical
<1>2. CASE x.receipt.role = "result"
  <2>1. PICK a, p, r, r0 : /\ a = ActionOf(x.action) /\ p = Plain(a) /\ r0 = ToolObservation(a, x.receipt.receipt)
                           /\ r = Truncated(r0, limit)
    OBVIOUS
  <2>2. Executable(a)
    BY <1>2, <2>1 DEF Real
  <2>3. p \in Answers /\ ParseAction(p) = a
    BY <2>1, <2>2, DialogueParts, CanonicalForm
  <2>4. r0 \in ReceiptTypes
    BY <1>2, <2>1, DialogueParts, ObservationTyping
  <2>5. r \in ReceiptTypes
    BY <2>1, <2>4, TruncatedTyping
  <2>6. PICK d : d = [action |-> Assistant(p), receipt |-> Result(r)]
    OBVIOUS
  <2>7. d \in Dialogues /\ d.receipt.role = "result" /\ ActionOf(d.action) = a
    BY <2>3, <2>5, <2>6, ResultPair
  <2>8. Canonical(x, limit) = d
    BY <1>2, <2>1, <2>6 DEF Canonical
  <2> QED
    BY <1>2, <2>1, <2>2, <2>7, <2>8
<1> QED
  BY <1>1, <1>2, DialogueParts

\* What recent_history makes of messages that were read.
LEMMA RecentScanned ==
  ASSUME NEW ms, NEW xs, NEW open, NEW w, Scanned(ms, xs, open, w), NEW n \in Nat \ {0}
  PROVE  /\ xs = <<>> => RecentHistory(ms, n) = ms
         /\ (\A k \in DOMAIN LastOf(xs, n) : Real(LastOf(xs, n)[k])) /\ xs # <<>> =>
              /\ RecentHistory(ms, n) = (Opening \o Flat(Retained(xs, n))) \o w
              /\ Retained(xs, n) \in Seq(Dialogues) /\ Len(Retained(xs, n)) = Len(LastOf(xs, n))
         /\ ~(\A k \in DOMAIN LastOf(xs, n) : Real(LastOf(xs, n)[k])) => RecentHistory(ms, n) = NoContext
<1> DEFINE Pair(x, limit) == IF x.receipt.role = "rejection" THEN <<x.action, x.receipt>>
                             ELSE ToolPair(ActionOf(x.action), x.receipt.receipt, limit)
<1>1. PICK s : s = LastOf(xs, n)
  OBVIOUS
<1>2. PICK pairs : pairs = [k \in DOMAIN s |-> Pair(s[k], IF k = Len(s) THEN LatestChars ELSE OlderChars)]
  OBVIOUS
<1>3. PICK paired \in BOOLEAN : paired = \A i \in Receipts(ms) : Cardinality(ActionsBefore(ms, i)) = 1
  OBVIOUS
<1>4. PICK real \in BOOLEAN : real = \A k \in DOMAIN s : Real(s[k])
  OBVIOUS
<1>5. RecentHistory(ms, n) = IF ~paired \/ ~real THEN NoContext
                             ELSE IF s = <<>> THEN ms ELSE <<ms[1], ms[2]>> \o FlattenSeq(pairs) \o Active(ms)
  <2>1. Interactions(ms) = xs
    BY DEF Scanned
  <2> QED
    BY <1>1, <1>2, <1>3, <1>4, <2>1 DEF RecentHistory, Real
<1>6. paired
  <2>1. \A i \in Receipts(ms) : ActionsBefore(ms, i) = {i - 1}
    BY DEF Scanned
  <2>2. \A i : Cardinality({i}) = 1
    BY FS_Singleton
  <2> QED
    BY <1>3, <2>1, <2>2
<1>7. xs \in Seq(Dialogues) /\ <<ms[1], ms[2]>> = Opening /\ Active(ms) = w
  BY DEF Scanned, Opening
<1>8. /\ s \in Seq(Dialogues) /\ Len(s) \in Nat /\ Len(s) <= Len(xs) /\ (Len(s) = Len(xs) \/ Len(s) = n)
  <2>1. LET t == LastOf(xs, n) IN t \in Seq(Dialogues) /\ Len(t) \in Nat /\ Len(t) <= Len(xs) /\ (Len(t) = Len(xs) \/ Len(t) = n)
    BY <1>7, LastOfTyping
  <2> QED
    BY <1>1, <2>1
<1>9. s = <<>> <=> xs = <<>>
  <2>1. Len(xs) \in Nat /\ (xs = <<>> <=> Len(xs) = 0)
    BY <1>7
  <2>2. s = <<>> <=> Len(s) = 0
    BY <1>8
  <2> QED
    BY <1>8, <2>1, <2>2
<1>10. ASSUME real
       PROVE  pairs = [k \in DOMAIN Retained(xs, n) |-> Exchange(Retained(xs, n)[k])]
              /\ Retained(xs, n) \in Seq(Dialogues) /\ Len(Retained(xs, n)) = Len(s)
  <2>1. PICK ds : ds = Retained(xs, n)
    OBVIOUS
  <2>2. ds = [k \in DOMAIN s |-> Canonical(s[k], IF k = Len(s) THEN LatestChars ELSE OlderChars)]
    BY <1>1, <2>1 DEF Retained
  <2>3. DOMAIN s = 1 .. Len(s) /\ \A k \in DOMAIN s : s[k] \in Dialogues
    BY <1>8
  <2>4. ASSUME NEW k \in DOMAIN s
        PROVE  ds[k] \in Dialogues /\ Exchange(ds[k]) = Pair(s[k], IF k = Len(s) THEN LatestChars ELSE OlderChars)
    <3>1. PICK x, limit : x = s[k] /\ limit = IF k = Len(s) THEN LatestChars ELSE OlderChars
      OBVIOUS
    <3>2. x \in Dialogues /\ Real(x) /\ limit \in Nat /\ ds[k] = Canonical(x, limit)
      BY <1>4, <1>10, <2>2, <2>3, <3>1, ContextHistoryAssumption
    <3>3. Exchange(Canonical(x, limit)) = Pair(x, limit)
      BY DEF Exchange, Canonical, ToolPair
    <3> QED
      BY <3>1, <3>2, <3>3, CanonicalTyping
  <2>5. DOMAIN ds = DOMAIN s /\ pairs = [k \in DOMAIN ds |-> Exchange(ds[k])]
    <3>1. DOMAIN ds = DOMAIN s
      BY <2>2
    <3> HIDE DEF Pair
    <3> QED
      BY <1>2, <2>4, <3>1
  <2>6. ds \in Seq(Dialogues) /\ Len(ds) = Len(s)
    <3>1. ds = [k \in 1 .. Len(s) |-> ds[k]]
      BY <2>2, <2>3
    <3> QED
      BY <1>8, <2>3, <2>4, <3>1
  <2> QED
    BY <2>1, <2>5, <2>6
<1>11. ASSUME real
       PROVE  FlattenSeq(pairs) = Flat(Retained(xs, n))
  BY <1>10, <1>11 DEF Flat
<1>12. xs = <<>> => real
  BY <1>4, <1>9
<1> HIDE DEF Pair
<1>13. xs = <<>> => RecentHistory(ms, n) = ms
  BY <1>5, <1>6, <1>9, <1>12
<1>14. real /\ xs # <<>> =>
              /\ RecentHistory(ms, n) = (Opening \o Flat(Retained(xs, n))) \o w
              /\ Retained(xs, n) \in Seq(Dialogues) /\ Len(Retained(xs, n)) = Len(s)
  BY <1>5, <1>6, <1>7, <1>9, <1>10, <1>11
<1>15. ~real => RecentHistory(ms, n) = NoContext
  BY <1>5
<1> QED
  BY <1>1, <1>4, <1>13, <1>14, <1>15

\* Where the last receipt of messages that were read is, and the answer before it.
LEMMA LatestReceipt ==
  ASSUME NEW ms, NEW xs, NEW open, NEW w, Scanned(ms, xs, open, w), xs # <<>>
  PROVE  \E i \in DOMAIN ms :
           /\ i \in Receipts(ms) /\ i - 1 \in DOMAIN ms /\ ms[i - 1].role = "assistant"
           /\ \A j \in Receipts(ms) : j <= i
           /\ xs[Len(xs)] = [action |-> ms[i - 1], receipt |-> ms[i]]
<1>1. PICK n, i : n = Len(ms) /\ i = LastReceipt(ms, n)
  OBVIOUS
<1>2. /\ ms \in Seq(MessageTypes) /\ n \in Nat /\ DOMAIN ms = 1 .. n /\ i \in Receipts(ms)
      /\ ActionsBefore(ms, i) = {i - 1} /\ xs[Len(xs)] = [action |-> ms[i - 1], receipt |-> ms[i]]
  BY <1>1 DEF Scanned
<1>3. Receipts(ms) \subseteq 1 .. n
  BY <1>2 DEF Receipts
<1>4. \A j \in Receipts(ms) : j <= i
  <2>1. \A j \in Receipts(ms) : j <= n => j <= i
    BY <1>1, <1>2, ReceiptsBelow
  <2> QED
    BY <1>2, <1>3, <2>1
<1>5. i - 1 \in ActionsBefore(ms, i)
  BY <1>2
<1>6. i - 1 >= LastReceipt(ms, i - 1) + 1 /\ ms[i - 1].role = "assistant"
  BY <1>5 DEF ActionsBefore
<1>7. i - 1 \in 1 .. n
  <2>1. i \in 1 .. n /\ i - 1 \in Nat
    BY <1>2, <1>3
  <2>2. PICK l : l = LastReceipt(ms, i - 1) /\ l \in Nat
    BY <1>2, <2>1, ReceiptsBelow
  <2>3. i - 1 >= l + 1
    BY <1>6, <2>2
  <2> QED
    BY <1>2, <2>1, <2>2, <2>3
<1> QED
  BY <1>2, <1>3, <1>4, <1>6, <1>7

\* What compact_context makes of messages without a rejection.
LEMMA CompactScanned ==
  ASSUME NEW ms, NEW xs, NEW open, NEW w, Scanned(ms, xs, open, w),
         ~ \E k \in DOMAIN xs : xs[k].receipt.role = "rejection"
  PROVE  /\ xs = <<>> => CompactContext(ms) = Opening
         /\ xs # <<>> =>
              LET x == xs[Len(xs)]
                  a == ActionOf(x.action)
              IN  IF ~Executable(a) THEN CompactContext(ms) = NoContext
                  ELSE \E d \in Dialogues, fb \in {<<>>, <<Feedback>>} :
                         /\ CompactContext(ms) = (Opening \o Exchange(d)) \o fb
                         /\ d.receipt.role = "result" /\ ActionOf(d.action) = a
<1>1. PICK results : results = {i \in DOMAIN ms : ms[i].role = "result"}
  OBVIOUS
<1>2. PICK actions : actions = {j \in DOMAIN ms : ms[j].role = "assistant" /\ j < Max(results)}
  OBVIOUS
<1>3. PICK rejected \in BOOLEAN : rejected = \E i \in DOMAIN ms : ms[i].role = "rejection"
  OBVIOUS
<1>4. ~rejected
  <2>1. (\E i \in DOMAIN ms : ms[i].role = "rejection") <=> (\E k \in DOMAIN xs : xs[k].receipt.role = "rejection")
    BY DEF Scanned
  <2> QED
    BY <1>3, <2>1
<1>5. CompactContext(ms) =
        IF results = {} THEN <<ms[1], ms[2]>>
        ELSE IF actions = {} \/ ~Executable(ActionOf(ms[Max(actions)])) THEN NoContext
        ELSE <<ms[1], ms[2], Assistant(Plain(ActionOf(ms[Max(actions)]))), Result(Truncated(ms[Max(results)].receipt, LatestChars))>>
             \o IF ms[Max(results)].receipt.ok THEN <<>> ELSE <<Feedback>>
  BY <1>1, <1>2, <1>3, <1>4 DEF CompactContext
<1>6. results = Receipts(ms)
  BY <1>1, <1>3, <1>4 DEF Receipts
<1>7. ms \in Seq(MessageTypes) /\ ms[1] = System /\ ms[2] = Task /\ (xs = <<>> <=> Receipts(ms) = {}) /\ xs \in Seq(Dialogues)
  BY DEF Scanned
<1>8. xs = <<>> => CompactContext(ms) = Opening
  BY <1>5, <1>6, <1>7 DEF Opening
<1>9. ASSUME xs # <<>>
      PROVE  LET x == xs[Len(xs)]
                  a == ActionOf(x.action)
              IN  IF ~Executable(a) THEN CompactContext(ms) = NoContext
                  ELSE \E d \in Dialogues, fb \in {<<>>, <<Feedback>>} :
                         /\ CompactContext(ms) = (Opening \o Exchange(d)) \o fb
                         /\ d.receipt.role = "result" /\ ActionOf(d.action) = a
  <2>1. PICK i \in DOMAIN ms :
           /\ i \in Receipts(ms) /\ i - 1 \in DOMAIN ms /\ ms[i - 1].role = "assistant"
           /\ (\A j \in Receipts(ms) : j <= i)
           /\ xs[Len(xs)] = [action |-> ms[i - 1], receipt |-> ms[i]]
    BY <1>9, LatestReceipt
  <2>2. DOMAIN ms = 1 .. Len(ms) /\ Len(ms) \in Nat
    BY <1>7
  <2>3. Max(results) = i
    <3>1. results \subseteq 0 .. Len(ms) /\ results # {}
      BY <1>1, <1>6, <2>1, <2>2
    <3>2. Max(results) \in results /\ \A j \in results : j <= Max(results)
      BY <2>2, <3>1, Largest
    <3>3. PICK m : m = Max(results)
      OBVIOUS
    <3>4. m \in 0 .. Len(ms) /\ m <= i /\ i <= m
      BY <1>6, <2>1, <3>1, <3>2, <3>3
    <3> QED
      BY <2>2, <3>3, <3>4
  <2>4. actions = {j \in DOMAIN ms : ms[j].role = "assistant" /\ j < i}
    BY <1>2, <2>3
  <2>5. i - 1 \in actions /\ \A j \in actions : j <= i - 1
    BY <2>1, <2>2, <2>4
  <2>6. Max(actions) = i - 1
    <3>1. actions \subseteq 0 .. Len(ms) /\ actions # {}
      BY <2>2, <2>4, <2>5
    <3>2. Max(actions) \in actions /\ \A j \in actions : j <= Max(actions)
      BY <2>2, <3>1, Largest
    <3>3. PICK m : m = Max(actions)
      OBVIOUS
    <3>4. m \in 0 .. Len(ms) /\ m <= i - 1 /\ i - 1 <= m
      BY <2>5, <3>1, <3>2, <3>3
    <3> QED
      BY <2>2, <3>3, <3>4
  <2>7. PICK x, a, p, r0, r : /\ x = xs[Len(xs)] /\ a = ActionOf(x.action) /\ p = Plain(a)
                              /\ r0 = x.receipt.receipt /\ r = Truncated(r0, LatestChars)
    OBVIOUS
  <2>8. x.action = ms[i - 1] /\ x.receipt = ms[i] /\ x \in Dialogues
    <3>1. Len(xs) \in Nat /\ Len(xs) # 0
      BY <1>7, <1>9
    <3>2. xs[Len(xs)] \in Dialogues
      BY <1>7, <3>1
    <3> QED
      BY <2>1, <2>7, <3>2
  <2>9. x.receipt.role = "result"
    BY <1>1, <1>6, <2>1, <2>8
  <2>10. CompactContext(ms) =
           IF ~Executable(a) THEN NoContext
           ELSE <<System, Task, Assistant(p), Result(r)>> \o IF r0.ok THEN <<>> ELSE <<Feedback>>
    <3>1. results # {} /\ actions # {} /\ ActionOf(ms[Max(actions)]) = a /\ ms[Max(results)].receipt = r0
      BY <1>6, <2>1, <2>3, <2>5, <2>6, <2>7, <2>8
    <3> QED
      BY <1>5, <1>7, <2>7, <3>1
  <2>11. CASE ~Executable(a)
    BY <2>7, <2>10, <2>11
  <2>12. CASE Executable(a)
    <3>1. p \in Answers /\ ParseAction(p) = a
      BY <2>7, <2>8, <2>12, DialogueParts, CanonicalForm
    <3>2. r \in ReceiptTypes
      BY <2>7, <2>8, <2>9, DialogueParts, TruncatedTyping, ContextHistoryAssumption
    <3>3. PICK d, fb : d = [action |-> Assistant(p), receipt |-> Result(r)] /\ fb = IF r0.ok THEN <<>> ELSE <<Feedback>>
      OBVIOUS
    <3>4. d \in Dialogues /\ d.receipt.role = "result" /\ ActionOf(d.action) = a
      BY <3>1, <3>2, <3>3, ResultPair
    <3>5. <<System, Task, Assistant(p), Result(r)>> = Opening \o Exchange(d)
      BY <3>3 DEF Opening, Exchange
    <3>6. CompactContext(ms) = (Opening \o Exchange(d)) \o fb
      BY <2>10, <2>12, <3>3, <3>5
    <3>7. fb \in {<<>>, <<Feedback>>}
      BY <3>3
    <3> QED
      BY <2>7, <2>12, <3>4, <3>6, <3>7
  <2> QED
    BY <2>11, <2>12
<1> QED
  BY <1>8, <1>9

\* A dialogue of a context and the one of the messages it was made of.
Same(d, x) ==
  /\ d.receipt.role = x.receipt.role
  /\ x.receipt.role = "rejection" => d = x
  /\ x.receipt.role = "result" => ActionOf(d.action) = ActionOf(x.action) /\ Executable(ActionOf(x.action))

LEMMA RecentShape ==
  ASSUME NEW ms, NEW xs, NEW open, NEW w, Scanned(ms, xs, open, w), NEW n \in Nat \ {0}, xs # <<>>,
         RecentHistory(ms, n) # NoContext
  PROVE  /\ Scanned(RecentHistory(ms, n), Retained(xs, n), {}, w)
         /\ Retained(xs, n) # <<>> /\ Same(Retained(xs, n)[Len(Retained(xs, n))], xs[Len(xs)])
<1>1. PICK s, ds : s = LastOf(xs, n) /\ ds = Retained(xs, n)
  OBVIOUS
<1>2. \A k \in DOMAIN s : Real(s[k])
  <2>1. ~(\A k \in DOMAIN LastOf(xs, n) : Real(LastOf(xs, n)[k])) => RecentHistory(ms, n) = NoContext
    BY RecentScanned
  <2> QED
    BY <1>1, <2>1
<1>3. /\ RecentHistory(ms, n) = (Opening \o Flat(ds)) \o w
      /\ ds \in Seq(Dialogues) /\ Len(ds) = Len(s)
  <2>1. \A k \in DOMAIN LastOf(xs, n) : Real(LastOf(xs, n)[k])
    BY <1>1, <1>2
  <2>2. /\ RecentHistory(ms, n) = (Opening \o Flat(Retained(xs, n))) \o w
        /\ Retained(xs, n) \in Seq(Dialogues) /\ Len(Retained(xs, n)) = Len(LastOf(xs, n))
    BY <2>1, RecentScanned
  <2> QED
    BY <1>1, <2>2
<1>4. Scanned(Opening \o Flat(ds), ds, {}, <<>>)
  BY <1>3, ScannedFlat
<1>5. Interventions(w) /\ xs \in Seq(Dialogues)
  BY DEF Scanned
<1>6. Scanned((Opening \o Flat(ds)) \o w, ds, {}, w)
  BY <1>4, <1>5, ScannedTold
<1>7. /\ s \in Seq(Dialogues) /\ Len(s) \in Nat /\ (Len(s) = Len(xs) \/ Len(s) = n)
      /\ \A k \in 1 .. Len(s) : Len(xs) - Len(s) + k \in 1 .. Len(xs) /\ s[k] = xs[Len(xs) - Len(s) + k]
  <2>1. LET t == LastOf(xs, n) IN
          /\ t \in Seq(Dialogues) /\ Len(t) \in Nat /\ (Len(t) = Len(xs) \/ Len(t) = n)
          /\ \A k \in 1 .. Len(t) : Len(xs) - Len(t) + k \in 1 .. Len(xs) /\ t[k] = xs[Len(xs) - Len(t) + k]
    BY <1>5, LastOfTyping
  <2> QED
    BY <1>1, <2>1
<1>8. PICK l, z : l = Len(s) /\ z = Len(xs)
  OBVIOUS
<1>9. z \in Nat /\ z # 0
  BY <1>5, <1>8
<1>10. l \in 1 .. l /\ l # 0 /\ z - l + l = z
  BY <1>7, <1>8, <1>9
<1>11. s[l] = xs[z] /\ l \in DOMAIN s
  BY <1>7, <1>8, <1>10
<1>12. ds[l] = Canonical(s[l], LatestChars)
  BY <1>1, <1>8, <1>11 DEF Retained
<1>13. Real(s[l]) /\ s[l] \in Dialogues
  BY <1>2, <1>7, <1>11
<1>14. Same(ds[l], s[l])
  BY <1>12, <1>13, CanonicalTyping, ContextHistoryAssumption DEF Same
<1>15. ds # <<>>
  <2>1. Len(<<>>) = 0
    OBVIOUS
  <2> QED
    BY <1>3, <1>8, <1>10, <2>1
<1> QED
  BY <1>1, <1>3, <1>6, <1>8, <1>11, <1>14, <1>15

\* The last interaction stays the last, under both bounded policies.
LEMMA PreparedShape ==
  ASSUME NEW ms, NEW xs, NEW open, NEW w, Scanned(ms, xs, open, w), NEW p \in BoundedPolicies,
         NEW c, c = PrepareContext(ms, p), c # NoContext, xs = <<>> => open = {} /\ w = <<>>
  PROVE  \E ds, v : /\ Scanned(c, ds, {}, v) /\ (ds = <<>> <=> xs = <<>>)
                    /\ xs # <<>> => Same(ds[Len(ds)], xs[Len(xs)])
<1>1. ASSUME NEW n \in Nat \ {0}, c = RecentHistory(ms, n)
      PROVE  \E ds, v : /\ Scanned(c, ds, {}, v) /\ (ds = <<>> <=> xs = <<>>)
                        /\ xs # <<>> => Same(ds[Len(ds)], xs[Len(xs)])
  <2>1. CASE xs = <<>>
    <3>1. c = ms
      BY <1>1, <2>1, RecentScanned
    <3> QED
      BY <2>1, <3>1
  <2>2. CASE xs # <<>>
    <3>1. PICK ds : ds = Retained(xs, n)
      OBVIOUS
    <3>2. Scanned(c, ds, {}, w) /\ ds # <<>> /\ Same(ds[Len(ds)], xs[Len(xs)])
      BY <1>1, <2>2, <3>1, RecentShape
    <3> QED
      BY <2>2, <3>2
  <2> QED
    BY <2>1, <2>2
<1>2. CASE p = "recent-history-v3"
  <2>1. c = RecentHistory(ms, HistoryTurns) /\ HistoryTurns \in Nat \ {0}
    BY <1>2, ContextHistoryAssumption DEF PrepareContext
  <2> QED
    BY <1>1, <2>1
<1>3. CASE p # "recent-history-v3" /\ \E k \in DOMAIN xs : xs[k].receipt.role = "rejection"
  <2>1. \E i \in DOMAIN ms : ms[i].role = "rejection"
    BY <1>3 DEF Scanned
  <2>3. c = CompactContext(ms)
    BY <1>3 DEF PrepareContext, BoundedPolicies
  <2>4. CompactContext(ms) = RecentHistory(ms, 2)
    BY <2>1 DEF CompactContext
  <2>2. c = RecentHistory(ms, 2) /\ 2 \in Nat \ {0}
    BY <2>3, <2>4
  <2> QED
    BY <1>1, <2>2
<1>4. CASE p # "recent-history-v3" /\ ~ \E k \in DOMAIN xs : xs[k].receipt.role = "rejection"
  <2>1. c = CompactContext(ms)
    BY <1>4 DEF PrepareContext, BoundedPolicies
  <2>2. CASE xs = <<>>
    <3>1. c = Opening
      BY <1>4, <2>1, <2>2, CompactScanned
    <3>2. Scanned(c, <<>>, {}, <<>>)
      BY <3>1, ScannedStart DEF Opening
    <3> QED
      BY <2>2, <3>2
  <2>3. CASE xs # <<>>
    <3>1. PICK x, a : x = xs[Len(xs)] /\ a = ActionOf(x.action)
      OBVIOUS
    <3>2. /\ Executable(a)
          /\ \E d \in Dialogues, fb \in {<<>>, <<Feedback>>} :
               /\ CompactContext(ms) = (Opening \o Exchange(d)) \o fb
               /\ d.receipt.role = "result" /\ ActionOf(d.action) = a
      <4>1. LET y == xs[Len(xs)]
                b == ActionOf(y.action)
            IN  IF ~Executable(b) THEN CompactContext(ms) = NoContext
                ELSE \E d \in Dialogues, fb \in {<<>>, <<Feedback>>} :
                       /\ CompactContext(ms) = (Opening \o Exchange(d)) \o fb
                       /\ d.receipt.role = "result" /\ ActionOf(d.action) = b
        BY <1>4, <2>3, CompactScanned
      <4> QED
        BY <2>1, <3>1, <4>1
    <3>3. PICK d \in Dialogues, fb \in {<<>>, <<Feedback>>} :
               /\ c = (Opening \o Exchange(d)) \o fb
               /\ d.receipt.role = "result" /\ ActionOf(d.action) = a
      BY <2>1, <3>2
    <3>4. Scanned(Opening, <<>>, {}, <<>>)
      BY ScannedStart DEF Opening
    <3>5. PICK u, ds : u = Opening \o Exchange(d) /\ ds = Append(<<>>, d)
      OBVIOUS
    <3>6. Scanned(u, ds, {}, <<>>)
      BY <3>4, <3>5, ScannedExchange
    <3>7. Len(ds) = 1 /\ ds[1] = d /\ ds # <<>>
      BY <3>5
    <3>8. Scanned(c, ds, {}, <<>>)
      <4>1. CASE fb = <<>>
        <5>1. u \in Seq(MessageTypes)
          BY <3>6 DEF Scanned
        <5>2. u \o <<>> = u
          BY <5>1
        <5> QED
          BY <3>3, <3>5, <3>6, <4>1, <5>2
      <4>2. CASE fb = <<Feedback>>
        <5>1. PICK n, v : n = Len(u) /\ v = Append(u, Feedback)
          OBVIOUS
        <5>2. u \in Seq(MessageTypes) /\ Feedback \in MessageTypes
          BY <3>6, MessagesTyping DEF Scanned
        <5>3. OneLonger(v, u, Feedback, n)
          BY <5>1, <5>2, OneMore
        <5>4. Feedback.role = "feedback" /\ ~IsReceipt(Feedback)
          BY DEF Feedback, IsReceipt
        <5>5. Scanned(v, NextInteractions(ds, u, Feedback), NextOpen({}, u, Feedback), NextActive(<<>>, Feedback))
          BY <3>6, <5>1, <5>2, <5>3, <5>4, ScannedMore
        <5>6. NextInteractions(ds, u, Feedback) = ds /\ NextOpen({}, u, Feedback) = {} /\ NextActive(<<>>, Feedback) = <<>>
          BY <5>4 DEF NextInteractions, NextOpen, NextActive
        <5>7. c = v
          BY <3>3, <3>5, <4>2, <5>1, <5>2
        <5> QED
          BY <5>5, <5>6, <5>7
      <4> QED
        BY <4>1, <4>2
    <3>9. x.receipt.role = "result"
      <4>1. xs \in Seq(Dialogues)
        BY DEF Scanned
      <4>2. Len(xs) \in DOMAIN xs /\ x \in Dialogues
        <5>1. Len(xs) \in Nat /\ Len(xs) # 0 /\ DOMAIN xs = 1 .. Len(xs)
          BY <2>3, <4>1
        <5>2. Len(xs) \in 1 .. Len(xs)
          BY <5>1
        <5> QED
          BY <3>1, <4>1, <5>1, <5>2
      <4> QED
        BY <1>4, <3>1, <4>2, DialogueParts
    <3>10. Same(d, x)
      BY <3>1, <3>2, <3>3, <3>9 DEF Same
    <3> QED
      BY <2>3, <3>1, <3>7, <3>8, <3>10
  <2> QED
    BY <2>2, <2>3
<1> QED
  BY <1>2, <1>3, <1>4

-----------------------------------------------------------------------------
(* The messages and the turns they are about.                              *)

\* The turns with a receipt among the first n.
Before(ts, n) == {r \in 1 .. n : HasReceipt(ts[r])}

\* An interaction that shows a turn.
Describes(x, t) ==
  /\ x.receipt.role = IF t.outcome = "ran" THEN "result" ELSE "rejection"
  /\ ActionOf(x.action) = t.action

ShowsLatest(xs, ts, n) ==
  IF Before(ts, n) = {} THEN xs = <<>>
  ELSE xs # <<>> /\ Describes(xs[Len(xs)], ts[Max(Before(ts, n))])

\* A context made after n turns.
Contextual(c, ts, n) == \E xs, w : Scanned(c, xs, {}, w) /\ ShowsLatest(xs, ts, n)

\* The messages before a request: without an interaction they are the first two.
Waiting(ms, ts) ==
  \E xs, open, w : /\ Scanned(ms, xs, open, w) /\ ShowsLatest(xs, ts, Len(ts))
                   /\ xs = <<>> => open = {} /\ w = <<>>

\* Every context shows the turn with the latest receipt last.
Shape ==
  /\ \A n \in DOMAIN turns : Contextual(turns[n].context, turns, n - 1)
  /\ status = "running" /\ answer = <<>> => Waiting(messages, turns)
  /\ status = "running" /\ answer # <<>> =>
       \E c : Contextual(c, turns, Len(turns)) /\ messages = Append(c, Assistant(answer[1]))

\* How a run goes on: a checkout is changed by tools only, an action that cannot
\* be shown is the last, and so is the turn a run completes with.
Progress ==
  /\ Patched => \E n \in DOMAIN turns : turns[n].outcome = "ran"
  /\ \A n \in DOMAIN turns :
       turns[n].outcome = "ran" /\ ~Executable(turns[n].action) =>
         n = Len(turns) /\ answer = <<>> /\ status # "completed"
  /\ \A n \in DOMAIN turns : turns[n].outcome \in {"finished", "unparsed"} => n = Len(turns) /\ status = "completed"
  /\ status = "completed" => turns # <<>> /\ turns[Len(turns)].outcome \in {"finished", "unparsed"}
  /\ status # "running" => answer = <<>>

\* One turn more.
Extended(us, ts, t) ==
  /\ us = Append(ts, t) /\ us \in Seq(TurnTypes) /\ ts \in Seq(TurnTypes) /\ t \in TurnTypes
  /\ Len(ts) \in Nat /\ Len(us) = Len(ts) + 1 /\ us[Len(ts) + 1] = t /\ \A n \in 1 .. Len(ts) : us[n] = ts[n]
  /\ \A n \in 0 .. Len(ts) : Before(us, n) = Before(ts, n)
  /\ \A r : r \in Before(us, Len(ts) + 1) <=> r \in Before(ts, Len(ts)) \/ (r = Len(ts) + 1 /\ HasReceipt(t))

LEMMA BeforeMore ==
  ASSUME NEW ts \in Seq(TurnTypes), NEW t \in TurnTypes, NEW us, us = Append(ts, t)
  PROVE  Extended(us, ts, t)
<1>1. PICK k : k = Len(ts)
  OBVIOUS
<1>2. k \in Nat /\ Len(us) = k + 1 /\ us[k + 1] = t /\ \A n \in 1 .. k : us[n] = ts[n]
  BY <1>1
<1>3. ASSUME NEW n \in 0 .. k
      PROVE  Before(us, n) = Before(ts, n)
  <2>1. \A r \in 1 .. n : r \in 1 .. k
    BY <1>2
  <2> QED
    BY <1>2, <2>1 DEF Before
<1>4. \A r : r \in 1 .. k + 1 <=> r \in 1 .. k \/ r = k + 1
  BY <1>2
<1>5. \A r : r \in Before(us, k + 1) <=> r \in Before(ts, k) \/ (r = k + 1 /\ HasReceipt(t))
  BY <1>2, <1>4 DEF Before
<1>6. us \in Seq(TurnTypes)
  OBVIOUS
<1> QED
  BY <1>1, <1>2, <1>3, <1>5, <1>6 DEF Extended

\* The latest turn with a receipt.
LEMMA LatestBefore ==
  ASSUME NEW ts, NEW n \in Nat, Before(ts, n) # {}
  PROVE  /\ Max(Before(ts, n)) \in 1 .. n /\ HasReceipt(ts[Max(Before(ts, n))])
         /\ \A r \in Before(ts, n) : r <= Max(Before(ts, n))
<1>1. Before(ts, n) \subseteq 0 .. n
  BY DEF Before
<1>2. Max(Before(ts, n)) \in Before(ts, n) /\ \A r \in Before(ts, n) : r <= Max(Before(ts, n))
  BY <1>1, Largest
<1> QED
  BY <1>2 DEF Before

\* A further turn leaves the earlier contexts as they were.
LEMMA ContextualMore ==
  ASSUME NEW us, NEW ts, NEW t, Extended(us, ts, t), NEW xs, NEW n \in 0 .. Len(ts), ShowsLatest(xs, ts, n)
  PROVE  ShowsLatest(xs, us, n)
<1>1. Before(us, n) = Before(ts, n)
  BY DEF Extended
<1>2. CASE Before(ts, n) = {}
  BY <1>1, <1>2 DEF ShowsLatest
<1>3. CASE Before(ts, n) # {}
  <2>1. PICK m : m = Max(Before(ts, n))
    OBVIOUS
  <2>2. Len(ts) \in Nat /\ n \in Nat /\ n <= Len(ts)
    BY DEF Extended
  <2>3. m \in 1 .. n
    BY <1>3, <2>1, <2>2, LatestBefore
  <2>4. m \in 1 .. Len(ts)
    BY <2>2, <2>3
  <2>5. us[m] = ts[m]
    BY <2>4 DEF Extended
  <2> QED
    BY <1>1, <1>3, <2>1, <2>5 DEF ShowsLatest
<1> QED
  BY <1>2, <1>3

\* The interaction of a further turn is the latest, if it has a receipt.
LEMMA ShowsMore ==
  ASSUME NEW us, NEW ts, NEW t, Extended(us, ts, t), NEW xs \in Seq(Dialogues),
         ShowsLatest(xs, ts, Len(ts))
  PROVE  /\ ~HasReceipt(t) => ShowsLatest(xs, us, Len(us))
         /\ \A d \in Dialogues : HasReceipt(t) /\ Describes(d, t) => ShowsLatest(Append(xs, d), us, Len(us))
<1>1. PICK k : k = Len(ts)
  OBVIOUS
<1>2. k \in Nat /\ Len(us) = k + 1 /\ us[k + 1] = t /\ (\A n \in 1 .. k : us[n] = ts[n]) /\ k \in 0 .. k
  BY <1>1 DEF Extended
<1>3. /\ Before(us, k) = Before(ts, k)
      /\ \A r : r \in Before(us, k + 1) <=> r \in Before(ts, k) \/ (r = k + 1 /\ HasReceipt(t))
  BY <1>1, <1>2 DEF Extended
<1>4. ASSUME ~HasReceipt(t)
      PROVE  ShowsLatest(xs, us, k + 1)
  <2>1. Before(us, k + 1) = Before(us, k)
    <3>1. Before(us, k + 1) \subseteq Int /\ Before(us, k) \subseteq Int
      BY <1>2 DEF Before
    <3> QED
      BY <1>3, <1>4, <3>1
  <2>2. ShowsLatest(xs, us, k)
    BY <1>1, <1>2, ContextualMore
  <2> QED
    BY <2>1, <2>2 DEF ShowsLatest
<1>5. ASSUME NEW d \in Dialogues, HasReceipt(t), Describes(d, t)
      PROVE  ShowsLatest(Append(xs, d), us, k + 1)
  <2>1. k + 1 \in Before(us, k + 1)
    BY <1>3, <1>5
  <2>2. PICK m : m = Max(Before(us, k + 1))
    OBVIOUS
  <2>3. m \in 1 .. k + 1 /\ k + 1 <= m
    BY <1>2, <2>1, <2>2, LatestBefore
  <2>4. m = k + 1
    BY <1>2, <2>3
  <2>5. PICK ys : ys = Append(xs, d)
    OBVIOUS
  <2>6. ys # <<>> /\ ys[Len(ys)] = d
    BY <2>5
  <2> QED
    BY <1>2, <1>5, <2>1, <2>2, <2>4, <2>5, <2>6 DEF ShowsLatest
<1> QED
  BY <1>1, <1>2, <1>4, <1>5

\* A turn of the pending answer.
Pending(t, o) ==
  /\ t \in TurnTypes /\ t.answer = answer[1] /\ t.action = Action /\ t.outcome = o
  /\ t.context = Front(messages) /\ t.before = files

LEMMA PlainTurn ==
  ASSUME Typing, answer # <<>>, Front(messages) \in Seq(MessageTypes), NEW o \in Outcomes
  PROVE  Pending(Turn(o), o) /\ Turn(o).after = files /\ Turn(o).receipt = <<>> /\ Turn(o).expected = <<>>
<1>1. answer[1] \in Answers /\ Action \in Parsed \cup {Invalid}
  BY AnswerTyping
<1>2. files \in Trees /\ <<>> \in Contents /\ <<>> \in ReceiptTypes \cup {<<>>}
  BY DEF Typing, Contents
<1>3. PICK t : t = Turn(o)
  OBVIOUS
<1>4. t = [answer |-> answer[1], action |-> Action, outcome |-> o, context |-> Front(messages),
           before |-> files, after |-> files, expected |-> <<>>, receipt |-> <<>>]
  BY <1>3 DEF Turn
<1>5. t \in TurnTypes
  BY <1>1, <1>2, <1>4 DEF TurnTypes
<1>6. /\ t.answer = answer[1] /\ t.action = Action /\ t.outcome = o /\ t.context = Front(messages)
      /\ t.before = files /\ t.after = files /\ t.expected = <<>> /\ t.receipt = <<>>
  BY <1>4
<1> QED
  BY <1>3, <1>5, <1>6 DEF Pending

\* The turn of an action that was refused as a repetition.
RepeatedTurn == [Turn("repeated") EXCEPT !.expected = Expected]

\* The turn of an action that ran.
RanAs(o) == [Turn("ran") EXCEPT !.expected = Expected, !.receipt = o.receipt, !.after = o.files]

LEMMA ExpectingTurn ==
  ASSUME Typing, answer # <<>>, Front(messages) \in Seq(MessageTypes), Expected \in Contents
  PROVE  Pending(RepeatedTurn, "repeated") /\ RepeatedTurn.after = files /\ RepeatedTurn.receipt = <<>>
<1>1. "repeated" \in Outcomes
  BY DEF Outcomes
<1>2. PICK u : u = Turn("repeated") /\ Pending(u, "repeated") /\ u.after = files /\ u.receipt = <<>>
  BY <1>1, PlainTurn
<1>3. PICK t : t = [u EXCEPT !.expected = Expected]
  OBVIOUS
<1>4. t = RepeatedTurn
  BY <1>2, <1>3 DEF RepeatedTurn
<1>5. u \in TurnTypes
  BY <1>2 DEF Pending
<1>6. /\ t \in TurnTypes /\ t.answer = u.answer /\ t.action = u.action /\ t.outcome = u.outcome
      /\ t.context = u.context /\ t.before = u.before /\ t.after = u.after /\ t.receipt = u.receipt
  BY <1>3, <1>5 DEF TurnTypes
<1> QED
  BY <1>2, <1>4, <1>6 DEF Pending

LEMMA RanTurn ==
  ASSUME Typing, answer # <<>>, Front(messages) \in Seq(MessageTypes), Expected \in Contents,
         NEW o, o.receipt \in ReceiptTypes, o.files \in Trees
  PROVE  /\ Pending(RanAs(o), "ran") /\ RanAs(o).after = o.files /\ RanAs(o).receipt = o.receipt
         /\ RanAs(o).expected = Expected
<1>1. "ran" \in Outcomes
  BY DEF Outcomes
<1>2. PICK u : u = Turn("ran") /\ Pending(u, "ran")
  BY <1>1, PlainTurn
<1>3. PICK v : v = [u EXCEPT !.expected = Expected]
  OBVIOUS
<1>4. PICK w : w = [v EXCEPT !.receipt = o.receipt]
  OBVIOUS
<1>5. PICK t : t = [w EXCEPT !.after = o.files]
  OBVIOUS
<1>6. t = RanAs(o)
  BY <1>2, <1>3, <1>4, <1>5 DEF RanAs
<1>7. u \in TurnTypes
  BY <1>2 DEF Pending
<1>8. /\ v \in TurnTypes /\ v.expected = Expected /\ v.answer = u.answer /\ v.action = u.action
      /\ v.outcome = u.outcome /\ v.context = u.context /\ v.before = u.before
  BY <1>3, <1>7 DEF TurnTypes
<1>9. /\ w \in TurnTypes /\ w.receipt = o.receipt /\ w.expected = v.expected /\ w.answer = v.answer /\ w.action = v.action
      /\ w.outcome = v.outcome /\ w.context = v.context /\ w.before = v.before
  BY <1>4, <1>8 DEF TurnTypes
<1>10. /\ t \in TurnTypes /\ t.after = o.files /\ t.receipt = w.receipt /\ t.expected = w.expected /\ t.answer = w.answer
      /\ t.action = w.action /\ t.outcome = w.outcome /\ t.context = w.context /\ t.before = w.before
  BY <1>5, <1>9 DEF TurnTypes
<1> QED
  BY <1>2, <1>6, <1>8, <1>9, <1>10 DEF Pending

\* The messages with the pending answer, read.
LEMMA AnsweredScan ==
  ASSUME Typing, Shape, Answered
  PROVE  \E c, xs, w, v :
           /\ Scanned(c, xs, {}, w) /\ ShowsLatest(xs, turns, Len(turns))
           /\ c = Front(messages) /\ c \in Seq(MessageTypes)
           /\ messages = Append(c, Assistant(answer[1]))
           /\ Scanned(messages, xs, {Len(messages)}, v)
           /\ messages \in Seq(MessageTypes) /\ messages[Len(messages)] = Assistant(answer[1])
<1>1. PICK c : Contextual(c, turns, Len(turns)) /\ messages = Append(c, Assistant(answer[1]))
  BY DEF Shape, Answered
<1>2. PICK xs, w : Scanned(c, xs, {}, w) /\ ShowsLatest(xs, turns, Len(turns))
  BY <1>1 DEF Contextual
<1>3. c \in Seq(MessageTypes)
  BY <1>2 DEF Scanned
<1>4. PICK m, n : m = Assistant(answer[1]) /\ n = Len(c)
  OBVIOUS
<1>5. m \in MessageTypes /\ m.role = "assistant" /\ ~IsReceipt(m)
  BY <1>4, AnswerTyping, MessagesTyping DEF Answered, Assistant, IsReceipt
<1>6. messages \in Seq(MessageTypes) /\ n \in Nat /\ Len(messages) = n + 1 /\ messages[n + 1] = m
  BY <1>1, <1>3, <1>4, <1>5
<1>7. Front(messages) = c
  <2>1. Front(messages) = [i \in 1 .. n |-> messages[i]]
    <3>1. Front(messages) = SubSeq(messages, 1, n)
      BY <1>6 DEF Front
    <3>2. SubSeq(messages, 1, n) = [i \in 1 .. n |-> messages[i]]
      BY <1>6
    <3> QED
      BY <3>1, <3>2
  <2>2. c = [i \in 1 .. n |-> c[i]] /\ \A i \in 1 .. n : messages[i] = c[i]
    BY <1>1, <1>3, <1>4
  <2> QED
    BY <2>1, <2>2
<1>8. OneLonger(messages, c, m, n)
  BY <1>1, <1>3, <1>4, <1>5, OneMore
<1>9. Scanned(messages, NextInteractions(xs, c, m), NextOpen({}, c, m), NextActive(w, m))
  BY <1>2, <1>4, <1>5, <1>8, ScannedMore
<1>10. NextInteractions(xs, c, m) = xs /\ NextOpen({}, c, m) = {n + 1}
  BY <1>4, <1>5 DEF NextInteractions, NextOpen
<1> QED
  BY <1>1, <1>2, <1>3, <1>4, <1>6, <1>7, <1>9, <1>10

\* Warnings at the end leave the interactions as they are.
WarningTypes == {m \in MessageTypes : m.role = "warning"}

LEMMA ScannedWarnings ==
  ASSUME NEW ms, NEW xs, NEW open, NEW w, Scanned(ms, xs, open, w), NEW s \in Seq(WarningTypes)
  PROVE  \E v : Scanned(ms \o s, xs, open, v)
<1> DEFINE S == {u \in Seq(WarningTypes) : \E v : Scanned(ms \o u, xs, open, v)}
<1>0. ms \in Seq(MessageTypes)
  BY DEF Scanned
<1>1. <<>> \in S
  <2>1. ms \o <<>> = ms /\ <<>> \in Seq(WarningTypes)
    BY <1>0
  <2> QED
    BY <2>1
<1>2. ASSUME NEW u \in Seq(WarningTypes), NEW m \in WarningTypes, u \in S
      PROVE  Append(u, m) \in S
  <2>1. PICK v : Scanned(ms \o u, xs, open, v)
    BY <1>2
  <2>2. PICK b, n, c : b = ms \o u /\ n = Len(b) /\ c = Append(b, m)
    OBVIOUS
  <2>3. b \in Seq(MessageTypes) /\ m \in MessageTypes /\ m.role = "warning"
    BY <2>1, <2>2 DEF Scanned, WarningTypes
  <2>4. OneLonger(c, b, m, n)
    BY <2>2, <2>3, OneMore
  <2>5. ~IsReceipt(m) /\ m.role \notin {"system", "task"}
    BY <2>3 DEF IsReceipt
  <2>6. Scanned(c, NextInteractions(xs, b, m), NextOpen(open, b, m), NextActive(v, m))
    BY <2>1, <2>2, <2>3, <2>4, <2>5, ScannedMore
  <2>7. NextInteractions(xs, b, m) = xs /\ NextOpen(open, b, m) = open
    BY <2>3, <2>5 DEF NextInteractions, NextOpen
  <2>8. ms \o Append(u, m) = c /\ Append(u, m) \in Seq(WarningTypes)
    <3>1. WarningTypes \subseteq MessageTypes
      BY DEF WarningTypes
    <3>2. u \in Seq(MessageTypes) /\ Append(u, m) \in Seq(WarningTypes)
      BY <3>1
    <3> QED
      BY <1>0, <2>2, <2>3, <3>2
  <2> QED
    BY <2>6, <2>7, <2>8
<1>3. Seq(WarningTypes) \subseteq S
  <2> HIDE DEF S
  <2> QED
    BY <1>1, <1>2, InductiveSequences
<1> QED
  BY <1>3

\* A receipt of the pending answer, and warnings.
LEMMA ToldReceipt ==
  ASSUME Typing, Shape, Answered, NEW m \in MessageTypes, IsReceipt(m), NEW s \in Seq(WarningTypes),
         NEW t, Pending(t, t.outcome), HasReceipt(t),
         m.role = IF t.outcome = "ran" THEN "result" ELSE "rejection",
         NEW ts, ts = Append(turns, t)
  PROVE  Waiting(messages \o (<<m>> \o s), ts)
<1>1. PICK c, xs, w, v :
           /\ Scanned(c, xs, {}, w) /\ ShowsLatest(xs, turns, Len(turns))
           /\ Scanned(messages, xs, {Len(messages)}, v)
           /\ messages \in Seq(MessageTypes) /\ messages[Len(messages)] = Assistant(answer[1])
  BY AnsweredScan
<1>2. PICK n, u, d : n = Len(messages) /\ u = Append(messages, m) /\ d = [action |-> Assistant(answer[1]), receipt |-> m]
  OBVIOUS
<1>3. OneLonger(u, messages, m, n)
  BY <1>1, <1>2, OneMore
<1>4. m.role \notin {"system", "task"}
  BY DEF IsReceipt
<1>5. Scanned(u, NextInteractions(xs, messages, m), NextOpen({n}, messages, m), NextActive(v, m))
  BY <1>1, <1>2, <1>3, <1>4, ScannedMore
<1>6. NextInteractions(xs, messages, m) = Append(xs, d) /\ NextOpen({n}, messages, m) = {}
  BY <1>1, <1>2 DEF NextInteractions, NextOpen
<1>7. PICK z : Scanned(u \o s, Append(xs, d), {}, z)
  <2>1. Scanned(u, Append(xs, d), {}, NextActive(v, m))
    BY <1>5, <1>6
  <2> QED
    BY <2>1, ScannedWarnings
<1>8. u \o s = messages \o (<<m>> \o s)
  <2>1. s \in Seq(MessageTypes)
    <3>1. WarningTypes \subseteq MessageTypes
      BY DEF WarningTypes
    <3> QED
      BY <3>1
  <2> QED
    BY <1>1, <1>2, <2>1
<1>9. d \in Dialogues
  <2>1. answer[1] \in Answers
    BY AnswerTyping DEF Answered
  <2>2. Assistant(answer[1]) \in MessageTypes /\ Assistant(answer[1]).role = "assistant"
    BY <2>1, MessagesTyping DEF Assistant
  <2> QED
    BY <1>2, <2>2 DEF Dialogues
<1>10. Describes(d, t)
  <2>1. ActionOf(d.action) = Action
    BY <1>2 DEF ActionOf, Assistant, Action
  <2> QED
    BY <1>2, <2>1 DEF Describes, Pending
<1>11. Extended(ts, turns, t)
  BY BeforeMore DEF Typing, Pending
<1>12. xs \in Seq(Dialogues)
  BY <1>1 DEF Scanned
<1>13. ShowsLatest(Append(xs, d), ts, Len(ts))
  BY <1>1, <1>9, <1>10, <1>11, <1>12, ShowsMore
<1>14. Append(xs, d) # <<>>
  BY <1>12
<1> QED
  BY <1>7, <1>8, <1>13, <1>14 DEF Waiting

\* The turns go on with the pending one.
LEMMA TurnsGoOn ==
  ASSUME Typing, Shape, Answered, NEW t, Pending(t, t.outcome), TurnIsWhole(t), NEW ts, ts = Append(turns, t)
  PROVE  /\ ts \in Seq(TurnTypes) /\ \A n \in DOMAIN ts : TurnIsWhole(ts[n])
         /\ \A n \in DOMAIN ts : Contextual(ts[n].context, ts, n - 1)
<1>1. Extended(ts, turns, t)
  BY BeforeMore DEF Typing, Pending
<1>2. PICK k : k = Len(turns)
  OBVIOUS
<1>3. /\ k \in Nat /\ DOMAIN turns = 1 .. k /\ DOMAIN ts = 1 .. k + 1 /\ ts[k + 1] = t /\ (\A n \in 1 .. k : ts[n] = turns[n])
      /\ ts \in Seq(TurnTypes)
  BY <1>1, <1>2 DEF Extended
<1>4. \A n : n \in 1 .. k + 1 <=> n \in 1 .. k \/ n = k + 1
  BY <1>3
<1>5. \A n \in DOMAIN ts : TurnIsWhole(ts[n])
  BY <1>3, <1>4 DEF Typing
<1>6. ASSUME NEW n \in DOMAIN ts
      PROVE  Contextual(ts[n].context, ts, n - 1)
  <2>1. CASE n \in 1 .. k
    <3>1. PICK xs, w : Scanned(turns[n].context, xs, {}, w) /\ ShowsLatest(xs, turns, n - 1)
      BY <1>3, <2>1 DEF Shape, Contextual
    <3>2. n - 1 \in 0 .. Len(turns)
      BY <1>2, <1>3, <2>1
    <3>3. ShowsLatest(xs, ts, n - 1)
      BY <1>1, <3>1, <3>2, ContextualMore
    <3> QED
      BY <1>3, <2>1, <3>1, <3>3 DEF Contextual
  <2>2. CASE n = k + 1
    <3>1. PICK c, xs, w : Scanned(c, xs, {}, w) /\ ShowsLatest(xs, turns, Len(turns)) /\ c = Front(messages)
      BY AnsweredScan
    <3>2. Len(turns) \in 0 .. Len(turns) /\ n - 1 = Len(turns)
      BY <1>2, <1>3, <2>2
    <3>3. ShowsLatest(xs, ts, Len(turns))
      BY <1>1, <3>1, <3>2, ContextualMore
    <3>4. ts[n].context = c
      BY <1>3, <2>2, <3>1 DEF Pending
    <3> QED
      BY <3>1, <3>2, <3>3, <3>4 DEF Contextual
  <2> QED
    BY <1>3, <1>4, <2>1, <2>2
<1> QED
  BY <1>3, <1>5, <1>6

-----------------------------------------------------------------------------
(* The loop keeps its turns, messages and status in order.                 *)

Whole == Typing /\ Shape /\ Progress

LEMMA InitIsWhole == Init /\ policy \in BoundedPolicies => Whole
<1> SUFFICES ASSUME Init, policy \in BoundedPolicies
             PROVE  Whole
  OBVIOUS
<1>1. Original \in Trees
  BY ConversationAssumption DEF Trees, Contents
<1>2. <<>> \in Seq(Packets) /\ <<>> \in Seq(Responses) /\ <<>> \in Seq(TurnTypes) /\ Len(<<>>) = 0 /\ DOMAIN <<>> = {}
  OBVIOUS
<1>3. Typing
  BY <1>1, <1>2 DEF Init, Typing
<1>4. Before(turns, Len(turns)) = {}
  BY <1>2 DEF Init, Before
<1>5. Waiting(messages, turns)
  <2>1. Scanned(messages, <<>>, {}, <<>>)
    BY ScannedStart DEF Init
  <2>2. ShowsLatest(<<>>, turns, Len(turns))
    BY <1>4 DEF ShowsLatest
  <2> QED
    BY <2>1, <2>2 DEF Waiting
<1>6. Shape
  BY <1>2, <1>5 DEF Init, Shape
<1>7. Progress
  BY <1>2 DEF Init, Progress, Patched
<1> QED
  BY <1>3, <1>6, <1>7 DEF Whole

\* The context of a request shows what the messages show.
LEMMA AskIsWhole == Whole /\ Ask => Whole'
<1> SUFFICES ASSUME Whole, Ask
             PROVE  Whole'
  OBVIOUS
<1>1. PICK c : c = PrepareContext(messages, policy)
  OBVIOUS
<1>2. /\ status = "running" /\ answer = <<>>
      /\ policy' = policy /\ files' = files /\ tested' = tested /\ observations' = observations /\ turns' = turns
  BY DEF Ask
<1>3. Typing /\ Shape /\ Progress
  BY DEF Whole
<1>4. CASE c = NoContext
  <2>1. status' = "interrupted" /\ messages' = messages /\ answer' = answer
    BY <1>1, <1>4 DEF Ask
  <2>2. Typing'
    BY <1>2, <1>3, <2>1 DEF Typing
  <2>3. Shape'
    BY <1>2, <1>3, <2>1 DEF Shape
  <2>4. Progress'
    BY <1>2, <1>3, <2>1 DEF Progress, Patched
  <2> QED
    BY <2>2, <2>3, <2>4 DEF Whole
<1>5. CASE c # NoContext
  <2>1. PICK r \in Responses : answer' = <<r>> /\ messages' = Append(c, Assistant(r)) /\ status' = status
    BY <1>1, <1>5 DEF Ask
  <2>2. PICK xs, open, w : /\ Scanned(messages, xs, open, w) /\ ShowsLatest(xs, turns, Len(turns))
                           /\ xs = <<>> => open = {} /\ w = <<>>
    BY <1>2, <1>3 DEF Shape, Waiting
  <2>3. PICK ds, v : /\ Scanned(c, ds, {}, v) /\ (ds = <<>> <=> xs = <<>>)
                     /\ xs # <<>> => Same(ds[Len(ds)], xs[Len(xs)])
    <3>1. policy \in BoundedPolicies
      BY <1>3 DEF Typing
    <3> QED
      BY <1>1, <1>5, <2>2, <3>1, PreparedShape
  <2>4. PICK k : k = Len(turns)
    OBVIOUS
  <2>5. k \in Nat /\ DOMAIN turns = 1 .. k
    BY <1>3, <2>4 DEF Typing
  <2>6. PICK m : m = Max(Before(turns, k))
    OBVIOUS
  <2>7. Before(turns, k) # {} =>
          /\ m \in 1 .. k /\ HasReceipt(turns[m]) /\ \A b \in Before(turns, k) : b <= m
    BY <2>5, <2>6, LatestBefore
  <2>8. Before(turns, k) # {} =>
          /\ xs # <<>> /\ Describes(xs[Len(xs)], turns[m])
          /\ Describes(ds[Len(ds)], turns[m])
          /\ turns[m].outcome = "ran" => Executable(turns[m].action)
    <3> SUFFICES ASSUME Before(turns, k) # {}
                 PROVE  /\ xs # <<>> /\ Describes(xs[Len(xs)], turns[m])
                        /\ Describes(ds[Len(ds)], turns[m])
                        /\ turns[m].outcome = "ran" => Executable(turns[m].action)
      OBVIOUS
    <3>1. xs # <<>> /\ Describes(xs[Len(xs)], turns[m])
      BY <2>2, <2>4, <2>6 DEF ShowsLatest
    <3>2. PICK x, d : x = xs[Len(xs)] /\ d = ds[Len(ds)] /\ Same(d, x) /\ Describes(x, turns[m])
      BY <2>3, <3>1
    <3>3. CASE turns[m].outcome = "ran"
      <4>1. x.receipt.role = "result"
        BY <3>2, <3>3 DEF Describes
      <4>2. ActionOf(d.action) = ActionOf(x.action) /\ Executable(ActionOf(x.action)) /\ d.receipt.role = x.receipt.role
        BY <3>2, <4>1 DEF Same
      <4> QED
        BY <3>1, <3>2, <3>3, <4>1, <4>2 DEF Describes
    <3>4. CASE turns[m].outcome # "ran"
      <4>1. x.receipt.role = "rejection"
        BY <3>2, <3>4 DEF Describes
      <4>2. d = x
        BY <3>2, <4>1 DEF Same
      <4> QED
        BY <3>1, <3>2, <3>4, <4>2
    <3> QED
      BY <3>3, <3>4
  <2>9. ShowsLatest(ds, turns, k)
    <3>1. CASE Before(turns, k) = {}
      BY <2>2, <2>3, <2>4, <3>1 DEF ShowsLatest
    <3>2. CASE Before(turns, k) # {}
      BY <2>3, <2>6, <2>8, <3>2 DEF ShowsLatest
    <3> QED
      BY <3>1, <3>2
  <2>10. Contextual(c, turns, k)
    BY <2>3, <2>9 DEF Contextual
  <2>11. \A n \in DOMAIN turns : turns[n].outcome = "ran" => Executable(turns[n].action)
    <3> SUFFICES ASSUME NEW n \in DOMAIN turns, turns[n].outcome = "ran", ~Executable(turns[n].action)
                 PROVE  FALSE
      OBVIOUS
    <3>1. n = k
      BY <1>3, <2>4 DEF Progress
    <3>2. n \in Before(turns, k)
      BY <2>5 DEF Before, HasReceipt
    <3>3. m = n
      BY <2>5, <2>7, <3>1, <3>2
    <3> QED
      BY <2>8, <3>2, <3>3
  <2>12. Typing'
    <3>1. <<r>> \in Seq(Responses) /\ Len(<<r>>) = 1
      BY <2>1
    <3> QED
      BY <1>2, <1>3, <2>1, <3>1 DEF Typing
  <2>13. Shape'
    <3>1. answer' # <<>> /\ answer'[1] = r
      BY <2>1
    <3>2. \E e : Contextual(e, turns', Len(turns')) /\ messages' = Append(e, Assistant(answer'[1]))
      BY <1>2, <2>1, <2>4, <2>10, <3>1
    <3>3. \A n \in DOMAIN turns' : Contextual(turns'[n].context, turns', n - 1)
      BY <1>2, <1>3 DEF Shape
    <3> QED
      BY <3>1, <3>2, <3>3 DEF Shape
  <2>14. Progress'
    <3>1. status' = "running"
      BY <1>2, <2>1
    <3>2. \A n \in DOMAIN turns : turns[n].outcome \notin {"finished", "unparsed"}
      BY <1>2, <1>3 DEF Progress
    <3> QED
      BY <1>2, <1>3, <2>11, <3>1, <3>2 DEF Progress, Patched
  <2> QED
    BY <2>12, <2>13, <2>14 DEF Whole
<1> QED
  BY <1>4, <1>5

\* A turn that ends, with what it leaves.
LEMMA TurnKeeps ==
  ASSUME Whole, Answered, NEW t, Pending(t, t.outcome), TurnIsWhole(t), turns' = Append(turns, t),
         answer' = <<>>, policy' = policy, files' \in Trees, tested' \in Trees, observations' \in Seq(Packets),
         status' \in {"running", "completed", "failed"},
         status' = "running" => Waiting(messages', turns'),
         status' = "completed" <=> t.outcome \in {"finished", "unparsed"},
         files' # files => t.outcome = "ran"
  PROVE  Whole'
<1>1. Typing /\ Shape /\ Progress
  BY DEF Whole
<1>2. PICK ts : ts = Append(turns, t)
  OBVIOUS
<1>3. /\ ts \in Seq(TurnTypes) /\ \A n \in DOMAIN ts : TurnIsWhole(ts[n])
      /\ \A n \in DOMAIN ts : Contextual(ts[n].context, ts, n - 1)
  BY <1>1, <1>2, TurnsGoOn
<1>4. <<>> \in Seq(Responses) /\ Len(<<>>) = 0
  OBVIOUS
<1>5. Typing'
  BY <1>1, <1>2, <1>3, <1>4 DEF Typing
<1>6. Shape'
  BY <1>2, <1>3 DEF Shape
<1>7. Progress'
  <2>1. PICK k : k = Len(turns)
    OBVIOUS
  <2>2. /\ k \in Nat /\ DOMAIN turns = 1 .. k /\ DOMAIN ts = 1 .. k + 1 /\ Len(ts) = k + 1
        /\ ts[k + 1] = t /\ \A n \in 1 .. k : ts[n] = turns[n]
    <3>1. Extended(ts, turns, t)
      BY <1>1, <1>2, BeforeMore DEF Typing, Pending
    <3> QED
      BY <2>1, <3>1 DEF Extended
  <2>3. \A n : n \in 1 .. k + 1 <=> n \in 1 .. k \/ n = k + 1
    BY <2>2
  <2>4. status = "running" /\ answer # <<>>
    BY DEF Answered
  <2>5. \A n \in 1 .. k : /\ turns[n].outcome = "ran" => Executable(turns[n].action)
                          /\ turns[n].outcome \notin {"finished", "unparsed"}
    BY <1>1, <2>2, <2>4 DEF Progress
  <2>6. files' # Original => \E n \in DOMAIN ts : ts[n].outcome = "ran"
    <3>1. CASE files' # files
      BY <2>2, <2>3, <3>1
    <3>2. CASE files' = files /\ files' # Original
      BY <1>1, <2>2, <2>3, <3>2 DEF Progress, Patched
    <3> QED
      BY <3>1, <3>2
  <2>7. \A n \in DOMAIN ts : ts[n].outcome = "ran" /\ ~Executable(ts[n].action) =>
                               n = Len(ts) /\ answer' = <<>> /\ status' # "completed"
    <3> SUFFICES ASSUME NEW n \in DOMAIN ts, ts[n].outcome = "ran", ~Executable(ts[n].action)
                 PROVE  n = k + 1 /\ status' # "completed"
      BY <2>2
    <3>1. n = k + 1
      BY <2>2, <2>3, <2>5
    <3> QED
      BY <2>2, <3>1
  <2>8. \A n \in DOMAIN ts : ts[n].outcome \in {"finished", "unparsed"} => n = Len(ts) /\ status' = "completed"
    <3> SUFFICES ASSUME NEW n \in DOMAIN ts, ts[n].outcome \in {"finished", "unparsed"}
                 PROVE  n = k + 1 /\ status' = "completed"
      BY <2>2
    <3>1. n = k + 1
      BY <2>2, <2>3, <2>5
    <3> QED
      BY <2>2, <3>1
  <2>9. status' = "completed" => ts # <<>> /\ ts[Len(ts)].outcome \in {"finished", "unparsed"}
    BY <1>2, <2>2
  <2> QED
    BY <1>2, <2>6, <2>7, <2>8, <2>9 DEF Progress, Patched
<1> QED
  BY <1>5, <1>6, <1>7 DEF Whole

\* The pending turn without a receipt of a tool.
LEMMA PlainTurnIsWhole ==
  ASSUME Whole, Answered, NEW o \in Outcomes \ {"ran", "repeated"},
         o \in {"finished", "unverified"} => Action = Done,
         o = "navigation" => Action.kind = "read",
         o \in {"rejected", "unparsed"} => Action = Invalid \/ Action.kind = "edit",
         NEW t, t = Turn(o)
  PROVE  Pending(t, t.outcome) /\ TurnIsWhole(t) /\ t.outcome = o /\ Front(messages) \in Seq(MessageTypes)
<1>1. Front(messages) \in Seq(MessageTypes) /\ answer # <<>> /\ Typing
  <2>1. \E c : c = Front(messages) /\ c \in Seq(MessageTypes)
    BY AnsweredScan DEF Whole
  <2> QED
    BY <2>1 DEF Answered, Whole
<1>2. Pending(t, o)
  BY <1>1, PlainTurn
<1>3. t.outcome = o /\ t.answer = answer[1] /\ t.action = Action
  BY <1>2 DEF Pending
<1>4. TurnIsWhole(t)
  BY <1>3 DEF TurnIsWhole, Action
<1> QED
  BY <1>1, <1>2, <1>3, <1>4

\* What a refusal tells the model.
LEMMA ToldIsTyped ==
  ASSUME NEW w \in {"invalid", "navigation", "repeated"}, NEW p, p = <<Rejection(w), Warning(w)>>
  PROVE  \E m, s : /\ p = <<m>> \o s /\ m = Rejection(w) /\ m \in MessageTypes /\ IsReceipt(m) /\ m.role = "rejection"
                   /\ s \in Seq(WarningTypes)
<1>1. PICK m, x, s : m = Rejection(w) /\ x = Warning(w) /\ s = <<x>>
  OBVIOUS
<1>2. m \in MessageTypes /\ x \in MessageTypes
  BY <1>1, MessagesTyping
<1>3. m.role = "rejection" /\ x.role = "warning"
  BY <1>1 DEF Rejection, Warning
<1>4. s \in Seq(WarningTypes)
  BY <1>1, <1>2, <1>3 DEF WarningTypes
<1>5. p = <<m>> \o s
  BY <1>1, <1>2
<1> QED
  BY <1>1, <1>2, <1>3, <1>4, <1>5 DEF IsReceipt

\* A refusal with a receipt.
LEMMA RefuseIsWhole ==
  ASSUME Whole, Answered, NEW t, Pending(t, t.outcome), TurnIsWhole(t),
         t.outcome \in {"rejected", "navigation", "repeated"},
         NEW w \in {"invalid", "navigation", "repeated"}, NEW fails \in BOOLEAN,
         Refuse(t, <<Rejection(w), Warning(w)>>, fails)
  PROVE  Whole'
<1>1. PICK told : told = <<Rejection(w), Warning(w)>>
  OBVIOUS
<1>2. /\ turns' = Append(turns, t) /\ messages' = messages \o told /\ answer' = <<>> /\ status' \in {"running", "failed"}
      /\ policy' = policy /\ files' = files /\ tested' = tested /\ observations' = observations
  BY <1>1 DEF Refuse
<1>3. PICK m, s : /\ told = <<m>> \o s /\ m \in MessageTypes /\ IsReceipt(m) /\ m.role = "rejection"
                  /\ s \in Seq(WarningTypes)
  BY <1>1, ToldIsTyped
<1>4. Typing /\ Shape
  BY DEF Whole
<1>5. HasReceipt(t) /\ m.role = IF t.outcome = "ran" THEN "result" ELSE "rejection"
  BY <1>3 DEF HasReceipt
<1>6. PICK ts : ts = Append(turns, t)
  OBVIOUS
<1>7. Waiting(messages \o (<<m>> \o s), ts)
  BY <1>3, <1>4, <1>5, <1>6, ToldReceipt
<1>8. Waiting(messages', turns')
  BY <1>2, <1>3, <1>6, <1>7
<1>9. /\ files' \in Trees /\ tested' \in Trees /\ observations' \in Seq(Packets)
      /\ status' \in {"running", "completed", "failed"} /\ status' # "completed"
      /\ t.outcome \notin {"finished", "unparsed"}
  BY <1>2, <1>4 DEF Typing
<1> QED
  BY <1>2, <1>8, <1>9, TurnKeeps

\* An action that is parsed and grounded.
LEMMA ValidAction ==
  ASSUME Whole, Answered, Valid
  PROVE  Action \in Parsed /\ Action \in Actions /\ (Action.kind = "done" => Action = Done)
<1>1. answer # <<>> /\ Action # Invalid /\ Typing
  BY DEF Answered, Valid, Whole
<1>2. Action \in Parsed /\ Action \in Actions
  BY <1>1, AnswerTyping
<1> QED
  BY <1>2, Kinds

\* A run that ends with a turn.
LEMMA EndIsWhole ==
  ASSUME Whole, Answered, NEW t, Pending(t, t.outcome), TurnIsWhole(t), t.outcome \in {"finished", "unparsed"},
         End(t, "completed")
  PROVE  Whole'
<1>1. /\ turns' = Append(turns, t) /\ answer' = <<>> /\ status' = "completed"
      /\ policy' = policy /\ files' = files /\ tested' = tested /\ observations' = observations
  BY DEF End
<1>2. files' \in Trees /\ tested' \in Trees /\ observations' \in Seq(Packets)
  BY <1>1 DEF Whole, Typing
<1> QED
  BY <1>1, <1>2, TurnKeeps

LEMMA RejectAnswerIsWhole == Whole /\ RejectAnswer => Whole'
<1> SUFFICES ASSUME Whole, RejectAnswer
             PROVE  Whole'
  OBVIOUS
<1>1. Answered /\ ~Valid
  BY DEF RejectAnswer
<1>2. Action = Invalid \/ Action.kind = "edit"
  BY <1>1 DEF Valid, Grounded
<1>3. CASE VisiblePassed /\ Patched
  <2>1. PICK t : t = Turn("unparsed")
    OBVIOUS
  <2>2. End(t, "completed")
    BY <1>3, <2>1 DEF RejectAnswer
  <2>3. Pending(t, t.outcome) /\ TurnIsWhole(t) /\ t.outcome = "unparsed"
    <3>1. "unparsed" \in Outcomes \ {"ran", "repeated"}
      BY DEF Outcomes
    <3> QED
      BY <1>1, <1>2, <2>1, <3>1, PlainTurnIsWhole
  <2> QED
    BY <1>1, <2>2, <2>3, EndIsWhole
<1>4. CASE ~(VisiblePassed /\ Patched)
  <2>1. PICK t, fails : t = Turn("rejected") /\ fails = (Streak >= 1)
    OBVIOUS
  <2>2. Refuse(t, <<Rejection("invalid"), Warning("invalid")>>, fails)
    BY <1>4, <2>1 DEF RejectAnswer
  <2>3. Pending(t, t.outcome) /\ TurnIsWhole(t) /\ t.outcome = "rejected"
    <3>1. "rejected" \in Outcomes \ {"ran", "repeated"}
      BY DEF Outcomes
    <3> QED
      BY <1>1, <1>2, <2>1, <3>1, PlainTurnIsWhole
  <2>4. fails \in BOOLEAN
    BY <2>1
  <2> QED
    BY <1>1, <2>2, <2>3, <2>4, RefuseIsWhole
<1> QED
  BY <1>3, <1>4

\* A refused finish has a warning and no receipt; there is a patch, so a tool ran.
LEMMA RefuseFinishIsWhole == Whole /\ RefuseFinish => Whole'
<1> SUFFICES ASSUME Whole, RefuseFinish
             PROVE  Whole'
  OBVIOUS
<1>1. Answered /\ Valid /\ Action.kind = "done" /\ Patched
  BY DEF RefuseFinish, UnverifiedFinish
<1>2. PICK t, m : t = Turn("unverified") /\ m = Warning("unverified")
  OBVIOUS
<1>3. /\ turns' = Append(turns, t) /\ messages' = messages \o <<m>> /\ answer' = <<>> /\ status' \in {"running", "failed"}
      /\ policy' = policy /\ files' = files /\ tested' = tested /\ observations' = observations
  BY <1>2 DEF RefuseFinish, Refuse
<1>4. Pending(t, t.outcome) /\ TurnIsWhole(t) /\ t.outcome = "unverified"
  <2>1. "unverified" \in Outcomes \ {"ran", "repeated"}
    BY DEF Outcomes
  <2>2. Action = Done
    BY <1>1, ValidAction
  <2> QED
    BY <1>1, <1>2, <2>1, <2>2, PlainTurnIsWhole
<1>5. Typing /\ Shape /\ Progress
  BY DEF Whole
<1>6. PICK c, xs, w, v :
           /\ ShowsLatest(xs, turns, Len(turns))
           /\ Scanned(messages, xs, {Len(messages)}, v)
  BY <1>1, <1>5, AnsweredScan
<1>7. <<m>> \in Seq(WarningTypes)
  <2>1. m \in MessageTypes /\ m.role = "warning"
    BY <1>2, MessagesTyping DEF Warning
  <2> QED
    BY <2>1 DEF WarningTypes
<1>8. PICK z : Scanned(messages \o <<m>>, xs, {Len(messages)}, z)
  BY <1>6, <1>7, ScannedWarnings
<1>9. PICK ts : ts = Append(turns, t)
  OBVIOUS
<1>10. Extended(ts, turns, t)
  BY <1>4, <1>5, <1>9, BeforeMore DEF Typing, Pending
<1>11. xs \in Seq(Dialogues)
  BY <1>6 DEF Scanned
<1>12. ShowsLatest(xs, ts, Len(ts))
  <2>1. ~HasReceipt(t)
    BY <1>4 DEF HasReceipt
  <2> QED
    BY <1>6, <1>10, <1>11, <2>1, ShowsMore
<1>13. xs # <<>>
  <2>1. PICK n \in DOMAIN turns : turns[n].outcome = "ran"
    BY <1>1, <1>5 DEF Progress
  <2>2. n \in 1 .. Len(turns)
    BY <1>5 DEF Typing
  <2>3. n \in Before(turns, Len(turns))
    BY <2>1, <2>2 DEF Before, HasReceipt
  <2> QED
    BY <1>6, <2>3 DEF ShowsLatest
<1>14. Waiting(messages', turns')
  BY <1>3, <1>8, <1>9, <1>12, <1>13 DEF Waiting
<1>15. /\ files' \in Trees /\ tested' \in Trees /\ observations' \in Seq(Packets)
       /\ status' \in {"running", "completed", "failed"} /\ status' # "completed"
       /\ t.outcome \notin {"finished", "unparsed"}
  BY <1>3, <1>4, <1>5 DEF Typing
<1> QED
  BY <1>1, <1>3, <1>4, <1>14, <1>15, TurnKeeps

LEMMA FinishIsWhole == Whole /\ Finish => Whole'
<1> SUFFICES ASSUME Whole, Finish
             PROVE  Whole'
  OBVIOUS
<1>1. Answered /\ Valid /\ Action.kind = "done"
  BY DEF Finish
<1>2. PICK t : t = Turn("finished")
  OBVIOUS
<1>3. End(t, "completed")
  BY <1>2 DEF Finish
<1>4. Pending(t, t.outcome) /\ TurnIsWhole(t) /\ t.outcome = "finished"
  <2>1. "finished" \in Outcomes \ {"ran", "repeated"}
    BY DEF Outcomes
  <2>2. Action = Done
    BY <1>1, ValidAction
  <2> QED
    BY <1>1, <1>2, <2>1, <2>2, PlainTurnIsWhole
<1> QED
  BY <1>1, <1>3, <1>4, EndIsWhole

LEMMA RefuseReadIsWhole == Whole /\ RefuseRead => Whole'
<1> SUFFICES ASSUME Whole, RefuseRead
             PROVE  Whole'
  OBVIOUS
<1>1. Answered /\ Action.kind = "read"
  BY DEF RefuseRead, TooManyReads
<1>2. PICK t, fails : t = Turn("navigation") /\ fails = Warned(Action.path)
  OBVIOUS
<1>3. Refuse(t, <<Rejection("navigation"), Warning("navigation")>>, fails)
  BY <1>2 DEF RefuseRead
<1>4. Pending(t, t.outcome) /\ TurnIsWhole(t) /\ t.outcome = "navigation"
  <2>1. "navigation" \in Outcomes \ {"ran", "repeated"}
    BY DEF Outcomes
  <2> QED
    BY <1>1, <1>2, <2>1, PlainTurnIsWhole
<1>5. fails \in BOOLEAN
  BY <1>2 DEF Warned
<1> QED
  BY <1>1, <1>3, <1>4, <1>5, RefuseIsWhole

\* The version an action is bound to is one that was observed.
LEMMA ExpectedTyping ==
  ASSUME Whole, Answered, Valid
  PROVE  /\ Expected \in Contents
         /\ Action.kind = "edit" =>
              \E i \in DOMAIN observations :
                /\ observations[i].path = Action.path /\ Contains(observations[i].text, Action.before)
                /\ Expected = observations[i].sha
<1>1. observations \in Seq(Packets) /\ Len(observations) \in Nat /\ DOMAIN observations = 1 .. Len(observations)
  BY DEF Whole, Typing
<1>2. CASE Action.kind = "edit"
  <2>1. PICK M, i : M = Matching(Action, observations) /\ i = Max(M)
    OBVIOUS
  <2>2. M # {} /\ M \subseteq 0 .. Len(observations) /\ M \subseteq DOMAIN observations
    <3>1. M # {}
      BY <1>2, <2>1 DEF Valid, Grounded
    <3>2. M \subseteq DOMAIN observations
      BY <2>1 DEF Matching
    <3>3. 1 .. Len(observations) \subseteq 0 .. Len(observations)
      BY <1>1
    <3> QED
      BY <1>1, <3>1, <3>2, <3>3
  <2>3. i \in M
    BY <1>1, <2>1, <2>2, Largest
  <2>4. Expected = observations[i].sha
    BY <1>2, <2>1 DEF Expected, ExpectedVersion
  <2>5. observations[i].path = Action.path /\ Contains(observations[i].text, Action.before)
    BY <2>1, <2>3 DEF Matching
  <2>6. observations[i] \in Packets
    BY <1>1, <2>2, <2>3
  <2>7. Expected \in Contents
    BY <2>4, <2>6 DEF Packets
  <2> QED
    BY <2>2, <2>3, <2>4, <2>5, <2>7
<1>3. CASE Action.kind # "edit"
  <2>1. Expected = <<>>
    BY <1>3 DEF Expected
  <2>2. <<>> \in Contents
    BY DEF Contents
  <2> QED
    BY <1>3, <2>1, <2>2
<1> QED
  BY <1>2, <1>3

LEMMA RefuseRepeatIsWhole == Whole /\ RefuseRepeat => Whole'
<1> SUFFICES ASSUME Whole, RefuseRepeat
             PROVE  Whole'
  OBVIOUS
<1>1. PICK t, fails : t = RepeatedTurn /\ fails = Had("repeated", Signature(t))
  OBVIOUS
<1>2. Runs /\ Refuse(t, <<Rejection("repeated"), Warning("repeated")>>, fails)
  BY <1>1 DEF RefuseRepeat, RepeatedTurn
<1>3. Answered /\ Valid /\ Action.kind # "done" /\ answer # <<>> /\ Typing
  BY <1>2 DEF Runs, Answered, Whole
<1>4. Expected \in Contents
  BY <1>3, ExpectedTyping
<1>5. Front(messages) \in Seq(MessageTypes)
  <2>1. \E c : c = Front(messages) /\ c \in Seq(MessageTypes)
    BY <1>3, AnsweredScan DEF Whole
  <2> QED
    BY <2>1
<1>6. Pending(t, "repeated")
  BY <1>1, <1>3, <1>4, <1>5, ExpectingTurn
<1>7. t.outcome = "repeated" /\ t.answer = answer[1] /\ t.action = Action
  BY <1>6 DEF Pending
<1>8. Action.kind \in Tools \cup {"command"}
  BY <1>3, ValidAction, Kinds DEF Tools
<1>9. TurnIsWhole(t)
  BY <1>7, <1>8 DEF TurnIsWhole, Action
<1>10. fails \in BOOLEAN
  BY <1>1 DEF Had
<1> QED
  BY <1>2, <1>3, <1>6, <1>7, <1>9, <1>10, RefuseIsWhole

-----------------------------------------------------------------------------
(* A tool runs.                                                            *)

\* The turn of the outcome of a tool.
Ran(o, t) ==
  /\ o \in ToolOutcomes /\ t = RanAs(o)
  /\ files' = o.files
  /\ tested' = IF o.receipt.ok /\ t.action = Shell(Test) /\ Patched /\ o.files = files THEN files ELSE tested
  /\ observations' = ObserveSource(observations, t.action, o.receipt)
  /\ messages' = messages \o Told(t)
  /\ turns' = Append(turns, t)
  /\ status' \in {"running", "failed"}
  /\ answer' = <<>> /\ policy' = policy

LEMMA SomethingRan ==
  ASSUME Whole, RunTool
  PROVE  \E o, t :
           /\ Ran(o, t) /\ Pending(t, "ran") /\ TurnIsWhole(t) /\ t.outcome = "ran"
           /\ t.after = o.files /\ t.receipt = o.receipt /\ t.expected = Expected /\ t.action = Action
           /\ t.receipt \in ReceiptTypes /\ t.receipt.format = "raw"
<1>1. Runs
  BY DEF RunTool
<1>2. Answered /\ Valid /\ Action.kind # "done" /\ answer # <<>> /\ Typing
  BY <1>1 DEF Runs, Answered, Whole
<1>3. PICK o \in ToolOutcomes :
        LET turn == [Turn("ran") EXCEPT !.expected = Expected, !.receipt = o.receipt, !.after = o.files]
            rejectedEdit == turn.action.kind = "edit" /\ ~o.receipt.ok
            passed == o.receipt.ok /\ turn.action = Shell(Test) /\ Patched
        IN
        /\ ~Had("ran", Signature(turn))
        /\ files' = o.files
        /\ tested' = IF passed /\ o.files = files THEN files ELSE tested
        /\ observations' = ObserveSource(observations, turn.action, o.receipt)
        /\ messages' = IF Outgrown(messages \o Observed(turn))
                       THEN <<System, Task, Summary>> \o Checkpoint(turn) ELSE messages \o Told(turn)
        /\ turns' = Append(turns, turn)
        /\ status' = IF (rejectedEdit /\ FailedEdits >= 1) \/ Len(turns) + 1 = MaxSteps
                     THEN "failed" ELSE "running"
  BY DEF RunTool
<1>4. PICK t : t = RanAs(o)
  OBVIOUS
<1>5. Ran(o, t)
  <2>1. answer' = <<>> /\ policy' = policy
    BY DEF RunTool
  <2>3. policy # "native"
    BY <1>2 DEF Typing, BoundedPolicies
  <2>4. ~Outgrown(messages \o Observed(t))
    BY <2>3 DEF Outgrown
  <2>5. messages' = IF Outgrown(messages \o Observed(t))
                    THEN <<System, Task, Summary>> \o Checkpoint(t) ELSE messages \o Told(t)
    BY <1>3, <1>4 DEF RanAs
  <2>6. messages' = messages \o Told(t)
    BY <2>4, <2>5
  <2>2. /\ files' = o.files
        /\ tested' = IF (o.receipt.ok /\ t.action = Shell(Test) /\ Patched) /\ o.files = files THEN files ELSE tested
        /\ observations' = ObserveSource(observations, t.action, o.receipt)
        /\ turns' = Append(turns, t)
        /\ status' \in {"running", "failed"}
    BY <1>3, <1>4 DEF RanAs
  <2> QED
    BY <1>4, <2>1, <2>2, <2>6 DEF Ran
<1>6. /\ o.receipt \in ReceiptTypes /\ o.receipt.format = "raw" /\ o.files \in Trees
      /\ Action.kind \in Tools \cup {"command"}
      /\ Action.kind = "read" =>
           (o.receipt.ok => \E text \in Contents : o.receipt.packet = <<[path |-> Action.path, sha |-> files[Action.path], text |-> text]>>)
  BY <1>1, <1>2, Outcome
<1>7. Expected \in Contents
  BY <1>2, ExpectedTyping DEF Whole
<1>8. Front(messages) \in Seq(MessageTypes)
  <2>1. \E c : c = Front(messages) /\ c \in Seq(MessageTypes)
    BY <1>2, AnsweredScan DEF Whole
  <2> QED
    BY <2>1
<1>9. Pending(t, "ran") /\ t.after = o.files /\ t.receipt = o.receipt /\ t.expected = Expected
  BY <1>2, <1>4, <1>6, <1>7, <1>8, RanTurn
<1>10. t.outcome = "ran" /\ t.answer = answer[1] /\ t.action = Action
  BY <1>9 DEF Pending
<1>11. TurnIsWhole(t)
  <2>1. t.action = ParseAction(t.answer)
    BY <1>10 DEF Action
  <2>2. ASSUME t.action.kind = "read", t.receipt.ok
        PROVE  Len(t.receipt.packet) = 1
    <3>1. PICK text \in Contents : o.receipt.packet = <<[path |-> Action.path, sha |-> files[Action.path], text |-> text]>>
      BY <1>6, <1>9, <1>10, <2>2
    <3>2. PICK p : p = [path |-> Action.path, sha |-> files[Action.path], text |-> text]
      OBVIOUS
    <3>3. t.receipt.packet = <<p>>
      BY <1>9, <3>1, <3>2
    <3> QED
      BY <3>3
  <2> QED
    BY <1>6, <1>9, <1>10, <2>1, <2>2 DEF TurnIsWhole
<1> QED
  BY <1>5, <1>6, <1>9, <1>10, <1>11

\* The elements of s are elements of xs.
Within(s, xs) == \A k \in DOMAIN s : \E i \in DOMAIN xs : s[k] = xs[i]

\* The end of a sequence, be it empty.
LEMMA LastOfAny ==
  ASSUME NEW T, NEW xs \in Seq(T), NEW n \in Nat
  PROVE  LastOf(xs, n) \in Seq(T) /\ Within(LastOf(xs, n), xs)
<1> SUFFICES LastOf(xs, n) \in Seq(T) /\ \A k \in DOMAIN LastOf(xs, n) : \E i \in DOMAIN xs : LastOf(xs, n)[k] = xs[i]
  BY DEF Within
<1>1. CASE n # 0
  <2>1. LET s == LastOf(xs, n) IN
        /\ s \in Seq(T) /\ Len(s) \in Nat
        /\ \A k \in 1 .. Len(s) : Len(xs) - Len(s) + k \in 1 .. Len(xs) /\ s[k] = xs[Len(xs) - Len(s) + k]
    BY <1>1, LastOfTyping
  <2>2. PICK s : s = LastOf(xs, n)
    OBVIOUS
  <2>3. s \in Seq(T) /\ DOMAIN s = 1 .. Len(s) /\ DOMAIN xs = 1 .. Len(xs)
    BY <2>1, <2>2
  <2>4. \A k \in DOMAIN s : \E i \in DOMAIN xs : s[k] = xs[i]
    BY <2>1, <2>2, <2>3
  <2> QED
    BY <2>2, <2>3, <2>4
<1>2. CASE n = 0
  <2>1. PICK l : l = Len(xs) /\ l \in Nat
    OBVIOUS
  <2>2. LastOf(xs, n) = SubSeq(xs, l + 1, l)
    <3>1. CASE l > n
      <4>1. l - n + 1 = l + 1
        BY <1>2, <2>1
      <4> QED
        BY <2>1, <3>1, <4>1 DEF LastOf
    <3>2. CASE ~(l > n)
      <4>1. l + 1 = 1
        BY <1>2, <2>1, <3>2
      <4> QED
        BY <2>1, <3>2, <4>1 DEF LastOf
    <3> QED
      BY <3>1, <3>2
  <2>3. SubSeq(xs, l + 1, l) = <<>>
    BY <2>1
  <2>4. <<>> \in Seq(T) /\ DOMAIN <<>> = {}
    OBVIOUS
  <2> QED
    BY <2>2, <2>3, <2>4
<1> QED
  BY <1>1, <1>2

\* What a tool observed.
LEMMA ObservedTyping ==
  ASSUME NEW os \in Seq(Packets), NEW a, NEW r \in ReceiptTypes, a.kind = "read" /\ r.ok => Len(r.packet) = 1
  PROVE  ObserveSource(os, a, r) \in Seq(Packets)
<1>1. CASE ~r.ok \/ a.kind \notin {"edit", "read"}
  <2>1. ObserveSource(os, a, r) = os
    BY <1>1 DEF ObserveSource
  <2> QED
    BY <2>1
<1>2. CASE r.ok /\ a.kind = "edit"
  <2>1. PICK I : I = {n \in DOMAIN os : os[n].path # a.path}
    OBVIOUS
  <2>2. ObserveSource(os, a, r) = Picked(os, I)
    BY <1>2, <2>1 DEF ObserveSource
  <2> QED
    BY <2>2, PickedTyping
<1>3. CASE r.ok /\ a.kind = "read"
  <2>1. PICK new, I, same, late : /\ new = r.packet[1] /\ I = {n \in DOMAIN os : os[n].path # new.path \/ os[n].sha = new.sha}
                                  /\ same = Picked(os, I) /\ late = LastOf(same, KeptReads - 1)
    OBVIOUS
  <2>2. ObserveSource(os, a, r) = Append(late, new)
    BY <1>3, <2>1 DEF ObserveSource
  <2>3. new \in Packets
    <3>1. r.packet \in Seq(Packets) /\ 1 \in DOMAIN r.packet
      BY <1>3 DEF ReceiptTypes
    <3> QED
      BY <2>1, <3>1
  <2>4. same \in Seq(Packets)
    BY <2>1, PickedTyping
  <2>5. late \in Seq(Packets)
    <3>1. PICK l : l = KeptReads - 1 /\ l \in Nat
      BY AgentActionsAssumption
    <3> QED
      BY <2>1, <2>4, <3>1, LastOfAny
  <2> QED
    BY <2>2, <2>3, <2>5
<1> QED
  BY <1>1, <1>2, <1>3

\* What the model is told of a tool: its result, and warnings.
LEMMA ToldOfATool ==
  ASSUME NEW t \in TurnTypes, t.receipt \in ReceiptTypes
  PROVE  \E m, s : /\ Told(t) = <<m>> \o s /\ m \in MessageTypes /\ IsReceipt(m) /\ m.role = "result"
                   /\ m = Result(ToolObservation(t.action, t.receipt)) /\ s \in Seq(WarningTypes)
<1>1. PICK r, m : r = ToolObservation(t.action, t.receipt) /\ m = Result(r)
  OBVIOUS
<1>2. PICK v, w : /\ v = (IF t.receipt.ok THEN <<>> ELSE <<Warning("failed")>>)
                  /\ w = (IF Len(turns) >= CheckpointStep /\ t.after = Original THEN <<Warning("checkpoint")>> ELSE <<>>)
  OBVIOUS
<1>3. m \in MessageTypes /\ m.role = "result" /\ IsReceipt(m)
  <2>1. r \in ReceiptTypes
    BY <1>1, ObservationTyping
  <2> QED
    BY <1>1, <2>1, MessagesTyping DEF Result, IsReceipt
<1>4. /\ Warning("failed") \in WarningTypes /\ Warning("checkpoint") \in WarningTypes
  <2>1. Warning("failed") \in MessageTypes /\ Warning("checkpoint") \in MessageTypes
    BY MessagesTyping
  <2>2. Warning("failed").role = "warning" /\ Warning("checkpoint").role = "warning"
    BY DEF Warning
  <2> QED
    BY <2>1, <2>2 DEF WarningTypes
<1>5. v \in Seq(WarningTypes) /\ w \in Seq(WarningTypes)
  BY <1>2, <1>4
<1>6. PICK s : s = v \o w /\ s \in Seq(WarningTypes)
  <2>1. v \o w \in Seq(WarningTypes)
    BY <1>5
  <2> QED
    BY <2>1
<1>7. Told(t) = <<m>> \o s
  <2>1. Told(t) = (<<m>> \o v) \o w
    BY <1>1, <1>2 DEF Told, Observed, Checkpoint
  <2>2. <<m>> \in Seq(MessageTypes) /\ v \in Seq(MessageTypes) /\ w \in Seq(MessageTypes)
    <3>1. WarningTypes \subseteq MessageTypes
      BY DEF WarningTypes
    <3> QED
      BY <1>3, <1>5, <3>1
  <2>3. (<<m>> \o v) \o w = <<m>> \o (v \o w)
    BY <2>2
  <2> QED
    BY <1>6, <2>1, <2>3
<1> QED
  BY <1>1, <1>3, <1>6, <1>7

LEMMA RunToolIsWhole == Whole /\ RunTool => Whole'
<1> SUFFICES ASSUME Whole, RunTool
             PROVE  Whole'
  OBVIOUS
<1>1. PICK o, t :
           /\ Ran(o, t) /\ Pending(t, "ran") /\ TurnIsWhole(t) /\ t.outcome = "ran"
           /\ t.after = o.files /\ t.receipt = o.receipt
           /\ t.receipt \in ReceiptTypes
  BY SomethingRan
<1>2. Answered /\ Typing /\ Shape
  BY DEF RunTool, Runs, Whole
<1>3. PICK m, s : /\ Told(t) = <<m>> \o s /\ m \in MessageTypes /\ IsReceipt(m) /\ m.role = "result"
                  /\ s \in Seq(WarningTypes)
  BY <1>1, ToldOfATool DEF Pending
<1>4. HasReceipt(t) /\ m.role = IF t.outcome = "ran" THEN "result" ELSE "rejection"
  BY <1>1, <1>3 DEF HasReceipt
<1>5. PICK ts : ts = Append(turns, t)
  OBVIOUS
<1>6. Waiting(messages \o (<<m>> \o s), ts)
  BY <1>1, <1>2, <1>3, <1>4, <1>5, ToldReceipt
<1>7. turns' = ts /\ messages' = messages \o (<<m>> \o s) /\ answer' = <<>> /\ policy' = policy /\ status' \in {"running", "failed"}
  BY <1>1, <1>3, <1>5 DEF Ran
<1>8. files' \in Trees
  BY <1>1 DEF Ran, Pending, TurnTypes
<1>9. tested' \in Trees
  BY <1>1, <1>2 DEF Ran, Typing
<1>10. observations' \in Seq(Packets)
  <2>1. observations' = ObserveSource(observations, t.action, t.receipt)
    BY <1>1 DEF Ran
  <2>2. t.action.kind = "read" /\ t.receipt.ok => Len(t.receipt.packet) = 1
    BY <1>1 DEF TurnIsWhole
  <2>3. observations \in Seq(Packets)
    BY <1>2 DEF Typing
  <2> QED
    BY <1>1, <2>1, <2>2, <2>3, ObservedTyping
<1>11. Waiting(messages', turns')
  BY <1>6, <1>7
<1>12. /\ status' \in {"running", "completed", "failed"} /\ status' # "completed" /\ turns' = Append(turns, t)
       /\ t.outcome \notin {"finished", "unparsed"} /\ Pending(t, t.outcome)
  BY <1>1, <1>5, <1>7
<1> QED
  BY <1>1, <1>2, <1>7, <1>8, <1>9, <1>10, <1>11, <1>12, TurnKeeps

LEMMA NextIsWhole == Whole /\ [Next]_vars => Whole'
<1> SUFFICES ASSUME Whole, [Next]_vars
             PROVE  Whole'
  OBVIOUS
<1>1. CASE Ask
  BY <1>1, AskIsWhole
<1>2. CASE RejectAnswer
  BY <1>2, RejectAnswerIsWhole
<1>3. CASE RefuseFinish
  BY <1>3, RefuseFinishIsWhole
<1>4. CASE Finish
  BY <1>4, FinishIsWhole
<1>5. CASE RefuseRead
  BY <1>5, RefuseReadIsWhole
<1>6. CASE RefuseRepeat
  BY <1>6, RefuseRepeatIsWhole
<1>7. CASE RunTool
  BY <1>7, RunToolIsWhole
<1>8. CASE UNCHANGED vars
  BY <1>8 DEF vars, Whole, Typing, Shape, Progress, Patched
<1> QED
  BY <1>1, <1>2, <1>3, <1>4, <1>5, <1>6, <1>7, <1>8 DEF Next, Ended

\* The loop together with what is made of its turns.
LEMMA DataNextIsWhole == Whole /\ [DataNext]_<<vars, trainingVars>> => Whole'
<1> SUFFICES ASSUME Whole, [DataNext]_<<vars, trainingVars>>
             PROVE  Whole'
  OBVIOUS
<1>1. [Next]_vars
  BY DEF DataNext, vars
<1> QED
  BY <1>1, NextIsWhole

\* The types of the loop and its turns, under recent-history-v3 and last-action-v2.
\* (runtime.py: the loop of run)
THEOREM ConversationTyping == DataSpec /\ policy \in BoundedPolicies => []Typing
<1>1. DataInit /\ policy \in BoundedPolicies => Whole
  BY InitIsWhole DEF DataInit
<1>2. Whole => Typing
  BY DEF Whole
<1> QED
  BY <1>1, <1>2, DataNextIsWhole, PTL DEF DataSpec

-----------------------------------------------------------------------------
(* Edits rest on reads.                                                    *)

EditsOf(t, p) == RanWell(t) /\ t.action.kind = "edit" /\ t.action.path = p

\* A read that provides an observation still good after n turns.
Provides(ts, n, r, o) ==
  /\ r \in 1 .. n /\ RanWell(ts[r]) /\ Reads(ts[r], o.path) /\ ts[r].receipt.packet[1] = o
  /\ \A e \in r + 1 .. n : ~EditsOf(ts[e], o.path)

Evidence == \A i \in DOMAIN observations : \E r : Provides(turns, Len(turns), r, observations[i])

\* EditsAreGrounded for one turn.
GroundedAt(ts, n) ==
  LET t == ts[n] IN
  (RanWell(t) /\ t.action.kind = "edit") =>
    /\ \E r \in 1 .. n - 1 :
         /\ RanWell(ts[r]) /\ Reads(ts[r], t.action.path)
         /\ ts[r].receipt.packet[1].sha = t.before[t.action.path]
         /\ Contains(ts[r].receipt.packet[1].text, t.action.before)
         /\ \A e \in r + 1 .. n - 1 : ~EditsOf(ts[e], t.action.path)
    /\ \E k \in DOMAIN t.before[t.action.path] :
         t.after = [t.before EXCEPT ![t.action.path] = [@ EXCEPT ![k] = t.action.after]]

LEMMA EditsAreGroundedAt == EditsAreGrounded <=> \A n \in DOMAIN turns : GroundedAt(turns, n)
BY DEF EditsAreGrounded, GroundedAt, EditsOf

LEMMA EditsAreGroundedNext == EditsAreGrounded' <=> \A n \in DOMAIN turns' : GroundedAt(turns', n)
BY DEF EditsAreGrounded, GroundedAt, EditsOf

LEMMA GroundedMore ==
  ASSUME NEW us, NEW ts, NEW t, Extended(us, ts, t), NEW n \in 1 .. Len(ts), GroundedAt(ts, n)
  PROVE  GroundedAt(us, n)
<1>1. PICK k : k = Len(ts) /\ k \in Nat /\ n \in 1 .. k /\ \A i \in 1 .. k : us[i] = ts[i]
  BY DEF Extended
<1>2. (\A i \in 1 .. n : i \in 1 .. k) /\ n \in Nat
  BY <1>1
<1>3. us[n] = ts[n] /\ \A r \in 1 .. n - 1 : us[r] = ts[r] /\ \A e \in r + 1 .. n - 1 : us[e] = ts[e]
  BY <1>1, <1>2
<1> QED
  BY <1>3 DEF GroundedAt

\* What is observed after an action.
LEMMA ObservedElements ==
  ASSUME NEW os \in Seq(Packets), NEW a, NEW r \in ReceiptTypes, a.kind = "read" /\ r.ok => Len(r.packet) = 1
  PROVE  \A i \in DOMAIN ObserveSource(os, a, r) :
           \/ \E j \in DOMAIN os : /\ ObserveSource(os, a, r)[i] = os[j]
                                   /\ r.ok /\ a.kind = "edit" => os[j].path # a.path
           \/ r.ok /\ a.kind = "read" /\ ObserveSource(os, a, r)[i] = r.packet[1]
<1>1. CASE ~r.ok \/ a.kind \notin {"edit", "read"}
  <2>1. ObserveSource(os, a, r) = os
    BY <1>1 DEF ObserveSource
  <2> QED
    BY <1>1, <2>1
<1>2. CASE r.ok /\ a.kind = "edit"
  <2>1. PICK I : I = {n \in DOMAIN os : os[n].path # a.path}
    OBVIOUS
  <2>2. ObserveSource(os, a, r) = Picked(os, I)
    BY <1>2, <2>1 DEF ObserveSource
  <2>3. \A k \in DOMAIN Picked(os, I) : \E n \in DOMAIN os : n \in I /\ Picked(os, I)[k] = os[n]
    BY PickedElements
  <2>4. \A n \in I : os[n].path # a.path
    BY <2>1
  <2>5. \A k \in DOMAIN ObserveSource(os, a, r) :
          \E n \in DOMAIN os : os[n].path # a.path /\ ObserveSource(os, a, r)[k] = os[n]
    BY <2>2, <2>3, <2>4
  <2> QED
    BY <2>5
<1>3. CASE r.ok /\ a.kind = "read"
  <2>1. PICK new, I, same, late, l :
           /\ new = r.packet[1] /\ I = {n \in DOMAIN os : os[n].path # new.path \/ os[n].sha = new.sha}
           /\ same = Picked(os, I) /\ l = KeptReads - 1 /\ late = LastOf(same, l)
    OBVIOUS
  <2>2. ObserveSource(os, a, r) = Append(late, new)
    BY <1>3, <2>1 DEF ObserveSource
  <2>3. same \in Seq(Packets) /\ \A k \in DOMAIN same : \E n \in DOMAIN os : same[k] = os[n]
    <3>1. \A k \in DOMAIN Picked(os, I) : \E n \in DOMAIN os : n \in I /\ Picked(os, I)[k] = os[n]
      BY PickedElements
    <3> QED
      BY <2>1, <3>1, PickedTyping
  <2>4. late \in Seq(Packets) /\ \A k \in DOMAIN late : \E i \in DOMAIN same : late[k] = same[i]
    <3>1. l \in Nat
      BY <2>1, AgentActionsAssumption
    <3>2. same \in Seq(Packets)
      BY <2>3
    <3>3. LastOf(same, l) \in Seq(Packets) /\ Within(LastOf(same, l), same)
      BY <3>1, <3>2, LastOfAny
    <3>4. late = LastOf(same, l)
      BY <2>1
    <3>5. late \in Seq(Packets) /\ Within(late, same)
      BY <3>3, <3>4
    <3> QED
      BY <3>5 DEF Within
  <2>5. PICK n, u : n = Len(late) /\ u = Append(late, new)
    OBVIOUS
  <2>6. n \in Nat /\ DOMAIN late = 1 .. n /\ DOMAIN u = 1 .. n + 1 /\ u[n + 1] = new /\ \A k \in 1 .. n : u[k] = late[k]
    BY <2>4, <2>5
  <2>7. \A k : k \in 1 .. n + 1 <=> k \in 1 .. n \/ k = n + 1
    BY <2>6
  <2>8. \A k \in DOMAIN u : (\E j \in DOMAIN os : u[k] = os[j]) \/ u[k] = new
    BY <2>3, <2>4, <2>6, <2>7
  <2>9. a.kind # "edit"
    BY <1>3
  <2>10. \A k \in DOMAIN u : \/ \E j \in DOMAIN os : u[k] = os[j] /\ (r.ok /\ a.kind = "edit" => os[j].path # a.path)
                             \/ r.ok /\ a.kind = "read" /\ u[k] = r.packet[1]
    <3> SUFFICES ASSUME NEW k \in DOMAIN u
                 PROVE  \/ \E j \in DOMAIN os : u[k] = os[j] /\ (r.ok /\ a.kind = "edit" => os[j].path # a.path)
                        \/ r.ok /\ a.kind = "read" /\ u[k] = r.packet[1]
      OBVIOUS
    <3>1. CASE u[k] = new
      BY <1>3, <2>1, <3>1
    <3>2. CASE \E j \in DOMAIN os : u[k] = os[j]
      <4>1. PICK j \in DOMAIN os : u[k] = os[j]
        BY <3>2
      <4> QED
        BY <2>9, <4>1
    <3> QED
      BY <2>8, <3>1, <3>2
  <2>11. ObserveSource(os, a, r) = u
    BY <2>2, <2>5
  <2> QED
    BY <2>10, <2>11
<1> QED
  BY <1>1, <1>2, <1>3

\* A turn that does not edit the file keeps the evidence.
LEMMA ProvidesMore ==
  ASSUME NEW us, NEW ts, NEW t, Extended(us, ts, t), NEW r, NEW o, Provides(ts, Len(ts), r, o), ~EditsOf(t, o.path)
  PROVE  Provides(us, Len(us), r, o)
<1>1. PICK k : k = Len(ts) /\ k \in Nat /\ Len(us) = k + 1 /\ us[k + 1] = t /\ \A i \in 1 .. k : us[i] = ts[i]
  BY DEF Extended
<1>2. r \in 1 .. k /\ r \in 1 .. k + 1
  BY <1>1 DEF Provides
<1>3. \A e \in r + 1 .. k + 1 : e = k + 1 \/ (e \in r + 1 .. k /\ e \in 1 .. k)
  BY <1>1, <1>2
<1> QED
  BY <1>1, <1>2, <1>3 DEF Provides

\* An edit of one line.
LEMMA OneLine ==
  ASSUME NEW c \in Contents, NEW a, Cardinality(Occurrences(c, a.before)) = 1
  PROVE  \E k \in DOMAIN c : Updated(c, a) = [c EXCEPT ![k] = a.after]
<1>1. PICK S : S = Occurrences(c, a.before)
  OBVIOUS
<1>2. IsFiniteSet(S)
  BY <1>1, OccurrencesAreFinite
<1>3. PICK k : S = {k}
  BY <1>1, <1>2, FS_Singleton
<1>4. k \in DOMAIN c /\ \A n \in DOMAIN c : c[n] = a.before <=> n = k
  <2>1. \A n : n \in S <=> n \in DOMAIN c /\ c[n] = a.before
    BY <1>1 DEF Occurrences
  <2> QED
    BY <1>3, <2>1
<1>5. Updated(c, a) = [n \in DOMAIN c |-> IF n = k THEN a.after ELSE c[n]]
  BY <1>4 DEF Updated
<1>6. [c EXCEPT ![k] = a.after] = [n \in DOMAIN c |-> IF n = k THEN a.after ELSE c[n]]
  BY <1>4
<1> QED
  BY <1>4, <1>5, <1>6

Edited == Evidence /\ EditsAreGrounded

\* A turn that runs no tool leaves the observations as they were.
LEMMA QuietTurn ==
  ASSUME Whole, Edited, NEW t, Pending(t, t.outcome), t.outcome # "ran", turns' = Append(turns, t),
         observations' = observations
  PROVE  Edited'
<1>1. PICK us, k : us = Append(turns, t) /\ k = Len(turns)
  OBVIOUS
<1>2. Extended(us, turns, t)
  BY <1>1, BeforeMore DEF Whole, Typing, Pending
<1>3. k \in Nat /\ Len(us) = k + 1 /\ us[k + 1] = t /\ DOMAIN us = 1 .. k + 1 /\ DOMAIN turns = 1 .. k
  BY <1>1, <1>2 DEF Extended
<1>4. ~RanWell(t) /\ \A p : ~EditsOf(t, p)
  BY DEF RanWell, EditsOf
<1>5. \A i \in DOMAIN observations : \E r : Provides(us, Len(us), r, observations[i])
  <2> SUFFICES ASSUME NEW i \in DOMAIN observations
               PROVE  \E r : Provides(us, Len(us), r, observations[i])
    OBVIOUS
  <2>1. PICK r : Provides(turns, Len(turns), r, observations[i])
    BY DEF Edited, Evidence
  <2> QED
    BY <1>2, <1>4, <2>1, ProvidesMore
<1>6. Evidence'
  BY <1>1, <1>5 DEF Evidence
<1>7. \A n \in 1 .. k + 1 : GroundedAt(us, n)
  <2> SUFFICES ASSUME NEW n \in 1 .. k + 1
               PROVE  GroundedAt(us, n)
    OBVIOUS
  <2>1. n \in 1 .. k \/ n = k + 1
    BY <1>3
  <2>2. CASE n \in 1 .. k
    <3>1. GroundedAt(turns, n)
      BY <1>3, <2>2, EditsAreGroundedAt DEF Edited
    <3> QED
      BY <1>1, <1>2, <2>2, <3>1, GroundedMore
  <2>3. CASE n = k + 1
    BY <1>3, <1>4, <2>3 DEF GroundedAt
  <2> QED
    BY <2>1, <2>2, <2>3
<1>8. EditsAreGrounded'
  BY <1>1, <1>3, <1>7, EditsAreGroundedNext
<1> QED
  BY <1>6, <1>8 DEF Edited

LEMMA RunToolIsEdited == Whole /\ Edited /\ RunTool => Edited'
<1> SUFFICES ASSUME Whole, Edited, RunTool
             PROVE  Edited'
  OBVIOUS
<1>1. PICK o, t :
           /\ Ran(o, t) /\ Pending(t, "ran") /\ TurnIsWhole(t) /\ t.outcome = "ran"
           /\ t.after = o.files /\ t.receipt = o.receipt /\ t.expected = Expected /\ t.action = Action
           /\ t.receipt \in ReceiptTypes
  BY SomethingRan
<1>2. Runs /\ Answered /\ Valid /\ Typing
  BY DEF RunTool, Runs, Whole
<1>3. PICK us, k : us = Append(turns, t) /\ k = Len(turns)
  OBVIOUS
<1>4. Extended(us, turns, t)
  BY <1>1, <1>2, <1>3, BeforeMore DEF Typing, Pending
<1>5. /\ k \in Nat /\ Len(us) = k + 1 /\ us[k + 1] = t /\ DOMAIN us = 1 .. k + 1 /\ DOMAIN turns = 1 .. k
      /\ \A n \in 1 .. k : us[n] = turns[n]
  BY <1>3, <1>4 DEF Extended
<1>6. PICK os : os = ObserveSource(observations, t.action, t.receipt)
  OBVIOUS
<1>7. observations' = os /\ turns' = us
  BY <1>1, <1>3, <1>6 DEF Ran
<1>8. Action \in Parsed /\ Action \in Actions /\ t.before = files
  BY <1>1, <1>2, ValidAction DEF Pending
<1>9. \A i \in DOMAIN os :
        \/ \E j \in DOMAIN observations :
             os[i] = observations[j] /\ (t.receipt.ok /\ t.action.kind = "edit" => observations[j].path # t.action.path)
        \/ t.receipt.ok /\ t.action.kind = "read" /\ os[i] = t.receipt.packet[1]
  <2>1. observations \in Seq(Packets)
    BY <1>2 DEF Typing
  <2>2. t.action.kind = "read" /\ t.receipt.ok => Len(t.receipt.packet) = 1
    BY <1>1 DEF TurnIsWhole
  <2> QED
    BY <1>1, <1>6, <2>1, <2>2, ObservedElements
<1>10. \A i \in DOMAIN os : \E r : Provides(us, Len(us), r, os[i])
  <2> SUFFICES ASSUME NEW i \in DOMAIN os
               PROVE  \E r : Provides(us, Len(us), r, os[i])
    OBVIOUS
  <2>1. ASSUME NEW j \in DOMAIN observations, os[i] = observations[j],
               t.receipt.ok /\ t.action.kind = "edit" => observations[j].path # t.action.path
        PROVE  \E r : Provides(us, Len(us), r, os[i])
    <3>1. PICK r : Provides(turns, Len(turns), r, observations[j])
      BY DEF Edited, Evidence
    <3>2. ~EditsOf(t, observations[j].path)
      BY <2>1 DEF EditsOf, RanWell
    <3>3. Provides(us, Len(us), r, observations[j])
      BY <1>4, <3>1, <3>2, ProvidesMore
    <3> QED
      BY <2>1, <3>3
  <2>2. ASSUME t.receipt.ok, t.action.kind = "read", os[i] = t.receipt.packet[1]
        PROVE  \E r : Provides(us, Len(us), r, os[i])
    <3>1. PICK text \in Contents : o.receipt.packet = <<[path |-> Action.path, sha |-> files[Action.path], text |-> text]>>
      BY <1>1, <1>2, <2>2, Outcome DEF Ran
    <3>2. PICK p : p = [path |-> Action.path, sha |-> files[Action.path], text |-> text]
      OBVIOUS
    <3>3. os[i] = p /\ p.path = Action.path
      BY <1>1, <2>2, <3>1, <3>2
    <3>4. RanWell(t) /\ Reads(t, os[i].path)
      BY <1>1, <2>2, <3>3 DEF RanWell, Reads
    <3>5. k + 1 \in 1 .. k + 1 /\ \A e : e \notin k + 1 + 1 .. k + 1
      BY <1>5
    <3>6. Provides(us, k + 1, k + 1, os[i])
      BY <1>5, <2>2, <3>4, <3>5 DEF Provides
    <3> QED
      BY <1>5, <3>6
  <2> QED
    BY <1>9, <2>1, <2>2
<1>11. Evidence'
  BY <1>7, <1>10 DEF Evidence
<1>12. ASSUME RanWell(t), t.action.kind = "edit"
       PROVE  /\ \E r \in 1 .. k :
                   /\ RanWell(turns[r]) /\ Reads(turns[r], t.action.path)
                   /\ turns[r].receipt.packet[1].sha = t.before[t.action.path]
                   /\ Contains(turns[r].receipt.packet[1].text, t.action.before)
                   /\ \A e \in r + 1 .. k : ~EditsOf(turns[e], t.action.path)
              /\ \E l \in DOMAIN t.before[t.action.path] :
                   t.after = [t.before EXCEPT ![t.action.path] = [@ EXCEPT ![l] = t.action.after]]
  <2>1. Action.kind = "edit" /\ o.receipt.ok /\ o \in ToolOutcomes
    BY <1>1, <1>12 DEF RanWell, Ran
  <2>2. Applies(files[Action.path], Action, Expected) /\ o.files = [files EXCEPT ![Action.path] = Updated(@, Action)]
    BY <1>2, <2>1, Outcome
  <2>3. PICK c : c = files[Action.path]
    OBVIOUS
  <2>4. c = Expected /\ Cardinality(Occurrences(c, Action.before)) = 1
    BY <2>2, <2>3 DEF Applies
  <2>5. PICK i \in DOMAIN observations :
                /\ observations[i].path = Action.path /\ Contains(observations[i].text, Action.before)
                /\ Expected = observations[i].sha
    BY <1>2, <2>1, ExpectedTyping
  <2>6. PICK r : Provides(turns, k, r, observations[i])
    BY <1>3 DEF Edited, Evidence
  <2>7. /\ r \in 1 .. k /\ RanWell(turns[r]) /\ Reads(turns[r], Action.path)
        /\ turns[r].receipt.packet[1] = observations[i]
        /\ \A e \in r + 1 .. k : ~EditsOf(turns[e], Action.path)
    BY <2>5, <2>6 DEF Provides
  <2>8. c \in Contents /\ Action.path \in Paths /\ files \in Trees
    BY <1>2, <1>8, <2>1, <2>3, Kinds DEF Typing, Trees
  <2>9. PICK l \in DOMAIN c : Updated(c, Action) = [c EXCEPT ![l] = Action.after]
    BY <2>4, <2>8, OneLine
  <2>10. t.after = [files EXCEPT ![Action.path] = [c EXCEPT ![l] = Action.after]]
    BY <1>1, <2>2, <2>3, <2>9
  <2>11. [files EXCEPT ![Action.path] = [c EXCEPT ![l] = Action.after]]
           = [files EXCEPT ![Action.path] = [@ EXCEPT ![l] = Action.after]]
    BY <2>3
  <2>12. \E m \in DOMAIN t.before[t.action.path] :
                   t.after = [t.before EXCEPT ![t.action.path] = [@ EXCEPT ![m] = t.action.after]]
    BY <1>1, <1>8, <2>3, <2>9, <2>10, <2>11
  <2>13. /\ turns[r].receipt.packet[1].sha = t.before[t.action.path]
         /\ Contains(turns[r].receipt.packet[1].text, t.action.before)
    BY <1>1, <1>8, <2>3, <2>4, <2>5, <2>7
  <2> QED
    BY <1>1, <2>7, <2>12, <2>13
<1>13. \A n \in 1 .. k + 1 : GroundedAt(us, n)
  <2> SUFFICES ASSUME NEW n \in 1 .. k + 1
               PROVE  GroundedAt(us, n)
    OBVIOUS
  <2>1. n \in 1 .. k \/ n = k + 1
    BY <1>5
  <2>2. CASE n \in 1 .. k
    <3>1. GroundedAt(turns, n)
      BY <1>5, <2>2, EditsAreGroundedAt DEF Edited
    <3> QED
      BY <1>3, <1>4, <2>2, <3>1, GroundedMore
  <2>3. CASE n = k + 1
    <3>1. us[n] = t /\ n - 1 = k /\ \A r \in 1 .. k : us[r] = turns[r] /\ \A e \in r + 1 .. k : us[e] = turns[e]
      BY <1>5, <2>3
    <3> QED
      BY <1>12, <3>1 DEF GroundedAt
  <2> QED
    BY <2>1, <2>2, <2>3
<1>14. EditsAreGrounded'
  BY <1>5, <1>7, <1>13, EditsAreGroundedNext
<1> QED
  BY <1>11, <1>14 DEF Edited

\* What an answer was judged by: the observations at its turn.
Founded(t, os) ==
  /\ t.outcome = "ran" => /\ Grounded(t.action, os)
                          /\ t.action.kind = "edit" => t.expected = ExpectedVersion(t.action, os)
  /\ t.outcome = "rejected" => t.action = Invalid \/ ~Grounded(t.action, os)
  /\ t.outcome = "repeated" => Executable(t.action)

\* The steps that run no tool end a turn or none.
LEMMA QuietSteps ==
  ASSUME Whole, [Next]_vars, ~RunTool
  PROVE  \/ turns' = turns /\ observations' = observations
         \/ /\ observations' = observations /\ files' = files
            /\ \E t : /\ Pending(t, t.outcome) /\ TurnIsWhole(t) /\ t.outcome # "ran" /\ turns' = Append(turns, t)
                   /\ Founded(t, observations)
<1>1. CASE Ask \/ UNCHANGED vars
  BY <1>1 DEF Ask, vars
<1>2. ASSUME Answered, NEW o \in Outcomes \ {"ran", "repeated"}, turns' = Append(turns, Turn(o)), o = "rejected" => ~Valid,
             o \in {"finished", "unverified"} => Action = Done, o = "navigation" => Action.kind = "read",
             o \in {"rejected", "unparsed"} => Action = Invalid \/ Action.kind = "edit"
      PROVE  \E t : /\ Pending(t, t.outcome) /\ TurnIsWhole(t) /\ t.outcome # "ran" /\ turns' = Append(turns, t)
                    /\ Founded(t, observations)
  <2>1. Front(messages) \in Seq(MessageTypes) /\ answer # <<>> /\ Typing
    <3>1. \E c : c = Front(messages) /\ c \in Seq(MessageTypes)
      BY <1>2, AnsweredScan DEF Whole
    <3> QED
      BY <1>2, <3>1 DEF Answered, Whole
  <2>2. PICK t : t = Turn(o)
    OBVIOUS
  <2>3. Pending(t, o)
    BY <1>2, <2>1, <2>2, PlainTurn
  <2>4. t.outcome = o /\ t.action = Action /\ TurnIsWhole(t)
    BY <1>2, <2>2, <2>3, PlainTurnIsWhole DEF Pending
  <2>5. Founded(t, observations)
    BY <1>2, <2>4 DEF Founded, Valid
  <2> QED
    BY <1>2, <2>2, <2>3, <2>4, <2>5
<1>3. {"rejected", "unparsed", "unverified", "finished", "navigation"} \subseteq Outcomes \ {"ran", "repeated"}
  BY DEF Outcomes
<1>4. CASE RejectAnswer
  <2>1. Answered /\ observations' = observations /\ files' = files
    BY <1>4 DEF RejectAnswer, Refuse, End
  <2>2. turns' = Append(turns, Turn("unparsed")) \/ turns' = Append(turns, Turn("rejected"))
    BY <1>4 DEF RejectAnswer, Refuse, End
  <2>3. ~Valid /\ (Action = Invalid \/ Action.kind = "edit")
    BY <1>4 DEF RejectAnswer, Valid, Grounded
  <2> QED
    BY <1>2, <1>3, <2>1, <2>2, <2>3
<1>5. CASE RefuseFinish
  <2>1. Answered /\ observations' = observations /\ files' = files /\ turns' = Append(turns, Turn("unverified"))
    BY <1>5 DEF RefuseFinish, Refuse
  <2>2. Action = Done
    BY <1>5, ValidAction DEF RefuseFinish, UnverifiedFinish
  <2> QED
    BY <1>2, <1>3, <2>1, <2>2
<1>6. CASE Finish
  <2>1. Answered /\ observations' = observations /\ files' = files /\ turns' = Append(turns, Turn("finished"))
    BY <1>6 DEF Finish, End
  <2>2. Action = Done
    BY <1>6, ValidAction DEF Finish
  <2> QED
    BY <1>2, <1>3, <2>1, <2>2
<1>7. CASE RefuseRead
  <2>1. Answered /\ observations' = observations /\ files' = files /\ turns' = Append(turns, Turn("navigation"))
    BY <1>7 DEF RefuseRead, Refuse
  <2>2. Action.kind = "read"
    BY <1>7 DEF RefuseRead, TooManyReads
  <2> QED
    BY <1>2, <1>3, <2>1, <2>2
<1>8. CASE RefuseRepeat
  <2>1. observations' = observations /\ files' = files /\ turns' = Append(turns, RepeatedTurn)
    BY <1>8 DEF RefuseRepeat, Refuse, RepeatedTurn
  <2>2. Answered /\ Valid /\ answer # <<>> /\ Typing
    BY <1>8 DEF RefuseRepeat, Runs, Answered, Whole
  <2>3. Expected \in Contents
    BY <2>2, ExpectedTyping
  <2>4. Front(messages) \in Seq(MessageTypes)
    <3>1. \E c : c = Front(messages) /\ c \in Seq(MessageTypes)
      BY <2>2, AnsweredScan DEF Whole
    <3> QED
      BY <3>1
  <2>5. Pending(RepeatedTurn, "repeated")
    BY <2>2, <2>3, <2>4, ExpectingTurn
  <2>6. RepeatedTurn.outcome = "repeated" /\ RepeatedTurn.action = Action /\ RepeatedTurn.answer = answer[1]
    BY <2>5 DEF Pending
  <2>7. Executable(Action)
    <3>1. PICK n \in DOMAIN turns : turns[n].outcome = "ran" /\ Signature(turns[n]) = Signature(RepeatedTurn)
      BY <1>8 DEF RefuseRepeat, RepeatedTurn, Had
    <3>2. turns[n].action = Action
      BY <2>6, <3>1 DEF Signature
    <3> QED
      BY <2>2, <3>1, <3>2 DEF Whole, Progress
  <2>8. TurnIsWhole(RepeatedTurn)
    <3>1. Action.kind \in Tools \cup {"command"}
      BY <2>7 DEF Executable
    <3> QED
      BY <2>6, <3>1 DEF TurnIsWhole, Action
  <2>9. Founded(RepeatedTurn, observations)
    BY <2>6, <2>7 DEF Founded
  <2> QED
    BY <2>1, <2>5, <2>6, <2>8, <2>9
<1> QED
  BY <1>1, <1>4, <1>5, <1>6, <1>7, <1>8 DEF Next, Ended

LEMMA NextIsEdited == Whole /\ Edited /\ [Next]_vars => Edited'
<1> SUFFICES ASSUME Whole, Edited, [Next]_vars
             PROVE  Edited'
  OBVIOUS
<1>1. CASE RunTool
  BY <1>1, RunToolIsEdited
<1>2. CASE turns' = turns /\ observations' = observations
  <2>1. EditsAreGrounded'
    BY <1>2, EditsAreGroundedAt, EditsAreGroundedNext DEF Edited
  <2> QED
    BY <1>2, <2>1 DEF Edited, Evidence
<1>3. ASSUME observations' = observations, NEW t, Pending(t, t.outcome), t.outcome # "ran", turns' = Append(turns, t)
      PROVE  Edited'
  BY <1>3, QuietTurn
<1> QED
  BY <1>1, <1>2, <1>3, QuietSteps

\* An edit that applied replaced one place of a version of the file that a read
\* of the run had shown, under either bounded policy.  (source_evidence.py:9,
\* text_edit.py:43)
THEOREM EditsRestOnReads == DataSpec /\ policy \in BoundedPolicies => []EditsAreGrounded
<1>1. DataInit /\ policy \in BoundedPolicies => Whole /\ Edited
  <2> SUFFICES ASSUME DataInit, policy \in BoundedPolicies
               PROVE  Whole /\ Edited
    OBVIOUS
  <2>1. Whole
    BY InitIsWhole DEF DataInit
  <2>2. DOMAIN observations = {} /\ DOMAIN turns = {}
    BY DEF DataInit, Init
  <2> QED
    BY <2>1, <2>2 DEF Edited, Evidence, EditsAreGrounded
<1>2. Whole /\ Edited /\ [DataNext]_<<vars, trainingVars>> => Whole' /\ Edited'
  <2> SUFFICES ASSUME Whole, Edited, [DataNext]_<<vars, trainingVars>>
               PROVE  Whole' /\ Edited'
    OBVIOUS
  <2>1. [Next]_vars
    BY DEF DataNext, vars
  <2> QED
    BY <2>1, NextIsWhole, NextIsEdited
<1>3. Edited => EditsAreGrounded
  BY DEF Edited
<1> QED
  BY <1>1, <1>2, <1>3, PTL DEF DataSpec

-----------------------------------------------------------------------------
(* Recoveries, read from the messages.                                     *)

\* A change of action after a rejection, from the latest interaction.
LEMMA ChangeIsAboutTheLatest ==
  ASSUME NEW ms, NEW xs, NEW w, Scanned(ms, xs, {}, w), NEW a
  PROVE  ChangedAfterRejection(ms, a) <=>
           /\ Executable(a) /\ xs # <<>> /\ xs[Len(xs)].receipt.role = "rejection"
           /\ ActionOf(xs[Len(xs)].action) # a
<1>1. PICK n, R : n = Len(ms) /\ R = {i \in DOMAIN ms : ms[i].role = "rejection"}
  OBVIOUS
<1>2. ms \in Seq(MessageTypes) /\ n \in Nat /\ DOMAIN ms = 1 .. n /\ R \subseteq 0 .. n /\ R \subseteq Receipts(ms)
  BY <1>1 DEF Scanned, Receipts
<1>3. PICK last : last = Max(R)
  OBVIOUS
<1>4. R # {} => last \in R /\ last \in DOMAIN ms /\ last \in Nat /\ \A i \in R : i <= last
  <2> SUFFICES ASSUME R # {}
               PROVE  last \in R /\ last \in DOMAIN ms /\ last \in Nat /\ \A i \in R : i <= last
    OBVIOUS
  <2>1. last \in R /\ \A i \in R : i <= last
    BY <1>2, <1>3, Largest
  <2> QED
    BY <1>1, <1>2, <2>1
<1>5. ChangedAfterRejection(ms, a) <=>
        /\ Executable(a) /\ R # {}
        /\ \A i \in last + 1 .. n : ms[i].role # "assistant"
        /\ ms[last - 1].role = "assistant" /\ ActionOf(ms[last - 1]) # a
  BY <1>1, <1>3 DEF ChangedAfterRejection
<1>6. CASE xs = <<>>
  <2>1. R = {}
    BY <1>2, <1>6 DEF Scanned
  <2> QED
    BY <1>5, <1>6, <2>1
<1>7. CASE xs # <<>>
  <2>1. PICK i \in DOMAIN ms :
           /\ i \in Receipts(ms) /\ i - 1 \in DOMAIN ms /\ ms[i - 1].role = "assistant"
           /\ \A j \in Receipts(ms) : j <= i
           /\ xs[Len(xs)] = [action |-> ms[i - 1], receipt |-> ms[i]]
    BY <1>7, LatestReceipt
  <2>2. PICK x : x = xs[Len(xs)] /\ x.action = ms[i - 1] /\ x.receipt = ms[i]
    BY <2>1
  <2>3. LastReceipt(ms, n) = i
    <3>1. PICK l : l = LastReceipt(ms, n)
      OBVIOUS
    <3>2. l = 2 \/ l \in Receipts(ms)
      BY <1>2, <3>1, ReceiptsBelow
    <3>3. i <= l /\ l \in Nat
      BY <1>2, <2>1, <3>1, ReceiptsBelow
    <3>4. 2 <= i
      <4>1. i - 1 \in 1 .. n /\ ms[1].role # "assistant" /\ i \in 1 .. n
        BY <1>2, <2>1 DEF Scanned, System
      <4> QED
        BY <1>2, <4>1
    <3>5. i \in Nat
      BY <1>2, <2>1
    <3>6. CASE l \in Receipts(ms)
      BY <2>1, <3>1, <3>3, <3>5, <3>6
    <3>7. CASE l = 2
      BY <3>1, <3>3, <3>4, <3>5, <3>7
    <3> QED
      BY <3>2, <3>6, <3>7
  <2>4. \A j \in DOMAIN ms : j > i => ms[j].role # "assistant"
    BY <1>1, <2>3 DEF Scanned, Unanswered
  <2>5. i \in 1 .. n /\ i - 1 \in 1 .. n /\ n \in Nat
    BY <1>2, <2>1
  <2>6. CASE ms[i].role = "rejection"
    <3>1. i \in R
      BY <1>1, <2>1, <2>6
    <3>2. last = i
      <4>1. R # {} /\ i <= last /\ last \in Receipts(ms) /\ last \in Nat
        BY <1>2, <1>4, <3>1
      <4> QED
        BY <2>1, <2>5, <4>1
    <3>3. \A j \in last + 1 .. n : ms[j].role # "assistant"
      BY <1>2, <2>4, <2>5, <3>2
    <3>4. x.receipt.role = "rejection" /\ R # {} /\ ms[last - 1] = x.action /\ ms[last - 1].role = "assistant"
      BY <2>1, <2>2, <2>6, <3>1, <3>2
    <3> QED
      BY <1>5, <1>7, <2>2, <3>3, <3>4
  <2>7. CASE ms[i].role # "rejection"
    <3>1. ASSUME R # {}
          PROVE  i - 1 \in last + 1 .. n
      <4>1. last \in Receipts(ms) /\ last \in Nat /\ ms[last].role = "rejection" /\ last <= i
        BY <1>1, <1>2, <1>4, <2>1, <3>1
      <4>2. last # i /\ last # i - 1
        BY <2>1, <2>7, <4>1
      <4> QED
        BY <2>5, <4>1, <4>2
    <3>2. ~ChangedAfterRejection(ms, a)
      BY <1>5, <2>1, <3>1
    <3> QED
      BY <2>2, <2>7, <3>2
  <2> QED
    BY <2>6, <2>7
<1> QED
  BY <1>6, <1>7

\* RecoveriesAreReal for one turn.
RecoveryAt(n) ==
  LET t      == turns[n]
      before == {r \in 1 .. n - 1 : HasReceipt(turns[r])}
  IN  t.outcome \in {"ran", "finished"} =>
        (ChangedAfterRejection(t.context, t.action)
         <=> /\ t.outcome = "ran" /\ before # {}
             /\ turns[Max(before)].outcome # "ran"
             /\ turns[Max(before)].action # t.action
             /\ policy \in BoundedPolicies \/ Max(before) = n - 1)

LEMMA RecoveriesOfACompletedRun ==
  ASSUME Whole, status = "completed", NEW n \in DOMAIN turns
  PROVE  RecoveryAt(n)
<1>1. PICK t, before, m : t = turns[n] /\ before = Before(turns, n - 1) /\ m = Max(before)
  OBVIOUS
<1>2. before = {r \in 1 .. n - 1 : HasReceipt(turns[r])}
  BY <1>1 DEF Before
<1>3. PICK xs, w : Scanned(t.context, xs, {}, w) /\ ShowsLatest(xs, turns, n - 1)
  BY <1>1 DEF Whole, Shape, Contextual
<1>4. ChangedAfterRejection(t.context, t.action) <=>
        /\ Executable(t.action) /\ xs # <<>> /\ xs[Len(xs)].receipt.role = "rejection"
        /\ ActionOf(xs[Len(xs)].action) # t.action
  BY <1>3, ChangeIsAboutTheLatest
<1>5. TurnIsWhole(t)
  BY <1>1 DEF Whole, Typing
<1>6. ASSUME t.outcome = "finished"
      PROVE  ~Executable(t.action)
  <2>1. t.action = Done
    BY <1>5, <1>6 DEF TurnIsWhole
  <2> QED
    BY <2>1 DEF Executable, Done, Tools
<1>7. ASSUME t.outcome = "ran"
      PROVE  Executable(t.action)
  BY <1>1, <1>7 DEF Whole, Progress
<1>8. /\ before = {} => xs = <<>>
      /\ before # {} => /\ xs # <<>>
                        /\ xs[Len(xs)].receipt.role = IF turns[m].outcome = "ran" THEN "result" ELSE "rejection"
                        /\ ActionOf(xs[Len(xs)].action) = turns[m].action
  BY <1>1, <1>3 DEF ShowsLatest, Describes
<1>9. t.outcome \in {"ran", "finished"} =>
        (ChangedAfterRejection(t.context, t.action)
         <=> t.outcome = "ran" /\ before # {} /\ turns[m].outcome # "ran" /\ turns[m].action # t.action)
  BY <1>4, <1>6, <1>7, <1>8
<1>10. policy \in BoundedPolicies
  BY DEF Whole, Typing
<1> QED
  BY <1>1, <1>2, <1>9, <1>10 DEF RecoveryAt

\* The data are made of completed runs, which do not change.
OfCompleted == training # "none" => status = "completed"

LEMMA CompletedIsFinal ==
  ASSUME status = "completed", [Next]_vars
  PROVE  UNCHANGED vars
BY DEF Next, Ask, RejectAnswer, RefuseFinish, Finish, RefuseRead, RefuseRepeat, RunTool, Runs, Answered, Ended, vars

LEMMA DataAreOfCompletedRuns == OfCompleted /\ [DataNext]_<<vars, trainingVars>> => OfCompleted'
<1> SUFFICES ASSUME OfCompleted, [DataNext]_<<vars, trainingVars>>
             PROVE  OfCompleted'
  OBVIOUS
<1>1. CASE [Next]_vars /\ UNCHANGED trainingVars
  <2>1. training' = training
    BY <1>1 DEF trainingVars
  <2>2. status = "completed" => status' = status
    BY <1>1, CompletedIsFinal DEF vars
  <2> QED
    BY <2>1, <2>2 DEF OfCompleted
<1>2. CASE Train /\ UNCHANGED vars
  <2>1. status' = status
    BY <1>2 DEF vars
  <2>2. status = "completed"
    BY <1>2 DEF OfCompleted, Train, Prepare, StartTraining, AttemptRaises, OutOfMemory, Complete, Fits
  <2> QED
    BY <2>1, <2>2 DEF OfCompleted
<1> QED
  BY <1>1, <1>2 DEF DataNext

\* Under either bounded policy readiness counts an example as a recovery exactly
\* if the last answer with a receipt was refused and another action ran, although
\* it is counted in compacted messages.  Under native, where readiness also sees
\* the refused finishes in between, RecoveriesAreReal is checked, not proved.
\* (readiness.py:33)
THEOREM RecoveriesAreCountedRight == DataSpec /\ policy \in BoundedPolicies => []RecoveriesAreReal
<1>1. DataInit /\ policy \in BoundedPolicies => Whole /\ OfCompleted
  BY InitIsWhole DEF DataInit, InitTraining, OfCompleted
<1>2. Whole /\ OfCompleted /\ [DataNext]_<<vars, trainingVars>> => Whole' /\ OfCompleted'
  BY DataNextIsWhole, DataAreOfCompletedRuns
<1>3. Whole /\ OfCompleted => RecoveriesAreReal
  <2> SUFFICES ASSUME Whole, OfCompleted, training = "prepared"
               PROVE  \A n \in DOMAIN turns : RecoveryAt(n)
    BY DEF RecoveriesAreReal, RecoveryAt
  <2>1. status = "completed"
    BY DEF OfCompleted
  <2> QED
    BY <2>1, RecoveriesOfACompletedRun
<1> QED
  BY <1>1, <1>2, <1>3, PTL DEF DataSpec

-----------------------------------------------------------------------------
(* The observations, from the turns.                                       *)

Watch(os, t) == IF t.outcome = "ran" THEN ObserveSource(os, t.action, t.receipt) ELSE os

IsWatch(g, ts) == g[0] = <<>> /\ \A n \in DOMAIN ts : g[n] = Watch(g[n - 1], ts[n])

\* The loop observed what the conversion of its events will observe.
Watched ==
  \E g : /\ IsWatch(g, turns) /\ g[Len(turns)] = observations
         /\ \A n \in DOMAIN turns : Founded(turns[n], g[n - 1])

LEMMA WatchedMore ==
  ASSUME Whole, Watched, NEW t \in TurnTypes, Founded(t, observations), turns' = Append(turns, t),
         observations' = Watch(observations, t)
  PROVE  Watched'
<1>1. PICK us, k : us = Append(turns, t) /\ k = Len(turns)
  OBVIOUS
<1>2. /\ k \in Nat /\ Len(us) = k + 1 /\ us[k + 1] = t /\ DOMAIN us = 1 .. k + 1 /\ DOMAIN turns = 1 .. k
      /\ \A n \in 1 .. k : us[n] = turns[n]
  <2>1. turns \in Seq(TurnTypes)
    BY DEF Whole, Typing
  <2> QED
    BY <1>1, <2>1
<1>3. PICK g : IsWatch(g, turns) /\ g[k] = observations /\ \A n \in 1 .. k : Founded(turns[n], g[n - 1])
  BY <1>1, <1>2 DEF Watched
<1>4. PICK h : h = [n \in 0 .. k + 1 |-> IF n = k + 1 THEN Watch(observations, t) ELSE g[n]]
  OBVIOUS
<1>5. \A n \in 0 .. k : n \in 0 .. k + 1 /\ n # k + 1
  BY <1>2
<1>6. \A n \in 0 .. k : h[n] = g[n]
  BY <1>4, <1>5
<1>7. k + 1 \in 0 .. k + 1 /\ 0 \in 0 .. k /\ k \in 0 .. k /\ k + 1 - 1 = k /\ \A n \in 1 .. k : n \in 0 .. k /\ n - 1 \in 0 .. k
  BY <1>2
<1>8. h[k + 1] = Watch(observations, t)
  BY <1>4, <1>7
<1>9. \A n \in 1 .. k + 1 : n \in 1 .. k \/ n = k + 1
  BY <1>2
<1>10. IsWatch(h, us)
  <2>1. h[0] = <<>>
    BY <1>3, <1>6, <1>7 DEF IsWatch
  <2>2. ASSUME NEW n \in 1 .. k + 1
        PROVE  h[n] = Watch(h[n - 1], us[n])
    <3>1. CASE n = k + 1
      <4>1. h[n - 1] = observations
        BY <1>3, <1>6, <1>7, <3>1
      <4> QED
        BY <1>2, <1>8, <3>1, <4>1
    <3>2. CASE n \in 1 .. k
      <4>1. g[n] = Watch(g[n - 1], turns[n])
        BY <1>2, <1>3, <3>2 DEF IsWatch
      <4> QED
        BY <1>2, <1>6, <1>7, <3>2, <4>1
    <3> QED
      BY <1>9, <3>1, <3>2
  <2> QED
    BY <1>2, <2>1, <2>2 DEF IsWatch
<1>11. ASSUME NEW n \in 1 .. k + 1
       PROVE  Founded(us[n], h[n - 1])
  <2>1. CASE n = k + 1
    <3>1. h[n - 1] = observations
      BY <1>3, <1>6, <1>7, <2>1
    <3> QED
      BY <1>2, <2>1, <3>1
  <2>2. CASE n \in 1 .. k
    <3>1. h[n - 1] = g[n - 1] /\ us[n] = turns[n]
      BY <1>2, <1>6, <1>7, <2>2
    <3> QED
      BY <1>3, <2>2, <3>1
  <2> QED
    BY <1>9, <2>1, <2>2
<1>12. turns' = us /\ h[Len(us)] = observations'
  BY <1>1, <1>2, <1>8
<1> QED
  BY <1>2, <1>10, <1>11, <1>12 DEF Watched

LEMMA NextIsWatched == Whole /\ Watched /\ [Next]_vars => Watched'
<1> SUFFICES ASSUME Whole, Watched, [Next]_vars
             PROVE  Watched'
  OBVIOUS
<1>1. CASE RunTool
  <2>1. PICK o, t :
           /\ Ran(o, t) /\ Pending(t, "ran") /\ t.outcome = "ran"
           /\ t.receipt = o.receipt /\ t.expected = Expected /\ t.action = Action
    BY <1>1, SomethingRan
  <2>2. Valid
    BY <1>1 DEF RunTool, Runs
  <2>3. Founded(t, observations)
    <3>1. t.action.kind = "edit" => t.expected = ExpectedVersion(t.action, observations)
      BY <2>1 DEF Expected
    <3> QED
      BY <2>1, <2>2, <3>1 DEF Founded, Valid
  <2>4. observations' = Watch(observations, t) /\ turns' = Append(turns, t) /\ t \in TurnTypes
    BY <2>1 DEF Ran, Watch, Pending
  <2> QED
    BY <2>3, <2>4, WatchedMore
<1>2. CASE turns' = turns /\ observations' = observations
  BY <1>2 DEF Watched
<1>3. ASSUME observations' = observations,
             NEW t, Pending(t, t.outcome), t.outcome # "ran", turns' = Append(turns, t), Founded(t, observations)
      PROVE  Watched'
  <2>1. observations' = Watch(observations, t) /\ t \in TurnTypes
    BY <1>3 DEF Watch, Pending
  <2> QED
    BY <1>3, <2>1, WatchedMore
<1> QED
  BY <1>1, <1>2, <1>3, QuietSteps

LEMMA InitIsWatched == Init => Watched
<1> SUFFICES ASSUME Init
             PROVE  Watched
  OBVIOUS
<1>1. PICK g : g = [n \in {0} |-> <<>>]
  OBVIOUS
<1>2. g[0] = <<>>
  BY <1>1
<1>3. turns = <<>> /\ observations = <<>> /\ DOMAIN turns = {} /\ Len(turns) = 0
  BY DEF Init
<1> QED
  BY <1>2, <1>3 DEF Watched, IsWatch

-----------------------------------------------------------------------------
(* The events of a run.                                                    *)

Asking(t)    == [action |-> t.action, context |-> t.context]
ExampleOf(t) == [messages |-> t.context, target |-> t.action]

EventTypes ==
  {ModelEvent(t) : t \in TurnTypes} \cup {ToolEvent(t) : t \in TurnTypes}
    \cup {[type |-> "protocol_rejection"], [type |-> "no_progress"], [type |-> "source_navigation_blocked"]}

EventsIn(ts) == FlattenSeq([n \in DOMAIN ts |-> EventsOf(ts[n])])

\* What follows the answer of a turn.
After(t) ==
  CASE t.outcome = "ran" -> <<ToolEvent(t)>>
    [] t.outcome = "rejected" -> <<[type |-> "protocol_rejection"]>>
    [] t.outcome = "repeated" -> <<[type |-> "no_progress"]>>
    [] t.outcome = "navigation" -> <<[type |-> "source_navigation_blocked"]>>
    [] OTHER -> <<>>

LEMMA EventsOfATurn ==
  ASSUME NEW t \in TurnTypes
  PROVE  EventsOf(t) = <<ModelEvent(t)>> \o After(t) /\ After(t) \in Seq(EventTypes) /\ EventsOf(t) \in Seq(EventTypes)
<1>1. EventsOf(t) = <<ModelEvent(t)>> \o After(t)
  BY DEF EventsOf, After
<1>2. /\ ModelEvent(t) \in EventTypes /\ ToolEvent(t) \in EventTypes /\ [type |-> "protocol_rejection"] \in EventTypes
      /\ [type |-> "no_progress"] \in EventTypes /\ [type |-> "source_navigation_blocked"] \in EventTypes
  BY DEF EventTypes
<1>3. \A e \in EventTypes : <<e>> \in Seq(EventTypes)
  OBVIOUS
<1>4. <<>> \in Seq(EventTypes)
  OBVIOUS
<1>5. After(t) \in Seq(EventTypes)
  <2>1. After(t) \in {<<ToolEvent(t)>>, <<[type |-> "protocol_rejection"]>>, <<[type |-> "no_progress"]>>,
                      <<[type |-> "source_navigation_blocked"]>>, <<>>}
    BY DEF After
  <2> QED
    BY <1>2, <1>3, <1>4, <2>1
<1>6. PICK u, v : u = <<ModelEvent(t)>> /\ v = After(t) /\ u \in Seq(EventTypes) /\ v \in Seq(EventTypes)
  BY <1>2, <1>3, <1>5
<1>7. u \o v \in Seq(EventTypes)
  BY <1>6
<1> QED
  BY <1>1, <1>5, <1>6, <1>7

LEMMA EventsMore ==
  ASSUME NEW ts \in Seq(TurnTypes), NEW t \in TurnTypes
  PROVE  EventsIn(Append(ts, t)) = EventsIn(ts) \o EventsOf(t) /\ EventsIn(ts) \in Seq(EventTypes)
<1>1. PICK R, ss, q, n, us : /\ R = {EventsOf(e) : e \in TurnTypes} /\ ss = [k \in DOMAIN ts |-> EventsOf(ts[k])]
                             /\ q = EventsOf(t) /\ n = Len(ts) /\ us = Append(ts, t)
  OBVIOUS
<1>2. \A r \in R : r \in Seq(EventTypes)
  BY <1>1, EventsOfATurn
<1>3. /\ n \in Nat /\ DOMAIN ts = 1 .. n /\ (\A k \in 1 .. n : ts[k] \in TurnTypes /\ us[k] = ts[k])
      /\ DOMAIN us = 1 .. n + 1 /\ us[n + 1] = t
  BY <1>1
<1>4. ss = [k \in 1 .. n |-> ss[k]] /\ (\A k \in 1 .. n : ss[k] \in R /\ ss[k] = EventsOf(ts[k])) /\ q \in R
  BY <1>1, <1>3
<1>5. ss \in Seq(R) /\ Len(ss) = n
  BY <1>3, <1>4
<1>6. [k \in DOMAIN us |-> EventsOf(us[k])] = Append(ss, q)
  <2>1. PICK v : v = Append(ss, q)
    OBVIOUS
  <2>2. v = [k \in 1 .. n + 1 |-> v[k]] /\ v[n + 1] = q /\ \A k \in 1 .. n : v[k] = ss[k]
    <3>1. v \in Seq(R) /\ Len(v) = n + 1 /\ v[n + 1] = q /\ \A k \in 1 .. n : v[k] = ss[k]
      BY <1>3, <1>4, <1>5, <2>1
    <3> QED
      BY <3>1
  <2>3. \A k \in 1 .. n + 1 : v[k] = EventsOf(us[k])
    <3>1. \A k \in 1 .. n + 1 : k \in 1 .. n \/ k = n + 1
      BY <1>3
    <3> QED
      BY <1>1, <1>3, <1>4, <2>2, <3>1
  <2> QED
    BY <1>3, <2>1, <2>2, <2>3
<1>7. FlattenSeq(Append(ss, q)) = FlattenSeq(ss) \o q /\ FlattenSeq(ss) \in Seq(EventTypes)
  BY <1>2, <1>4, <1>5, FlattenAppend
<1> QED
  BY <1>1, <1>6, <1>7 DEF EventsIn

LEMMA EventsEmpty == EventsIn(<<>>) = <<>>
<1>1. [k \in DOMAIN <<>> |-> EventsOf((<<>>)[k])] = <<>>
  OBVIOUS
<1> QED
  BY <1>1, FlattenEmpty DEF EventsIn

-----------------------------------------------------------------------------
(* The examples of turns.                                                  *)

ExampleTypes == [messages : Seq(MessageTypes), target : Parsed \cup {Invalid}]

With(ts, O) == Picked(ts, {n \in DOMAIN ts : ts[n].outcome \in O})

ExamplesOf(ts, O) == [n \in DOMAIN With(ts, O) |-> ExampleOf(With(ts, O)[n])]

LEMMA WithMore ==
  ASSUME NEW ts \in Seq(TurnTypes), NEW t \in TurnTypes, NEW O
  PROVE  /\ t.outcome \in O => With(Append(ts, t), O) = Append(With(ts, O), t)
         /\ t.outcome \notin O => With(Append(ts, t), O) = With(ts, O)
         /\ With(ts, O) \in Seq(TurnTypes)
<1>1. PICK us, n, I, J : /\ us = Append(ts, t) /\ n = Len(ts) /\ I = {k \in DOMAIN us : us[k].outcome \in O}
                         /\ J = {k \in DOMAIN ts : ts[k].outcome \in O}
  OBVIOUS
<1>2. /\ n \in Nat /\ DOMAIN ts = 1 .. n /\ DOMAIN us = 1 .. n + 1 /\ us[n + 1] = t /\ \A k \in 1 .. n : us[k] = ts[k]
  BY <1>1
<1>3. \A k \in 1 .. n : k \in 1 .. n + 1
  BY <1>2
<1>4. \A k \in DOMAIN ts : k \in I <=> k \in J
  BY <1>1, <1>2, <1>3
<1>5. n + 1 \in I <=> t.outcome \in O
  BY <1>1, <1>2
<1>6. Picked(ts, I) = Picked(ts, J)
  BY <1>4, PickedSame
<1>7. /\ n + 1 \in I => Picked(us, I) = Append(Picked(ts, I), t)
      /\ n + 1 \notin I => Picked(us, I) = Picked(ts, I)
  <2>1. Picked(Append(ts, t), I) = IF Len(ts) + 1 \in I THEN Append(Picked(ts, I), t) ELSE Picked(ts, I)
    BY PickedAppend
  <2> QED
    BY <1>1, <2>1
<1>8. Picked(ts, J) \in Seq(TurnTypes)
  BY PickedTyping
<1> QED
  BY <1>1, <1>5, <1>6, <1>7, <1>8 DEF With

LEMMA ExamplesMore ==
  ASSUME NEW ts \in Seq(TurnTypes), NEW t \in TurnTypes, NEW O
  PROVE  /\ t.outcome \in O => ExamplesOf(Append(ts, t), O) = Append(ExamplesOf(ts, O), ExampleOf(t))
         /\ t.outcome \notin O => ExamplesOf(Append(ts, t), O) = ExamplesOf(ts, O)
         /\ ExamplesOf(ts, O) \in Seq(ExampleTypes)
<1>1. \A e \in TurnTypes : ExampleOf(e) \in ExampleTypes
  BY DEF ExampleOf, ExampleTypes, TurnTypes
<1>2. PICK w, x, n : w = With(ts, O) /\ x = ExamplesOf(ts, O) /\ n = Len(w)
  OBVIOUS
<1>3. w \in Seq(TurnTypes)
  BY <1>2, WithMore
<1>4. n \in Nat /\ DOMAIN w = 1 .. n /\ \A k \in 1 .. n : w[k] \in TurnTypes
  BY <1>2, <1>3
<1>5. x = [k \in 1 .. n |-> ExampleOf(w[k])]
  BY <1>2, <1>4 DEF ExamplesOf
<1>6. x \in Seq(ExampleTypes) /\ Len(x) = n
  BY <1>1, <1>4, <1>5
<1>7. ASSUME t.outcome \in O
      PROVE  ExamplesOf(Append(ts, t), O) = Append(x, ExampleOf(t))
  <2>1. PICK v : v = Append(w, t)
    OBVIOUS
  <2>7. v = With(Append(ts, t), O)
    BY <1>2, <1>7, <2>1, WithMore
  <2>2. DOMAIN v = 1 .. n + 1 /\ v[n + 1] = t /\ \A k \in 1 .. n : v[k] = w[k]
    BY <1>2, <1>3, <2>1
  <2>3. PICK y, e : e = ExampleOf(t) /\ y = Append(x, e)
    OBVIOUS
  <2>4. y = [k \in 1 .. n + 1 |-> y[k]] /\ y[n + 1] = e /\ \A k \in 1 .. n : y[k] = x[k]
    <3>1. e \in ExampleTypes
      BY <1>1, <2>3
    <3>2. y \in Seq(ExampleTypes) /\ Len(y) = n + 1 /\ y[n + 1] = e /\ \A k \in 1 .. n : y[k] = x[k]
      BY <1>4, <1>5, <1>6, <2>3, <3>1
    <3> QED
      BY <3>2
  <2>5. \A k \in 1 .. n + 1 : y[k] = ExampleOf(v[k])
    <3>1. \A k \in 1 .. n + 1 : k \in 1 .. n \/ k = n + 1
      BY <1>4
    <3>2. \A k \in 1 .. n : x[k] = ExampleOf(w[k])
      BY <1>5
    <3> QED
      BY <2>2, <2>3, <2>4, <3>1, <3>2
  <2>6. ExamplesOf(Append(ts, t), O) = [k \in 1 .. n + 1 |-> ExampleOf(v[k])]
    BY <2>2, <2>7 DEF ExamplesOf
  <2> QED
    BY <2>3, <2>4, <2>5, <2>6
<1>8. ASSUME t.outcome \notin O
      PROVE  ExamplesOf(Append(ts, t), O) = x
  <2>1. With(Append(ts, t), O) = w
    BY <1>2, <1>8, WithMore
  <2> QED
    BY <1>2, <2>1 DEF ExamplesOf
<1> QED
  BY <1>2, <1>6, <1>7, <1>8

-----------------------------------------------------------------------------
(* The conversion, turn by turn.                                           *)

Askings == [action : Parsed \cup {Invalid}, context : Seq(MessageTypes)]

Folded == [ok : BOOLEAN, pending : Seq(Askings), observations : Seq(Packets), out : Seq(ExampleTypes)]

\* The answer without a receipt after n turns.
LeftAt(ts, n) ==
  IF n = 0 \/ ts[n].outcome \notin {"unverified", "finished", "unparsed"} THEN <<>> ELSE <<Asking(ts[n])>>

\* What is known after turns, if they were accepted.
Known(x, ts, os) ==
  /\ x \in Folded
  /\ x.ok => /\ x.out = ExamplesOf(ts, {"ran"})
             /\ x.pending = LeftAt(ts, Len(ts))
             /\ x.observations = os

\* When the request of a turn is accepted ...
Askable(p, t) ==
  /\ p = <<>> \/ (p[1].action = Done /\ ObservedFinishRejection(p[1].context, ModelEvent(t)))
  /\ Len(t.context) >= 2 /\ t.context[1] = System /\ t.context[2] = Task

\* ... and its receipt.
Receivable(t, os) ==
  /\ t.outcome = "ran" => /\ Executable(t.action) /\ Grounded(t.action, os) /\ Observable(t.action, t.receipt)
                          /\ t.action.kind = "edit" => t.expected = ExpectedVersion(t.action, os)
  /\ t.outcome = "rejected" => t.action = Invalid \/ ~Grounded(t.action, os)
  /\ t.outcome = "repeated" => Executable(t.action)
  /\ t.outcome = "navigation" => t.action.kind = "read"

LEMMA RefusedTyping == Refused \in Folded /\ ~Refused.ok
<1>1. <<>> \in Seq(Askings) /\ <<>> \in Seq(Packets) /\ <<>> \in Seq(ExampleTypes)
  OBVIOUS
<1> QED
  BY <1>1 DEF Refused, Folded

LEMMA StartTyping == Start \in Folded /\ Start.ok /\ Start.pending = <<>> /\ Start.observations = <<>> /\ Start.out = <<>>
<1>1. <<>> \in Seq(Askings) /\ <<>> \in Seq(Packets) /\ <<>> \in Seq(ExampleTypes)
  OBVIOUS
<1> QED
  BY <1>1 DEF Start, Folded

LEMMA AskedOfATurn ==
  ASSUME NEW x \in Folded, x.ok, NEW t \in TurnTypes, TurnIsWhole(t), NEW y, y = Convert(x, ModelEvent(t))
  PROVE  /\ y \in Folded /\ (y.ok <=> Askable(x.pending, t))
         /\ y.ok => y.pending = <<Asking(t)>> /\ y.out = x.out /\ y.observations = x.observations
<1>1. PICK e, p : e = ModelEvent(t) /\ p = [action |-> ParseAction(e.response), context |-> e.context]
  OBVIOUS
<1>2. e.type = "model" /\ e.response = t.answer /\ e.context = t.context
  BY <1>1 DEF ModelEvent
<1>3. p = Asking(t)
  BY <1>1, <1>2 DEF Asking, TurnIsWhole
<1>4. p \in Askings
  BY <1>3 DEF Asking, Askings, TurnTypes
<1>5. y = Asked(x, e)
  BY <1>1, <1>2 DEF Convert
<1>6. CASE Askable(x.pending, t)
  <2>1. y = [x EXCEPT !.pending = <<p>>]
    BY <1>1, <1>2, <1>5, <1>6 DEF Asked, Askable
  <2>2. <<p>> \in Seq(Askings)
    BY <1>4
  <2>3. y \in Folded /\ y.ok = x.ok /\ y.pending = <<p>> /\ y.out = x.out /\ y.observations = x.observations
    BY <2>1, <2>2 DEF Folded
  <2> QED
    BY <1>3, <1>6, <2>3
<1>7. CASE ~Askable(x.pending, t)
  <2>1. y = Refused
    BY <1>1, <1>2, <1>5, <1>7 DEF Asked, Askable
  <2> QED
    BY <1>7, <2>1, RefusedTyping
<1> QED
  BY <1>6, <1>7

\* The receipt of a tool.
LEMMA ReceivedOfATurn ==
  ASSUME NEW x \in Folded, x.ok, NEW t \in TurnTypes, TurnIsWhole(t), x.pending = <<Asking(t)>>, t.outcome = "ran",
         NEW y, y = Convert(x, ToolEvent(t))
  PROVE  /\ y \in Folded /\ (y.ok <=> Receivable(t, x.observations))
         /\ y.ok => /\ y.pending = <<>> /\ y.out = Append(x.out, ExampleOf(t))
                    /\ y.observations = Watch(x.observations, t)
<1>1. PICK e, p : e = ToolEvent(t) /\ p = x.pending[1]
  OBVIOUS
<1>2. e.type = "tool" /\ e.action = t.action /\ e.expected = t.expected /\ e.receipt = t.receipt
  BY <1>1 DEF ToolEvent
<1>3. p = Asking(t) /\ p.action = t.action /\ p.context = t.context /\ x.pending # <<>>
  BY <1>1 DEF Asking
<1>4. y = Received(x, e)
  BY <1>1, <1>2 DEF Convert
<1>5. t.receipt \in ReceiptTypes /\ (t.action.kind = "read" /\ t.receipt.ok => Len(t.receipt.packet) = 1)
  BY DEF TurnIsWhole
<1>6. PICK os, ex : os = ObserveSource(x.observations, t.action, t.receipt) /\ ex = Example(p)
  OBVIOUS
<1>7. os \in Seq(Packets)
  <2>1. x.observations \in Seq(Packets)
    BY DEF Folded
  <2> QED
    BY <1>5, <1>6, <2>1, ObservedTyping
<1>8. ex = ExampleOf(t) /\ ex \in ExampleTypes
  BY <1>3, <1>6 DEF Example, ExampleOf, ExampleTypes, TurnTypes
<1>9. CASE Receivable(t, x.observations)
  <2>1. y = [x EXCEPT !.pending = <<>>, !.out = Append(@, Example(x.pending[1])),
                      !.observations = ObserveSource(@, e.action, e.receipt)]
    BY <1>1, <1>2, <1>3, <1>4, <1>9 DEF Received, Receivable
  <2>2. PICK u : u = [x EXCEPT !.pending = <<>>]
    OBVIOUS
  <2>3. PICK v : v = [u EXCEPT !.out = Append(@, ex)]
    OBVIOUS
  <2>4. <<>> \in Seq(Askings)
    OBVIOUS
  <2>5. u \in Folded /\ u.ok = x.ok /\ u.pending = <<>> /\ u.out = x.out /\ u.observations = x.observations
    BY <2>2, <2>4 DEF Folded
  <2>6. Append(u.out, ex) \in Seq(ExampleTypes)
    <3>1. u.out \in Seq(ExampleTypes)
      BY <2>5 DEF Folded
    <3> QED
      BY <1>8, <3>1
  <2>7. v \in Folded /\ v.ok = u.ok /\ v.pending = <<>> /\ v.out = Append(u.out, ex) /\ v.observations = u.observations
    BY <2>3, <2>5, <2>6 DEF Folded
  <2>8. PICK z : z = [v EXCEPT !.observations = os]
    OBVIOUS
  <2>9. z \in Folded /\ z.ok = v.ok /\ z.pending = <<>> /\ z.out = v.out /\ z.observations = os
    BY <1>7, <2>7, <2>8 DEF Folded
  <2>10. y = z
    <3>1. ObserveSource(v.observations, e.action, e.receipt) = os
      BY <1>2, <1>6, <2>5, <2>7
    <3>2. Example(x.pending[1]) = ex
      BY <1>1, <1>6
    <3>3. [x EXCEPT !.pending = <<>>, !.out = Append(@, ex), !.observations = ObserveSource(@, e.action, e.receipt)]
            = [v EXCEPT !.observations = ObserveSource(@, e.action, e.receipt)]
      BY <2>2, <2>3
    <3>4. [v EXCEPT !.observations = ObserveSource(@, e.action, e.receipt)] = z
      BY <2>8, <3>1
    <3> QED
      BY <2>1, <3>2, <3>3, <3>4
  <2>11. Watch(x.observations, t) = os
    BY <1>6 DEF Watch
  <2> QED
    BY <1>8, <1>9, <2>5, <2>7, <2>9, <2>10, <2>11
<1>10. CASE ~Receivable(t, x.observations)
  <2>1. y = Refused
    BY <1>1, <1>2, <1>3, <1>4, <1>10 DEF Received, Receivable
  <2> QED
    BY <1>10, <2>1, RefusedTyping
<1> QED
  BY <1>9, <1>10

\* The receipt of a refusal.
LEMMA RefusedOfATurn ==
  ASSUME NEW x \in Folded, x.ok, NEW t \in TurnTypes, TurnIsWhole(t), x.pending = <<Asking(t)>>,
         t.outcome \in {"rejected", "repeated", "navigation"},
         NEW e, After(t) = <<e>>, NEW y, y = Convert(x, e)
  PROVE  /\ y \in Folded /\ (y.ok <=> Receivable(t, x.observations))
         /\ y.ok => y.pending = <<>> /\ y.out = x.out /\ y.observations = x.observations
<1>1. PICK p : p = x.pending[1]
  OBVIOUS
<1>2. p.action = t.action /\ x.pending # <<>>
  BY <1>1 DEF Asking
<1>3. /\ t.outcome = "rejected" => e.type = "protocol_rejection"
      /\ t.outcome = "repeated" => e.type = "no_progress"
      /\ t.outcome = "navigation" => e.type = "source_navigation_blocked"
  <2>1. /\ t.outcome = "rejected" => After(t) = <<[type |-> "protocol_rejection"]>>
        /\ t.outcome = "repeated" => After(t) = <<[type |-> "no_progress"]>>
        /\ t.outcome = "navigation" => After(t) = <<[type |-> "source_navigation_blocked"]>>
    BY DEF After
  <2>2. \A f : After(t) = <<f>> => e = f
    OBVIOUS
  <2>3. /\ t.outcome = "rejected" => e = [type |-> "protocol_rejection"]
        /\ t.outcome = "repeated" => e = [type |-> "no_progress"]
        /\ t.outcome = "navigation" => e = [type |-> "source_navigation_blocked"]
    BY <2>1, <2>2
  <2> QED
    BY <2>3
<1>4. e.type \notin {"model", "tool"}
  BY <1>3
<1>5. y = WasRefused(x, e)
  BY <1>4 DEF Convert
<1>6. CASE Receivable(t, x.observations)
  <2>1. y = [x EXCEPT !.pending = <<>>]
    <3>1. CASE t.outcome = "rejected"
      BY <1>1, <1>2, <1>3, <1>5, <1>6, <3>1 DEF WasRefused, Receivable
    <3>2. CASE t.outcome = "repeated"
      BY <1>1, <1>2, <1>3, <1>5, <1>6, <3>2 DEF WasRefused, Receivable
    <3>3. CASE t.outcome = "navigation"
      BY <1>1, <1>2, <1>3, <1>5, <1>6, <3>3 DEF WasRefused, Receivable
    <3> QED
      BY <3>1, <3>2, <3>3
  <2>2. <<>> \in Seq(Askings)
    OBVIOUS
  <2>3. y \in Folded /\ y.ok = x.ok /\ y.pending = <<>> /\ y.out = x.out /\ y.observations = x.observations
    BY <2>1, <2>2 DEF Folded
  <2> QED
    BY <1>6, <2>3
<1>7. CASE ~Receivable(t, x.observations)
  <2>1. y = Refused
    <3>1. CASE t.outcome = "rejected"
      BY <1>1, <1>2, <1>3, <1>5, <1>7, <3>1 DEF WasRefused, Receivable
    <3>2. CASE t.outcome = "repeated"
      BY <1>1, <1>2, <1>3, <1>5, <1>7, <3>2 DEF WasRefused, Receivable
    <3>3. CASE t.outcome = "navigation"
      BY <1>1, <1>2, <1>3, <1>5, <1>7, <3>3 DEF WasRefused, Receivable
    <3> QED
      BY <3>1, <3>2, <3>3
  <2> QED
    BY <1>7, <2>1, RefusedTyping
<1> QED
  BY <1>6, <1>7

IsFold(f, evs) == f[0] = Start /\ \A n \in 1 .. Len(evs) : f[n] = Convert(f[n - 1], evs[n])

LEMMA FoldAt ==
  ASSUME NEW f, NEW evs, IsFold(f, evs), NEW l \in Nat, l + 1 \in 1 .. Len(evs)
  PROVE  f[l + 1] = Convert(f[l], evs[l + 1])
<1>1. PICK n : n = l + 1
  OBVIOUS
<1>2. n \in 1 .. Len(evs) /\ n - 1 = l
  BY <1>1
<1>3. f[n] = Convert(f[n - 1], evs[n])
  BY <1>2 DEF IsFold
<1> QED
  BY <1>1, <1>2, <1>3

LEMMA WatchAt ==
  ASSUME NEW g, NEW ts, IsWatch(g, ts), NEW l \in Nat, l + 1 \in DOMAIN ts
  PROVE  g[l + 1] = Watch(g[l], ts[l + 1])
<1>1. PICK n : n = l + 1
  OBVIOUS
<1>2. n \in DOMAIN ts /\ n - 1 = l
  BY <1>1
<1>3. g[n] = Watch(g[n - 1], ts[n])
  BY <1>2 DEF IsWatch
<1> QED
  BY <1>1, <1>2, <1>3

\* The turn is accepted after those before it.
AcceptedAt(ts, g, n) == Askable(LeftAt(ts, n - 1), ts[n]) /\ Receivable(ts[n], g[n - 1])

\* One turn: its answer and what follows it.
Follows(x, t, z) ==
  LET y == Convert(x, ModelEvent(t))
  IN  (After(t) = <<>> => z = y) /\ \A e : After(t) = <<e>> => z = Convert(y, e)

LEMMA ConvertedTurn ==
  ASSUME NEW ts, NEW os, NEW x, Known(x, ts, os), NEW t \in TurnTypes, TurnIsWhole(t),
         NEW us, Extended(us, ts, t), NEW z, Follows(x, t, z)
  PROVE  /\ Known(z, us, Watch(os, t))
         /\ z.ok <=> x.ok /\ Askable(LeftAt(ts, Len(ts)), t) /\ Receivable(t, os)
<1>1. x \in Folded /\ (x.ok => x.out = ExamplesOf(ts, {"ran"}) /\ x.pending = LeftAt(ts, Len(ts)) /\ x.observations = os)
  BY DEF Known
<1>2. PICK k : k = Len(ts) /\ k \in Nat /\ Len(us) = k + 1 /\ us[k + 1] = t
  BY DEF Extended
<1>0. PICK y : y = Convert(x, ModelEvent(t)) /\ (After(t) = <<>> => z = y) /\ \A e : After(t) = <<e>> => z = Convert(y, e)
  BY DEF Follows
<1>3. /\ t.outcome = "ran" => ExamplesOf(us, {"ran"}) = Append(ExamplesOf(ts, {"ran"}), ExampleOf(t))
      /\ t.outcome # "ran" => ExamplesOf(us, {"ran"}) = ExamplesOf(ts, {"ran"})
  <2>1. ts \in Seq(TurnTypes) /\ us = Append(ts, t)
    BY DEF Extended
  <2> QED
    BY <2>1, ExamplesMore
<1>4. LeftAt(us, Len(us)) = IF t.outcome \in {"unverified", "finished", "unparsed"} THEN <<Asking(t)>> ELSE <<>>
  BY <1>2 DEF LeftAt
<1>5. t.outcome \in Outcomes
  BY DEF TurnTypes
<1>6. /\ t.outcome = "ran" => After(t) = <<ToolEvent(t)>>
      /\ t.outcome \in {"rejected", "repeated", "navigation"} => \E e : After(t) = <<e>>
      /\ t.outcome \in {"unverified", "finished", "unparsed"} => After(t) = <<>>
  BY DEF After
<1>7. CASE ~x.ok
  <2>1. \A e : Convert(x, e) = x
    BY <1>7 DEF Convert
  <2>2. y = x
    BY <1>0, <2>1
  <2>3. z = x
    BY <1>0, <1>5, <1>6, <2>1, <2>2 DEF Outcomes
  <2> QED
    BY <1>1, <1>7, <2>3 DEF Known
<1>8. CASE x.ok
  <2>1. /\ y \in Folded /\ (y.ok <=> Askable(x.pending, t))
        /\ y.ok => y.pending = <<Asking(t)>> /\ y.out = x.out /\ y.observations = x.observations
    BY <1>0, <1>1, <1>8, AskedOfATurn
  <2>2. CASE ~y.ok
    <3>1. \A e : Convert(y, e) = y
      BY <2>2 DEF Convert
    <3>2. z = y
      BY <1>0, <1>5, <1>6, <3>1 DEF Outcomes
    <3> QED
      BY <1>1, <1>8, <2>1, <2>2, <3>2 DEF Known
  <2>3. CASE y.ok /\ t.outcome = "ran"
    <3>1. z = Convert(y, ToolEvent(t))
      BY <1>0, <1>6, <2>3
    <3>2. /\ z \in Folded /\ (z.ok <=> Receivable(t, y.observations))
          /\ z.ok => /\ z.pending = <<>> /\ z.out = Append(y.out, ExampleOf(t))
                     /\ z.observations = Watch(y.observations, t)
      BY <2>1, <2>3, <3>1, ReceivedOfATurn
    <3>3. y.observations = os /\ y.out = ExamplesOf(ts, {"ran"})
      BY <1>1, <1>8, <2>1, <2>3
    <3>4. LeftAt(us, Len(us)) = <<>>
      BY <1>4, <2>3
    <3>5. Known(z, us, Watch(os, t))
      BY <1>3, <2>3, <3>2, <3>3, <3>4 DEF Known
    <3> QED
      BY <1>1, <1>8, <2>1, <2>3, <3>2, <3>3, <3>5
  <2>4. CASE y.ok /\ t.outcome \in {"rejected", "repeated", "navigation"}
    <3>1. PICK e : After(t) = <<e>> /\ z = Convert(y, e)
      BY <1>0, <1>6, <2>4
    <3>2. /\ z \in Folded /\ (z.ok <=> Receivable(t, y.observations))
          /\ z.ok => z.pending = <<>> /\ z.out = y.out /\ z.observations = y.observations
      BY <2>1, <2>4, <3>1, RefusedOfATurn
    <3>3. y.observations = os /\ y.out = ExamplesOf(ts, {"ran"})
      BY <1>1, <1>8, <2>1, <2>4
    <3>4. LeftAt(us, Len(us)) = <<>> /\ Watch(os, t) = os /\ ExamplesOf(us, {"ran"}) = ExamplesOf(ts, {"ran"})
      BY <1>3, <1>4, <2>4 DEF Watch
    <3>5. Known(z, us, Watch(os, t))
      BY <3>2, <3>3, <3>4 DEF Known
    <3> QED
      BY <1>1, <1>8, <2>1, <2>4, <3>2, <3>3, <3>5
  <2>5. CASE y.ok /\ t.outcome \in {"unverified", "finished", "unparsed"}
    <3>1. z = y
      BY <1>0, <1>6, <2>5
    <3>2. Receivable(t, os)
      BY <2>5 DEF Receivable
    <3>3. LeftAt(us, Len(us)) = <<Asking(t)>> /\ Watch(os, t) = os /\ ExamplesOf(us, {"ran"}) = ExamplesOf(ts, {"ran"})
      BY <1>3, <1>4, <2>5 DEF Watch
    <3>4. Known(z, us, Watch(os, t))
      BY <1>1, <1>8, <2>1, <2>5, <3>1, <3>3 DEF Known
    <3> QED
      BY <1>1, <1>8, <2>1, <2>5, <3>1, <3>2, <3>4
  <2> QED
    BY <1>5, <2>2, <2>3, <2>4, <2>5 DEF Outcomes
<1> QED
  BY <1>7, <1>8

\* What the events of turns are converted to.
ConvertsTo(ts) ==
  (\A n \in DOMAIN ts : TurnIsWhole(ts[n])) =>
    \A f, g : IsFold(f, EventsIn(ts)) /\ IsWatch(g, ts) =>
      /\ Known(f[Len(EventsIn(ts))], ts, g[Len(ts)])
      /\ f[Len(EventsIn(ts))].ok <=> \A n \in DOMAIN ts : AcceptedAt(ts, g, n)

LEMMA ConvertsToStart == ConvertsTo(<<>>)
<1>1. EventsIn(<<>>) = <<>> /\ Len(<<>>) = 0 /\ DOMAIN <<>> = {}
  BY EventsEmpty
<1>2. ExamplesOf(<<>>, {"ran"}) = <<>>
  <2>1. Picked(<<>>, {n \in DOMAIN <<>> : (<<>>)[n].outcome \in {"ran"}}) = <<>>
    BY PickedEmpty
  <2>2. With(<<>>, {"ran"}) = <<>>
    BY <2>1 DEF With
  <2> QED
    BY <1>1, <2>2 DEF ExamplesOf
<1>3. ASSUME NEW f, NEW g, f[0] = Start, g[0] = <<>>
      PROVE  Known(f[0], <<>>, g[0]) /\ f[0].ok
  BY <1>1, <1>2, <1>3, StartTyping DEF Known, LeftAt
<1> QED
  BY <1>1, <1>3 DEF ConvertsTo, IsFold, IsWatch

LEMMA ConvertsToMore ==
  ASSUME NEW ts \in Seq(TurnTypes), NEW t \in TurnTypes, ConvertsTo(ts), NEW us, us = Append(ts, t)
  PROVE  ConvertsTo(us)
<1>1. PICK k : k = Len(ts)
  OBVIOUS
<1>2. /\ k \in Nat /\ DOMAIN ts = 1 .. k /\ DOMAIN us = 1 .. k + 1 /\ Len(us) = k + 1 /\ us[k + 1] = t
      /\ \A n \in 1 .. k : us[n] = ts[n]
  BY <1>1
<1>3. PICK evs, ws, l, a : evs = EventsIn(ts) /\ ws = EventsIn(us) /\ l = Len(evs) /\ a = After(t)
  OBVIOUS
<1>4. ws = evs \o EventsOf(t) /\ evs \in Seq(EventTypes) /\ a \in Seq(EventTypes) /\ EventsOf(t) = <<ModelEvent(t)>> \o a
  BY <1>3, EventsMore, EventsOfATurn
<1>5. ModelEvent(t) \in EventTypes
  BY DEF EventTypes
<1>6. a = <<>> \/ \E e \in EventTypes : a = <<e>>
  <2>1. a = <<>> \/ \E e : a = <<e>>
    BY <1>3 DEF After
  <2>2. ASSUME NEW e, a = <<e>>
        PROVE  e \in EventTypes
    BY <1>4, <2>2
  <2> QED
    BY <2>1, <2>2
<1>7. /\ l \in Nat /\ Len(ws) = l + 1 + Len(a) /\ ws[l + 1] = ModelEvent(t) /\ \A n \in 1 .. l : ws[n] = evs[n]
      /\ \A e : a = <<e>> => ws[l + 2] = e
  <2>1. CASE a = <<>>
    <3>1. PICK m : m = ModelEvent(t) /\ m \in EventTypes
      BY <1>5
    <3>2. ws = Append(evs, m)
      BY <1>4, <2>1, <3>1
    <3>3. Len(ws) = l + 1 /\ ws[l + 1] = m /\ l \in Nat /\ \A n \in 1 .. l : ws[n] = evs[n]
      BY <1>3, <1>4, <3>1, <3>2
    <3> QED
      BY <2>1, <3>1, <3>3
  <2>2. CASE \E e \in EventTypes : a = <<e>>
    <3>1. PICK e \in EventTypes : a = <<e>>
      BY <2>2
    <3>2. PICK m : m = ModelEvent(t) /\ m \in EventTypes
      BY <1>5
    <3>3. PICK v : v = Append(evs, m) /\ v \in Seq(EventTypes) /\ Len(v) = l + 1 /\ v[l + 1] = m /\ l \in Nat
                   /\ \A n \in 1 .. l : v[n] = evs[n]
      <4>1. PICK v : v = Append(evs, m)
        OBVIOUS
      <4>2. v \in Seq(EventTypes) /\ Len(v) = l + 1 /\ v[l + 1] = m /\ l \in Nat /\ \A n \in 1 .. l : v[n] = evs[n]
        BY <1>3, <1>4, <3>2, <4>1
      <4> QED
        BY <4>1, <4>2
    <3>4. ws = Append(v, e)
      BY <1>4, <3>1, <3>2, <3>3
    <3>5. Len(ws) = l + 2 /\ ws[l + 2] = e /\ \A n \in 1 .. l + 1 : ws[n] = v[n]
      BY <3>1, <3>3, <3>4
    <3>6. \A n \in 1 .. l : n \in 1 .. l + 1
      BY <3>3
    <3>7. l + 1 \in 1 .. l + 1 /\ l + 1 + 1 = l + 2
      BY <3>3
    <3>8. Len(a) = 1 /\ \A d : a = <<d>> => d = e
      BY <3>1
    <3> QED
      BY <3>2, <3>3, <3>5, <3>6, <3>7, <3>8
  <2> QED
    BY <1>6, <2>1, <2>2
<1>8. ASSUME NEW f, NEW g, IsFold(f, ws), IsWatch(g, us), \A n \in DOMAIN us : TurnIsWhole(us[n])
      PROVE  /\ Known(f[Len(ws)], us, g[Len(us)])
             /\ f[Len(ws)].ok <=> \A n \in DOMAIN us : AcceptedAt(us, g, n)
  <2>1. \A n \in 1 .. k : n \in 1 .. k + 1
    BY <1>2
  <2>2. (\A n \in DOMAIN ts : TurnIsWhole(ts[n])) /\ TurnIsWhole(t)
    <3>1. k + 1 \in 1 .. k + 1
      BY <1>2
    <3> QED
      BY <1>2, <1>8, <2>1, <3>1
  <2>3. Len(ws) \in Nat /\ l <= Len(ws) /\ Len(a) \in Nat
    BY <1>4, <1>7
  <2>4. IsFold(f, evs)
    <3>1. \A n \in 1 .. l : n \in 1 .. Len(ws)
      BY <1>7, <2>3
    <3> QED
      BY <1>3, <1>7, <1>8, <3>1 DEF IsFold
  <2>5. IsWatch(g, ts)
    BY <1>2, <1>8, <2>1 DEF IsWatch
  <2>6. PICK x, os : x = f[l] /\ os = g[k]
    OBVIOUS
  <2>7. Known(x, ts, os) /\ (x.ok <=> \A n \in DOMAIN ts : AcceptedAt(ts, g, n))
    BY <1>1, <1>3, <2>2, <2>4, <2>5, <2>6 DEF ConvertsTo
  <2>8. PICK y, z : y = Convert(x, ModelEvent(t)) /\ z = f[Len(ws)]
    OBVIOUS
  <2>9. y = f[l + 1]
    <3>1. l + 1 \in 1 .. Len(ws) /\ l \in Nat
      BY <1>7, <2>3
    <3>2. f[l + 1] = Convert(f[l], ws[l + 1])
      BY <1>8, <3>1, FoldAt
    <3> QED
      BY <1>7, <2>6, <2>8, <3>2
  <2>10. a = <<>> => z = y
    <3>1. a = <<>> => Len(ws) = l + 1
      BY <1>7
    <3> QED
      BY <2>8, <2>9, <3>1
  <2>11. ASSUME NEW e, a = <<e>>
         PROVE  z = Convert(y, e)
    <3>1. Len(ws) = l + 2
      BY <1>7, <2>11
    <3>2. PICK j : j = l + 1 /\ j \in Nat /\ j + 1 = l + 2 /\ j + 1 \in 1 .. Len(ws)
      BY <1>7, <3>1
    <3>3. f[j + 1] = Convert(f[j], ws[j + 1])
      BY <1>8, <3>2, FoldAt
    <3> QED
      BY <1>7, <2>8, <2>9, <2>11, <3>1, <3>2, <3>3
  <2>12. Known(z, us, Watch(os, t)) /\ (z.ok <=> x.ok /\ Askable(LeftAt(ts, Len(ts)), t) /\ Receivable(t, os))
    <3>1. After(t) = <<>> => z = y
      BY <1>3, <2>10
    <3>2. \A e : After(t) = <<e>> => z = Convert(y, e)
      BY <1>3, <2>11
    <3>3. Known(x, ts, os) /\ TurnIsWhole(t)
      BY <2>2, <2>7
    <3>4. Follows(x, t, z)
      BY <2>8, <3>1, <3>2 DEF Follows
    <3>5. Extended(us, ts, t)
      BY BeforeMore
    <3> QED
      BY <3>3, <3>4, <3>5, ConvertedTurn
  <2>13. g[k + 1] = Watch(os, t)
    <3>1. k + 1 \in DOMAIN us
      BY <1>2
    <3>2. g[k + 1] = Watch(g[k], us[k + 1])
      BY <1>2, <1>8, <3>1, WatchAt
    <3> QED
      BY <1>2, <2>6, <3>2
  <2>14. \A n \in 0 .. k : LeftAt(us, n) = LeftAt(ts, n)
    <3>1. \A n \in 0 .. k : n = 0 \/ n \in 1 .. k
      BY <1>2
    <3> QED
      BY <1>2, <3>1 DEF LeftAt
  <2>15. \A n \in 1 .. k : AcceptedAt(us, g, n) <=> AcceptedAt(ts, g, n)
    <3> SUFFICES ASSUME NEW n \in 1 .. k
                 PROVE  AcceptedAt(us, g, n) <=> AcceptedAt(ts, g, n)
      OBVIOUS
    <3>1. n - 1 \in 0 .. k
      BY <1>2
    <3> QED
      BY <1>2, <2>14, <3>1 DEF AcceptedAt
  <2>16. AcceptedAt(us, g, k + 1) <=> Askable(LeftAt(ts, Len(ts)), t) /\ Receivable(t, os)
    <3>1. k \in 0 .. k /\ k + 1 - 1 = k
      BY <1>2
    <3>2. LeftAt(us, k) = LeftAt(ts, k)
      BY <2>14, <3>1
    <3> QED
      BY <1>1, <1>2, <2>6, <3>1, <3>2 DEF AcceptedAt
  <2>17. \A n : n \in 1 .. k + 1 <=> n \in 1 .. k \/ n = k + 1
    BY <1>2
  <2>18. (\A n \in DOMAIN us : AcceptedAt(us, g, n)) <=> (\A n \in DOMAIN ts : AcceptedAt(ts, g, n)) /\ AcceptedAt(us, g, k + 1)
    BY <1>2, <2>15, <2>17
  <2> QED
    BY <1>2, <2>7, <2>8, <2>12, <2>13, <2>16, <2>18
<1> QED
  BY <1>3, <1>8 DEF ConvertsTo

LEMMA ConvertsToAll ==
  ASSUME NEW ts \in Seq(TurnTypes)
  PROVE  ConvertsTo(ts)
<1>1. PICK S : S = {u \in Seq(TurnTypes) : ConvertsTo(u)}
  OBVIOUS
<1>2. <<>> \in S
  <2>1. <<>> \in Seq(TurnTypes)
    OBVIOUS
  <2> QED
    BY <1>1, <2>1, ConvertsToStart
<1>3. \A u \in Seq(TurnTypes), x \in TurnTypes : u \in S => Append(u, x) \in S
  <2> SUFFICES ASSUME NEW u \in Seq(TurnTypes), NEW x \in TurnTypes, u \in S
               PROVE  Append(u, x) \in S
    OBVIOUS
  <2>1. PICK v : v = Append(u, x) /\ v \in Seq(TurnTypes)
    <3>1. Append(u, x) \in Seq(TurnTypes)
      OBVIOUS
    <3> QED
      BY <3>1
  <2>2. ConvertsTo(v)
    BY <1>1, <2>1, ConvertsToMore
  <2> QED
    BY <1>1, <2>1, <2>2
<1>4. Seq(TurnTypes) \subseteq S
  BY <1>2, <1>3, InductiveSequences
<1> QED
  BY <1>1, <1>4

-----------------------------------------------------------------------------
(* The data of a completed run.                                            *)

\* The equation that determines what is known after each event, up to m.
IsKnown(f, evs, m) == f = [n \in 0 .. m |-> IF n = 0 THEN Start ELSE Convert(f[n - 1], evs[n])]

LEMMA KnownExists ==
  ASSUME NEW evs, NEW m \in Nat
  PROVE  \E f : IsKnown(f, evs, m)
<1> DEFINE S == {k \in Nat : \E f : IsKnown(f, evs, k)}
<1>1. 0 \in S
  <2> DEFINE f == [n \in 0 .. 0 |-> Start]
  <2>1. f = [n \in 0 .. 0 |-> IF n = 0 THEN Start ELSE Convert(f[n - 1], evs[n])]
    OBVIOUS
  <2> QED
    BY <2>1 DEF IsKnown
<1>2. ASSUME NEW k \in Nat, k \in S
      PROVE  k + 1 \in S
  <2>1. PICK f : IsKnown(f, evs, k)
    BY <1>2
  <2> DEFINE g == [n \in 0 .. k + 1 |-> IF n = k + 1 THEN Convert(f[k], evs[k + 1]) ELSE f[n]]
  <2>2. ASSUME NEW n \in 0 .. k + 1
        PROVE  g[n] = IF n = 0 THEN Start ELSE Convert(g[n - 1], evs[n])
    <3>1. CASE n = k + 1
      <4>1. n - 1 = k /\ k \in 0 .. k + 1 /\ k # k + 1 /\ n # 0
        BY <3>1
      <4>2. g[k] = f[k]
        BY <4>1
      <4> QED
        BY <3>1, <4>1, <4>2
    <3>2. CASE n # k + 1
      <4>1. n \in 0 .. k /\ g[n] = f[n]
        BY <3>2
      <4>2. f[n] = IF n = 0 THEN Start ELSE Convert(f[n - 1], evs[n])
        BY <2>1, <4>1 DEF IsKnown
      <4>3. n # 0 => g[n - 1] = f[n - 1]
        BY <4>1
      <4> QED
        BY <4>1, <4>2, <4>3
    <3> QED
      BY <3>1, <3>2
  <2> HIDE DEF g
  <2>3. g = [n \in 0 .. k + 1 |-> IF n = 0 THEN Start ELSE Convert(g[n - 1], evs[n])]
    <3>1. g = [n \in 0 .. k + 1 |-> g[n]]
      BY DEF g
    <3> QED
      BY <2>2, <3>1
  <2>4. IsKnown(g, evs, k + 1)
    BY <2>3 DEF IsKnown
  <2> QED
    BY <2>4
<1>3. Nat \subseteq S
  <2> HIDE DEF S
  <2> QED
    BY <1>1, <1>2, InductiveSet
<1> QED
  BY <1>3

LEMMA FoldIsFold ==
  ASSUME Len(Events) \in Nat
  PROVE  IsFold(Fold, Events)
<1>1. PICK evs, m : evs = Events /\ m = Len(Events)
  OBVIOUS
<1>2. \E f : IsKnown(f, evs, m)
  BY <1>1, KnownExists
<1>3. Fold = CHOOSE f : IsKnown(f, Events, Len(Events))
  BY DEF Fold, IsKnown
<1>4. IsKnown(Fold, evs, m)
  BY <1>1, <1>2, <1>3
<1>5. PICK f : f = Fold
  OBVIOUS
<1>6. f = [n \in 0 .. m |-> IF n = 0 THEN Start ELSE Convert(f[n - 1], evs[n])]
  BY <1>4, <1>5 DEF IsKnown
<1>7. f[0] = Start /\ \A n \in 1 .. m : f[n] = Convert(f[n - 1], evs[n])
  <2>1. 0 \in 0 .. m /\ \A n \in 1 .. m : n \in 0 .. m /\ n # 0
    BY <1>1
  <2> QED
    BY <1>6, <2>1
<1> QED
  BY <1>1, <1>5, <1>7 DEF IsFold

\* The examples that a completed run is converted to are its real actions.
LEMMA ConvertedRun ==
  ASSUME Whole, Watched, status = "completed", Converted # <<>>
  PROVE  Converted[1] = RealActions
<1>1. PICK k, last, front : k = Len(turns) /\ last = turns[k] /\ front = SubSeq(turns, 1, k - 1)
  OBVIOUS
<1>2. turns \in Seq(TurnTypes) /\ turns # <<>> /\ last.outcome \in {"finished", "unparsed"}
  BY <1>1 DEF Whole, Typing, Progress
<1>3. /\ k \in Nat /\ k # 0 /\ DOMAIN turns = 1 .. k /\ k \in 1 .. k /\ last \in TurnTypes
      /\ front \in Seq(TurnTypes) /\ Len(front) = k - 1 /\ DOMAIN front = 1 .. k - 1 /\ \A n \in 1 .. k - 1 : front[n] = turns[n]
  BY <1>1, <1>2
<1>4. turns = Append(front, last)
  BY <1>1, <1>2, <1>3
<1>5. PICK end : end = Fold[Len(Events)]
  OBVIOUS
<1>6. end.ok /\ end.pending # <<>> /\ end.pending[1].action = Done /\ Converted = <<Append(end.out, Example(end.pending[1]))>>
  BY <1>5 DEF Converted
<1>7. Known(end, turns, observations)
  <2>1. PICK g : IsWatch(g, turns) /\ g[Len(turns)] = observations
    BY DEF Watched
  <2>2. Events = EventsIn(turns)
    BY DEF Events, EventsIn
  <2>3. Len(Events) \in Nat
    <3>1. Events \in Seq(EventTypes)
      BY <1>2, <1>3, <2>2, EventsMore
    <3> QED
      BY <3>1
  <2>4. IsFold(Fold, EventsIn(turns))
    BY <2>2, <2>3, FoldIsFold
  <2>5. ConvertsTo(turns) /\ \A n \in DOMAIN turns : TurnIsWhole(turns[n])
    BY <1>2, ConvertsToAll DEF Whole, Typing
  <2> QED
    BY <1>5, <2>1, <2>2, <2>4, <2>5 DEF ConvertsTo
<1>8. end.out = ExamplesOf(turns, {"ran"}) /\ end.pending = LeftAt(turns, k)
  BY <1>1, <1>6, <1>7 DEF Known
<1>9. LeftAt(turns, k) = <<Asking(last)>>
  BY <1>1, <1>2, <1>3 DEF LeftAt
<1>10. end.pending[1] = Asking(last)
  BY <1>8, <1>9
<1>11. last.action = Done
  BY <1>6, <1>10 DEF Asking
<1>12. last.outcome = "finished"
  <2>1. TurnIsWhole(last)
    BY <1>1, <1>3 DEF Whole, Typing
  <2>2. Done # Invalid /\ Done.kind # "edit"
    BY DEF Done, Invalid
  <2> QED
    BY <1>2, <1>11, <2>1, <2>2 DEF TurnIsWhole
<1>13. Example(end.pending[1]) = ExampleOf(last)
  BY <1>10 DEF Example, Asking, ExampleOf
<1>14. PICK R, B : R = {"ran"} /\ B = {"ran", "finished"}
  OBVIOUS
<1>15. ExamplesOf(turns, R) = ExamplesOf(front, R)
  <2>1. last.outcome \notin R
    BY <1>12, <1>14
  <2> QED
    BY <1>3, <1>4, <2>1, ExamplesMore
<1>16. ExamplesOf(turns, B) = Append(ExamplesOf(front, B), ExampleOf(last))
  <2>1. last.outcome \in B
    BY <1>12, <1>14
  <2> QED
    BY <1>3, <1>4, <2>1, ExamplesMore
<1>17. ExamplesOf(front, B) = ExamplesOf(front, R)
  <2>1. \A n \in DOMAIN front : front[n].outcome # "finished"
    <3>1. \A n \in 1 .. k - 1 : n \in 1 .. k /\ n # k
      BY <1>3
    <3>2. \A n \in DOMAIN turns : turns[n].outcome = "finished" => n = k
      BY <1>1 DEF Whole, Progress
    <3> QED
      BY <1>3, <3>1, <3>2
  <2>2. {n \in DOMAIN front : front[n].outcome \in B} = {n \in DOMAIN front : front[n].outcome \in R}
    BY <1>14, <2>1
  <2>3. With(front, B) = With(front, R)
    BY <2>2 DEF With
  <2> QED
    BY <2>3 DEF ExamplesOf
<1>18. RealActions = ExamplesOf(turns, B)
  BY <1>14 DEF RealActions, Supervised, ExamplesOf, With, ExampleOf
<1> QED
  BY <1>6, <1>8, <1>13, <1>14, <1>15, <1>16, <1>17, <1>18

\* What is prepared stays what it was, and where it came from.
HasData == training \in {"prepared", "running", "blocked", "completed"}

Genuine == HasData => status = "completed" /\ data = RealActions

LEMMA DataStayGenuine ==
  Whole /\ Watched /\ OfCompleted /\ Genuine /\ [DataNext]_<<vars, trainingVars>> => Genuine'
<1> SUFFICES ASSUME Whole, Watched, OfCompleted, Genuine, [DataNext]_<<vars, trainingVars>>
             PROVE  Genuine'
  OBVIOUS
<1>1. UNCHANGED turns => RealActions' = RealActions
  BY DEF RealActions, Supervised, Picked
<1>2. CASE [Next]_vars /\ UNCHANGED trainingVars
  <2>1. training' = training /\ data' = data
    BY <1>2 DEF trainingVars
  <2>2. status = "completed" => status' = status /\ turns' = turns
    BY <1>2, CompletedIsFinal DEF vars
  <2> QED
    BY <1>1, <2>1, <2>2 DEF Genuine, HasData
<1>3. CASE Train /\ UNCHANGED vars
  <2>1. status' = status /\ RealActions' = RealActions
    BY <1>1, <1>3 DEF vars
  <2>2. CASE Prepare
    <3>1. status = "completed"
      BY <2>2 DEF Prepare
    <3>2. training' = "failed" \/ (Converted # <<>> /\ data' = Converted[1])
      BY <2>2 DEF Prepare
    <3>3. Converted # <<>> => Converted[1] = RealActions
      BY <3>1, ConvertedRun
    <3> QED
      BY <2>1, <3>1, <3>2, <3>3 DEF Genuine, HasData
  <2>3. CASE ~Prepare
    <3>1. data' = data /\ (training' = "failed" \/ training \in {"prepared", "running"})
      BY <1>3, <2>3 DEF Train, StartTraining, AttemptRaises, OutOfMemory, Complete, Fits
    <3> QED
      BY <2>1, <3>1 DEF Genuine, HasData
  <2> QED
    BY <2>2, <2>3
<1> QED
  BY <1>2, <1>3 DEF DataNext

LEMMA DataNextIsWatched == Whole /\ Watched /\ [DataNext]_<<vars, trainingVars>> => Watched'
<1> SUFFICES ASSUME Whole, Watched, [DataNext]_<<vars, trainingVars>>
             PROVE  Watched'
  OBVIOUS
<1>1. CASE [Next]_vars
  BY <1>1, NextIsWatched
<1>2. CASE UNCHANGED vars
  BY <1>2 DEF Watched, vars
<1> QED
  BY <1>1, <1>2 DEF DataNext

\* The examples are turns, and every turn that counts has one.
LEMMA ExamplesAreTurns ==
  ASSUME NEW ts \in Seq(TurnTypes), NEW O
  PROVE  /\ \A i \in DOMAIN ExamplesOf(ts, O) :
              \E n \in DOMAIN ts : ts[n].outcome \in O /\ ExamplesOf(ts, O)[i] = ExampleOf(ts[n])
         /\ \A n \in DOMAIN ts : ts[n].outcome \in O =>
              \E i \in DOMAIN ExamplesOf(ts, O) : ExamplesOf(ts, O)[i] = ExampleOf(ts[n])
<1>1. PICK I : I = {n \in DOMAIN ts : ts[n].outcome \in O}
  OBVIOUS
<1>2. PICK w : w = Picked(ts, I)
  OBVIOUS
<1>3. /\ \A k \in DOMAIN w : \E n \in DOMAIN ts : n \in I /\ w[k] = ts[n]
      /\ \A n \in DOMAIN ts : n \in I => \E k \in DOMAIN w : w[k] = ts[n]
  BY <1>2, PickedElements
<1>4. PICK x : x = ExamplesOf(ts, O)
  OBVIOUS
<1>5. x = [k \in DOMAIN w |-> ExampleOf(w[k])]
  BY <1>1, <1>2, <1>4 DEF ExamplesOf, With
<1>6. DOMAIN x = DOMAIN w /\ \A k \in DOMAIN w : x[k] = ExampleOf(w[k])
  BY <1>5
<1>7. ASSUME NEW i \in DOMAIN x
      PROVE  \E n \in DOMAIN ts : ts[n].outcome \in O /\ x[i] = ExampleOf(ts[n])
  <2>1. PICK n \in DOMAIN ts : n \in I /\ w[i] = ts[n]
    BY <1>3, <1>6
  <2>2. x[i] = ExampleOf(ts[n]) /\ ts[n].outcome \in O
    BY <1>1, <1>6, <2>1
  <2> QED
    BY <2>2
<1>8. ASSUME NEW n \in DOMAIN ts, ts[n].outcome \in O
      PROVE  \E i \in DOMAIN x : x[i] = ExampleOf(ts[n])
  <2>1. n \in I
    BY <1>1, <1>8
  <2>2. PICK k \in DOMAIN w : w[k] = ts[n]
    BY <1>3, <2>1
  <2>3. k \in DOMAIN x /\ x[k] = ExampleOf(ts[n])
    BY <1>6, <2>2
  <2> QED
    BY <2>3
<1> QED
  BY <1>4, <1>7, <1>8

LEMMA ExamplesTyping ==
  ASSUME NEW ts \in Seq(TurnTypes), NEW O
  PROVE  ExamplesOf(ts, O) \in Seq(ExampleTypes)
<1>1. PICK x, k : x = ExamplesOf(ts, O) /\ k = Len(With(ts, O))
  OBVIOUS
<1>2. With(ts, O) \in Seq(TurnTypes)
  BY PickedTyping DEF With
<1>3. k \in Nat /\ DOMAIN With(ts, O) = 1 .. k /\ \A n \in 1 .. k : With(ts, O)[n] \in TurnTypes
  BY <1>1, <1>2
<1>4. \A e \in TurnTypes : ExampleOf(e) \in ExampleTypes
  BY DEF ExampleOf, ExampleTypes, TurnTypes
<1>5. x = [n \in 1 .. k |-> ExampleOf(With(ts, O)[n])]
  BY <1>1, <1>3 DEF ExamplesOf
<1>6. x \in Seq(ExampleTypes)
  BY <1>3, <1>4, <1>5
<1> QED
  BY <1>1, <1>6

LEMMA RealActionsAreExamples == RealActions = ExamplesOf(turns, {"ran", "finished"})
BY DEF RealActions, Supervised, ExamplesOf, With, ExampleOf

\* Training through the deployed entry point is gated.
Gated == training \in {"running", "completed"} /\ entry = "aligned" => Ready(data)

LEMMA TrainingIsGated == Gated /\ [DataNext]_<<vars, trainingVars>> => Gated'
<1> SUFFICES ASSUME Gated, [DataNext]_<<vars, trainingVars>>
             PROVE  Gated'
  OBVIOUS
<1>1. CASE UNCHANGED trainingVars
  <2>1. training' = training /\ entry' = entry /\ data' = data
    BY <1>1 DEF trainingVars
  <2>2. Ready(data)' <=> Ready(data)
    BY <2>1 DEF Ready, RequiredTargets
  <2> QED
    BY <2>1, <2>2 DEF Gated
<1>2. CASE Train
  <2>1. CASE Prepare
    BY <2>1 DEF Gated, Prepare
  <2>2. CASE StartTraining
    BY <2>2 DEF Gated, StartTraining
  <2>3. CASE AttemptRaises \/ OutOfMemory \/ Complete
    <3>1. data' = data /\ entry' = entry /\ (training' \in {"failed", "blocked"} \/ training = "running")
      BY <2>3 DEF AttemptRaises, OutOfMemory, Complete, Fits
    <3> QED
      BY <3>1 DEF Gated
  <2> QED
    BY <1>2, <2>1, <2>2, <2>3 DEF Train
<1> QED
  BY <1>1, <1>2 DEF DataNext

\* A run whose real actions are ready earned it.
LEMMA ReadyRuns ==
  ASSUME Whole, status = "completed", Ready(RealActions)
  PROVE  /\ \A k \in {"search", "read", "edit"} : \E n \in DOMAIN turns : turns[n].outcome = "ran" /\ turns[n].action.kind = k
         /\ \E n, r \in DOMAIN turns :
              /\ r < n /\ turns[n].outcome = "ran" /\ turns[n].action # turns[r].action
              /\ turns[r].outcome \in {"rejected", "repeated", "navigation"}
<1>1. PICK x : x = RealActions
  OBVIOUS
<1>2. turns \in Seq(TurnTypes)
  BY DEF Whole, Typing
<1>3. \A i \in DOMAIN x : \E n \in DOMAIN turns :
         turns[n].outcome \in {"ran", "finished"} /\ x[i] = ExampleOf(turns[n])
  BY <1>1, <1>2, RealActionsAreExamples, ExamplesAreTurns
<1>4. /\ RequiredTargets \subseteq {x[i].target.kind : i \in DOMAIN x}
      /\ \E i \in DOMAIN x : ChangedAfterRejection(x[i].messages, x[i].target)
  BY <1>1 DEF Ready
<1>5. ASSUME NEW kind \in {"search", "read", "edit"}
      PROVE  \E n \in DOMAIN turns : turns[n].outcome = "ran" /\ turns[n].action.kind = kind
  <2>1. kind \in {x[i].target.kind : i \in DOMAIN x}
    BY <1>4 DEF RequiredTargets
  <2>2. PICK i \in DOMAIN x : x[i].target.kind = kind
    BY <2>1
  <2>3. PICK n \in DOMAIN turns : turns[n].outcome \in {"ran", "finished"} /\ x[i] = ExampleOf(turns[n])
    BY <1>3
  <2>4. turns[n].action.kind = kind
    BY <2>2, <2>3 DEF ExampleOf
  <2>5. turns[n].outcome # "finished"
    <3>1. TurnIsWhole(turns[n])
      BY DEF Whole, Typing
    <3>2. Done.kind = "done"
      BY DEF Done
    <3> QED
      BY <2>4, <3>1, <3>2 DEF TurnIsWhole
  <2> QED
    BY <2>3, <2>4, <2>5
<1>6. PICK i \in DOMAIN x : ChangedAfterRejection(x[i].messages, x[i].target)
  BY <1>4
<1>7. PICK n \in DOMAIN turns : turns[n].outcome \in {"ran", "finished"} /\ x[i] = ExampleOf(turns[n])
  BY <1>3
<1>8. ChangedAfterRejection(turns[n].context, turns[n].action)
  BY <1>6, <1>7 DEF ExampleOf
<1>9. PICK before, r : before = Before(turns, n - 1) /\ r = Max(before)
  OBVIOUS
<1>10. turns[n].outcome = "ran" /\ before # {} /\ turns[r].outcome # "ran" /\ turns[r].action # turns[n].action
  <2>1. before = {m \in 1 .. n - 1 : HasReceipt(turns[m])}
    BY <1>9 DEF Before
  <2>2. RecoveryAt(n)
    BY RecoveriesOfACompletedRun
  <2> QED
    BY <1>7, <1>8, <1>9, <2>1, <2>2 DEF RecoveryAt
<1>11. n \in 1 .. Len(turns) /\ Len(turns) \in Nat /\ DOMAIN turns = 1 .. Len(turns)
  BY <1>2
<1>12. r \in 1 .. n - 1 /\ HasReceipt(turns[r])
  <2>1. PICK m : m = n - 1 /\ m \in Nat
    BY <1>11
  <2> QED
    BY <1>9, <1>10, <2>1, LatestBefore
<1>13. r \in DOMAIN turns /\ r < n /\ turns[r].outcome \in {"rejected", "repeated", "navigation"}
  BY <1>10, <1>11, <1>12 DEF HasReceipt
<1> QED
  BY <1>5, <1>10, <1>13

\* What the data of a run are, at any time.
Origin == Whole /\ Watched /\ OfCompleted /\ Genuine /\ Gated

LEMMA InitHasOrigin == DataInit /\ policy \in BoundedPolicies => Origin
BY InitIsWhole, InitIsWatched DEF DataInit, InitTraining, Origin, OfCompleted, Genuine, HasData, Gated

LEMMA NextHasOrigin == Origin /\ [DataNext]_<<vars, trainingVars>> => Origin'
BY DataNextIsWhole, DataNextIsWatched, DataAreOfCompletedRuns, DataStayGenuine, TrainingIsGated DEF Origin

\* The data of a run, from its preparation to the end of the training, are its
\* real actions in their order, each under the context the model saw: the
\* conversion, which sees the events only, takes nothing else and leaves none
\* out.  Under either bounded policy.  (prepare_aligned_sft.py:41)
THEOREM DataAreTheRealActions == DataSpec /\ policy \in BoundedPolicies => [](HasData => data = RealActions)
<1>1. Origin => (HasData => data = RealActions)
  BY DEF Origin, Genuine
<1> QED
  BY <1>1, InitHasOrigin, NextHasOrigin, PTL DEF DataSpec

\* A run whose data pass the readiness gate searched, read, edited and finished,
\* and went on with another action after a refusal, under either bounded policy.
\* (readiness.py:64)
THEOREM ReadinessIsEarnedByTheRun == DataSpec /\ policy \in BoundedPolicies => []ReadinessIsEarned
<1>1. Origin => ReadinessIsEarned
  <2> SUFFICES ASSUME Origin, training = "running", entry = "aligned"
               PROVE  ReadinessIsEarned
    BY DEF ReadinessIsEarned
  <2>1. Whole /\ status = "completed" /\ Ready(RealActions)
    BY DEF Origin, Genuine, HasData, Gated
  <2> QED
    BY <2>1, ReadyRuns DEF ReadinessIsEarned
<1> QED
  BY <1>1, InitHasOrigin, NextHasOrigin, PTL DEF DataSpec

-----------------------------------------------------------------------------
(* Tokens.                                                                 *)

TokenTypes == [message : Nat, header : BOOLEAN]

Body(i) == [message |-> i, header |-> FALSE]

\* Every token of ms is one of a message, and every message has a body.
Tokenised(ms) ==
  /\ Tokens(ms) \in Seq(TokenTypes)
  /\ \A k \in DOMAIN Tokens(ms) : Tokens(ms)[k].message \in DOMAIN ms
  /\ \A i \in DOMAIN ms : \E k \in DOMAIN Tokens(ms) : Tokens(ms)[k] = Body(i)

LEMMA BodyTyping ==
  ASSUME NEW m \in MessageTypes
  PROVE  BodyTokens(m) \in Nat \ {0}
<1>1. m.role = "result" => m.receipt.out \in Nat
  BY Roles DEF ReceiptTypes
<1> QED
  BY <1>1 DEF BodyTokens

LEMMA TokensOfTyping ==
  ASSUME NEW m \in MessageTypes, NEW i \in Nat
  PROVE  /\ TokensOf(m, i) \in Seq(TokenTypes)
         /\ \A k \in DOMAIN TokensOf(m, i) : TokensOf(m, i)[k].message = i
         /\ \E k \in DOMAIN TokensOf(m, i) : TokensOf(m, i)[k] = Body(i)
<1>1. PICK b, h, e, u, v : /\ b = BodyTokens(m) /\ h = [message |-> i, header |-> TRUE] /\ e = Body(i)
                           /\ u = <<h>> /\ v = [k \in 1 .. b |-> e]
  OBVIOUS
<1>2. b \in Nat \ {0}
  BY <1>1, BodyTyping
<1>3. h \in TokenTypes /\ e \in TokenTypes /\ h.message = i /\ e.message = i
  BY <1>1 DEF TokenTypes, Body
<1>4. PICK s : s = u \o v
  OBVIOUS
<1>5. TokensOf(m, i) = s
  BY <1>1, <1>4 DEF TokensOf, Body
<1>6. u \in Seq(TokenTypes) /\ Len(u) = 1 /\ u[1] = h
  BY <1>1, <1>3
<1>7. v \in Seq(TokenTypes) /\ Len(v) = b /\ \A k \in 1 .. b : v[k] = e
  BY <1>1, <1>2, <1>3
<1>8. /\ s \in Seq(TokenTypes) /\ Len(s) = b + 1 /\ s[1] = h
      /\ \A k \in 2 .. b + 1 : s[k] = v[k - 1]
  <2>1. s \in Seq(TokenTypes) /\ Len(s) = b + 1
    <3>1. s \in Seq(TokenTypes) /\ Len(s) = Len(u) + Len(v)
      BY <1>4, <1>6, <1>7, ConcatProperties
    <3> QED
      BY <1>2, <1>6, <1>7, <3>1
  <2>2. \A k \in 1 .. 1 + b : s[k] = IF k <= 1 THEN u[k] ELSE v[k - 1]
    BY <1>4, <1>6, <1>7, ConcatProperties
  <2>3. 1 \in 1 .. 1 + b /\ \A k \in 2 .. b + 1 : k \in 1 .. 1 + b /\ ~(k <= 1)
    BY <1>2
  <2> QED
    BY <1>6, <2>1, <2>2, <2>3
<1>9. \A k \in 2 .. b + 1 : s[k] = e
  <2>1. \A k \in 2 .. b + 1 : k - 1 \in 1 .. b
    BY <1>2
  <2> QED
    BY <1>7, <1>8, <2>1
<1>10. DOMAIN s = 1 .. b + 1 /\ 2 \in 2 .. b + 1 /\ \A k \in 1 .. b + 1 : k = 1 \/ k \in 2 .. b + 1
  BY <1>2, <1>8
<1>11. 2 \in DOMAIN s
  BY <1>2, <1>10
<1>12. \A k \in DOMAIN s : s[k].message = i
  BY <1>3, <1>8, <1>9, <1>10
<1> QED
  BY <1>1, <1>5, <1>8, <1>9, <1>10, <1>11, <1>12

LEMMA TokensMore ==
  ASSUME NEW ms \in Seq(MessageTypes), NEW m \in MessageTypes
  PROVE  Tokens(Append(ms, m)) = Tokens(ms) \o TokensOf(m, Len(ms) + 1) /\ Tokens(ms) \in Seq(TokenTypes)
<1>1. PICK R, ss, n, q, us : /\ R = Seq(TokenTypes) /\ n = Len(ms)
                             /\ ss = [k \in DOMAIN ms |-> TokensOf(ms[k], k)]
                             /\ q = TokensOf(m, n + 1) /\ us = Append(ms, m)
  OBVIOUS
<1>2. \A r \in R : r \in Seq(TokenTypes)
  BY <1>1
<1>3. /\ n \in Nat /\ DOMAIN ms = 1 .. n /\ (\A k \in 1 .. n : ms[k] \in MessageTypes /\ us[k] = ms[k])
      /\ DOMAIN us = 1 .. n + 1 /\ us[n + 1] = m
  BY <1>1
<1>4. ss = [k \in 1 .. n |-> ss[k]] /\ (\A k \in 1 .. n : ss[k] \in R /\ ss[k] = TokensOf(ms[k], k)) /\ q \in R
  <2>1. n + 1 \in Nat /\ \A k \in 1 .. n : k \in Nat
    BY <1>3
  <2>2. q \in R /\ \A k \in 1 .. n : TokensOf(ms[k], k) \in R
    BY <1>1, <1>3, <2>1, TokensOfTyping
  <2> QED
    BY <1>1, <1>3, <2>2
<1>5. ss \in Seq(R) /\ Len(ss) = n
  BY <1>3, <1>4
<1>6. [k \in DOMAIN us |-> TokensOf(us[k], k)] = Append(ss, q)
  <2>1. PICK v : v = Append(ss, q)
    OBVIOUS
  <2>2. v = [k \in 1 .. n + 1 |-> v[k]] /\ v[n + 1] = q /\ \A k \in 1 .. n : v[k] = ss[k]
    <3>1. v \in Seq(R) /\ Len(v) = n + 1 /\ v[n + 1] = q /\ \A k \in 1 .. n : v[k] = ss[k]
      BY <1>3, <1>4, <1>5, <2>1
    <3> QED
      BY <3>1
  <2>3. \A k \in 1 .. n + 1 : v[k] = TokensOf(us[k], k)
    <3>1. \A k \in 1 .. n + 1 : k \in 1 .. n \/ k = n + 1
      BY <1>3
    <3> QED
      BY <1>1, <1>3, <1>4, <2>2, <3>1
  <2> QED
    BY <1>3, <2>1, <2>2, <2>3
<1>7. FlattenSeq(Append(ss, q)) = FlattenSeq(ss) \o q /\ FlattenSeq(ss) \in Seq(TokenTypes)
  BY <1>2, <1>4, <1>5, FlattenAppend
<1> QED
  BY <1>1, <1>6, <1>7 DEF Tokens

LEMMA TokensStart == Tokenised(<<>>)
<1>1. [i \in DOMAIN <<>> |-> TokensOf((<<>>)[i], i)] = <<>> /\ DOMAIN <<>> = {} /\ <<>> \in Seq(TokenTypes)
  OBVIOUS
<1>2. Tokens(<<>>) = <<>>
  BY <1>1, FlattenEmpty DEF Tokens
<1> QED
  BY <1>1, <1>2 DEF Tokenised

LEMMA TokenisedMore ==
  ASSUME NEW ms \in Seq(MessageTypes), NEW m \in MessageTypes, Tokenised(ms), NEW us, us = Append(ms, m)
  PROVE  Tokenised(us)
<1>1. PICK n, s, q, r : n = Len(ms) /\ s = Tokens(ms) /\ q = TokensOf(m, n + 1) /\ r = Tokens(us)
  OBVIOUS
<1>2. n \in Nat /\ n + 1 \in Nat /\ DOMAIN ms = 1 .. n /\ DOMAIN us = 1 .. n + 1
  BY <1>1
<1>3. r = s \o q /\ s \in Seq(TokenTypes)
  BY <1>1, TokensMore
<1>4. /\ q \in Seq(TokenTypes)
      /\ \A k \in DOMAIN q : q[k].message = n + 1
      /\ \E k \in DOMAIN q : q[k] = Body(n + 1)
  BY <1>1, <1>2, TokensOfTyping
<1>5. PICK a, b : a = Len(s) /\ b = Len(q)
  OBVIOUS
<1>6. /\ a \in Nat /\ b \in Nat /\ DOMAIN s = 1 .. a /\ DOMAIN q = 1 .. b
      /\ r \in Seq(TokenTypes) /\ DOMAIN r = 1 .. a + b
      /\ (\A k \in 1 .. a : r[k] = s[k]) /\ \A k \in 1 .. b : r[a + k] = q[k]
  BY <1>3, <1>4, <1>5
<1>7. ASSUME NEW k \in 1 .. a + b
      PROVE  r[k].message \in 1 .. n + 1
  <2>1. CASE k \in 1 .. a
    <3>1. r[k].message \in 1 .. n
      BY <1>1, <1>2, <1>6, <2>1 DEF Tokenised
    <3> QED
      BY <1>2, <3>1
  <2>2. CASE k \notin 1 .. a
    <3>1. PICK j : j = k - a
      OBVIOUS
    <3>2. j \in 1 .. b /\ k = a + j
      BY <1>6, <2>2, <3>1
    <3>3. r[k].message = n + 1
      BY <1>4, <1>6, <3>2
    <3> QED
      BY <1>2, <3>3
  <2> QED
    BY <2>1, <2>2
<1>8. ASSUME NEW i \in 1 .. n + 1
      PROVE  \E k \in 1 .. a + b : r[k] = Body(i)
  <2>1. CASE i = n + 1
    <3>1. PICK j \in 1 .. b : q[j] = Body(n + 1)
      BY <1>4, <1>6
    <3>2. a + j \in 1 .. a + b /\ r[a + j] = q[j]
      BY <1>6
    <3> QED
      BY <2>1, <3>1, <3>2
  <2>2. CASE i # n + 1
    <3>1. i \in 1 .. n
      BY <1>2, <2>2
    <3>2. PICK k \in 1 .. a : s[k] = Body(i)
      BY <1>1, <1>2, <1>6, <3>1 DEF Tokenised
    <3>3. k \in 1 .. a + b /\ r[k] = s[k]
      BY <1>6
    <3> QED
      BY <3>2, <3>3
  <2> QED
    BY <2>1, <2>2
<1> QED
  BY <1>1, <1>2, <1>6, <1>7, <1>8 DEF Tokenised

LEMMA AllTokenised ==
  ASSUME NEW ms \in Seq(MessageTypes)
  PROVE  Tokenised(ms)
<1>1. PICK S : S = {u \in Seq(MessageTypes) : Tokenised(u)}
  OBVIOUS
<1>2. <<>> \in S
  <2>1. <<>> \in Seq(MessageTypes)
    OBVIOUS
  <2> QED
    BY <1>1, <2>1, TokensStart
<1>3. \A u \in Seq(MessageTypes), x \in MessageTypes : u \in S => Append(u, x) \in S
  <2> SUFFICES ASSUME NEW u \in Seq(MessageTypes), NEW x \in MessageTypes, u \in S
               PROVE  Append(u, x) \in S
    OBVIOUS
  <2>1. PICK v : v = Append(u, x) /\ v \in Seq(MessageTypes)
    <3>1. Append(u, x) \in Seq(MessageTypes)
      OBVIOUS
    <3> QED
      BY <3>1
  <2>2. Tokenised(v)
    BY <1>1, <2>1, TokenisedMore
  <2> QED
    BY <1>1, <2>1, <2>2
<1>4. Seq(MessageTypes) \subseteq S
  BY <1>2, <1>3, InductiveSequences
<1> QED
  BY <1>1, <1>4

\* Everything that is picked is all there is.
LEMMA PickedAll ==
  ASSUME NEW T, NEW s \in Seq(T), NEW I, DOMAIN s \subseteq I
  PROVE  Picked(s, I) = s
<1>1. PICK S : S = {u \in Seq(T) : DOMAIN u \subseteq I => Picked(u, I) = u}
  OBVIOUS
<1>2. <<>> \in S
  <2>1. <<>> \in Seq(T)
    OBVIOUS
  <2> QED
    BY <1>1, <2>1, PickedEmpty
<1>3. \A u \in Seq(T), x \in T : u \in S => Append(u, x) \in S
  <2> SUFFICES ASSUME NEW u \in Seq(T), NEW x \in T, u \in S
               PROVE  Append(u, x) \in S
    OBVIOUS
  <2>1. PICK v, n : v = Append(u, x) /\ n = Len(u)
    OBVIOUS
  <2>2. v \in Seq(T) /\ n \in Nat /\ DOMAIN u = 1 .. n /\ DOMAIN v = 1 .. n + 1
    BY <2>1
  <2>3. ASSUME DOMAIN v \subseteq I
        PROVE  Picked(v, I) = v
    <3>1. \A k \in 1 .. n : k \in 1 .. n + 1
      BY <2>2
    <3>2. DOMAIN u \subseteq I /\ n + 1 \in I
      <4>1. n + 1 \in 1 .. n + 1
        BY <2>2
      <4> QED
        BY <2>2, <2>3, <3>1, <4>1
    <3>3. Picked(u, I) = u
      BY <1>1, <3>2
    <3>4. Picked(Append(u, x), I) = IF Len(u) + 1 \in I THEN Append(Picked(u, I), x) ELSE Picked(u, I)
      BY PickedAppend
    <3> QED
      BY <2>1, <3>2, <3>3, <3>4
  <2> QED
    BY <1>1, <2>1, <2>2, <2>3
<1>4. Seq(T) \subseteq S
  BY <1>2, <1>3, InductiveSequences
<1> QED
  BY <1>1, <1>4

\* What is kept of a record was in it.
LEMMA KeptIsPart ==
  ASSUME NEW T, NEW s \in Seq(T), NEW limit \in Nat \ {0}
  PROVE  Kept(s, limit) \in Seq(T) /\ (Len(s) <= limit => Kept(s, limit) = s)
<1>1. PICK head, k : k = limit \div 2 /\ head = Min({HeadTokens, k})
  OBVIOUS
<1>2. k \in Nat /\ k < limit /\ HeadTokens \in Nat
  BY <1>1, TrainingDataAssumption
<1>3. head \in Nat /\ head <= k
  <2>1. \E x \in {HeadTokens, k} : \A y \in {HeadTokens, k} : x <= y
    BY <1>2
  <2>2. head \in {HeadTokens, k} /\ head <= k
    BY <1>1, <2>1 DEF Min
  <2> QED
    BY <1>2, <2>2
<1>4. Kept(s, limit) = IF Len(s) <= limit THEN s ELSE SubSeq(s, 1, head) \o LastOf(s, limit - head)
  BY <1>1 DEF Kept
<1>5. ASSUME ~(Len(s) <= limit)
      PROVE  SubSeq(s, 1, head) \o LastOf(s, limit - head) \in Seq(T)
  <2>1. PICK n : n = limit - head /\ n \in Nat \ {0}
    BY <1>2, <1>3
  <2>2. LastOf(s, n) \in Seq(T)
    BY <2>1, LastOfTyping
  <2>3. SubSeq(s, 1, head) \in Seq(T)
    <3>1. Len(s) \in Nat /\ head <= Len(s)
      BY <1>2, <1>3, <1>5
    <3>2. \A i \in 1 .. head : i \in 1 .. Len(s)
      BY <1>3, <3>1
    <3>3. \A i \in 1 .. head : s[i] \in T
      BY <3>2
    <3>4. SubSeq(s, 1, head) = [i \in 1 .. head |-> s[i]]
      BY <1>3, <3>1
    <3> QED
      BY <1>3, <3>3, <3>4
  <2> QED
    BY <2>1, <2>2, <2>3
<1> QED
  BY <1>4, <1>5

-----------------------------------------------------------------------------
(* What training learns.                                                   *)

\* The next action and nothing else.
LEMMA AlignedEncoding ==
  ASSUME NEW ms \in Seq(MessageTypes), ms # <<>>, NEW limit, NEW e, e = EncodeNextAction(ms, limit), e # TooLong
  PROVE  /\ e.ids = Tokens(ms) /\ Supervises(e)
         /\ Supervision(e) = {[message |-> Len(ms), header |-> FALSE]}
<1>1. PICK s, n : s = Tokens(ms) /\ n = Len(ms)
  OBVIOUS
<1>2. e = [ids |-> s, labels |-> [k \in DOMAIN s |-> s[k].message = n /\ ~s[k].header]]
  BY <1>1 DEF EncodeNextAction, Labelled
<1>3. /\ e.ids = s /\ DOMAIN e.labels = DOMAIN s
      /\ \A k \in DOMAIN s : e.labels[k] <=> s[k].message = n /\ ~s[k].header
  <2>1. e.ids = s /\ e.labels = [k \in DOMAIN s |-> s[k].message = n /\ ~s[k].header]
    BY <1>2
  <2>2. DOMAIN e.labels = DOMAIN s
    BY <2>1
  <2>3. \A k \in DOMAIN s : e.labels[k] = (s[k].message = n /\ ~s[k].header)
    BY <2>1, Zenon
  <2> QED
    BY <2>1, <2>2, <2>3, Zenon
<1>4. /\ s \in Seq(TokenTypes) /\ (\A k \in DOMAIN s : s[k].message \in DOMAIN ms)
      /\ \A i \in DOMAIN ms : \E k \in DOMAIN s : s[k] = Body(i)
  BY <1>1, AllTokenised DEF Tokenised
<1>5. n \in DOMAIN ms /\ n \in Nat
  BY <1>1
<1>6. PICK j \in DOMAIN s : s[j] = Body(n)
  BY <1>4, <1>5
<1>7. e.labels[j]
  BY <1>3, <1>6 DEF Body
<1>8. \A k \in DOMAIN s : s[k] \in TokenTypes
  BY <1>4
<1>9. \A k \in DOMAIN s : e.labels[k] => s[k] = Body(n)
  BY <1>3, <1>8 DEF Body, TokenTypes
<1>10. PICK p : p = Supervision(e)
  OBVIOUS
<1>11. \A t : t \in p <=> \E k \in DOMAIN s : e.labels[k] /\ s[k] = t
  BY <1>3, <1>10 DEF Supervision
<1>12. \A t : t \in p <=> t = Body(n)
  BY <1>6, <1>7, <1>9, <1>11
<1>13. p = {Body(n)}
  BY <1>12
<1> QED
  BY <1>1, <1>3, <1>6, <1>7, <1>10, <1>13 DEF Supervises, Body

\* Assistant turns only.
LEMMA DirectEncoding ==
  ASSUME NEW ms \in Seq(MessageTypes), NEW limit \in Nat \ {0}, NEW e, e = EncodeExample(ms, limit)
  PROVE  /\ ToSet(e.ids) \subseteq ToSet(Tokens(ms))
         /\ \A t \in Supervision(e) : ms[t.message].role = "assistant"
         /\ Len(Tokens(ms)) <= limit => e.ids = Tokens(ms)
<1>1. PICK s, k : s = Tokens(ms) /\ k = Kept(s, limit)
  OBVIOUS
<1>2. e = [ids |-> k, labels |-> [n \in DOMAIN k |-> ms[k[n].message].role = "assistant"]]
  BY <1>1 DEF EncodeExample, Labelled
<1>3. /\ e.ids = k /\ DOMAIN e.labels = DOMAIN k
      /\ \A n \in DOMAIN k : e.labels[n] <=> ms[k[n].message].role = "assistant"
  <2>1. e.ids = k /\ e.labels = [n \in DOMAIN k |-> ms[k[n].message].role = "assistant"]
    BY <1>2
  <2>2. DOMAIN e.labels = DOMAIN k
    BY <2>1
  <2>3. \A n \in DOMAIN k : e.labels[n] = (ms[k[n].message].role = "assistant")
    BY <2>1, Zenon
  <2> QED
    BY <2>1, <2>2, <2>3, Zenon
<1>4. s \in Seq(TokenTypes)
  BY <1>1, AllTokenised DEF Tokenised
<1>5. PICK S : S = ToSet(s)
  OBVIOUS
<1>6. s \in Seq(S)
  <2>1. Len(s) \in Nat /\ DOMAIN s = 1 .. Len(s) /\ s = [n \in 1 .. Len(s) |-> s[n]]
    BY <1>4
  <2>2. \A n \in 1 .. Len(s) : s[n] \in S
    BY <1>5, <2>1 DEF ToSet
  <2> QED
    BY <2>1, <2>2
<1>7. k \in Seq(S) /\ (Len(s) <= limit => k = s)
  BY <1>1, <1>6, KeptIsPart
<1>8. ToSet(k) \subseteq S
  <2>1. \A n \in DOMAIN k : k[n] \in S
    BY <1>7
  <2> QED
    BY <2>1 DEF ToSet
<1>9. \A t \in Supervision(e) : \E n \in DOMAIN k : e.labels[n] /\ k[n] = t
  BY <1>3 DEF Supervision
<1> QED
  BY <1>1, <1>3, <1>5, <1>7, <1>8, <1>9

\* The messages of an example of a real action.
LEMMA MessagesOfAnExample ==
  ASSUME NEW t \in TurnTypes, TurnIsWhole(t), t.outcome = "finished" \/ Executable(t.action),
         NEW x, x = ExampleOf(t)
  PROVE  Messages(x) \in Seq(MessageTypes) /\ Messages(x) # <<>>
<1>1. PICK r, m : r = Plain(t.action) /\ m = Assistant(r)
  OBVIOUS
<1>2. r \in Answers
  <2>1. CASE Executable(t.action)
    <3>1. t.answer \in Answers /\ t.action = ParseAction(t.answer)
      BY DEF TurnTypes, TurnIsWhole
    <3> QED
      BY <1>1, <2>1, <3>1, CanonicalForm
  <2>2. CASE t.outcome = "finished"
    <3>1. t.action = Done
      BY <2>2 DEF TurnIsWhole
    <3>2. PICK o : o = Object(Done)
      OBVIOUS
    <3>3. o \in Objects
      <4>1. o = [keys |-> {}, done |-> TRUE, typed |-> TRUE, arg |-> Done]
        BY <3>2 DEF Object, Done
      <4>2. Done \in Actions
        BY InvalidIsNoAction
      <4> QED
        BY <4>1, <4>2 DEF Objects
    <3>4. r = [form |-> "json", objects |-> <<o>>]
      BY <1>1, <3>1, <3>2 DEF Plain
    <3>5. <<o>> \in Seq(Objects)
      BY <3>3
    <3> QED
      BY <3>4, <3>5 DEF Answers
  <2> QED
    BY <2>1, <2>2
<1>3. m \in MessageTypes
  BY <1>1, <1>2, MessagesTyping
<1>4. PICK c : c = t.context
  OBVIOUS
<1>5. c \in Seq(MessageTypes)
  BY <1>4 DEF TurnTypes
<1>6. Messages(x) = Append(c, m)
  BY <1>1, <1>4 DEF Messages, ExampleOf
<1> QED
  BY <1>3, <1>5, <1>6

LEMMA MessagesOfTheData ==
  ASSUME Origin, HasData, NEW n \in DOMAIN data
  PROVE  Messages(data[n]) \in Seq(MessageTypes) /\ Messages(data[n]) # <<>>
<1>1. Whole /\ status = "completed" /\ data = ExamplesOf(turns, {"ran", "finished"})
  BY RealActionsAreExamples DEF Origin, Genuine
<1>2. turns \in Seq(TurnTypes)
  BY <1>1 DEF Whole, Typing
<1>3. PICK k \in DOMAIN turns : turns[k].outcome \in {"ran", "finished"} /\ data[n] = ExampleOf(turns[k])
  BY <1>1, <1>2, ExamplesAreTurns
<1>4. turns[k] \in TurnTypes /\ TurnIsWhole(turns[k])
  BY <1>1, <1>2 DEF Whole, Typing
<1>5. turns[k].outcome = "ran" => Executable(turns[k].action)
  BY <1>1 DEF Whole, Progress
<1> QED
  BY <1>3, <1>4, <1>5, MessagesOfAnExample

\* The last rung encoded every example of the data.
Learned ==
  /\ rung \in 1 .. Len(Ladder)
  /\ training = "completed" =>
       /\ trained = Encoded
       /\ \A n \in DOMAIN data : ~Unfit(Messages(data[n]), Ladder[rung])
       /\ config.sampling = "coverage_plus_weighted" => drawn = DOMAIN Encoded

LEMMA TrainingLearns == Learned /\ [DataNext]_<<vars, trainingVars>> => Learned'
<1> SUFFICES ASSUME Learned, [DataNext]_<<vars, trainingVars>>
             PROVE  Learned'
  OBVIOUS
<1>1. UNCHANGED <<data, entry, rung, config>> =>
        /\ Encoded' = Encoded
        /\ (\A n \in DOMAIN data : ~Unfit(Messages(data[n]), Ladder[rung]))' <=>
             \A n \in DOMAIN data : ~Unfit(Messages(data[n]), Ladder[rung])
  BY DEF Encoded, Encode, Unfit, Messages
<1>2. CASE UNCHANGED trainingVars
  BY <1>1, <1>2 DEF Learned, trainingVars
<1>3. CASE Train
  <2>1. CASE Prepare
    BY <2>1 DEF Learned, Prepare
  <2>2. CASE StartTraining
    BY <2>2 DEF Learned, StartTraining
  <2>3. CASE AttemptRaises
    BY <2>3 DEF Learned, AttemptRaises
  <2>4. CASE OutOfMemory
    <3>1. training' # "completed"
      BY <2>4 DEF OutOfMemory, Fits
    <3>2. rung' \in 1 .. Len(Ladder)
      <4>1. Len(Ladder) \in Nat
        BY TrainingDataAssumption
      <4>2. rung' = rung \/ (rung # Len(Ladder) /\ rung' = rung + 1)
        BY <2>4 DEF OutOfMemory
      <4> QED
        BY <4>1, <4>2 DEF Learned
    <3> QED
      BY <3>1, <3>2 DEF Learned
  <2>5. CASE Complete
    <3>1. UNCHANGED <<data, entry, rung, config>> /\ Fits
      BY <2>5 DEF Complete
    <3>2. training' = "failed" \/ (training' = "completed" /\ trained' = Encoded /\
            drawn' \in IF config.sampling = "coverage_plus_weighted" THEN {DOMAIN Encoded}
                       ELSE SUBSET DOMAIN Encoded \ {{}})
      BY <2>5 DEF Complete
    <3>3. \A n \in DOMAIN data : ~Unfit(Messages(data[n]), Ladder[rung])
      BY <3>1 DEF Fits
    <3> QED
      BY <1>1, <3>1, <3>2, <3>3 DEF Learned
  <2> QED
    BY <1>3, <2>1, <2>2, <2>3, <2>4, <2>5 DEF Train
<1> QED
  BY <1>2, <1>3 DEF DataNext

\* The examples of a deployed training, encoded.
LEMMA AlignedTraining ==
  ASSUME Origin, Learned, training = "completed", entry = "aligned"
  PROVE  /\ Len(trained) = Len(data)
         /\ \A n \in DOMAIN trained :
              /\ trained[n].ids = Tokens(Messages(data[n]))
              /\ Supervision(trained[n]) = {[message |-> Len(Messages(data[n])), header |-> FALSE]}
         /\ config.sampling = "coverage_plus_weighted" =>
              \A t \in ToSet(turns) :
                t.outcome \in {"ran", "finished"} => \E n \in drawn : data[n].messages = t.context /\ data[n].target = t.action
<1>0. HasData /\ Whole /\ data = ExamplesOf(turns, {"ran", "finished"}) /\ turns \in Seq(TurnTypes)
  BY RealActionsAreExamples DEF HasData, Origin, Genuine, Whole, Typing
<1>1. data \in Seq(ExampleTypes)
  BY <1>0, ExamplesTyping
<1>2. PICK limit, k : limit = Ladder[rung] /\ k = Len(data)
  OBVIOUS
<1>3. k \in Nat /\ DOMAIN data = 1 .. k
  BY <1>1, <1>2
<1>4. PICK records : records = [n \in 1 .. k |-> EncodeNextAction(Messages(data[n]), limit)]
  OBVIOUS
<1>5. ASSUME NEW n \in 1 .. k
      PROVE  /\ records[n].ids = Tokens(Messages(data[n])) /\ Supervises(records[n])
             /\ Supervision(records[n]) = {[message |-> Len(Messages(data[n])), header |-> FALSE]}
  <2>1. PICK ms, e : ms = Messages(data[n]) /\ e = records[n]
    OBVIOUS
  <2>2. ms \in Seq(MessageTypes) /\ ms # <<>>
    BY <1>0, <1>3, <2>1, MessagesOfTheData
  <2>3. e = EncodeNextAction(ms, limit)
    BY <1>4, <2>1
  <2>4. e # TooLong
    <3>1. ~Unfit(Messages(data[n]), Ladder[rung])
      BY <1>3 DEF Learned
    <3> QED
      BY <1>2, <2>1, <2>3, <3>1 DEF Unfit
  <2>5. e.ids = Tokens(ms) /\ Supervises(e) /\ Supervision(e) = {[message |-> Len(ms), header |-> FALSE]}
    BY <2>2, <2>3, <2>4, AlignedEncoding
  <2> QED
    BY <2>1, <2>5
<1>6. trained = records
  <2>1. trained = Picked([n \in DOMAIN data |-> Encode(Messages(data[n]), Ladder[rung])],
                         {n \in DOMAIN data : Supervises([m \in DOMAIN data |-> Encode(Messages(data[m]), Ladder[rung])][n])})
    BY DEF Learned, Encoded
  <2>2. [n \in DOMAIN data |-> Encode(Messages(data[n]), Ladder[rung])] = records
    BY <1>2, <1>3, <1>4 DEF Encode
  <2>3. PICK I : I = {n \in DOMAIN data : Supervises(records[n])}
    OBVIOUS
  <2>4. trained = Picked(records, I)
    BY <2>1, <2>2, <2>3
  <2>5. DOMAIN records \subseteq I
    BY <1>3, <1>4, <1>5, <2>3
  <2>6. PICK T : T = {records[n] : n \in 1 .. k}
    OBVIOUS
  <2>7. records \in Seq(T)
    BY <1>3, <1>4, <2>6
  <2> QED
    BY <2>4, <2>5, <2>7, PickedAll
<1>7. Len(trained) = k /\ DOMAIN trained = 1 .. k
  BY <1>3, <1>4, <1>6
<1>8. ASSUME config.sampling = "coverage_plus_weighted", NEW t \in ToSet(turns), t.outcome \in {"ran", "finished"}
      PROVE  \E n \in drawn : data[n].messages = t.context /\ data[n].target = t.action
  <2>1. drawn = 1 .. k
    BY <1>7, <1>8 DEF Learned
  <2>2. PICK i \in DOMAIN turns : turns[i] = t
    BY DEF ToSet
  <2>3. PICK n \in DOMAIN data : data[n] = ExampleOf(turns[i])
    BY <1>0, <1>8, <2>2, ExamplesAreTurns
  <2> QED
    BY <1>3, <2>1, <2>2, <2>3 DEF ExampleOf
<1> QED
  BY <1>2, <1>5, <1>6, <1>7, <1>8

\* The examples of a training without the entry point, encoded.
LEMMA DirectTraining ==
  ASSUME Origin, Learned, training = "completed", entry = "direct", NEW e \in ToSet(trained)
  PROVE  \E x \in ToSet(data) :
           /\ ToSet(e.ids) \subseteq ToSet(Tokens(Messages(x)))
           /\ \A t \in Supervision(e) : Messages(x)[t.message].role = "assistant"
           /\ config.rejects => e.ids = Tokens(Messages(x))
<1>0. HasData /\ data = ExamplesOf(turns, {"ran", "finished"}) /\ turns \in Seq(TurnTypes)
  BY RealActionsAreExamples DEF HasData, Origin, Genuine, Whole, Typing
<1>1. data \in Seq(ExampleTypes)
  BY <1>0, ExamplesTyping
<1>2. PICK limit, k : limit = Ladder[rung] /\ k = Len(data)
  OBVIOUS
<1>3. k \in Nat /\ DOMAIN data = 1 .. k
  BY <1>1, <1>2
<1>4. limit \in Nat \ {0}
  <2>1. rung \in 1 .. Len(Ladder) /\ Ladder \in Seq(Nat \ {0})
    BY TrainingDataAssumption DEF Learned
  <2> QED
    BY <1>2, <2>1
<1>5. PICK records : records = [n \in 1 .. k |-> EncodeExample(Messages(data[n]), limit)]
  OBVIOUS
<1>6. PICK n \in 1 .. k : e = records[n]
  <2>1. trained = Picked([n \in DOMAIN data |-> Encode(Messages(data[n]), Ladder[rung])],
                         {n \in DOMAIN data : Supervises([m \in DOMAIN data |-> Encode(Messages(data[m]), Ladder[rung])][n])})
    BY DEF Learned, Encoded
  <2>2. [n \in DOMAIN data |-> Encode(Messages(data[n]), Ladder[rung])] = records
    BY <1>2, <1>3, <1>5 DEF Encode
  <2>3. PICK I : I = {n \in DOMAIN data : Supervises(records[n])}
    OBVIOUS
  <2>4. trained = Picked(records, I)
    BY <2>1, <2>2, <2>3
  <2>5. PICK T : T = {records[n] : n \in 1 .. k}
    OBVIOUS
  <2>6. records \in Seq(T) /\ DOMAIN records = 1 .. k
    BY <1>3, <1>5, <2>5
  <2>7. PICK i \in DOMAIN trained : e = trained[i]
    BY DEF ToSet
  <2>8. trained \in Seq(T)
    BY <2>4, <2>6, PickedTyping
  <2>9. trained[i] \in T
    BY <2>7, <2>8
  <2> QED
    BY <2>5, <2>7, <2>9
<1>7. PICK x, ms : x = data[n] /\ ms = Messages(x)
  OBVIOUS
<1>8. e = EncodeExample(ms, limit)
  BY <1>5, <1>6, <1>7
<1>9. ms \in Seq(MessageTypes)
  BY <1>0, <1>3, <1>7, MessagesOfTheData
<1>10. /\ ToSet(e.ids) \subseteq ToSet(Tokens(ms))
       /\ \A t \in Supervision(e) : ms[t.message].role = "assistant"
       /\ Len(Tokens(ms)) <= limit => e.ids = Tokens(ms)
  BY <1>4, <1>8, <1>9, DirectEncoding
<1>11. config.rejects => Len(Tokens(ms)) <= limit
  <2>1. ~Unfit(ms, limit)
    BY <1>2, <1>3, <1>7 DEF Learned
  <2>2. ~(config.rejects /\ Len(Tokens(ms)) > limit)
    BY <2>1 DEF Unfit
  <2>3. Len(Tokens(ms)) \in Nat
    <3>1. Tokens(ms) \in Seq(TokenTypes)
      BY <1>9, AllTokenised DEF Tokenised
    <3> QED
      BY <3>1
  <2> QED
    BY <1>4, <2>2, <2>3
<1>12. x \in ToSet(data)
  BY <1>3, <1>7 DEF ToSet
<1> QED
  BY <1>7, <1>10, <1>11, <1>12

\* Training learns the actions that ran and the accepted finish, each under the
\* whole context the model saw, and through the deployed entry point nothing else,
\* under either bounded policy.  (action_context.py:60, train_sft.py:85,
\* sft_sampling.py:44)
THEOREM TrainingIsOnRealActions == DataSpec /\ policy \in BoundedPolicies => []TrainsOnRealActions
<1>1. Origin /\ Learned => TrainsOnRealActions
  BY AlignedTraining, DirectTraining DEF TrainsOnRealActions
<1>2. DataInit => Learned
  <2>1. 1 \in 1 .. Len(Ladder)
    BY TrainingDataAssumption
  <2> QED
    BY <2>1 DEF DataInit, InitTraining, Learned
<1> QED
  BY <1>1, <1>2, InitHasOrigin, NextHasOrigin, TrainingLearns, PTL DEF DataSpec
-----------------------------------------------------------------------------
(* A policy applied to its own result.                                     *)

\* What is cut of a receipt, part by part.
LEMMA TruncatedParts ==
  ASSUME NEW r \in ReceiptTypes, NEW l \in Nat, NEW t, t = Truncated(r, l)
  PROVE  /\ t \in ReceiptTypes /\ t.ok = r.ok /\ t.format = r.format /\ t.packet = r.packet
         /\ t.out = (IF r.out <= l THEN r.out ELSE l)
         /\ t.cut <=> r.cut \/ r.out > l
<1>1. PICK m, c : m = Min({r.out, l}) /\ c = (r.cut \/ r.out > l)
  OBVIOUS
<1>2. r.out \in Nat /\ r.cut \in BOOLEAN /\ c \in BOOLEAN
  BY <1>1 DEF ReceiptTypes
<1>3. m = IF r.out <= l THEN r.out ELSE l
  <2>1. \E x \in {r.out, l} : \A y \in {r.out, l} : x <= y
    BY <1>2
  <2>2. m \in {r.out, l} /\ \A y \in {r.out, l} : m <= y
    BY <1>1, <2>1 DEF Min
  <2> QED
    BY <1>2, <2>2
<1>4. t \in ReceiptTypes /\ t.ok = r.ok /\ t.format = r.format
  BY TruncatedTyping
<1>5. PICK q : q = [r EXCEPT !.out = m]
  OBVIOUS
<1>6. q.out = m /\ q.packet = r.packet /\ DOMAIN q = {"ok", "out", "cut", "packet", "format"}
  BY <1>5 DEF ReceiptTypes
<1>7. t = [q EXCEPT !.cut = c]
  BY <1>1, <1>5 DEF Truncated
<1>8. t.out = q.out /\ t.packet = q.packet /\ t.cut = c
  BY <1>6, <1>7
<1>9. t.cut <=> r.cut \/ r.out > l
  BY <1>1, <1>8
<1> QED
  BY <1>3, <1>4, <1>6, <1>8, <1>9

\* Receipts are what their parts are.
LEMMA SameReceipt ==
  ASSUME NEW r \in ReceiptTypes, NEW s \in ReceiptTypes,
         r.ok = s.ok, r.out = s.out, r.cut <=> s.cut, r.packet = s.packet, r.format = s.format
  PROVE  r = s
<1>1. /\ r = [ok |-> r.ok, out |-> r.out, cut |-> r.cut, packet |-> r.packet, format |-> r.format]
      /\ s = [ok |-> s.ok, out |-> s.out, cut |-> s.cut, packet |-> s.packet, format |-> s.format]
  BY DEF ReceiptTypes
<1>2. r.cut = s.cut
  <2>1. r.cut \in BOOLEAN /\ s.cut \in BOOLEAN
    BY DEF ReceiptTypes
  <2> QED
    BY <2>1
<1> QED
  BY <1>1, <1>2

LEMMA TruncatedTwice ==
  ASSUME NEW r \in ReceiptTypes, NEW l \in Nat, NEW m \in Nat, m <= l
  PROVE  Truncated(Truncated(r, l), m) = Truncated(r, m)
<1>1. PICK t, u, v : t = Truncated(r, l) /\ u = Truncated(t, m) /\ v = Truncated(r, m)
  OBVIOUS
<1>2. /\ t \in ReceiptTypes /\ t.ok = r.ok /\ t.format = r.format /\ t.packet = r.packet
      /\ t.out = (IF r.out <= l THEN r.out ELSE l) /\ (t.cut <=> r.cut \/ r.out > l)
  BY <1>1, TruncatedParts
<1>3. /\ u \in ReceiptTypes /\ u.ok = t.ok /\ u.format = t.format /\ u.packet = t.packet
      /\ u.out = (IF t.out <= m THEN t.out ELSE m) /\ (u.cut <=> t.cut \/ t.out > m)
  BY <1>1, <1>2, TruncatedParts
<1>4. /\ v \in ReceiptTypes /\ v.ok = r.ok /\ v.format = r.format /\ v.packet = r.packet
      /\ v.out = (IF r.out <= m THEN r.out ELSE m) /\ (v.cut <=> r.cut \/ r.out > m)
  BY <1>1, TruncatedParts
<1>5. r.out \in Nat
  BY DEF ReceiptTypes
<1>6. PICK x : x = r.out /\ x \in Nat
  BY <1>5
<1>7. PICK y : y = t.out /\ y = (IF x <= l THEN x ELSE l) /\ y \in Nat
  BY <1>2, <1>6
<1>8. (IF y <= m THEN y ELSE m) = (IF x <= m THEN x ELSE m) /\ (x > l \/ y > m <=> x > m)
  BY <1>6, <1>7
<1>9. u.out = v.out
  BY <1>3, <1>4, <1>6, <1>7, <1>8
<1>10. u.cut <=> v.cut
  BY <1>2, <1>3, <1>4, <1>6, <1>7, <1>8
<1>11. u.ok = v.ok /\ u.format = v.format /\ u.packet = v.packet
  BY <1>2, <1>3, <1>4
<1>12. u = v
  BY <1>3, <1>4, <1>9, <1>10, <1>11, SameReceipt
<1> QED
  BY <1>1, <1>12

\* What was decoded, and cut, is not decoded again.
LEMMA ObservedTwice ==
  ASSUME NEW r \in ReceiptTypes, NEW a
  PROVE  LET o == ToolObservation(a, r) IN
         ToolObservation(a, o) = o /\ \A l \in Nat : ToolObservation(a, Truncated(o, l)) = Truncated(o, l)
<1>1. PICK o : o = ToolObservation(a, r)
  OBVIOUS
<1>2. o \in ReceiptTypes /\ o.ok = r.ok /\ (a.kind = "read" /\ r.ok => o.format = "source")
  BY <1>1, ObservationTyping
<1>3. ASSUME NEW s \in ReceiptTypes, s.ok = o.ok, s.format = o.format
      PROVE  ToolObservation(a, s) = s
  <2>1. CASE a.kind = "read" /\ s.ok
    <3>1. s.format = "source"
      BY <1>2, <1>3, <2>1
    <3>2. [s EXCEPT !.format = "source"] = s
      BY <3>1 DEF ReceiptTypes
    <3> QED
      BY <2>1, <3>2 DEF ToolObservation
  <2>2. CASE ~(a.kind = "read" /\ s.ok)
    BY <2>2 DEF ToolObservation
  <2> QED
    BY <2>1, <2>2
<1>4. ToolObservation(a, o) = o
  BY <1>2, <1>3
<1>5. ASSUME NEW l \in Nat
      PROVE  ToolObservation(a, Truncated(o, l)) = Truncated(o, l)
  BY <1>2, <1>3, TruncatedTyping
<1> QED
  BY <1>1, <1>4, <1>5

LEMMA CanonicalTwice ==
  ASSUME NEW x \in Dialogues, Real(x), NEW l \in Nat, NEW m \in Nat, m <= l
  PROVE  Canonical(Canonical(x, l), m) = Canonical(x, m)
<1>1. CASE x.receipt.role = "rejection"
  BY <1>1 DEF Canonical
<1>2. CASE x.receipt.role = "result"
  <2>1. PICK a, p, r, o, t, d : /\ a = ActionOf(x.action) /\ p = Plain(a) /\ r = x.receipt.receipt
                                /\ o = ToolObservation(a, r) /\ t = Truncated(o, l) /\ d = Canonical(x, l)
    OBVIOUS
  <2>2. r \in ReceiptTypes
    BY <1>2, <2>1, DialogueParts
  <2>3. o \in ReceiptTypes /\ ToolObservation(a, t) = t
    <3>1. LET q == ToolObservation(a, r) IN \A k \in Nat : ToolObservation(a, Truncated(q, k)) = Truncated(q, k)
      BY <2>2, ObservedTwice
    <3>2. o \in ReceiptTypes
      BY <2>1, <2>2, ObservationTyping
    <3> QED
      BY <2>1, <3>1, <3>2
  <2>4. Truncated(t, m) = Truncated(o, m)
    BY <2>1, <2>3, TruncatedTwice
  <2>5. d = [action |-> Assistant(p), receipt |-> Result(t)]
    BY <1>2, <2>1 DEF Canonical
  <2>6. d.receipt.role = "result" /\ d.receipt.receipt = t
    BY <2>5 DEF Result
  <2>7. ActionOf(d.action) = a
    BY <1>2, <2>1, CanonicalTyping
  <2>8. Canonical(d, m) = [action |-> Assistant(p), receipt |-> Result(Truncated(t, m))]
    BY <2>1, <2>3, <2>6, <2>7 DEF Canonical
  <2>9. Canonical(x, m) = [action |-> Assistant(p), receipt |-> Result(Truncated(o, m))]
    BY <1>2, <2>1 DEF Canonical
  <2> QED
    BY <2>1, <2>4, <2>8, <2>9
<1> QED
  BY <1>1, <1>2, DialogueParts

\* A dialogue shows a turn under each smaller limit.
Shows(x, t, l) == \A m \in Nat : m <= l => Exchange(Canonical(x, m)) = Shown(t, m)

LEMMA ShowsCanonical ==
  ASSUME NEW x \in Dialogues, Real(x), NEW t, NEW l \in Nat, NEW k \in Nat, k <= l, Shows(x, t, l)
  PROVE  Shows(Canonical(x, k), t, k)
<1>1. ASSUME NEW m \in Nat, m <= k
      PROVE  Exchange(Canonical(Canonical(x, k), m)) = Shown(t, m)
  <2>1. Canonical(Canonical(x, k), m) = Canonical(x, m)
    BY <1>1, CanonicalTwice
  <2>2. m <= l
    BY <1>1
  <2> QED
    BY <1>1, <2>1, <2>2 DEF Shows
<1> QED
  BY <1>1 DEF Shows

LEMMA ShowsLess ==
  ASSUME NEW x, NEW t, NEW l \in Nat, NEW k \in Nat, k <= l, Shows(x, t, l)
  PROVE  Shows(x, t, k)
<1>1. \A m \in Nat : m <= k => m <= l
  OBVIOUS
<1> QED
  BY <1>1 DEF Shows

\* The answer of a turn with the receipt of the tool shows it ...
LEMMA ResultShows ==
  ASSUME NEW t, t.action = ParseAction(t.answer), t.outcome = "ran", t.receipt \in ReceiptTypes, NEW l,
         NEW d, d = [action |-> Assistant(t.answer), receipt |-> Result(ToolObservation(t.action, t.receipt))]
  PROVE  Shows(d, t, l)
<1>1. PICK a, o : a = t.action /\ o = ToolObservation(a, t.receipt)
  OBVIOUS
<1>2. ActionOf(d.action) = a /\ d.receipt.role = "result" /\ d.receipt.receipt = o
  BY <1>1 DEF ActionOf, Assistant, Result
<1>3. ToolObservation(a, o) = o
  <2>1. LET q == ToolObservation(a, t.receipt) IN ToolObservation(a, q) = q
    BY ObservedTwice
  <2> QED
    BY <1>1, <2>1
<1>4. ASSUME NEW m \in Nat
      PROVE  Exchange(Canonical(d, m)) = Shown(t, m)
  <2>1. Canonical(d, m) = [action |-> Assistant(Plain(a)), receipt |-> Result(Truncated(o, m))]
    BY <1>2, <1>3 DEF Canonical
  <2>2. Shown(t, m) = <<Assistant(Plain(a)), Result(Truncated(o, m))>>
    BY <1>1 DEF Shown
  <2> QED
    BY <2>1, <2>2 DEF Exchange
<1> QED
  BY <1>4 DEF Shows

\* ... and so does the answer with its refusal.
LEMMA RefusalShows ==
  ASSUME NEW t, t.outcome # "ran", NEW w, w = (IF t.outcome = "rejected" THEN "invalid" ELSE t.outcome), NEW l,
         NEW d, d = [action |-> Assistant(t.answer), receipt |-> Rejection(w)]
  PROVE  Shows(d, t, l)
<1>1. d.receipt.role = "rejection" /\ d.action = Assistant(t.answer) /\ d.receipt = Rejection(w)
  BY DEF Rejection
<1>2. ASSUME NEW m \in Nat
      PROVE  Exchange(Canonical(d, m)) = Shown(t, m)
  <2>1. Canonical(d, m) = d
    BY <1>1 DEF Canonical
  <2>2. Shown(t, m) = <<Assistant(t.answer), Rejection(w)>>
    BY DEF Shown
  <2> QED
    BY <1>1, <2>1, <2>2 DEF Exchange
<1> QED
  BY <1>2 DEF Shows

-----------------------------------------------------------------------------
(* The interactions of the messages, and the turns they are about.         *)

\* How much of an interaction is kept, counted from the latest.
Limit(k) == IF k = 0 THEN LatestChars ELSE OlderChars

\* The last interactions show the last turns of H, as far as a context goes back.
Aligned(xs, H, ts) ==
  /\ Len(xs) = Len(H) \/ (Len(xs) >= HistoryTurns /\ Len(H) >= HistoryTurns)
  /\ \A k \in Nat : k < HistoryTurns /\ k < Len(xs) => Shows(xs[Len(xs) - k], ts[H[Len(H) - k]], Limit(k))

\* The turns with a receipt among the first n, in their order.
HistoryOf(ts, n) == Picked([r \in 1 .. n |-> r], Before(ts, n))

LEMMA LimitTyping ==
  ASSUME NEW k \in Nat
  PROVE  Limit(k) \in Nat /\ Limit(k + 1) \in Nat /\ Limit(k + 1) <= Limit(k)
<1>1. k + 1 # 0
  OBVIOUS
<1> QED
  BY <1>1, ContextHistoryAssumption DEF Limit

LEMMA HistoryTyping ==
  ASSUME NEW ts, NEW n \in Nat, NEW H, H = HistoryOf(ts, n)
  PROVE  /\ H \in Seq(Nat) /\ Len(H) \in Nat /\ DOMAIN H = 1 .. Len(H)
         /\ \A k \in 1 .. Len(H) : H[k] \in 1 .. n
<1>1. PICK s, I : s = [r \in 1 .. n |-> r] /\ I = Before(ts, n)
  OBVIOUS
<1>2. s \in Seq(Nat) /\ DOMAIN s = 1 .. n /\ \A r \in 1 .. n : s[r] = r
  BY <1>1
<1>3. H = Picked(s, I)
  BY <1>1 DEF HistoryOf
<1>4. Picked(s, I) \in Seq(Nat)
  BY <1>2, PickedTyping
<1>5. \A k \in DOMAIN Picked(s, I) : \E r \in DOMAIN s : r \in I /\ Picked(s, I)[k] = s[r]
  BY <1>2, PickedElements
<1>6. H \in Seq(Nat) /\ Len(H) \in Nat /\ DOMAIN H = 1 .. Len(H)
  BY <1>3, <1>4
<1>7. \A k \in DOMAIN H : H[k] \in 1 .. n
  BY <1>2, <1>3, <1>5
<1> QED
  BY <1>6, <1>7

\* A turn more: its number comes last if it has a receipt.
LEMMA HistoryMore ==
  ASSUME NEW us, NEW ts, NEW t, Extended(us, ts, t), NEW n, n = Len(ts)
  PROVE  /\ \A k \in 0 .. n : HistoryOf(us, k) = HistoryOf(ts, k)
         /\ HasReceipt(t) => HistoryOf(us, n + 1) = Append(HistoryOf(ts, n), n + 1)
         /\ ~HasReceipt(t) => HistoryOf(us, n + 1) = HistoryOf(ts, n)
<1>1. /\ n \in Nat /\ \A k \in 0 .. n : Before(us, k) = Before(ts, k)
      /\ \A r : r \in Before(us, n + 1) <=> r \in Before(ts, n) \/ (r = n + 1 /\ HasReceipt(t))
  BY DEF Extended
<1>2. \A k \in 0 .. n : HistoryOf(us, k) = HistoryOf(ts, k)
  BY <1>1 DEF HistoryOf
<1>3. PICK s, v, I, J : /\ s = [r \in 1 .. n |-> r] /\ v = [r \in 1 .. n + 1 |-> r]
                        /\ I = Before(ts, n) /\ J = Before(us, n + 1)
  OBVIOUS
<1>4. s \in Seq(Nat) /\ Len(s) = n /\ DOMAIN s = 1 .. n /\ n + 1 \in Nat
  BY <1>1, <1>3
<1>5. v = Append(s, n + 1)
  <2>1. PICK u : u = Append(s, n + 1)
    OBVIOUS
  <2>2. u \in Seq(Nat) /\ Len(u) = n + 1 /\ u[n + 1] = n + 1 /\ \A r \in 1 .. n : u[r] = s[r]
    BY <1>4, <2>1
  <2>3. \A r \in 1 .. n + 1 : r \in 1 .. n \/ r = n + 1
    BY <1>1
  <2>4. \A r \in 1 .. n + 1 : u[r] = r
    BY <1>3, <2>2, <2>3
  <2>5. u = [r \in 1 .. n + 1 |-> u[r]]
    BY <2>2
  <2> QED
    BY <1>3, <2>1, <2>4, <2>5
<1>6. Picked(s, J) = Picked(s, I)
  <2>1. \A r \in DOMAIN s : r # n + 1
    BY <1>1, <1>4
  <2>2. \A r \in DOMAIN s : r \in J <=> r \in I
    BY <1>1, <1>3, <2>1
  <2> QED
    BY <2>2, PickedSame
<1>7. Picked(v, J) = IF Len(s) + 1 \in J THEN Append(Picked(s, J), n + 1) ELSE Picked(s, J)
  <2>1. PICK T, x : T = Nat /\ x = n + 1
    OBVIOUS
  <2>2. s \in Seq(T) /\ x \in T
    BY <1>4, <2>1
  <2>3. Picked(Append(s, x), J) = IF Len(s) + 1 \in J THEN Append(Picked(s, J), x) ELSE Picked(s, J)
    BY <2>2, PickedAppend
  <2> QED
    BY <1>5, <2>1, <2>3
<1>8. Len(s) + 1 \in J <=> HasReceipt(t)
  <2>1. n + 1 \notin Before(ts, n)
    BY <1>1 DEF Before
  <2> QED
    BY <1>1, <1>3, <1>4, <2>1
<1>9. HistoryOf(us, n + 1) = Picked(v, J) /\ HistoryOf(ts, n) = Picked(s, I)
  BY <1>3 DEF HistoryOf
<1> QED
  BY <1>2, <1>6, <1>7, <1>8, <1>9

\* Only the turns in H count.
LEMMA AlignedSame ==
  ASSUME NEW xs \in Seq(Dialogues), NEW H, NEW ts, NEW us, NEW n \in Nat, \A k \in 1 .. n : us[k] = ts[k],
         Len(H) \in Nat, \A k \in 1 .. Len(H) : H[k] \in 1 .. n, Aligned(xs, H, ts)
  PROVE  Aligned(xs, H, us)
<1>0. Len(xs) \in Nat
  OBVIOUS
<1>1. PICK z, h : z = Len(xs) /\ h = Len(H) /\ z \in Nat /\ h \in Nat
  BY <1>0, Zenon
<1>2. HistoryTurns \in Nat
  BY ContextHistoryAssumption
<1>3. z = h \/ (z >= HistoryTurns /\ h >= HistoryTurns)
  BY <1>1 DEF Aligned
<1>4. ASSUME NEW k \in Nat, k < HistoryTurns, k < z
      PROVE  Shows(xs[z - k], us[H[h - k]], Limit(k))
  <2>1. h - k \in 1 .. h
    BY <1>1, <1>2, <1>3, <1>4
  <2>2. us[H[h - k]] = ts[H[h - k]]
    BY <1>1, <2>1
  <2>3. Shows(xs[z - k], ts[H[h - k]], Limit(k))
    BY <1>1, <1>4 DEF Aligned
  <2> QED
    BY <2>2, <2>3
<1> QED
  BY <1>1, <1>3, <1>4 DEF Aligned

\* The next interaction shows the next turn.
LEMMA AlignedMore ==
  ASSUME NEW xs \in Seq(Dialogues), NEW H \in Seq(Nat), NEW ts, Aligned(xs, H, ts),
         NEW d \in Dialogues, NEW n \in Nat, Shows(d, ts[n], LatestChars)
  PROVE  Aligned(Append(xs, d), Append(H, n), ts)
<1>1. PICK z, h, ys, G : z = Len(xs) /\ h = Len(H) /\ ys = Append(xs, d) /\ G = Append(H, n)
  OBVIOUS
<1>2. /\ z \in Nat /\ h \in Nat /\ Len(ys) = z + 1 /\ Len(G) = h + 1 /\ ys[z + 1] = d /\ G[h + 1] = n
      /\ (\A k \in 1 .. z : ys[k] = xs[k]) /\ \A k \in 1 .. h : G[k] = H[k]
  BY <1>1
<1>3. HistoryTurns \in Nat
  BY ContextHistoryAssumption
<1>4. z = h \/ (z >= HistoryTurns /\ h >= HistoryTurns)
  BY <1>1 DEF Aligned
<1>5. z + 1 = h + 1 \/ (z + 1 >= HistoryTurns /\ h + 1 >= HistoryTurns)
  BY <1>2, <1>3, <1>4
<1>6. ASSUME NEW k \in Nat, k < HistoryTurns, k < z + 1
      PROVE  Shows(ys[z + 1 - k], ts[G[h + 1 - k]], Limit(k))
  <2>1. CASE k = 0
    <3>1. z + 1 - k = z + 1 /\ h + 1 - k = h + 1
      BY <1>2, <2>1
    <3>2. ys[z + 1 - k] = d /\ G[h + 1 - k] = n /\ Limit(k) = LatestChars
      BY <1>2, <2>1, <3>1 DEF Limit
    <3> QED
      BY <3>2
  <2>2. CASE k # 0
    <3>1. PICK j : j = k - 1
      OBVIOUS
    <3>2. /\ j \in Nat /\ j < HistoryTurns /\ j < z /\ z + 1 - k = z - j /\ h + 1 - k = h - j /\ k = j + 1
          /\ z - j \in 1 .. z /\ h - j \in 1 .. h
      BY <1>2, <1>3, <1>4, <1>6, <2>2, <3>1
    <3>3. ys[z + 1 - k] = xs[z - j] /\ G[h + 1 - k] = H[h - j]
      BY <1>2, <3>2
    <3>4. Shows(xs[z - j], ts[H[h - j]], Limit(j))
      BY <1>1, <3>2 DEF Aligned
    <3>5. Limit(j) \in Nat /\ Limit(k) \in Nat /\ Limit(k) <= Limit(j)
      BY <3>2, LimitTyping
    <3>6. Shows(xs[z - j], ts[H[h - j]], Limit(k))
      BY <3>4, <3>5, ShowsLess
    <3> QED
      BY <3>3, <3>6
  <2> QED
    BY <2>1, <2>2
<1>7. \A k \in Nat : k < HistoryTurns /\ k < Len(ys) => Shows(ys[Len(ys) - k], ts[G[Len(G) - k]], Limit(k))
  BY <1>2, <1>6
<1>8. Len(ys) = Len(G) \/ (Len(ys) >= HistoryTurns /\ Len(G) >= HistoryTurns)
  BY <1>2, <1>5
<1>9. Aligned(ys, G, ts)
  BY <1>7, <1>8 DEF Aligned
<1> QED
  BY <1>1, <1>9

\* The pairs of a context, from the turns.
PairsOf(ts, H) ==
  [k \in DOMAIN LastOf(H, HistoryTurns) |->
     Shown(ts[LastOf(H, HistoryTurns)[k]], IF k = Len(LastOf(H, HistoryTurns)) THEN LatestChars ELSE OlderChars)]

\* q is the end of x, as far as n.
IsEnd(q, x, n, R) ==
  /\ q \in Seq(R) /\ Len(q) \in Nat /\ Len(q) <= Len(x) /\ Len(q) <= n /\ (Len(q) = Len(x) \/ Len(q) = n)
  /\ \A k \in 1 .. Len(q) : Len(x) - Len(q) + k \in 1 .. Len(x) /\ q[k] = x[Len(x) - Len(q) + k]

LEMMA LastOfIsEnd ==
  ASSUME NEW R, NEW x \in Seq(R), NEW n \in Nat \ {0}
  PROVE  IsEnd(LastOf(x, n), x, n, R)
BY LastOfTyping DEF IsEnd

\* What a policy keeps of aligned interactions is aligned, and as the turns show it.
LEMMA AlignedRetained ==
  ASSUME NEW xs \in Seq(Dialogues), NEW H \in Seq(Nat), NEW ts, Aligned(xs, H, ts),
         \A k \in DOMAIN LastOf(xs, HistoryTurns) : Real(LastOf(xs, HistoryTurns)[k])
  PROVE  /\ Aligned(Retained(xs, HistoryTurns), H, ts)
         /\ Flat(Retained(xs, HistoryTurns)) = FlattenSeq(PairsOf(ts, H))
<1>1. PICK T : T = HistoryTurns /\ T \in Nat \ {0}
  BY ContextHistoryAssumption
<1>2. PICK s, ds, g, ps : s = LastOf(xs, T) /\ ds = Retained(xs, T) /\ g = LastOf(H, T) /\ ps = PairsOf(ts, H)
  OBVIOUS
<1>3. PICK z, h, l : z = Len(xs) /\ h = Len(H) /\ l = Len(s)
  OBVIOUS
<1>4. /\ s \in Seq(Dialogues) /\ l \in Nat /\ l <= z /\ l <= T /\ (l = z \/ l = T)
      /\ \A k \in 1 .. l : z - l + k \in 1 .. z /\ s[k] = xs[z - l + k]
  <2>1. xs \in Seq(Dialogues) /\ T \in Nat \ {0}
    BY <1>1
  <2>2. IsEnd(LastOf(xs, T), xs, T, Dialogues)
    BY <2>1, LastOfIsEnd
  <2> QED
    BY <1>2, <1>3, <2>2 DEF IsEnd
<1>5. /\ g \in Seq(Nat) /\ Len(g) \in Nat /\ Len(g) <= h /\ Len(g) <= T /\ (Len(g) = h \/ Len(g) = T)
      /\ \A k \in 1 .. Len(g) : h - Len(g) + k \in 1 .. h /\ g[k] = H[h - Len(g) + k]
  <2>1. H \in Seq(Nat) /\ T \in Nat \ {0}
    BY <1>1
  <2>2. IsEnd(LastOf(H, T), H, T, Nat)
    BY <2>1, LastOfIsEnd
  <2> QED
    BY <1>2, <1>3, <2>2 DEF IsEnd
<1>6. z \in Nat /\ h \in Nat /\ (z = h \/ (z >= T /\ h >= T))
  BY <1>1, <1>3 DEF Aligned
<1>7. Len(g) = l
  BY <1>1, <1>4, <1>5, <1>6
<1>8. /\ DOMAIN s = 1 .. l /\ ds = [k \in 1 .. l |-> Canonical(s[k], IF k = l THEN LatestChars ELSE OlderChars)]
      /\ Len(ds) = l /\ DOMAIN ds = 1 .. l
  <2>1. DOMAIN s = 1 .. l
    BY <1>3, <1>4
  <2>2. ds = [k \in 1 .. l |-> Canonical(s[k], IF k = l THEN LatestChars ELSE OlderChars)]
    BY <1>2, <1>3, <2>1 DEF Retained
  <2> QED
    BY <1>4, <2>1, <2>2
<1>9. DOMAIN g = 1 .. l /\ ps = [k \in 1 .. l |-> Shown(ts[g[k]], IF k = l THEN LatestChars ELSE OlderChars)]
  <2>1. DOMAIN g = 1 .. l
    BY <1>5, <1>7
  <2> QED
    BY <1>1, <1>2, <1>7, <2>1 DEF PairsOf
<1>10. ASSUME NEW k \in Nat, k < l
       PROVE  /\ l - k \in 1 .. l /\ Limit(k) = (IF l - k = l THEN LatestChars ELSE OlderChars)
              /\ Shows(ds[l - k], ts[H[h - k]], Limit(k)) /\ g[l - k] = H[h - k]
              /\ Exchange(ds[l - k]) = Shown(ts[H[h - k]], Limit(k))
  <2>1. PICK j : j = l - k /\ j \in 1 .. l /\ z - l + j = z - k /\ h - l + j = h - k /\ (j = l <=> k = 0)
    <3>1. l - k \in 1 .. l /\ (l - k = l <=> k = 0)
      BY <1>4, <1>10
    <3>2. z - l + (l - k) = z - k /\ h - l + (l - k) = h - k
      BY <1>4, <1>6, <1>10
    <3> QED
      BY <3>1, <3>2
  <2>2. Limit(k) = IF j = l THEN LatestChars ELSE OlderChars
    BY <2>1 DEF Limit
  <2>3. PICK x : x = s[j] /\ x = xs[z - k] /\ x \in Dialogues /\ Real(x)
    <3>1. s[j] = xs[z - k] /\ s[j] \in Dialogues
      BY <1>4, <1>8, <2>1
    <3>2. Real(s[j])
      BY <1>1, <1>2, <1>8, <2>1
    <3> QED
      BY <3>1, <3>2
  <2>4. ds[j] = Canonical(x, Limit(k))
    BY <1>8, <2>1, <2>2, <2>3
  <2>5. g[j] = H[h - k]
    BY <1>5, <1>7, <2>1
  <2>6. Shows(x, ts[H[h - k]], Limit(k))
    <3>1. k < HistoryTurns /\ k < Len(xs)
      BY <1>1, <1>3, <1>4, <1>6, <1>10
    <3> QED
      BY <1>3, <2>3, <3>1 DEF Aligned
  <2>7. Limit(k) \in Nat /\ Limit(k) <= Limit(k)
    <3>1. Limit(k) \in Nat
      BY LimitTyping
    <3> QED
      BY <3>1
  <2>8. Shows(ds[j], ts[H[h - k]], Limit(k))
    BY <2>3, <2>4, <2>6, <2>7, ShowsCanonical
  <2>9. Exchange(ds[j]) = Shown(ts[H[h - k]], Limit(k))
    BY <2>4, <2>6, <2>7 DEF Shows
  <2> QED
    BY <2>1, <2>2, <2>5, <2>8, <2>9
<1>11. Aligned(ds, H, ts)
  <2>1. l = h \/ (l >= T /\ h >= T)
    BY <1>1, <1>4, <1>6
  <2> QED
    BY <1>1, <1>3, <1>8, <1>10, <2>1 DEF Aligned
<1>12. \A j \in 1 .. l : Exchange(ds[j]) = ps[j]
  <2> SUFFICES ASSUME NEW j \in 1 .. l
               PROVE  Exchange(ds[j]) = ps[j]
    OBVIOUS
  <2>1. PICK k : k = l - j /\ k \in Nat /\ k < l /\ l - k = j
    BY <1>4
  <2>2. /\ Limit(k) = (IF j = l THEN LatestChars ELSE OlderChars)
        /\ g[j] = H[h - k] /\ Exchange(ds[j]) = Shown(ts[H[h - k]], Limit(k))
    BY <1>10, <2>1
  <2>3. ps[j] = Shown(ts[g[j]], IF j = l THEN LatestChars ELSE OlderChars)
    BY <1>9
  <2> QED
    BY <2>2, <2>3
<1>13. [k \in DOMAIN ds |-> Exchange(ds[k])] = ps
  <2>1. ps = [k \in 1 .. l |-> ps[k]]
    BY <1>9
  <2> QED
    BY <1>8, <1>12, <2>1
<1>14. Flat(ds) = FlattenSeq(ps)
  BY <1>13 DEF Flat
<1> QED
  BY <1>1, <1>2, <1>11, <1>14

-----------------------------------------------------------------------------
(* The context of a request, from the turns before it.                     *)

\* The last of n turns that has a receipt.
LatestOf(ts, n) == Last(LastOf(HistoryOf(ts, n), HistoryTurns))

\* The interventions of the turns from l to the one before n.
InterventionsFrom(ts, l, n) == FlattenSeq([k \in 1 .. n - l |-> InterventionOf(ts[l + k - 1])])

\* What is said about a result besides the result.
SaidOf(t, l) ==
  IF t.outcome = "ran"
  THEN (IF t.receipt.ok THEN <<>> ELSE <<Warning("failed")>>)
       \o (IF l > CheckpointStep /\ t.after = Original THEN <<Warning("checkpoint")>> ELSE <<>>)
  ELSE <<>>

ToldFrom(ts, l, n) == SaidOf(ts[l], l) \o InterventionsFrom(ts, l, n)

ToldIn(ts, n) == ToldFrom(ts, LatestOf(ts, n - 1), n)

RecentIn(ts, n) ==
  <<System, Task>> \o
    IF LastOf(HistoryOf(ts, n - 1), HistoryTurns) = <<>> THEN <<>>
    ELSE FlattenSeq(PairsOf(ts, HistoryOf(ts, n - 1))) \o ToldIn(ts, n)

\* The property, about the turns only.
RecentlyAsked(p, ts) == p = "recent-history-v3" /\ ts # <<>> => Last(ts).context = RecentIn(ts, Len(ts))

LEMMA ContextIsRecentNow == ContextIsRecent <=> RecentlyAsked(policy, turns)
BY DEF ContextIsRecent, RecentlyAsked, Recent, RecentIn, HistoryOf, Before, PairsOf, ToldIn, ToldFrom, SaidOf,
       InterventionsFrom, LatestOf

\* The latest turn is the last of the history.
LEMMA LatestTurn ==
  ASSUME NEW ts, NEW n \in Nat, NEW H, H = HistoryOf(ts, n)
  PROVE  /\ H = <<>> => LastOf(H, HistoryTurns) = <<>>
         /\ H # <<>> => LastOf(H, HistoryTurns) # <<>> /\ LatestOf(ts, n) = H[Len(H)] /\ LatestOf(ts, n) \in 1 .. n
<1>1. PICK h, g : h = Len(H) /\ g = LastOf(H, HistoryTurns)
  OBVIOUS
<1>2. H \in Seq(Nat) /\ h \in Nat /\ \A k \in 1 .. h : H[k] \in 1 .. n
  BY <1>1, HistoryTyping
<1>3. /\ g \in Seq(Nat) /\ Len(g) \in Nat /\ Len(g) <= h /\ (Len(g) = h \/ Len(g) = HistoryTurns)
      /\ \A k \in 1 .. Len(g) : h - Len(g) + k \in 1 .. h /\ g[k] = H[h - Len(g) + k]
  <2>1. HistoryTurns \in Nat \ {0}
    BY ContextHistoryAssumption
  <2>2. IsEnd(LastOf(H, HistoryTurns), H, HistoryTurns, Nat)
    BY <1>2, <2>1, LastOfIsEnd
  <2>3. IsEnd(g, H, HistoryTurns, Nat)
    BY <1>1, <2>2
  <2> QED
    BY <1>1, <2>3 DEF IsEnd
<1>4. (H = <<>> <=> h = 0) /\ (g = <<>> <=> Len(g) = 0)
  BY <1>1, <1>2, <1>3
<1>5. ASSUME h # 0
      PROVE  g # <<>> /\ Last(g) = H[h] /\ H[h] \in 1 .. n
  <2>0. PICK m : m = Len(g) /\ m \in Nat /\ m # 0
    BY <1>3, <1>5, ContextHistoryAssumption
  <2>1. m = Len(g) /\ m # 0 /\ m \in 1 .. m /\ h - m + m = h /\ h \in 1 .. h
    BY <1>2, <1>5, <2>0
  <2>2. g[m] = H[h]
    BY <1>3, <2>1
  <2>3. Last(g) = g[m]
    BY <2>1 DEF Last
  <2> QED
    BY <1>2, <1>4, <2>1, <2>2, <2>3
<1> QED
  BY <1>1, <1>3, <1>4, <1>5 DEF LatestOf

\* Interventions are told one by one.
LEMMA InterventionTyping ==
  ASSUME NEW t
  PROVE  InterventionOf(t) \in Seq(MessageTypes)
<1>1. /\ Warning("invalid") \in MessageTypes /\ Warning("unverified") \in MessageTypes
      /\ Warning("navigation") \in MessageTypes /\ Warning("repeated") \in MessageTypes
  BY MessagesTyping
<1> QED
  BY <1>1 DEF InterventionOf

LEMMA InterventionsMore ==
  ASSUME NEW ts, NEW n \in Nat, NEW l \in 1 .. n
  PROVE  /\ InterventionsFrom(ts, l, n + 1) = InterventionsFrom(ts, l, n) \o InterventionOf(ts[n])
         /\ InterventionsFrom(ts, l, n) \in Seq(MessageTypes)
<1>1. PICK R, T, m, f, q, g : /\ R = {InterventionOf(ts[k]) : k \in 1 .. n} /\ T = MessageTypes /\ m = n - l
                              /\ f = [k \in 1 .. m |-> InterventionOf(ts[l + k - 1])] /\ q = InterventionOf(ts[n])
                              /\ g = [k \in 1 .. m + 1 |-> InterventionOf(ts[l + k - 1])]
  OBVIOUS
<1>2. m \in Nat /\ l + (m + 1) - 1 = n /\ n \in 1 .. n /\ n + 1 - l = m + 1 /\ \A k \in 1 .. m : l + k - 1 \in 1 .. n
  BY <1>1
<1>3. \A r \in R : r \in Seq(T)
  BY <1>1, InterventionTyping
<1>4. f \in Seq(R) /\ Len(f) = m /\ q \in R
  <2>1. \A k \in 1 .. m : f[k] \in R
    BY <1>1, <1>2
  <2>2. f = [k \in 1 .. m |-> f[k]]
    BY <1>1
  <2>3. f \in Seq(R) /\ Len(f) = m
    BY <1>2, <2>1, <2>2
  <2> QED
    BY <1>1, <1>2, <2>3
<1>5. g = Append(f, q)
  <2>1. PICK u : u = Append(f, q)
    OBVIOUS
  <2>2. /\ u \in Seq(R) /\ Len(u) = m + 1 /\ u[m + 1] = q /\ \A k \in 1 .. m : u[k] = f[k]
    BY <1>2, <1>4, <2>1
  <2>3. \A k \in 1 .. m + 1 : k \in 1 .. m \/ k = m + 1
    BY <1>2
  <2>4. \A k \in 1 .. m + 1 : u[k] = InterventionOf(ts[l + k - 1])
    BY <1>1, <1>2, <2>2, <2>3
  <2>5. u = [k \in 1 .. m + 1 |-> u[k]]
    BY <2>2
  <2> QED
    BY <1>1, <2>1, <2>4, <2>5
<1>6. FlattenSeq(Append(f, q)) = FlattenSeq(f) \o q /\ FlattenSeq(f) \in Seq(T)
  BY <1>3, <1>4, FlattenAppend
<1>7. InterventionsFrom(ts, l, n) = FlattenSeq(f) /\ InterventionsFrom(ts, l, n + 1) = FlattenSeq(g)
  BY <1>1, <1>2 DEF InterventionsFrom
<1> QED
  BY <1>1, <1>5, <1>6, <1>7

LEMMA InterventionsStart ==
  ASSUME NEW ts, NEW l \in Nat
  PROVE  InterventionsFrom(ts, l, l) = <<>>
<1>1. l - l = 0 /\ [k \in 1 .. 0 |-> InterventionOf(ts[l + k - 1])] = <<>>
  OBVIOUS
<1> QED
  BY <1>1, FlattenEmpty DEF InterventionsFrom

LEMMA SaidTyping ==
  ASSUME NEW t, NEW l
  PROVE  SaidOf(t, l) \in Seq(MessageTypes)
<1>1. Warning("failed") \in MessageTypes /\ Warning("checkpoint") \in MessageTypes
  BY MessagesTyping
<1>2. PICK v, w : /\ v = (IF t.receipt.ok THEN <<>> ELSE <<Warning("failed")>>)
                  /\ w = (IF l > CheckpointStep /\ t.after = Original THEN <<Warning("checkpoint")>> ELSE <<>>)
  OBVIOUS
<1>3. v \in Seq(MessageTypes) /\ w \in Seq(MessageTypes) /\ <<>> \in Seq(MessageTypes)
  BY <1>1, <1>2
<1>4. v \o w \in Seq(MessageTypes)
  BY <1>3
<1> QED
  BY <1>2, <1>3, <1>4 DEF SaidOf

\* A turn more is told after the others ...
LEMMA ToldMore ==
  ASSUME NEW ts, NEW n \in Nat, NEW l \in 1 .. n
  PROVE  ToldFrom(ts, l, n + 1) = ToldFrom(ts, l, n) \o InterventionOf(ts[n])
<1>1. PICK a, b, c : a = SaidOf(ts[l], l) /\ b = InterventionsFrom(ts, l, n) /\ c = InterventionOf(ts[n])
  OBVIOUS
<1>2. a \in Seq(MessageTypes) /\ b \in Seq(MessageTypes) /\ c \in Seq(MessageTypes)
  BY <1>1, SaidTyping, InterventionsMore, InterventionTyping
<1>3. InterventionsFrom(ts, l, n + 1) = b \o c
  BY <1>1, InterventionsMore
<1>4. a \o (b \o c) = (a \o b) \o c
  BY <1>2
<1> QED
  BY <1>1, <1>3, <1>4 DEF ToldFrom

\* ... and all that is told about the latest turn.
LEMMA ToldStart ==
  ASSUME NEW ts, NEW n \in Nat, n # 0
  PROVE  /\ ts[n].outcome = "ran" => ToldFrom(ts, n, n + 1) = SaidOf(ts[n], n)
         /\ ts[n].outcome # "ran" => ToldFrom(ts, n, n + 1) = InterventionOf(ts[n])
<1>1. PICK a, c : a = SaidOf(ts[n], n) /\ c = InterventionOf(ts[n])
  OBVIOUS
<1>2. a \in Seq(MessageTypes) /\ c \in Seq(MessageTypes)
  BY <1>1, SaidTyping, InterventionTyping
<1>3. n \in 1 .. n /\ InterventionsFrom(ts, n, n) = <<>>
  BY InterventionsStart
<1>4. InterventionsFrom(ts, n, n + 1) = <<>> \o c
  BY <1>1, <1>3, InterventionsMore
<1>5. ToldFrom(ts, n, n + 1) = a \o (<<>> \o c)
  BY <1>1, <1>4 DEF ToldFrom
<1>6. <<>> \o c = c /\ a \o <<>> = a
  BY <1>2
<1>7. ts[n].outcome = "ran" => c = <<>>
  BY <1>1 DEF InterventionOf
<1>8. ts[n].outcome # "ran" => a = <<>>
  BY <1>1 DEF SaidOf
<1>9. PICK x : x = ToldFrom(ts, n, n + 1)
  OBVIOUS
<1>10. x = a \o c
  BY <1>5, <1>6, <1>9
<1>11. ts[n].outcome = "ran" => x = a
  BY <1>6, <1>7, <1>10
<1>12. ts[n].outcome # "ran" => x = c
  BY <1>6, <1>8, <1>10
<1> QED
  BY <1>1, <1>9, <1>11, <1>12

\* Later turns are not told before.
LEMMA ToldSame ==
  ASSUME NEW ts, NEW us, NEW n \in Nat, \A k \in 1 .. n : us[k] = ts[k], NEW l \in 1 .. n
  PROVE  ToldFrom(us, l, n + 1) = ToldFrom(ts, l, n + 1)
<1>1. \A k \in 1 .. n + 1 - l : us[l + k - 1] = ts[l + k - 1]
  <2>1. \A k \in 1 .. n + 1 - l : l + k - 1 \in 1 .. n
    OBVIOUS
  <2> QED
    BY <2>1
<1>2. PICK m : m = n + 1
  OBVIOUS
<1>3. [k \in 1 .. m - l |-> InterventionOf(us[l + k - 1])] = [k \in 1 .. m - l |-> InterventionOf(ts[l + k - 1])]
  BY <1>1, <1>2
<1>4. InterventionsFrom(us, l, m) = InterventionsFrom(ts, l, m)
  BY <1>3 DEF InterventionsFrom
<1>5. SaidOf(us[l], l) = SaidOf(ts[l], l)
  OBVIOUS
<1>6. ToldFrom(us, l, m) = ToldFrom(ts, l, m)
  BY <1>4, <1>5 DEF ToldFrom
<1> QED
  BY <1>2, <1>6

LEMMA PairsSame ==
  ASSUME NEW ts, NEW us, NEW n \in Nat, \A k \in 1 .. n : us[k] = ts[k], NEW H, H = HistoryOf(ts, n)
  PROVE  PairsOf(us, H) = PairsOf(ts, H)
<1>1. PICK h, g : h = Len(H) /\ g = LastOf(H, HistoryTurns)
  OBVIOUS
<1>2. H \in Seq(Nat) /\ h \in Nat /\ \A k \in 1 .. h : H[k] \in 1 .. n
  BY <1>1, HistoryTyping
<1>3. /\ g \in Seq(Nat) /\ Len(g) \in Nat
      /\ \A k \in 1 .. Len(g) : h - Len(g) + k \in 1 .. h /\ g[k] = H[h - Len(g) + k]
  <2>1. H \in Seq(Nat)
    BY <1>2
  <2>2. HistoryTurns \in Nat \ {0}
    BY ContextHistoryAssumption
  <2>3. IsEnd(LastOf(H, HistoryTurns), H, HistoryTurns, Nat)
    BY <2>1, <2>2, LastOfIsEnd
  <2> QED
    BY <1>1, <2>3 DEF IsEnd
<1>4. ASSUME NEW k \in DOMAIN g
      PROVE  us[g[k]] = ts[g[k]]
  <2>1. k \in 1 .. Len(g)
    BY <1>3
  <2>2. h - Len(g) + k \in 1 .. h /\ g[k] = H[h - Len(g) + k]
    BY <1>3, <2>1
  <2>3. g[k] \in 1 .. n
    BY <1>2, <2>2
  <2> QED
    BY <2>3
<1> QED
  BY <1>1, <1>4 DEF PairsOf

\* The context of a request does not depend on the turns after it.
LEMMA RecentMore ==
  ASSUME NEW us, NEW ts, NEW t, Extended(us, ts, t)
  PROVE  RecentIn(us, Len(ts) + 1) = RecentIn(ts, Len(ts) + 1)
<1>1. PICK n, H : n = Len(ts) /\ H = HistoryOf(ts, n)
  OBVIOUS
<1>2. n \in Nat /\ n \in 0 .. n /\ n + 1 - 1 = n /\ \A k \in 1 .. n : us[k] = ts[k]
  BY <1>1 DEF Extended
<1>3. HistoryOf(us, n) = H
  BY <1>1, <1>2, HistoryMore
<1>4. PairsOf(us, H) = PairsOf(ts, H)
  BY <1>1, <1>2, PairsSame
<1>5. PICK l : l = LatestOf(ts, n) /\ l = LatestOf(us, n)
  BY <1>1, <1>3 DEF LatestOf
<1>6. H # <<>> => ToldFrom(us, l, n + 1) = ToldFrom(ts, l, n + 1)
  <2> SUFFICES ASSUME H # <<>>
               PROVE  ToldFrom(us, l, n + 1) = ToldFrom(ts, l, n + 1)
    OBVIOUS
  <2>1. l \in 1 .. n
    <3>1. LatestOf(ts, n) \in 1 .. n
      BY <1>1, <1>2, LatestTurn
    <3> QED
      BY <1>5, <3>1
  <2> QED
    BY <1>2, <2>1, ToldSame
<1>7. H = <<>> => LastOf(H, HistoryTurns) = <<>>
  BY <1>1, <1>2, LatestTurn
<1>8. PICK a, b, p : p = n + 1 /\ p - 1 = n /\ a = RecentIn(us, p) /\ b = RecentIn(ts, p)
  BY <1>2
<1>9. /\ a = <<System, Task>> \o (IF LastOf(H, HistoryTurns) = <<>> THEN <<>> ELSE FlattenSeq(PairsOf(us, H)) \o ToldFrom(us, l, p))
      /\ b = <<System, Task>> \o (IF LastOf(H, HistoryTurns) = <<>> THEN <<>> ELSE FlattenSeq(PairsOf(ts, H)) \o ToldFrom(ts, l, p))
  BY <1>1, <1>3, <1>5, <1>8 DEF RecentIn, ToldIn
<1>10. a = b
  BY <1>4, <1>6, <1>7, <1>8, <1>9
<1> QED
  BY <1>1, <1>8, <1>10

-----------------------------------------------------------------------------
(* The messages hold the last turns, and what was said since.              *)

\* Messages that were read hold what a context of the next request needs.
Recalled(ms, ts, xs, open, w) ==
  /\ Scanned(ms, xs, open, w)
  /\ Aligned(xs, HistoryOf(ts, Len(ts)), ts)
  /\ IF xs = <<>> THEN ms = Opening ELSE w = ToldIn(ts, Len(ts) + 1)
  /\ (\E i \in DOMAIN w : w[i] = Warning("unverified")) => \E n \in DOMAIN ts : ts[n].outcome = "unverified"

\* The pending answer was given to the recent context.
AskedRecently(c, xs, w) ==
  /\ messages = Append(c, Assistant(answer[1]))
  /\ c = RecentIn(turns, Len(turns) + 1)
  /\ Recalled(c, turns, xs, {}, w)

Remembered ==
  policy = "recent-history-v3" =>
    /\ status = "running" /\ answer = <<>> => \E xs, open, w : Recalled(messages, turns, xs, open, w)
    /\ status = "running" /\ answer # <<>> => \E c, xs, w : AskedRecently(c, xs, w)
    /\ RecentlyAsked(policy, turns)

LEMMA HistoryEmpty ==
  ASSUME NEW ts
  PROVE  HistoryOf(ts, 0) = <<>>
<1>1. PICK H : H = HistoryOf(ts, 0)
  OBVIOUS
<1>2. H \in Seq(Nat) /\ Len(H) \in Nat /\ \A k \in 1 .. Len(H) : H[k] \in 1 .. 0
  BY <1>1, HistoryTyping
<1>3. Len(H) = 0
  <2> SUFFICES ASSUME Len(H) # 0
               PROVE  FALSE
    OBVIOUS
  <2>1. 1 \in 1 .. Len(H)
    BY <1>2
  <2> QED
    BY <1>2, <2>1
<1> QED
  BY <1>1, <1>2, <1>3

LEMMA InitIsRemembered == Init => Remembered
<1> SUFFICES ASSUME Init
             PROVE  Remembered
  OBVIOUS
<1>1. turns = <<>> /\ messages = Opening /\ answer = <<>> /\ Len(turns) = 0
  BY DEF Init, Opening
<1>2. Scanned(Opening, <<>>, {}, <<>>)
  BY ScannedStart DEF Opening
<1>3. Aligned(<<>>, HistoryOf(turns, Len(turns)), turns)
  <2>1. HistoryOf(turns, Len(turns)) = <<>>
    BY <1>1, HistoryEmpty
  <2>2. Len(<<>>) = 0
    OBVIOUS
  <2>3. Aligned(<<>>, <<>>, turns)
    BY <2>2 DEF Aligned
  <2> QED
    BY <2>1, <2>3
<1>4. ~(\E i \in DOMAIN <<>> : (<<>>)[i] = Warning("unverified"))
  <2>1. DOMAIN <<>> = {}
    OBVIOUS
  <2> QED
    BY <2>1
<1>5. Recalled(messages, turns, <<>>, {}, <<>>)
  BY <1>1, <1>2, <1>3, <1>4 DEF Recalled
<1>6. RecentlyAsked(policy, turns)
  BY <1>1 DEF RecentlyAsked
<1> QED
  BY <1>1, <1>5, <1>6 DEF Remembered

\* There are interactions if there are turns with a receipt.
LEMMA AlignedEmpty ==
  ASSUME NEW xs \in Seq(Dialogues), NEW H \in Seq(Nat), NEW ts, Aligned(xs, H, ts)
  PROVE  xs = <<>> <=> H = <<>>
<1>1. PICK z, h : z = Len(xs) /\ h = Len(H)
  OBVIOUS
<1>2. (xs = <<>> <=> z = 0) /\ (H = <<>> <=> h = 0) /\ z \in Nat /\ h \in Nat
  BY <1>1
<1>3. HistoryTurns \in Nat \ {0}
  BY ContextHistoryAssumption
<1>4. z = h \/ (z >= HistoryTurns /\ h >= HistoryTurns)
  BY <1>1 DEF Aligned
<1> QED
  BY <1>2, <1>3, <1>4

\* The context a request is made of holds them again.
LEMMA ContextRecalls ==
  ASSUME NEW ms, NEW ts \in Seq(TurnTypes), NEW xs, NEW open, NEW w, Recalled(ms, ts, xs, open, w),
         NEW c, c = RecentHistory(ms, HistoryTurns), c # NoContext
  PROVE  c = RecentIn(ts, Len(ts) + 1) /\ \E ds : Recalled(c, ts, ds, {}, w)
<1>1. PICK n, H, p : n = Len(ts) /\ H = HistoryOf(ts, n) /\ p = n + 1
  OBVIOUS
<1>2. n \in Nat /\ p - 1 = n
  BY <1>1
<1>3. H \in Seq(Nat)
  BY <1>1, <1>2, HistoryTyping
<1>4. /\ Scanned(ms, xs, open, w) /\ Aligned(xs, H, ts)
      /\ (IF xs = <<>> THEN ms = Opening ELSE w = ToldIn(ts, p))
      /\ (\E i \in DOMAIN w : w[i] = Warning("unverified")) => \E k \in DOMAIN ts : ts[k].outcome = "unverified"
  BY <1>1 DEF Recalled
<1>5. xs \in Seq(Dialogues) /\ w \in Seq(MessageTypes)
  BY <1>4 DEF Scanned, Interventions
<1>6. xs = <<>> <=> H = <<>>
  BY <1>3, <1>4, <1>5, AlignedEmpty
<1>7. HistoryTurns \in Nat \ {0}
  BY ContextHistoryAssumption
<1>8. PICK r : r = RecentIn(ts, p)
  OBVIOUS
<1>9. r = Opening \o IF LastOf(H, HistoryTurns) = <<>> THEN <<>> ELSE FlattenSeq(PairsOf(ts, H)) \o ToldIn(ts, p)
  BY <1>1, <1>2, <1>8 DEF RecentIn, Opening
<1>10. CASE xs = <<>>
  <2>1. c = Opening
    BY <1>4, <1>7, <1>10, RecentScanned
  <2>2. LastOf(H, HistoryTurns) = <<>>
    BY <1>1, <1>2, <1>6, <1>10, LatestTurn
  <2>3. Opening \o <<>> = Opening
    <3>1. Opening \in Seq(MessageTypes)
      BY MessagesTyping DEF Opening
    <3> QED
      BY <3>1
  <2>4. c = r
    BY <1>9, <2>1, <2>2, <2>3
  <2>5. Scanned(Opening, <<>>, {}, <<>>)
    BY ScannedStart DEF Opening
  <2>6. w = <<>>
    <3>1. w = Active(Opening)
      BY <1>4, <1>10 DEF Scanned
    <3>2. <<>> = Active(Opening)
      BY <2>5 DEF Scanned
    <3> QED
      BY <3>1, <3>2
  <2>7. Recalled(c, ts, <<>>, {}, w)
    BY <1>1, <1>4, <1>10, <2>1, <2>5, <2>6 DEF Recalled
  <2> QED
    BY <1>1, <1>8, <2>4, <2>7
<1>11. CASE xs # <<>>
  <2>1. PICK ds : ds = Retained(xs, HistoryTurns)
    OBVIOUS
  <2>2. Scanned(c, ds, {}, w) /\ ds # <<>>
    BY <1>4, <1>7, <1>11, <2>1, RecentShape
  <2>3. \A k \in DOMAIN LastOf(xs, HistoryTurns) : Real(LastOf(xs, HistoryTurns)[k])
    <3>1. ~(\A k \in DOMAIN LastOf(xs, HistoryTurns) : Real(LastOf(xs, HistoryTurns)[k])) => RecentHistory(ms, HistoryTurns) = NoContext
      BY <1>4, <1>7, RecentScanned
    <3> QED
      BY <3>1
  <2>4. c = (Opening \o Flat(ds)) \o w
    <3>1. Scanned(ms, xs, open, w)
      BY <1>4
    <3>2. RecentHistory(ms, HistoryTurns) = (Opening \o Flat(Retained(xs, HistoryTurns))) \o w
      BY <1>7, <1>11, <2>3, <3>1, RecentScanned
    <3> QED
      BY <2>1, <3>2
  <2>5. Aligned(ds, H, ts) /\ Flat(ds) = FlattenSeq(PairsOf(ts, H))
    BY <1>3, <1>4, <1>5, <2>1, <2>3, AlignedRetained
  <2>6. LastOf(H, HistoryTurns) # <<>>
    BY <1>1, <1>2, <1>6, <1>11, LatestTurn
  <2>7. PICK f : f = Flat(ds) /\ f \in Seq(MessageTypes)
    <3>1. ds \in Seq(Dialogues)
      BY <2>2 DEF Scanned
    <3>2. PICK d : d = ds[1] /\ d \in Dialogues
      BY <2>2, <3>1
    <3>3. Flat(ds) \in Seq(MessageTypes)
      BY <3>1, <3>2, FlatMore
    <3> QED
      BY <3>3
  <2>8. (Opening \o f) \o w = Opening \o (f \o w)
    <3>1. Opening \in Seq(MessageTypes)
      BY MessagesTyping DEF Opening
    <3> QED
      BY <1>5, <2>7, <3>1
  <2>9. w = ToldIn(ts, p)
    BY <1>4, <1>11
  <2>10. c = r
    BY <1>9, <2>4, <2>5, <2>6, <2>7, <2>8, <2>9
  <2>11. Recalled(c, ts, ds, {}, w)
    BY <1>1, <1>4, <2>2, <2>5, <2>9 DEF Recalled
  <2> QED
    BY <1>1, <1>8, <2>10, <2>11
<1> QED
  BY <1>10, <1>11

LEMMA AskIsRemembered == Whole /\ Remembered /\ Ask => Remembered'
<1> SUFFICES ASSUME Whole, Remembered, Ask, policy = "recent-history-v3"
             PROVE  Remembered'
  BY DEF Ask, Remembered
<1>1. PICK c : c = PrepareContext(messages, policy)
  OBVIOUS
<1>2. c = RecentHistory(messages, HistoryTurns)
  BY <1>1 DEF PrepareContext
<1>3. status = "running" /\ answer = <<>> /\ policy' = policy /\ turns' = turns
  BY DEF Ask
<1>4. RecentlyAsked(policy', turns')
  BY <1>3 DEF Remembered
<1>5. CASE c = NoContext
  <2>1. status' = "interrupted"
    BY <1>1, <1>5 DEF Ask
  <2> QED
    BY <1>4, <2>1 DEF Remembered
<1>6. CASE c # NoContext
  <2>1. PICK r \in Responses : answer' = <<r>> /\ messages' = Append(c, Assistant(r))
    BY <1>1, <1>6 DEF Ask
  <2>2. PICK xs, open, w : Recalled(messages, turns, xs, open, w)
    BY <1>3 DEF Remembered
  <2>3. turns \in Seq(TurnTypes)
    BY DEF Whole, Typing
  <2>4. c = RecentIn(turns, Len(turns) + 1) /\ \E ds : Recalled(c, turns, ds, {}, w)
    BY <1>2, <1>6, <2>2, <2>3, ContextRecalls
  <2>5. PICK ds : Recalled(c, turns, ds, {}, w)
    BY <2>4
  <2>6. answer' # <<>> /\ answer'[1] = r
    BY <2>1
  <2>7. AskedRecently(c, ds, w)'
    BY <1>3, <2>1, <2>4, <2>5, <2>6 DEF AskedRecently
  <2> QED
    BY <1>4, <2>6, <2>7 DEF Remembered
<1> QED
  BY <1>5, <1>6

\* The messages with the pending answer.
LEMMA PendingScan ==
  ASSUME Typing, Answered, NEW c, NEW xs, NEW w, AskedRecently(c, xs, w)
  PROVE  /\ Scanned(messages, xs, {Len(messages)}, w) /\ c = Front(messages)
         /\ messages \in Seq(MessageTypes) /\ messages[Len(messages)] = Assistant(answer[1])
<1>1. PICK m, n : m = Assistant(answer[1]) /\ n = Len(c)
  OBVIOUS
<1>2. m \in MessageTypes /\ m.role = "assistant" /\ ~IsReceipt(m)
  BY <1>1, AnswerTyping, MessagesTyping DEF Answered, Assistant, IsReceipt
<1>3. Scanned(c, xs, {}, w) /\ messages = Append(c, m)
  BY <1>1 DEF AskedRecently, Recalled
<1>4. c \in Seq(MessageTypes)
  BY <1>3 DEF Scanned
<1>5. messages \in Seq(MessageTypes) /\ n \in Nat /\ Len(messages) = n + 1 /\ messages[n + 1] = m
  BY <1>1, <1>2, <1>3, <1>4
<1>6. OneLonger(messages, c, m, n)
  BY <1>1, <1>2, <1>3, <1>4, OneMore
<1>7. Scanned(messages, NextInteractions(xs, c, m), NextOpen({}, c, m), NextActive(w, m))
  BY <1>1, <1>2, <1>3, <1>6, ScannedMore
<1>8. NextInteractions(xs, c, m) = xs /\ NextOpen({}, c, m) = {n + 1} /\ NextActive(w, m) = w
  BY <1>1, <1>2 DEF NextInteractions, NextOpen, NextActive
<1>9. Front(messages) = c
  <2>1. Front(messages) = [i \in 1 .. n |-> messages[i]]
    <3>1. Front(messages) = SubSeq(messages, 1, n)
      BY <1>5 DEF Front
    <3>2. SubSeq(messages, 1, n) = [i \in 1 .. n |-> messages[i]]
      BY <1>5
    <3> QED
      BY <3>1, <3>2
  <2>2. c = [i \in 1 .. n |-> c[i]] /\ \A i \in 1 .. n : messages[i] = c[i]
    BY <1>1, <1>2, <1>3, <1>4
  <2> QED
    BY <2>1, <2>2
<1> QED
  BY <1>1, <1>5, <1>7, <1>8, <1>9

\* The turn of the pending answer was asked under the recent context.
LEMMA TurnIsRecent ==
  ASSUME Typing, Answered, NEW c, NEW xs, NEW w, AskedRecently(c, xs, w),
         NEW t, Pending(t, t.outcome), NEW ts, ts = Append(turns, t)
  PROVE  RecentlyAsked(policy, ts) /\ Extended(ts, turns, t)
<1>1. Extended(ts, turns, t)
  BY BeforeMore DEF Typing, Pending
<1>2. PICK k : k = Len(turns)
  OBVIOUS
<1>3. k \in Nat /\ Len(ts) = k + 1 /\ ts[k + 1] = t
  BY <1>1, <1>2 DEF Extended
<1>4. Last(ts) = t
  BY <1>3 DEF Last
<1>5. t.context = c
  BY PendingScan DEF Pending
<1>6. RecentIn(ts, k + 1) = RecentIn(turns, k + 1)
  BY <1>1, <1>2, RecentMore
<1>7. c = RecentIn(turns, k + 1)
  BY <1>2 DEF AskedRecently
<1> QED
  BY <1>1, <1>3, <1>4, <1>5, <1>6, <1>7 DEF RecentlyAsked

\* What is told with a receipt: what a context says of the latest turn.
SaidWith(t, l) == IF t.outcome = "ran" THEN SaidOf(t, l) ELSE InterventionOf(t)

\* A receipt of the pending answer, and what is said with it.
LEMMA ReceiptRecalled ==
  ASSUME Typing, Answered, NEW c, NEW xs, NEW w, AskedRecently(c, xs, w),
         NEW t, Pending(t, t.outcome), HasReceipt(t), NEW ts, ts = Append(turns, t),
         NEW m \in MessageTypes, IsReceipt(m), NEW d, d = [action |-> Assistant(answer[1]), receipt |-> m],
         Shows(d, t, LatestChars),
         NEW s, s = SaidWith(t, Len(turns) + 1), Interventions(s), \A i \in DOMAIN s : s[i] # Warning("unverified")
  PROVE  \E ys, open, v : Recalled(messages \o (<<m>> \o s), ts, ys, open, v)
<1>1. PICK n, u : n = Len(messages) /\ u = Append(messages, m)
  OBVIOUS
<1>2. /\ Scanned(messages, xs, {n}, w) /\ messages \in Seq(MessageTypes) /\ messages[n] = Assistant(answer[1])
  BY <1>1, PendingScan
<1>3. OneLonger(u, messages, m, n)
  BY <1>1, <1>2, OneMore
<1>4. m.role \notin {"system", "task"}
  BY DEF IsReceipt
<1>5. Scanned(u, NextInteractions(xs, messages, m), NextOpen({n}, messages, m), NextActive(w, m))
  BY <1>1, <1>2, <1>3, <1>4, ScannedMore
<1>6. NextInteractions(xs, messages, m) = Append(xs, d) /\ NextOpen({n}, messages, m) = {} /\ NextActive(w, m) = <<>>
  BY <1>1, <1>2 DEF NextInteractions, NextOpen, NextActive
<1>7. PICK ys : ys = Append(xs, d)
  OBVIOUS
<1>8. Scanned(u, ys, {}, <<>>)
  BY <1>5, <1>6, <1>7
<1>9. Scanned(u \o s, ys, {}, s)
  BY <1>8, ScannedTold
<1>10. u \o s = messages \o (<<m>> \o s)
  <2>1. s \in Seq(MessageTypes)
    BY DEF Interventions
  <2> QED
    BY <1>1, <1>2, <2>1
<1>11. xs \in Seq(Dialogues) /\ ys # <<>>
  <2>1. xs \in Seq(Dialogues)
    BY <1>2 DEF Scanned
  <2> QED
    BY <1>7, <2>1
<1>12. d \in Dialogues
  <2>1. answer[1] \in Answers
    BY AnswerTyping DEF Answered
  <2>2. Assistant(answer[1]) \in MessageTypes /\ Assistant(answer[1]).role = "assistant"
    BY <2>1, MessagesTyping DEF Assistant
  <2> QED
    BY <2>2 DEF Dialogues
<1>13. PICK k, l, H, G : k = Len(turns) /\ l = k + 1 /\ H = HistoryOf(turns, k) /\ G = HistoryOf(ts, l)
  OBVIOUS
<1>14. Extended(ts, turns, t)
  BY TurnIsRecent
<1>15. /\ k \in Nat /\ l \in Nat /\ l # 0 /\ Len(ts) = l /\ ts[l] = t /\ \A i \in 1 .. k : ts[i] = turns[i]
  BY <1>13, <1>14 DEF Extended
<1>16. G = Append(H, l)
  BY <1>13, <1>14, HistoryMore
<1>17. H \in Seq(Nat) /\ Len(H) \in Nat /\ \A i \in 1 .. Len(H) : H[i] \in 1 .. k
  BY <1>13, <1>15, HistoryTyping
<1>18. Aligned(xs, H, turns)
  BY <1>13 DEF AskedRecently, Recalled
<1>19. Aligned(xs, H, ts)
  BY <1>11, <1>15, <1>17, <1>18, AlignedSame
<1>20. Aligned(ys, G, ts)
  <2>1. H \in Seq(Nat) /\ Shows(d, ts[l], LatestChars)
    BY <1>15, <1>17
  <2>2. Aligned(Append(xs, d), Append(H, l), ts)
    BY <1>11, <1>12, <1>15, <1>19, <2>1, AlignedMore
  <2> QED
    BY <1>7, <1>16, <2>2
<1>21. LatestOf(ts, l) = l
  <2>1. G # <<>> /\ G[Len(G)] = l
    <3>1. H \in Seq(Nat) /\ Len(H) \in Nat /\ l \in Nat
      BY <1>15, <1>17
    <3>2. Len(G) = Len(H) + 1
      BY <1>16, <3>1
    <3>3. G[Len(H) + 1] = l
      BY <1>16, <3>1
    <3> QED
      BY <3>1, <3>2, <3>3
  <2> QED
    BY <1>13, <1>15, <2>1, LatestTurn
<1>22. ToldFrom(ts, l, l + 1) = s
  <2>1. ts[l].outcome = "ran" => ToldFrom(ts, l, l + 1) = SaidOf(ts[l], l)
    BY <1>15, ToldStart
  <2>2. ts[l].outcome # "ran" => ToldFrom(ts, l, l + 1) = InterventionOf(ts[l])
    BY <1>15, ToldStart
  <2>3. s = SaidWith(t, l) /\ ts[l] = t
    BY <1>13, <1>15
  <2>4. t.outcome = "ran" => s = SaidOf(t, l)
    BY <2>3 DEF SaidWith
  <2>5. t.outcome # "ran" => s = InterventionOf(t)
    BY <2>3 DEF SaidWith
  <2> QED
    BY <2>1, <2>2, <2>3, <2>4, <2>5
<1>23. ToldIn(ts, l + 1) = s
  <2>1. PICK p : p = l + 1 /\ p - 1 = l
    BY <1>15
  <2>2. ToldIn(ts, p) = ToldFrom(ts, l, p)
    BY <1>21, <2>1 DEF ToldIn
  <2> QED
    BY <1>22, <2>1, <2>2
<1>24. ~ \E i \in DOMAIN s : s[i] = Warning("unverified")
  OBVIOUS
<1>25. Recalled(u \o s, ts, ys, {}, s)
  BY <1>9, <1>11, <1>13, <1>15, <1>20, <1>23, <1>24 DEF Recalled
<1> QED
  BY <1>10, <1>25

\* A finish that is refused for the first time.
LEMMA UnverifiedRecalled ==
  ASSUME Typing, Answered, NEW c, NEW xs, NEW w, AskedRecently(c, xs, w), xs # <<>>,
         NEW t, Pending(t, t.outcome), t.outcome = "unverified", NEW ts, ts = Append(turns, t),
         \A n \in DOMAIN turns : turns[n].outcome # "unverified"
  PROVE  \E ys, open, v : Recalled(messages \o <<Warning("unverified")>>, ts, ys, open, v)
<1>1. PICK n, m, u, v : n = Len(messages) /\ m = Warning("unverified") /\ u = Append(messages, m) /\ v = Append(w, m)
  OBVIOUS
<1>2. /\ Scanned(messages, xs, {n}, w) /\ messages \in Seq(MessageTypes)
  BY <1>1, PendingScan
<1>3. m \in MessageTypes /\ m.role = "warning"
  BY <1>1, MessagesTyping DEF Warning
<1>4. OneLonger(u, messages, m, n) /\ ~IsReceipt(m)
  BY <1>1, <1>2, <1>3, OneMore DEF IsReceipt
<1>5. Scanned(u, NextInteractions(xs, messages, m), NextOpen({n}, messages, m), NextActive(w, m))
  BY <1>1, <1>2, <1>3, <1>4, ScannedMore
<1>6. ~(\E k \in DOMAIN w : w[k] = m)
  BY <1>1 DEF AskedRecently, Recalled
<1>7. NextInteractions(xs, messages, m) = xs /\ NextOpen({n}, messages, m) = {n} /\ NextActive(w, m) = v
  BY <1>1, <1>3, <1>4, <1>6 DEF NextInteractions, NextOpen, NextActive
<1>8. Scanned(u, xs, {n}, v)
  BY <1>5, <1>7
<1>9. PICK k, l, H : k = Len(turns) /\ l = k + 1 /\ H = HistoryOf(turns, k)
  OBVIOUS
<1>10. Extended(ts, turns, t)
  BY TurnIsRecent
<1>11. /\ k \in Nat /\ l \in Nat /\ Len(ts) = l /\ ts[l] = t /\ (\A i \in 1 .. k : ts[i] = turns[i]) /\ DOMAIN ts = 1 .. l
  BY <1>9, <1>10 DEF Extended
<1>12. HistoryOf(ts, l) = H
  <2>1. ~HasReceipt(t)
    BY DEF HasReceipt
  <2> QED
    BY <1>9, <1>10, <2>1, HistoryMore
<1>13. H \in Seq(Nat) /\ Len(H) \in Nat /\ \A i \in 1 .. Len(H) : H[i] \in 1 .. k
  BY <1>9, <1>11, HistoryTyping
<1>14. Aligned(xs, H, turns) /\ xs \in Seq(Dialogues) /\ w = ToldIn(turns, l)
  BY <1>2, <1>9 DEF AskedRecently, Recalled, Scanned
<1>15. Aligned(xs, H, ts)
  BY <1>11, <1>13, <1>14, AlignedSame
<1>16. H # <<>>
  BY <1>13, <1>14, AlignedEmpty
<1>17. PICK i : i = LatestOf(turns, k) /\ i \in 1 .. k
  <2>1. LatestOf(turns, k) \in 1 .. k
    BY <1>9, <1>11, <1>16, LatestTurn
  <2> QED
    BY <2>1
<1>18. LatestOf(ts, l) = i
  BY <1>9, <1>12, <1>17 DEF LatestOf
<1>19. w = ToldFrom(turns, i, l)
  <2>1. l - 1 = k
    BY <1>9, <1>11
  <2> QED
    BY <1>14, <1>17, <2>1 DEF ToldIn
<1>20. ToldFrom(ts, i, l) = w
  <2>1. k \in Nat /\ i \in 1 .. k /\ \A j \in 1 .. k : ts[j] = turns[j]
    BY <1>11, <1>17
  <2>2. ToldFrom(ts, i, k + 1) = ToldFrom(turns, i, k + 1)
    BY <2>1, ToldSame
  <2> QED
    BY <1>9, <1>19, <2>2
<1>21. ToldFrom(ts, i, l + 1) = w \o InterventionOf(t)
  <2>1. i \in 1 .. l
    BY <1>9, <1>11, <1>17
  <2>2. ToldFrom(ts, i, l + 1) = ToldFrom(ts, i, l) \o InterventionOf(ts[l])
    BY <1>11, <2>1, ToldMore
  <2> QED
    BY <1>11, <1>20, <2>2
<1>22. w \in Seq(MessageTypes)
  BY <1>2 DEF Scanned, Interventions
<1>23. v = w \o InterventionOf(t)
  <2>1. InterventionOf(t) = <<m>>
    BY <1>1 DEF InterventionOf
  <2>2. Append(w, m) = w \o <<m>>
    BY <1>3, <1>22
  <2> QED
    BY <1>1, <2>1, <2>2
<1>24. ToldIn(ts, l + 1) = v
  <2>1. PICK p : p = l + 1 /\ p - 1 = l
    BY <1>11
  <2>2. ToldIn(ts, p) = ToldFrom(ts, i, p)
    BY <1>18, <2>1 DEF ToldIn
  <2> QED
    BY <1>21, <1>23, <2>1, <2>2
<1>25. \E j \in DOMAIN ts : ts[j].outcome = "unverified"
  <2>1. l \in DOMAIN ts
    BY <1>9, <1>11
  <2> QED
    BY <1>11, <2>1
<1>26. Recalled(u, ts, xs, {n}, v)
  BY <1>8, <1>11, <1>12, <1>15, <1>24, <1>25 DEF Recalled
<1>27. u = messages \o <<m>>
  BY <1>1, <1>2, <1>3
<1> QED
  BY <1>1, <1>26, <1>27

-----------------------------------------------------------------------------
(* A turn more leaves messages that hold it.                               *)

LEMMA RememberedKeeps ==
  ASSUME Whole, Remembered, Answered, NEW t, Pending(t, t.outcome), turns' = Append(turns, t), answer' = <<>>, policy' = policy,
         policy = "recent-history-v3" /\ status' = "running" => \E ys, open, v : Recalled(messages', turns', ys, open, v)
  PROVE  Remembered'
<1> SUFFICES ASSUME policy = "recent-history-v3"
             PROVE  Remembered'
  BY DEF Remembered
<1>1. PICK ts : ts = Append(turns, t)
  OBVIOUS
<1>2. PICK c, xs, w : AskedRecently(c, xs, w)
  BY DEF Remembered, Answered
<1>3. RecentlyAsked(policy, ts)
  BY <1>1, <1>2, TurnIsRecent DEF Whole
<1>4. RecentlyAsked(policy', turns')
  BY <1>1, <1>3
<1> QED
  BY <1>4 DEF Remembered

LEMMA RefuseIsRemembered ==
  ASSUME Whole, Remembered, Answered, NEW t, Pending(t, t.outcome),
         t.outcome \in {"rejected", "navigation", "repeated"},
         NEW w, w = (IF t.outcome = "rejected" THEN "invalid" ELSE t.outcome), NEW fails,
         Refuse(t, <<Rejection(w), Warning(w)>>, fails)
  PROVE  Remembered'
<1>1. PICK ts, m, s, p : ts = Append(turns, t) /\ m = Rejection(w) /\ s = <<Warning(w)>> /\ p = <<Rejection(w), Warning(w)>>
  OBVIOUS
<1>2. turns' = ts /\ messages' = messages \o p /\ answer' = <<>> /\ policy' = policy
  BY <1>1 DEF Refuse
<1>3. w \in {"invalid", "navigation", "repeated"} /\ Warning(w) # Warning("unverified")
  <2>1. w \in {"invalid", "navigation", "repeated"}
    OBVIOUS
  <2> QED
    BY <2>1 DEF Warning
<1>4. m \in MessageTypes /\ IsReceipt(m)
  BY <1>1, <1>3, MessagesTyping DEF Rejection, IsReceipt
<1>5. Interventions(s) /\ DOMAIN s = {1} /\ s[1] = Warning(w)
  <2>1. Warning(w) \in MessageTypes /\ Warning(w).role = "warning"
    BY <1>3, MessagesTyping DEF Warning
  <2>2. s \in Seq(MessageTypes) /\ DOMAIN s = {1} /\ s[1] = Warning(w)
    BY <1>1, <2>1
  <2> QED
    BY <2>1, <2>2 DEF Interventions
<1>6. p = <<m>> \o s
  BY <1>1
<1>7. HasReceipt(t) /\ t.outcome # "ran"
  BY DEF HasReceipt
<1>8. PICK d : d = [action |-> Assistant(answer[1]), receipt |-> m]
  OBVIOUS
<1>9. Shows(d, t, LatestChars)
  <2>1. d = [action |-> Assistant(t.answer), receipt |-> Rejection(w)]
    BY <1>1, <1>8 DEF Pending
  <2> QED
    BY <1>7, <2>1, RefusalShows
<1>10. s = SaidWith(t, Len(turns) + 1)
  <2>1. InterventionOf(t) = s
    BY <1>1 DEF InterventionOf
  <2> QED
    BY <1>7, <2>1 DEF SaidWith
<1>11. \A i \in DOMAIN s : s[i] # Warning("unverified")
  BY <1>3, <1>5
<1>12. ASSUME policy = "recent-history-v3"
       PROVE  \E ys, open, v : Recalled(messages', turns', ys, open, v)
  <2>1. PICK c, xs, u : AskedRecently(c, xs, u)
    BY <1>12 DEF Remembered, Answered
  <2>2. Typing
    BY DEF Whole
  <2>3. \E ys, open, v : Recalled(messages \o (<<m>> \o s), ts, ys, open, v)
    BY <1>1, <1>4, <1>5, <1>7, <1>8, <1>9, <1>10, <1>11, <2>1, <2>2, ReceiptRecalled
  <2> QED
    BY <1>2, <1>6, <2>3
<1>13. turns' = Append(turns, t)
  BY <1>1, <1>2
<1> QED
  BY <1>2, <1>12, <1>13, RememberedKeeps

LEMMA EndIsRemembered ==
  ASSUME Whole, Remembered, Answered, NEW t, Pending(t, t.outcome), End(t, "completed")
  PROVE  Remembered'
<1>1. turns' = Append(turns, t) /\ answer' = <<>> /\ policy' = policy /\ status' # "running"
  BY DEF End
<1> QED
  BY <1>1, RememberedKeeps

LEMMA RejectAnswerIsRemembered == Whole /\ Remembered /\ RejectAnswer => Remembered'
<1> SUFFICES ASSUME Whole, Remembered, RejectAnswer
             PROVE  Remembered'
  OBVIOUS
<1>1. Answered /\ ~Valid
  BY DEF RejectAnswer
<1>2. Action = Invalid \/ Action.kind = "edit"
  BY <1>1 DEF Valid, Grounded
<1>3. CASE VisiblePassed /\ Patched
  <2>1. PICK t : t = Turn("unparsed")
    OBVIOUS
  <2>2. End(t, "completed")
    BY <1>3, <2>1 DEF RejectAnswer
  <2>3. Pending(t, t.outcome)
    <3>1. "unparsed" \in Outcomes \ {"ran", "repeated"}
      BY DEF Outcomes
    <3> QED
      BY <1>1, <1>2, <2>1, <3>1, PlainTurnIsWhole
  <2> QED
    BY <1>1, <2>2, <2>3, EndIsRemembered
<1>4. CASE ~(VisiblePassed /\ Patched)
  <2>1. PICK t, fails, w : t = Turn("rejected") /\ fails = (Streak >= 1) /\ w = "invalid"
    OBVIOUS
  <2>2. Refuse(t, <<Rejection(w), Warning(w)>>, fails)
    BY <1>4, <2>1 DEF RejectAnswer
  <2>3. Pending(t, t.outcome) /\ t.outcome = "rejected"
    <3>1. "rejected" \in Outcomes \ {"ran", "repeated"}
      BY DEF Outcomes
    <3> QED
      BY <1>1, <1>2, <2>1, <3>1, PlainTurnIsWhole
  <2> QED
    BY <1>1, <2>1, <2>2, <2>3, RefuseIsRemembered
<1> QED
  BY <1>3, <1>4

\* A finish that is refused although none was before goes on.
LEMMA FirstRefusal ==
  ASSUME Typing, ~(Number(RefusedFinish, turns) >= 1)
  PROVE  \A n \in DOMAIN turns : turns[n].outcome # "unverified"
<1>1. PICK I, z : I = {n \in DOMAIN turns : RefusedFinish(turns[n])} /\ z = Len(turns)
  OBVIOUS
<1>2. z \in Nat /\ DOMAIN turns = 1 .. z
  BY <1>1 DEF Typing
<1>3. IsFiniteSet(I) /\ Cardinality(I) \in Nat
  <2>1. IsFiniteSet(1 .. z)
    BY <1>2, FS_Interval
  <2>2. I \subseteq 1 .. z
    BY <1>1, <1>2
  <2>3. IsFiniteSet(I)
    BY <2>1, <2>2, FS_Subset
  <2> QED
    BY <2>3, FS_CardinalityType
<1>4. ~(Cardinality(I) >= 1)
  BY <1>1 DEF Number
<1>5. Cardinality(I) = 0
  BY <1>3, <1>4
<1>6. I = {}
  BY <1>3, <1>5, FS_EmptySet
<1> QED
  BY <1>1, <1>6 DEF RefusedFinish

\* There are interactions after a tool ran.
LEMMA AskedAfterATool ==
  ASSUME Whole, Answered, NEW c, NEW xs, NEW w, AskedRecently(c, xs, w), NEW r \in DOMAIN turns, turns[r].outcome = "ran"
  PROVE  xs # <<>>
<1>1. Typing /\ Shape
  BY DEF Whole
<1>2. PICK ds, k : ShowsLatest(ds, turns, Len(turns)) /\ Scanned(messages, ds, {Len(messages)}, k)
  BY <1>1, AnsweredScan
<1>3. Scanned(messages, xs, {Len(messages)}, w)
  BY <1>1, PendingScan
<1>4. xs = ds
  BY <1>2, <1>3 DEF Scanned
<1>5. r \in 1 .. Len(turns)
  BY <1>1 DEF Typing
<1>6. r \in Before(turns, Len(turns))
  BY <1>5 DEF Before, HasReceipt
<1> QED
  BY <1>2, <1>4, <1>6 DEF ShowsLatest

\* A finish that is refused again ends the run: the warning is told once.
LEMMA RefuseFinishIsRemembered == Whole /\ Remembered /\ RefuseFinish => Remembered'
<1> SUFFICES ASSUME Whole, Remembered, RefuseFinish
             PROVE  Remembered'
  OBVIOUS
<1>1. Answered /\ Valid /\ Action.kind = "done" /\ Patched
  BY DEF RefuseFinish, UnverifiedFinish
<1>2. PICK t, m, again : t = Turn("unverified") /\ m = Warning("unverified") /\ again = (Number(RefusedFinish, turns) >= 1)
  OBVIOUS
<1>3. /\ turns' = Append(turns, t) /\ messages' = messages \o <<m>> /\ answer' = <<>> /\ policy' = policy
      /\ again => status' = "failed"
  BY <1>2 DEF RefuseFinish, Refuse
<1>4. Pending(t, t.outcome) /\ t.outcome = "unverified"
  <2>1. "unverified" \in Outcomes \ {"ran", "repeated"}
    BY DEF Outcomes
  <2>2. Action = Done
    BY <1>1, ValidAction
  <2> QED
    BY <1>1, <1>2, <2>1, <2>2, PlainTurnIsWhole
<1>5. Typing /\ Shape /\ Progress
  BY DEF Whole
<1>6. ASSUME policy = "recent-history-v3", ~again
      PROVE  \E ys, open, v : Recalled(messages', turns', ys, open, v)
  <2>1. PICK c, xs, u : AskedRecently(c, xs, u)
    BY <1>1, <1>6 DEF Remembered, Answered
  <2>2. PICK n \in DOMAIN turns : turns[n].outcome = "ran"
    BY <1>1, <1>5 DEF Progress
  <2>3. xs # <<>>
    BY <1>1, <2>1, <2>2, AskedAfterATool
  <2>4. \A i \in DOMAIN turns : turns[i].outcome # "unverified"
    BY <1>2, <1>5, <1>6, FirstRefusal
  <2>5. PICK ts : ts = Append(turns, t)
    OBVIOUS
  <2>6. \E ys, open, v : Recalled(messages \o <<Warning("unverified")>>, ts, ys, open, v)
    BY <1>1, <1>4, <1>5, <2>1, <2>3, <2>4, <2>5, UnverifiedRecalled
  <2> QED
    BY <1>2, <1>3, <2>5, <2>6
<1>7. policy = "recent-history-v3" /\ status' = "running" => \E ys, open, v : Recalled(messages', turns', ys, open, v)
  BY <1>3, <1>6
<1> QED
  BY <1>1, <1>3, <1>4, <1>7, RememberedKeeps

LEMMA FinishIsRemembered == Whole /\ Remembered /\ Finish => Remembered'
<1> SUFFICES ASSUME Whole, Remembered, Finish
             PROVE  Remembered'
  OBVIOUS
<1>1. Answered /\ Valid /\ Action.kind = "done"
  BY DEF Finish
<1>2. PICK t : t = Turn("finished")
  OBVIOUS
<1>3. End(t, "completed")
  BY <1>2 DEF Finish
<1>4. Pending(t, t.outcome)
  <2>1. "finished" \in Outcomes \ {"ran", "repeated"}
    BY DEF Outcomes
  <2>2. Action = Done
    BY <1>1, ValidAction
  <2> QED
    BY <1>1, <1>2, <2>1, <2>2, PlainTurnIsWhole
<1> QED
  BY <1>1, <1>3, <1>4, EndIsRemembered

LEMMA RefuseReadIsRemembered == Whole /\ Remembered /\ RefuseRead => Remembered'
<1> SUFFICES ASSUME Whole, Remembered, RefuseRead
             PROVE  Remembered'
  OBVIOUS
<1>1. Answered /\ Action.kind = "read"
  BY DEF RefuseRead, TooManyReads
<1>2. PICK t, fails, w : t = Turn("navigation") /\ fails = Warned(Action.path) /\ w = "navigation"
  OBVIOUS
<1>3. Refuse(t, <<Rejection(w), Warning(w)>>, fails)
  BY <1>2 DEF RefuseRead
<1>4. Pending(t, t.outcome) /\ t.outcome = "navigation"
  <2>1. "navigation" \in Outcomes \ {"ran", "repeated"}
    BY DEF Outcomes
  <2> QED
    BY <1>1, <1>2, <2>1, PlainTurnIsWhole
<1> QED
  BY <1>1, <1>2, <1>3, <1>4, RefuseIsRemembered

LEMMA RefuseRepeatIsRemembered == Whole /\ Remembered /\ RefuseRepeat => Remembered'
<1> SUFFICES ASSUME Whole, Remembered, RefuseRepeat
             PROVE  Remembered'
  OBVIOUS
<1>1. PICK t, fails, w : t = RepeatedTurn /\ fails = Had("repeated", Signature(t)) /\ w = "repeated"
  OBVIOUS
<1>2. Runs /\ Refuse(t, <<Rejection(w), Warning(w)>>, fails)
  BY <1>1 DEF RefuseRepeat, RepeatedTurn
<1>3. Answered /\ Valid /\ answer # <<>> /\ Typing
  BY <1>2 DEF Runs, Answered, Whole
<1>4. Expected \in Contents
  BY <1>3, ExpectedTyping
<1>5. Front(messages) \in Seq(MessageTypes)
  <2>1. \E c : c = Front(messages) /\ c \in Seq(MessageTypes)
    BY <1>3, AnsweredScan DEF Whole
  <2> QED
    BY <2>1
<1>6. Pending(t, "repeated")
  BY <1>1, <1>3, <1>4, <1>5, ExpectingTurn
<1>7. t.outcome = "repeated"
  BY <1>6 DEF Pending
<1> QED
  BY <1>1, <1>2, <1>3, <1>6, <1>7, RefuseIsRemembered

\* What is told with a result, each once.
LEMMA SaidWithAResult ==
  ASSUME NEW t \in TurnTypes, t.outcome = "ran", t.receipt \in ReceiptTypes, Len(turns) \in Nat
  PROVE  \E m, s : /\ Told(t) = <<m>> \o s /\ m = Result(ToolObservation(t.action, t.receipt))
                   /\ s = SaidWith(t, Len(turns) + 1) /\ Interventions(s)
                   /\ \A i \in DOMAIN s : s[i] # Warning("unverified")
<1>1. PICK a, b, l : a = Warning("failed") /\ b = Warning("checkpoint") /\ l = Len(turns)
  OBVIOUS
<1>2. PICK v, w, m : /\ v = (IF t.receipt.ok THEN <<>> ELSE <<a>>)
                     /\ w = (IF l + 1 > CheckpointStep /\ t.after = Original THEN <<b>> ELSE <<>>)
                     /\ m = Result(ToolObservation(t.action, t.receipt))
  OBVIOUS
<1>3. /\ a \in MessageTypes /\ b \in MessageTypes /\ a.role = "warning" /\ b.role = "warning" /\ a # b
      /\ a # Warning("unverified") /\ b # Warning("unverified")
  <2>1. a \in MessageTypes /\ b \in MessageTypes
    BY <1>1, MessagesTyping
  <2> QED
    BY <1>1, <2>1 DEF Warning
<1>4. l + 1 > CheckpointStep <=> l >= CheckpointStep
  <2>1. l \in Nat /\ CheckpointStep \in Nat
    BY <1>1, ConversationAssumption
  <2> QED
    BY <2>1
<1>5. m \in MessageTypes
  BY <1>2, ObservationTyping, MessagesTyping
<1>6. v \in Seq(MessageTypes) /\ w \in Seq(MessageTypes) /\ <<m>> \in Seq(MessageTypes)
  BY <1>2, <1>3, <1>5
<1>7. PICK s : s = v \o w
  OBVIOUS
<1>8. Told(t) = <<m>> \o s
  <2>1. Told(t) = (<<m>> \o v) \o w
    BY <1>1, <1>2, <1>4 DEF Told, Observed, Checkpoint
  <2>2. (<<m>> \o v) \o w = <<m>> \o (v \o w)
    BY <1>6
  <2> QED
    BY <1>7, <2>1, <2>2
<1>9. s = SaidWith(t, l + 1)
  BY <1>1, <1>2, <1>7 DEF SaidWith, SaidOf
<1>10. s \in {<<>>, <<a>>, <<b>>, <<a, b>>}
  <2>1. <<>> \o <<>> = <<>> /\ <<a>> \o <<>> = <<a>> /\ <<>> \o <<b>> = <<b>> /\ <<a>> \o <<b>> = <<a, b>>
    <3>1. <<>> \o <<>> = <<>>
      OBVIOUS
    <3>2. <<>> \in Seq(MessageTypes) /\ <<a>> \in Seq(MessageTypes) /\ <<b>> \in Seq(MessageTypes)
      BY <1>3
    <3>3. <<a>> \o <<>> = <<a>>
      BY <3>2
    <3>4. <<>> \o <<b>> = <<b>>
      BY <3>2
    <3>5. <<a>> \o <<b>> = <<a, b>>
      <4>1. PICK x, y, z : x = <<a>> /\ y = <<b>> /\ z = x \o y
        OBVIOUS
      <4>2. Len(x) = 1 /\ Len(y) = 1 /\ x[1] = a /\ y[1] = b /\ x \in Seq(MessageTypes) /\ y \in Seq(MessageTypes)
        BY <1>3, <4>1
      <4>3. Len(z) = 2 /\ z \in Seq(MessageTypes) /\ z[1] = x[1] /\ z[2] = y[1]
        BY <4>1, <4>2
      <4>4. z = <<z[1], z[2]>>
        BY <4>3
      <4> QED
        BY <4>1, <4>2, <4>3, <4>4
    <3> QED
      BY <3>1, <3>3, <3>4, <3>5
  <2>2. v \in {<<>>, <<a>>} /\ w \in {<<>>, <<b>>}
    BY <1>2
  <2> QED
    BY <1>7, <2>1, <2>2
<1>11. Interventions(s) /\ \A i \in DOMAIN s : s[i] # Warning("unverified")
  <2>1. s \in Seq(MessageTypes)
    BY <1>6, <1>7
  <2>2. CASE s = <<>>
    <3>1. DOMAIN s = {}
      BY <2>2
    <3> QED
      BY <2>1, <3>1 DEF Interventions
  <2>3. CASE s = <<a>>
    <3>1. DOMAIN s = {1} /\ s[1] = a
      BY <2>3
    <3> QED
      BY <1>3, <2>1, <3>1 DEF Interventions
  <2>4. CASE s = <<b>>
    <3>1. DOMAIN s = {1} /\ s[1] = b
      BY <2>4
    <3> QED
      BY <1>3, <2>1, <3>1 DEF Interventions
  <2>5. CASE s = <<a, b>>
    <3>1. DOMAIN s = {1, 2} /\ s[1] = a /\ s[2] = b
      BY <2>5
    <3> QED
      BY <1>3, <2>1, <3>1 DEF Interventions
  <2> QED
    BY <1>10, <2>2, <2>3, <2>4, <2>5
<1> QED
  BY <1>1, <1>2, <1>8, <1>9, <1>11

LEMMA RunToolIsRemembered == Whole /\ Remembered /\ RunTool => Remembered'
<1> SUFFICES ASSUME Whole, Remembered, RunTool
             PROVE  Remembered'
  OBVIOUS
<1>1. PICK o, t :
           /\ Ran(o, t) /\ Pending(t, "ran") /\ TurnIsWhole(t) /\ t.outcome = "ran"
           /\ t.receipt \in ReceiptTypes
  BY SomethingRan
<1>2. Answered /\ Typing /\ Len(turns) \in Nat /\ t \in TurnTypes /\ Pending(t, t.outcome)
  BY <1>1 DEF RunTool, Runs, Whole, Typing, Pending
<1>3. PICK m, s : /\ Told(t) = <<m>> \o s /\ m = Result(ToolObservation(t.action, t.receipt))
                  /\ s = SaidWith(t, Len(turns) + 1) /\ Interventions(s)
                  /\ \A i \in DOMAIN s : s[i] # Warning("unverified")
  BY <1>1, <1>2, SaidWithAResult
<1>4. m \in MessageTypes /\ IsReceipt(m) /\ HasReceipt(t)
  <2>1. m \in MessageTypes
    BY <1>1, <1>3, ObservationTyping, MessagesTyping
  <2> QED
    BY <1>1, <1>3, <2>1 DEF Result, IsReceipt, HasReceipt
<1>5. PICK ts : ts = Append(turns, t)
  OBVIOUS
<1>6. turns' = ts /\ messages' = messages \o (<<m>> \o s) /\ answer' = <<>> /\ policy' = policy
  BY <1>1, <1>3, <1>5 DEF Ran
<1>7. PICK d : d = [action |-> Assistant(answer[1]), receipt |-> m]
  OBVIOUS
<1>8. Shows(d, t, LatestChars)
  <2>1. d = [action |-> Assistant(t.answer), receipt |-> Result(ToolObservation(t.action, t.receipt))]
    BY <1>1, <1>3, <1>7 DEF Pending
  <2>2. t.action = ParseAction(t.answer)
    BY <1>1 DEF TurnIsWhole
  <2> QED
    BY <1>1, <2>1, <2>2, ResultShows
<1>9. ASSUME policy = "recent-history-v3"
      PROVE  \E ys, open, v : Recalled(messages', turns', ys, open, v)
  <2>1. PICK c, xs, u : AskedRecently(c, xs, u)
    BY <1>2, <1>9 DEF Remembered, Answered
  <2>2. \E ys, open, v : Recalled(messages \o (<<m>> \o s), ts, ys, open, v)
    BY <1>2, <1>3, <1>4, <1>5, <1>7, <1>8, <2>1, ReceiptRecalled
  <2> QED
    BY <1>6, <2>2
<1>10. turns' = Append(turns, t)
  BY <1>5, <1>6
<1> QED
  BY <1>2, <1>6, <1>9, <1>10, RememberedKeeps

LEMMA NextIsRemembered == Whole /\ Remembered /\ [Next]_vars => Remembered'
<1> SUFFICES ASSUME Whole, Remembered, [Next]_vars
             PROVE  Remembered'
  OBVIOUS
<1>1. CASE Ask
  BY <1>1, AskIsRemembered
<1>2. CASE RejectAnswer
  BY <1>2, RejectAnswerIsRemembered
<1>3. CASE RefuseFinish
  BY <1>3, RefuseFinishIsRemembered
<1>4. CASE Finish
  BY <1>4, FinishIsRemembered
<1>5. CASE RefuseRead
  BY <1>5, RefuseReadIsRemembered
<1>6. CASE RefuseRepeat
  BY <1>6, RefuseRepeatIsRemembered
<1>7. CASE RunTool
  BY <1>7, RunToolIsRemembered
<1>8. CASE UNCHANGED vars
  <2>1. /\ policy' = policy /\ status' = status /\ answer' = answer /\ messages' = messages /\ turns' = turns
    BY <1>8 DEF vars
  <2>2. ASSUME NEW c, NEW xs, NEW w, AskedRecently(c, xs, w)
        PROVE  AskedRecently(c, xs, w)'
    BY <2>1, <2>2 DEF AskedRecently
  <2> QED
    BY <2>1, <2>2 DEF Remembered
<1> QED
  BY <1>1, <1>2, <1>3, <1>4, <1>5, <1>6, <1>7, <1>8 DEF Next, Ended

\* A request under recent-history-v3 shows the first two messages, the latest
\* interactions with what each was answered, and what was said since the latest.
\* It is made of a context that was made of a context, and so on, and still is
\* what the turns say.  (context_history.py:17-24)
THEOREM ContextsAreRecent == DataSpec /\ policy \in BoundedPolicies => []ContextIsRecent
<1>1. DataInit /\ policy \in BoundedPolicies => Whole /\ Remembered
  BY InitIsWhole, InitIsRemembered DEF DataInit
<1>2. Whole /\ Remembered /\ [DataNext]_<<vars, trainingVars>> => Whole' /\ Remembered'
  <2> SUFFICES ASSUME Whole, Remembered, [DataNext]_<<vars, trainingVars>>
               PROVE  Whole' /\ Remembered'
    OBVIOUS
  <2>1. [Next]_vars
    BY DEF DataNext, vars
  <2> QED
    BY <2>1, NextIsWhole, NextIsRemembered
<1>3. Remembered => ContextIsRecent
  <2>1. Remembered => RecentlyAsked(policy, turns)
    BY DEF Remembered, RecentlyAsked
  <2> QED
    BY <2>1, ContextIsRecentNow
<1> QED
  BY <1>1, <1>2, <1>3, PTL DEF DataSpec
-----------------------------------------------------------------------------
(* A refused finish is told in the next context, and in no earlier one.    *)

LEMMA FlattenTyping ==
  ASSUME NEW T, NEW ss \in Seq(Seq(T))
  PROVE  FlattenSeq(ss) \in Seq(T)
<1>1. PICK R, s : R = Seq(T) /\ s = <<>>
  OBVIOUS
<1>2. ss \in Seq(R) /\ s \in R /\ \A r \in R : r \in Seq(T)
  BY <1>1
<1> QED
  BY <1>2, FlattenAppend

\* What a context shows of turns: answers, results and refusals.
Displayed(ts) ==
  {Assistant(Plain(ts[n].action)) : n \in Nat} \cup {Assistant(ts[n].answer) : n \in Nat}
    \cup {Result(Truncated(ToolObservation(ts[n].action, ts[n].receipt), l)) : n \in Nat, l \in Nat}
    \cup {Rejection(IF ts[n].outcome = "rejected" THEN "invalid" ELSE ts[n].outcome) : n \in Nat}

LEMMA DisplayedIsNoWarning ==
  ASSUME NEW ts, NEW m \in Displayed(ts)
  PROVE  m.role # "warning"
BY DEF Displayed, Assistant, Result, Rejection

LEMMA ShownIsDisplayed ==
  ASSUME NEW ts, NEW n \in Nat, NEW l \in Nat
  PROVE  Shown(ts[n], l) \in Seq(Displayed(ts))
<1>1. CASE ts[n].outcome = "ran"
  <2>1. PICK a, r : a = Assistant(Plain(ts[n].action)) /\ r = Result(Truncated(ToolObservation(ts[n].action, ts[n].receipt), l))
    OBVIOUS
  <2>2. a \in Displayed(ts) /\ r \in Displayed(ts)
    BY <2>1 DEF Displayed
  <2>3. Shown(ts[n], l) = <<a, r>>
    BY <1>1, <2>1 DEF Shown
  <2> QED
    BY <2>2, <2>3
<1>2. CASE ts[n].outcome # "ran"
  <2>1. PICK a, r : a = Assistant(ts[n].answer) /\ r = Rejection(IF ts[n].outcome = "rejected" THEN "invalid" ELSE ts[n].outcome)
    OBVIOUS
  <2>2. a \in Displayed(ts) /\ r \in Displayed(ts)
    BY <2>1 DEF Displayed
  <2>3. Shown(ts[n], l) = <<a, r>>
    BY <1>2, <2>1 DEF Shown
  <2> QED
    BY <2>2, <2>3
<1> QED
  BY <1>1, <1>2

LEMMA PairsAreDisplayed ==
  ASSUME NEW ts, NEW H \in Seq(Nat)
  PROVE  FlattenSeq(PairsOf(ts, H)) \in Seq(Displayed(ts))
<1>1. PICK g, T, D : g = LastOf(H, HistoryTurns) /\ T = HistoryTurns /\ D = Seq(Displayed(ts))
  OBVIOUS
<1>2. T \in Nat \ {0}
  BY <1>1, ContextHistoryAssumption
<1>3. IsEnd(LastOf(H, T), H, T, Nat)
  BY <1>2, LastOfIsEnd
<1>4. g \in Seq(Nat) /\ Len(g) \in Nat /\ DOMAIN g = 1 .. Len(g)
  BY <1>1, <1>3 DEF IsEnd
<1>5. ASSUME NEW k \in DOMAIN g
      PROVE  Shown(ts[g[k]], IF k = Len(g) THEN LatestChars ELSE OlderChars) \in D
  <2>1. PICK l : l = (IF k = Len(g) THEN LatestChars ELSE OlderChars) /\ l \in Nat
    BY ContextHistoryAssumption
  <2>2. g[k] \in Nat
    BY <1>4
  <2> QED
    BY <1>1, <2>1, <2>2, ShownIsDisplayed
<1>6. PairsOf(ts, H) = [k \in 1 .. Len(g) |-> Shown(ts[g[k]], IF k = Len(g) THEN LatestChars ELSE OlderChars)]
  BY <1>1, <1>4 DEF PairsOf
<1>7. PairsOf(ts, H) \in Seq(D)
  <2>1. PICK n, ps : n = Len(g) /\ ps = PairsOf(ts, H)
    OBVIOUS
  <2>2. n \in Nat /\ ps = [k \in 1 .. n |-> ps[k]]
    BY <1>4, <1>6, <2>1
  <2>3. \A k \in 1 .. n : ps[k] \in D
    BY <1>4, <1>5, <1>6, <2>1
  <2>4. ps \in [1 .. n -> D]
    BY <2>2, <2>3
  <2>5. ps \in Seq(D)
    BY <2>2, <2>4
  <2> QED
    BY <2>1, <2>5
<1> QED
  BY <1>1, <1>7, FlattenTyping

\* The warnings of a context are those that are active.
LEMMA ContextWarnings ==
  ASSUME Typing, Answered, NEW c, NEW xs, NEW w, AskedRecently(c, xs, w)
  PROVE  /\ \A i \in DOMAIN c : c[i].role = "warning" => \E k \in DOMAIN w : c[i] = w[k]
         /\ xs # <<>> /\ w # <<>> => Last(c) = Last(w)
         /\ xs # <<>> => w = ToldIn(turns, Len(turns) + 1)
<1>1. PICK k, l, H : k = Len(turns) /\ l = k + 1 /\ H = HistoryOf(turns, k)
  OBVIOUS
<1>2. k \in Nat /\ l - 1 = k
  BY <1>1 DEF Typing
<1>3. H \in Seq(Nat)
  BY <1>1, <1>2, HistoryTyping
<1>4. /\ c = RecentIn(turns, l) /\ Scanned(c, xs, {}, w) /\ Aligned(xs, H, turns)
      /\ (IF xs = <<>> THEN c = Opening ELSE w = ToldIn(turns, l))
  BY <1>1 DEF AskedRecently, Recalled
<1>5. xs \in Seq(Dialogues) /\ w \in Seq(MessageTypes) /\ c \in Seq(MessageTypes)
  BY <1>4 DEF Scanned, Interventions
<1>6. CASE xs = <<>>
  <2>1. c = <<System, Task>>
    BY <1>4, <1>6 DEF Opening
  <2>2. \A i \in DOMAIN c : c[i] = System \/ c[i] = Task
    BY <2>1
  <2>3. System.role # "warning" /\ Task.role # "warning"
    BY DEF System, Task
  <2> QED
    BY <1>6, <2>2, <2>3
<1>7. CASE xs # <<>>
  <2>1. PICK f, o : f = FlattenSeq(PairsOf(turns, H)) /\ o = Opening
    OBVIOUS
  <2>2. LastOf(H, HistoryTurns) # <<>>
    <3>1. H # <<>>
      BY <1>3, <1>4, <1>5, <1>7, AlignedEmpty
    <3> QED
      BY <1>1, <1>2, <3>1, LatestTurn
  <2>3. w = ToldIn(turns, l)
    BY <1>4, <1>7
  <2>4. c = o \o (f \o w)
    BY <1>1, <1>2, <1>4, <2>1, <2>2, <2>3 DEF RecentIn, Opening
  <2>5. f \in Seq(Displayed(turns))
    BY <1>3, <2>1, PairsAreDisplayed
  <2>6. PICK a, b, d : /\ a = Len(o) /\ a = 2 /\ b = Len(f) /\ b \in Nat /\ d = Len(w) /\ d \in Nat
                       /\ \A i \in 1 .. a : o[i] = System \/ o[i] = Task
    <3>1. o = <<System, Task>>
      BY <2>1 DEF Opening
    <3>2. Len(o) = 2 /\ o[1] = System /\ o[2] = Task
      BY <3>1
    <3>3. \A i \in 1 .. 2 : i = 1 \/ i = 2
      OBVIOUS
    <3>4. \A i \in 1 .. 2 : o[i] = System \/ o[i] = Task
      BY <3>2, <3>3
    <3>5. Len(f) \in Nat /\ Len(w) \in Nat
      BY <1>5, <2>5
    <3> QED
      BY <3>2, <3>4, <3>5
  <2>7. PICK M : M = {System, Task} \cup Displayed(turns) \cup MessageTypes
    OBVIOUS
  <2>8. o \in Seq(M) /\ f \in Seq(M) /\ w \in Seq(M)
    <3>1. System \in M /\ Task \in M
      BY <2>7
    <3>2. o \in Seq(M)
      BY <2>1, <3>1 DEF Opening
    <3> QED
      BY <1>5, <2>5, <2>7, <3>2
  <2>9. /\ Len(f \o w) = b + d /\ f \o w \in Seq(M)
        /\ \A i \in 1 .. b : (f \o w)[i] = f[i]
        /\ \A i \in 1 .. d : (f \o w)[b + i] = w[i]
    BY <2>6, <2>8
  <2>10. PICK r : r = f \o w
    OBVIOUS
  <2>11. /\ Len(o \o r) = a + (b + d) /\ DOMAIN (o \o r) = 1 .. a + (b + d)
         /\ \A i \in 1 .. a : (o \o r)[i] = o[i]
         /\ \A i \in 1 .. b + d : (o \o r)[a + i] = r[i]
    <3>1. o \in Seq(M) /\ r \in Seq(M) /\ Len(r) = b + d /\ Len(o) = a /\ b + d \in Nat
      BY <2>6, <2>8, <2>9, <2>10
    <3>2. Len(o \o r) = Len(o) + Len(r)
      BY <3>1
    <3>3. DOMAIN (o \o r) = 1 .. Len(o) + Len(r)
      BY <3>1
    <3>4. \A i \in 1 .. Len(o) : (o \o r)[i] = o[i]
      BY <3>1
    <3>5. \A i \in 1 .. Len(r) : (o \o r)[Len(o) + i] = r[i]
      BY <3>1
    <3> QED
      BY <3>1, <3>2, <3>3, <3>4, <3>5
  <2>12. ASSUME NEW i \in DOMAIN c, c[i].role = "warning"
         PROVE  \E j \in DOMAIN w : c[i] = w[j]
    <3>1. CASE i \in 1 .. a
      <4>1. c[i] = o[i]
        BY <2>4, <2>10, <2>11, <3>1
      <4>2. o[i] = System \/ o[i] = Task
        BY <2>6, <3>1
      <4>3. c[i].role # "warning"
        BY <4>1, <4>2 DEF System, Task
      <4> QED
        BY <2>12, <4>3
    <3>2. CASE i \in a + 1 .. a + b
      <4>1. PICK j : j \in 1 .. b /\ i = a + j
        <5>1. i - a \in 1 .. b /\ i = a + (i - a)
          BY <2>6, <3>2
        <5> QED
          BY <5>1
      <4>2. j \in 1 .. b + d
        BY <2>6, <4>1
      <4>3. c[i] = f[j]
        BY <2>4, <2>9, <2>10, <2>11, <4>1, <4>2
      <4>4. f[j] \in Displayed(turns)
        BY <2>5, <2>6, <4>1
      <4> QED
        BY <2>12, <4>3, <4>4, DisplayedIsNoWarning
    <3>3. CASE i \in a + b + 1 .. a + (b + d)
      <4>1. PICK j : j \in 1 .. d /\ i = a + (b + j) /\ b + j \in 1 .. b + d
        <5>1. i - a - b \in 1 .. d /\ i = a + (b + (i - a - b)) /\ b + (i - a - b) \in 1 .. b + d
          BY <2>6, <3>3
        <5> QED
          BY <5>1
      <4>2. c[i] = w[j]
        BY <2>4, <2>9, <2>10, <2>11, <4>1
      <4>3. j \in DOMAIN w
        BY <1>5, <2>6, <4>1
      <4> QED
        BY <4>2, <4>3
    <3>4. i \in 1 .. a + (b + d)
      BY <2>4, <2>10, <2>11
    <3>5. i \in 1 .. a \/ i \in a + 1 .. a + b \/ i \in a + b + 1 .. a + (b + d)
      BY <2>6, <3>4
    <3> QED
      BY <3>1, <3>2, <3>3, <3>5
  <2>13. ASSUME w # <<>>
         PROVE  Last(c) = Last(w)
    <3>1. d # 0
      BY <1>5, <2>6, <2>13
    <3>2. d \in 1 .. d /\ b + d \in 1 .. b + d
      BY <2>6, <3>1
    <3>3. Len(c) = a + (b + d)
      BY <2>4, <2>10, <2>11
    <3>4. c[a + (b + d)] = w[d]
      BY <2>4, <2>9, <2>10, <2>11, <3>2
    <3> QED
      BY <2>6, <3>3, <3>4 DEF Last
  <2> QED
    BY <1>1, <1>7, <2>3, <2>12, <2>13
<1> QED
  BY <1>6, <1>7

\* The only refused finish is told in the next context, and in no earlier one.
ToldOnce(ts, n) ==
  /\ ~Contains(ts[n].context, Warning("unverified"))
  /\ n + 1 \in DOMAIN ts => Last(ts[n + 1].context) = Warning("unverified")

\* A finish is refused for a patch, so a tool ran, and once unless the run fails.
Refusals ==
  /\ \A n \in DOMAIN turns : turns[n].outcome = "unverified" => \E r \in 1 .. n - 1 : turns[r].outcome = "ran"
  /\ status \in {"running", "completed"} =>
       /\ \A m, n \in DOMAIN turns : turns[m].outcome = "unverified" /\ turns[n].outcome = "unverified" => m = n
       /\ policy = "recent-history-v3" => \A n \in DOMAIN turns : turns[n].outcome = "unverified" => ToldOnce(turns, n)

LEMMA LastTold ==
  ASSUME NEW ts, NEW k \in Nat, LatestOf(ts, k) \in 1 .. k, ts[k].outcome = "unverified", NEW w, w = ToldIn(ts, k + 1)
  PROVE  w # <<>> /\ Last(w) = Warning("unverified")
<1>1. PICK l, i, m : l = k + 1 /\ l - 1 = k /\ i = LatestOf(ts, k) /\ i \in 1 .. k /\ m = Warning("unverified")
  OBVIOUS
<1>2. w = ToldFrom(ts, i, l)
  BY <1>1 DEF ToldIn
<1>3. ToldFrom(ts, i, k + 1) = ToldFrom(ts, i, k) \o InterventionOf(ts[k])
  BY <1>1, ToldMore
<1>4. PICK s : s = ToldFrom(ts, i, k) /\ s \in Seq(MessageTypes)
  <2>1. SaidOf(ts[i], i) \in Seq(MessageTypes) /\ InterventionsFrom(ts, i, k) \in Seq(MessageTypes)
    BY <1>1, SaidTyping, InterventionsMore
  <2>2. SaidOf(ts[i], i) \o InterventionsFrom(ts, i, k) \in Seq(MessageTypes)
    BY <2>1
  <2>3. ToldFrom(ts, i, k) \in Seq(MessageTypes)
    BY <2>2 DEF ToldFrom
  <2> QED
    BY <2>3
<1>5. InterventionOf(ts[k]) = <<m>> /\ m \in MessageTypes
  BY <1>1, MessagesTyping DEF InterventionOf
<1>6. w = s \o <<m>>
  BY <1>1, <1>2, <1>3, <1>4, <1>5
<1>7. w = Append(s, m)
  BY <1>4, <1>5, <1>6
<1>8. Len(w) = Len(s) + 1 /\ w[Len(s) + 1] = m
  BY <1>4, <1>5, <1>7
<1>9. w # <<>>
  BY <1>4, <1>8
<1> QED
  BY <1>1, <1>8, <1>9 DEF Last

\* The context after a refused finish ends with the refusal.
LEMMA RefusalComesLast ==
  ASSUME Whole, Answered, NEW c, NEW xs, NEW w, AskedRecently(c, xs, w),
         NEW k, k = Len(turns), k \in DOMAIN turns, turns[k].outcome = "unverified",
         NEW r \in DOMAIN turns, turns[r].outcome = "ran"
  PROVE  Last(c) = Warning("unverified")
<1>1. Typing
  BY DEF Whole
<1>2. xs # <<>>
  BY AskedAfterATool
<1>3. PICK H : H = HistoryOf(turns, k) /\ k \in Nat
  BY <1>1 DEF Typing
<1>4. H \in Seq(Nat) /\ Aligned(xs, H, turns) /\ xs \in Seq(Dialogues)
  <2>1. H \in Seq(Nat)
    BY <1>3, HistoryTyping
  <2> QED
    BY <1>3, <2>1 DEF AskedRecently, Recalled, Scanned
<1>5. H # <<>>
  BY <1>2, <1>4, AlignedEmpty
<1>6. LatestOf(turns, k) \in 1 .. k
  BY <1>3, <1>5, LatestTurn
<1>7. w = ToldIn(turns, k + 1)
  <2>1. w = ToldIn(turns, Len(turns) + 1)
    BY <1>1, <1>2, ContextWarnings
  <2> QED
    BY <2>1
<1>8. w # <<>> /\ Last(w) = Warning("unverified")
  BY <1>3, <1>6, <1>7, LastTold
<1>9. Last(c) = Last(w)
  BY <1>1, <1>2, <1>8, ContextWarnings
<1> QED
  BY <1>8, <1>9

\* Without a refused finish no context tells of one.
LEMMA NothingRefused ==
  ASSUME Typing, Answered, NEW c, NEW xs, NEW w, AskedRecently(c, xs, w), \A n \in DOMAIN turns : turns[n].outcome # "unverified"
  PROVE  ~Contains(c, Warning("unverified"))
<1> SUFFICES ASSUME Contains(c, Warning("unverified"))
             PROVE  FALSE
  OBVIOUS
<1>1. c \in Seq(MessageTypes)
  BY DEF AskedRecently, Recalled, Scanned
<1>2. PICK i \in DOMAIN c : c[i] = Warning("unverified")
  BY <1>1 DEF Contains
<1>3. c[i].role = "warning"
  BY <1>2 DEF Warning
<1>4. PICK k \in DOMAIN w : w[k] = Warning("unverified")
  BY <1>2, <1>3, ContextWarnings
<1>5. \E n \in DOMAIN turns : turns[n].outcome = "unverified"
  BY <1>4 DEF AskedRecently, Recalled
<1> QED
  BY <1>5

LEMMA RefusalsMore ==
  ASSUME Whole, Remembered, Refusals, Answered, NEW t, Pending(t, t.outcome), turns' = Append(turns, t), policy' = policy,
         t.outcome = "unverified" =>
           /\ \E r \in DOMAIN turns : turns[r].outcome = "ran"
           /\ status' \in {"running", "completed"} => \A n \in DOMAIN turns : turns[n].outcome # "unverified"
  PROVE  Refusals'
<1>1. PICK ts, k, l : ts = Append(turns, t) /\ k = Len(turns) /\ l = k + 1
  OBVIOUS
<1>2. Typing /\ turns \in Seq(TurnTypes) /\ t \in TurnTypes /\ status = "running"
  BY DEF Whole, Typing, Pending, Answered
<1>3. /\ k \in Nat /\ l \in Nat /\ DOMAIN turns = 1 .. k /\ DOMAIN ts = 1 .. l /\ ts[l] = t
      /\ \A n \in 1 .. k : ts[n] = turns[n] /\ n \in 1 .. l /\ n # l
  BY <1>1, <1>2
<1>4. \A n \in 1 .. l : n \in 1 .. k \/ n = l
  BY <1>1, <1>3
<1>5. ASSUME NEW n \in DOMAIN ts, ts[n].outcome = "unverified"
      PROVE  \E r \in 1 .. n - 1 : ts[r].outcome = "ran"
  <2>1. CASE n \in 1 .. k
    <3>1. PICK r \in 1 .. n - 1 : turns[r].outcome = "ran"
      BY <1>3, <1>5, <2>1 DEF Refusals
    <3>2. r \in 1 .. k
      BY <1>3, <2>1, <3>1
    <3> QED
      BY <1>3, <3>1, <3>2
  <2>2. CASE n = l
    <3>1. PICK r \in DOMAIN turns : turns[r].outcome = "ran"
      BY <1>3, <1>5, <2>2
    <3>2. r \in 1 .. n - 1 /\ r \in 1 .. k
      BY <1>1, <1>3, <2>2, <3>1
    <3> QED
      BY <1>3, <3>1, <3>2
  <2> QED
    BY <1>3, <1>4, <2>1, <2>2
<1>6. ASSUME status' \in {"running", "completed"}, NEW m \in DOMAIN ts, NEW n \in DOMAIN ts,
             ts[m].outcome = "unverified", ts[n].outcome = "unverified"
      PROVE  m = n
  <2>1. CASE m \in 1 .. k /\ n \in 1 .. k
    <3>1. turns[m].outcome = "unverified" /\ turns[n].outcome = "unverified" /\ m \in DOMAIN turns /\ n \in DOMAIN turns
      BY <1>3, <1>6, <2>1
    <3> QED
      BY <1>2, <3>1 DEF Refusals
  <2>2. CASE m = l \/ n = l
    <3>1. \A i \in 1 .. k : ts[i].outcome # "unverified"
      BY <1>3, <1>6, <2>2
    <3> QED
      BY <1>3, <1>4, <1>6, <3>1
  <2> QED
    BY <1>3, <1>4, <2>1, <2>2
<1>7. ASSUME status' \in {"running", "completed"}, policy = "recent-history-v3", NEW n \in DOMAIN ts, ts[n].outcome = "unverified"
      PROVE  ToldOnce(ts, n)
  <2>1. PICK c, xs, w : AskedRecently(c, xs, w)
    BY <1>2, <1>7 DEF Remembered, Answered
  <2>2. t.context = c
    BY <1>2, <2>1, PendingScan DEF Pending
  <2>3. CASE n = l
    <3>1. \A i \in DOMAIN turns : turns[i].outcome # "unverified"
      BY <1>3, <1>7, <2>3
    <3>2. ~Contains(c, Warning("unverified"))
      BY <1>2, <2>1, <3>1, NothingRefused
    <3>3. n + 1 \notin DOMAIN ts
      BY <1>3, <2>3
    <3> QED
      BY <1>3, <2>2, <2>3, <3>2, <3>3 DEF ToldOnce
  <2>4. CASE n \in 1 .. k
    <3>1. turns[n].outcome = "unverified" /\ ts[n] = turns[n] /\ n \in DOMAIN turns
      BY <1>3, <1>7, <2>4
    <3>2. ToldOnce(turns, n)
      BY <1>2, <1>7, <3>1 DEF Refusals
    <3>3. ~Contains(ts[n].context, Warning("unverified"))
      BY <3>1, <3>2 DEF ToldOnce
    <3>4. CASE n = k
      <4>1. PICK r \in 1 .. k - 1 : turns[r].outcome = "ran"
        BY <3>1, <3>4 DEF Refusals
      <4>2. r \in DOMAIN turns /\ k \in DOMAIN turns
        BY <1>3, <2>4, <3>4, <4>1
      <4>3. turns[k].outcome = "unverified"
        BY <3>1, <3>4
      <4>4. Last(c) = Warning("unverified")
        BY <1>1, <2>1, <4>1, <4>2, <4>3, RefusalComesLast
      <4>5. ts[n + 1].context = c
        BY <1>1, <1>3, <2>2, <3>4
      <4> QED
        BY <3>3, <4>4, <4>5 DEF ToldOnce
    <3>5. CASE n # k
      <4>1. PICK i : i = n + 1 /\ i \in 1 .. k
        BY <1>3, <2>4, <3>5
      <4>2. Last(turns[i].context) = Warning("unverified")
        BY <1>3, <3>2, <4>1 DEF ToldOnce
      <4>3. ts[i] = turns[i]
        BY <1>3, <4>1
      <4> QED
        BY <3>3, <4>1, <4>2, <4>3 DEF ToldOnce
    <3> QED
      BY <3>4, <3>5
  <2> QED
    BY <1>3, <1>4, <2>3, <2>4
<1>8. turns' = ts
  BY <1>1
<1> QED
  BY <1>5, <1>6, <1>7, <1>8 DEF Refusals

LEMMA RefuseFinishHasRefusals == Whole /\ Remembered /\ Refusals /\ RefuseFinish => Refusals'
<1> SUFFICES ASSUME Whole, Remembered, Refusals, RefuseFinish
             PROVE  Refusals'
  OBVIOUS
<1>1. Answered /\ Valid /\ Action.kind = "done" /\ Patched
  BY DEF RefuseFinish, UnverifiedFinish
<1>2. PICK t : t = Turn("unverified")
  OBVIOUS
<1>3. /\ turns' = Append(turns, t) /\ policy' = policy
      /\ Number(RefusedFinish, turns) >= 1 => status' = "failed"
  BY <1>2 DEF RefuseFinish, Refuse
<1>4. Pending(t, t.outcome)
  <2>1. "unverified" \in Outcomes \ {"ran", "repeated"}
    BY DEF Outcomes
  <2>2. Action = Done
    BY <1>1, ValidAction
  <2> QED
    BY <1>1, <1>2, <2>1, <2>2, PlainTurnIsWhole
<1>5. Typing /\ Progress
  BY DEF Whole
<1>6. \E r \in DOMAIN turns : turns[r].outcome = "ran"
  BY <1>1, <1>5 DEF Progress
<1>7. status' \in {"running", "completed"} => \A n \in DOMAIN turns : turns[n].outcome # "unverified"
  BY <1>3, <1>5, FirstRefusal
<1> QED
  BY <1>1, <1>3, <1>4, <1>6, <1>7, RefusalsMore

\* The turns that end otherwise.
LEMMA OtherTurns ==
  ASSUME RejectAnswer \/ Finish \/ RefuseRead \/ RefuseRepeat
  PROVE  Answered /\ policy' = policy /\ \E u : turns' = Append(turns, u) /\ u.outcome # "unverified"
<1>1. \A o : Turn(o).outcome = o
  BY DEF Turn
<1>2. CASE RejectAnswer
  <2>1. CASE VisiblePassed /\ Patched
    <3>1. turns' = Append(turns, Turn("unparsed")) /\ policy' = policy
      BY <1>2, <2>1 DEF RejectAnswer, End
    <3>2. Turn("unparsed").outcome # "unverified"
      BY <1>1
    <3> QED
      BY <1>2, <3>1, <3>2 DEF RejectAnswer
  <2>2. CASE ~(VisiblePassed /\ Patched)
    <3>1. turns' = Append(turns, Turn("rejected")) /\ policy' = policy
      BY <1>2, <2>2 DEF RejectAnswer, Refuse
    <3>2. Turn("rejected").outcome # "unverified"
      BY <1>1
    <3> QED
      BY <1>2, <3>1, <3>2 DEF RejectAnswer
  <2> QED
    BY <2>1, <2>2
<1>3. CASE Finish
  <2>1. turns' = Append(turns, Turn("finished")) /\ policy' = policy
    BY <1>3 DEF Finish, End
  <2>2. Turn("finished").outcome # "unverified"
    BY <1>1
  <2> QED
    BY <1>3, <2>1, <2>2 DEF Finish
<1>4. CASE RefuseRead
  <2>1. turns' = Append(turns, Turn("navigation")) /\ policy' = policy
    BY <1>4 DEF RefuseRead, Refuse
  <2>2. Turn("navigation").outcome # "unverified"
    BY <1>1
  <2> QED
    BY <1>4, <2>1, <2>2 DEF RefuseRead
<1>5. CASE RefuseRepeat
  <2>1. turns' = Append(turns, RepeatedTurn) /\ policy' = policy
    BY <1>5 DEF RefuseRepeat, Refuse, RepeatedTurn
  <2>2. RepeatedTurn.outcome # "unverified"
    BY DEF RepeatedTurn, Turn
  <2> QED
    BY <1>5, <2>1, <2>2 DEF RefuseRepeat, Runs
<1> QED
  BY <1>2, <1>3, <1>4, <1>5

LEMMA NextHasRefusals == Whole /\ Remembered /\ Refusals /\ [Next]_vars => Refusals'
<1> SUFFICES ASSUME Whole, Remembered, Refusals, [Next]_vars
             PROVE  Refusals'
  OBVIOUS
<1>1. Typing /\ turns \in Seq(TurnTypes)
  BY DEF Whole, Typing
<1>2. CASE RefuseFinish
  BY <1>2, RefuseFinishHasRefusals
<1>3. CASE Ask \/ Ended \/ UNCHANGED vars
  <2>1. turns' = turns /\ policy' = policy /\ (status' = status \/ status' = "interrupted")
    BY <1>3 DEF Ask, Ended, vars
  <2> QED
    BY <2>1 DEF Refusals
<1>4. CASE RunTool
  <2>1. PICK o, t : Ran(o, t) /\ Pending(t, "ran") /\ t.outcome = "ran"
    BY <1>4, SomethingRan
  <2>2. turns' = Append(turns, t) /\ policy' = policy /\ Pending(t, t.outcome) /\ t.outcome # "unverified"
    BY <2>1 DEF Ran
  <2>3. Answered
    BY <1>4 DEF RunTool, Runs
  <2> QED
    BY <2>2, <2>3, RefusalsMore
<1>5. CASE (RejectAnswer \/ Finish \/ RefuseRead \/ RefuseRepeat) /\ ~RunTool
  <2>1. PICK u : Answered /\ policy' = policy /\ turns' = Append(turns, u) /\ u.outcome # "unverified"
    BY <1>5, OtherTurns
  <2>2. Len(Append(turns, u)) = Len(turns) + 1 /\ Append(turns, u)[Len(turns) + 1] = u /\ Len(turns) \in Nat
    BY <1>1
  <2>3. turns' # turns
    BY <2>1, <2>2
  <2>4. PICK t : Pending(t, t.outcome) /\ turns' = Append(turns, t)
    BY <1>5, <2>3, QuietSteps
  <2>5. Append(turns, t)[Len(turns) + 1] = t
    BY <1>1
  <2>6. t = u
    BY <2>1, <2>2, <2>4, <2>5
  <2> QED
    BY <2>1, <2>4, <2>6, RefusalsMore
<1> QED
  BY <1>2, <1>3, <1>4, <1>5 DEF Next

LEMMA InitHasRefusals == Init => Refusals
<1> SUFFICES ASSUME Init
             PROVE  Refusals
  OBVIOUS
<1>1. turns = <<>> /\ DOMAIN turns = {}
  BY DEF Init
<1> QED
  BY <1>1 DEF Refusals


-----------------------------------------------------------------------------
(* A completed run is converted.                                           *)

\* The request of each turn begins with the task ...
LEMMA RequestIsOpened ==
  ASSUME Whole, NEW n \in DOMAIN turns
  PROVE  Len(turns[n].context) >= 2 /\ turns[n].context[1] = System /\ turns[n].context[2] = Task
<1>1. PICK xs, w : Scanned(turns[n].context, xs, {}, w)
  BY DEF Whole, Shape, Contextual
<1> QED
  BY <1>1 DEF Scanned

\* The refused finishes of a run, if any, are told under its policy.
Forgets == policy = "last-action-v2" /\ \E n \in DOMAIN turns : turns[n].outcome = "unverified"

\* ... and is accepted after the turns before it.
LEMMA RunIsAskable ==
  ASSUME Whole, Refusals, status = "completed", ~Forgets, NEW n \in DOMAIN turns
  PROVE  Askable(LeftAt(turns, n - 1), turns[n])
<1>1. PICK k : k = n - 1
  OBVIOUS
<1>2. turns \in Seq(TurnTypes)
  BY DEF Whole, Typing
<1>3. k \in Nat /\ n = k + 1 /\ k + 1 \in DOMAIN turns /\ (k # 0 => k \in DOMAIN turns /\ k # Len(turns))
  BY <1>1, <1>2
<1>4. PICK t, p : t = turns[n] /\ p = LeftAt(turns, k)
  OBVIOUS
<1>5. Len(t.context) >= 2 /\ t.context[1] = System /\ t.context[2] = Task
  BY <1>4, RequestIsOpened
<1>6. k # 0 => turns[k].outcome \notin {"finished", "unparsed"}
  BY <1>3 DEF Whole, Progress
<1>7. CASE k = 0 \/ turns[k].outcome # "unverified"
  <2>1. p = <<>>
    BY <1>4, <1>6, <1>7 DEF LeftAt
  <2> QED
    BY <1>1, <1>4, <1>5, <2>1 DEF Askable
<1>8. CASE k # 0 /\ turns[k].outcome = "unverified"
  <2>1. PICK q : q = Asking(turns[k])
    OBVIOUS
  <2>2. p = <<q>>
    BY <1>4, <1>8, <2>1 DEF LeftAt
  <2>3. p[1] = q
    BY <2>2
  <2>4. TurnIsWhole(turns[k])
    BY <1>3, <1>8 DEF Whole, Typing
  <2>5. turns[k].action = Done
    BY <1>8, <2>4 DEF TurnIsWhole
  <2>6. q.action = Done /\ q.context = turns[k].context
    BY <2>1, <2>5 DEF Asking
  <2>7. policy = "recent-history-v3"
    BY <1>3, <1>8 DEF Forgets, Whole, Typing, BoundedPolicies
  <2>8. ToldOnce(turns, k)
    BY <1>3, <1>8, <2>7 DEF Refusals
  <2>9. ~Contains(turns[k].context, Warning("unverified")) /\ Last(turns[k + 1].context) = Warning("unverified")
    BY <1>3, <2>8 DEF ToldOnce
  <2>10. Last(t.context) = Warning("unverified")
    BY <1>3, <1>4, <2>9
  <2>11. ModelEvent(t).context = t.context
    BY DEF ModelEvent
  <2>12. ObservedFinishRejection(q.context, ModelEvent(t))
    BY <2>6, <2>9, <2>10, <2>11 DEF ObservedFinishRejection
  <2> QED
    BY <1>1, <1>4, <1>5, <2>3, <2>6, <2>12 DEF Askable
<1> QED
  BY <1>7, <1>8

\* Its receipt is accepted too: every action that ran can be shown.
LEMMA RunIsReceivable ==
  ASSUME Whole, status = "completed", NEW n \in DOMAIN turns, NEW os, Founded(turns[n], os)
  PROVE  Receivable(turns[n], os)
<1>1. PICK t : t = turns[n]
  OBVIOUS
<1>2. TurnIsWhole(t)
  BY <1>1 DEF Whole, Typing
<1>3. t.outcome = "ran" => Executable(t.action)
  BY <1>1 DEF Whole, Progress
<1>4. t.outcome = "ran" => Observable(t.action, t.receipt)
  BY <1>2 DEF TurnIsWhole, Observable
<1>5. Founded(t, os)
  BY <1>1
<1>6. t.outcome = "navigation" => t.action.kind = "read"
  BY <1>2 DEF TurnIsWhole
<1> QED
  BY <1>1, <1>3, <1>4, <1>5, <1>6 DEF Founded, Receivable

\* All answers are assistant messages of the row, if all can be parsed.
LEMMA NothingDropped ==
  ASSUME Typing, ~MalformedAnswers
  PROVE  ModelTexts = RowTexts /\ Len(ModelTexts) = Len(turns) /\ ModelTexts \in Seq(Answers)
<1>1. PICK k : k = Len(turns) /\ k \in Nat /\ DOMAIN turns = 1 .. k /\ \A n \in 1 .. k : turns[n] \in TurnTypes
  BY DEF Typing
<1>2. ModelTexts = [n \in 1 .. k |-> turns[n].answer]
  BY <1>1 DEF ModelTexts
<1>3. \A n \in 1 .. k : turns[n].answer \in Answers
  BY <1>1 DEF TurnTypes
<1>4. ModelTexts \in Seq(Answers) /\ Len(ModelTexts) = k /\ DOMAIN ModelTexts = 1 .. k
  BY <1>1, <1>2, <1>3
<1>5. PICK I : I = {n \in DOMAIN turns : Parses(ModelTexts[n])}
  OBVIOUS
<1>6. DOMAIN ModelTexts \subseteq I
  BY <1>1, <1>2, <1>4, <1>5 DEF MalformedAnswers
<1>7. Picked(ModelTexts, I) = ModelTexts
  BY <1>4, <1>6, PickedAll
<1>8. RowTexts = Picked(ModelTexts, I)
  BY <1>5 DEF RowTexts
<1> QED
  BY <1>1, <1>4, <1>7, <1>8

\* A seed without a malformed answer whose finishes were told is converted.
LEMMA ConvertibleRun ==
  ASSUME Whole, Watched, Refusals, SeedOk, ~MalformedAnswers, ~Forgets
  PROVE  Converted # <<>>
<1>1. PICK k, last : k = Len(turns) /\ last = turns[k]
  OBVIOUS
<1>2. status = "completed" /\ turns \in Seq(TurnTypes) /\ turns # <<>> /\ last.outcome \in {"finished", "unparsed"}
  BY <1>1 DEF SeedOk, Whole, Typing, Progress
<1>3. k \in Nat /\ k # 0 /\ DOMAIN turns = 1 .. k /\ k \in DOMAIN turns /\ last \in TurnTypes
  BY <1>1, <1>2
<1>4. ModelTexts = RowTexts /\ Len(ModelTexts) = k /\ ModelTexts \in Seq(Answers)
  BY <1>1, NothingDropped DEF Whole
<1>5. last.action = Done
  <2>1. Last(RowTexts) = ModelTexts[k]
    BY <1>4 DEF Last
  <2>2. ModelTexts[k] = last.answer
    BY <1>1, <1>3 DEF ModelTexts
  <2>3. ParseAction(last.answer) = Done
    BY <2>1, <2>2 DEF SeedOk
  <2>4. TurnIsWhole(last)
    BY <1>1, <1>3 DEF Whole, Typing
  <2> QED
    BY <2>3, <2>4 DEF TurnIsWhole
<1>6. PICK end : end = Fold[Len(Events)]
  OBVIOUS
<1>7. PICK g : /\ IsWatch(g, turns) /\ g[Len(turns)] = observations
               /\ \A n \in DOMAIN turns : Founded(turns[n], g[n - 1])
  BY DEF Watched
<1>8. Known(end, turns, observations) /\ (end.ok <=> \A n \in DOMAIN turns : AcceptedAt(turns, g, n))
  <2>1. Events = EventsIn(turns)
    BY DEF Events, EventsIn
  <2>2. Len(Events) \in Nat
    <3>1. Events \in Seq(EventTypes)
      BY <1>2, <1>3, <2>1, EventsMore
    <3> QED
      BY <3>1
  <2>3. IsFold(Fold, EventsIn(turns))
    BY <2>1, <2>2, FoldIsFold
  <2>4. ConvertsTo(turns) /\ \A n \in DOMAIN turns : TurnIsWhole(turns[n])
    BY <1>2, ConvertsToAll DEF Whole, Typing
  <2> QED
    BY <1>6, <1>7, <2>1, <2>3, <2>4 DEF ConvertsTo
<1>9. \A n \in DOMAIN turns : AcceptedAt(turns, g, n)
  <2> SUFFICES ASSUME NEW n \in DOMAIN turns
               PROVE  AcceptedAt(turns, g, n)
    OBVIOUS
  <2>1. Askable(LeftAt(turns, n - 1), turns[n])
    BY <1>2, RunIsAskable
  <2>2. PICK os : os = g[n - 1]
    OBVIOUS
  <2>3. Founded(turns[n], os)
    BY <1>7, <2>2
  <2>4. Receivable(turns[n], os)
    BY <1>2, <2>3, RunIsReceivable
  <2> QED
    BY <2>1, <2>2, <2>4 DEF AcceptedAt
<1>10. end.ok /\ end.pending = LeftAt(turns, k)
  BY <1>1, <1>8, <1>9 DEF Known
<1>11. PICK q : q = Asking(last)
  OBVIOUS
<1>12. end.pending = <<q>>
  BY <1>1, <1>2, <1>3, <1>10, <1>11 DEF LeftAt
<1>13. end.pending # <<>> /\ end.pending[1] = q
  BY <1>12
<1>14. end.pending[1].action = Done
  BY <1>5, <1>11, <1>13 DEF Asking
<1>15. Converted = <<Append(end.out, Example(end.pending[1]))>>
  BY <1>4, <1>6, <1>10, <1>13, <1>14 DEF Converted
<1> QED
  BY <1>15

-----------------------------------------------------------------------------
(* Why a preparation fails.                                                *)

\* An encoding is refused for its length only.
LEMMA RefusedEncoding ==
  ASSUME NEW ms \in Seq(MessageTypes), ms # <<>>, NEW limit, EncodeNextAction(ms, limit) = TooLong
  PROVE  Len(Tokens(ms)) > limit
<1> SUFFICES ASSUME ~(Len(Tokens(ms)) > limit)
             PROVE  FALSE
  OBVIOUS
<1>1. PICK s, n, e : s = Tokens(ms) /\ n = Len(ms) /\ e = EncodeNextAction(ms, limit)
  OBVIOUS
<1>2. e = [ids |-> s, labels |-> [k \in DOMAIN s |-> s[k].message = n /\ ~s[k].header]]
  BY <1>1 DEF EncodeNextAction, Labelled
<1>3. e.ids = s
  BY <1>2
<1>4. e.ids = <<>>
  BY <1>1 DEF TooLong
<1>5. 1 \in DOMAIN ms
  OBVIOUS
<1>6. \E k \in DOMAIN s : s[k] = Body(1)
  BY <1>1, <1>5, AllTokenised DEF Tokenised
<1>7. DOMAIN s = {}
  BY <1>3, <1>4
<1> QED
  BY <1>6, <1>7

LEMMA MessagesOfARealAction ==
  ASSUME Whole, status = "completed", NEW n \in DOMAIN RealActions, NEW x, x = RealActions[n]
  PROVE  Messages(x) \in Seq(MessageTypes) /\ Messages(x) # <<>>
<1>1. RealActions = ExamplesOf(turns, {"ran", "finished"}) /\ turns \in Seq(TurnTypes)
  BY RealActionsAreExamples DEF Whole, Typing
<1>2. PICK k \in DOMAIN turns : turns[k].outcome \in {"ran", "finished"} /\ x = ExampleOf(turns[k])
  BY <1>1, ExamplesAreTurns
<1>3. turns[k] \in TurnTypes /\ TurnIsWhole(turns[k])
  BY <1>1 DEF Whole, Typing
<1>4. turns[k].outcome = "ran" => Executable(turns[k].action)
  BY DEF Whole, Progress
<1> QED
  BY <1>2, <1>3, <1>4, MessagesOfAnExample

Overlong == \E x \in ToSet(RealActions) : Len(Tokens(Messages(x))) > SequenceLimit

\* What a failed preparation shows of the run.
Excused == SeedOk /\ ~MalformedAnswers /\ ~Forgets => Overlong

\* A preparation fails for a reason; a training that failed has an entry point.
Explained ==
  /\ training \in {"running", "blocked", "completed"} => entry # "none"
  /\ training = "failed" /\ entry = "none" => Excused

\* The examples of a seed that are refused have one that is too long.
LEMMA RefusedPreparation ==
  ASSUME Whole, Watched, Refusals, status = "completed",
         ~(/\ SeedOk /\ Converted # <<>>
           /\ \A n \in DOMAIN Converted[1] : EncodeNextAction(Messages(Converted[1][n]), SequenceLimit) # TooLong)
  PROVE  Excused
<1> SUFFICES ASSUME SeedOk, ~MalformedAnswers, ~Forgets
             PROVE  Overlong
  BY DEF Excused
<1>1. Converted # <<>>
  BY ConvertibleRun
<1>2. Converted[1] = RealActions
  BY <1>1, ConvertedRun
<1>3. PICK n \in DOMAIN RealActions : EncodeNextAction(Messages(RealActions[n]), SequenceLimit) = TooLong
  BY <1>1, <1>2
<1>4. PICK x : x = RealActions[n]
  OBVIOUS
<1>5. PICK ms : ms = Messages(x)
  OBVIOUS
<1>6. ms \in Seq(MessageTypes) /\ ms # <<>>
  BY <1>4, <1>5, MessagesOfARealAction
<1>7. Len(Tokens(ms)) > SequenceLimit
  BY <1>3, <1>4, <1>5, <1>6, RefusedEncoding
<1>8. x \in ToSet(RealActions)
  BY <1>4 DEF ToSet
<1> QED
  BY <1>5, <1>7, <1>8 DEF Overlong

LEMMA ExcusedStays == UNCHANGED vars => (Excused' <=> Excused)
<1> SUFFICES ASSUME UNCHANGED vars
             PROVE  Excused' <=> Excused
  OBVIOUS
<1>1. policy' = policy /\ turns' = turns /\ status' = status
  BY DEF vars
<1>2. ModelTexts' = ModelTexts
  BY <1>1 DEF ModelTexts
<1>3. RowTexts' = RowTexts
  BY <1>1, <1>2 DEF RowTexts, Picked
<1>4. SeedOk' <=> SeedOk
  BY <1>1, <1>3 DEF SeedOk
<1>5. RealActions' = RealActions
  BY <1>1 DEF RealActions, Supervised, Picked
<1>6. Overlong' <=> Overlong
  BY <1>5 DEF Overlong
<1>7. (MalformedAnswers' <=> MalformedAnswers) /\ (Forgets' <=> Forgets)
  BY <1>1 DEF MalformedAnswers, Forgets
<1> QED
  BY <1>4, <1>6, <1>7 DEF Excused

LEMMA NextIsExplained ==
  Whole /\ Watched /\ OfCompleted /\ Refusals /\ Explained /\ [DataNext]_<<vars, trainingVars>> => Explained'
<1> SUFFICES ASSUME Whole, Watched, OfCompleted, Refusals, Explained, [DataNext]_<<vars, trainingVars>>
             PROVE  Explained'
  OBVIOUS
<1>1. CASE [Next]_vars /\ UNCHANGED trainingVars
  <2>1. training' = training /\ entry' = entry
    BY <1>1 DEF trainingVars
  <2>2. CASE training = "none"
    BY <2>1, <2>2 DEF Explained
  <2>3. CASE training # "none"
    <3>1. UNCHANGED vars
      BY <1>1, <2>3, CompletedIsFinal DEF OfCompleted
    <3> QED
      BY <2>1, <3>1, ExcusedStays DEF Explained
  <2> QED
    BY <2>2, <2>3
<1>2. CASE Train /\ UNCHANGED vars
  <2>1. Excused' <=> Excused
    BY <1>2, ExcusedStays
  <2>2. CASE Prepare
    <3>1. status = "completed" /\ (training' = "prepared" \/ (training' = "failed" /\
            ~(/\ SeedOk /\ Converted # <<>>
              /\ \A n \in DOMAIN Converted[1] : EncodeNextAction(Messages(Converted[1][n]), SequenceLimit) # TooLong)))
      BY <2>2 DEF Prepare
    <3>2. CASE training' = "prepared"
      BY <3>2 DEF Explained
    <3>3. CASE training' # "prepared"
      <4>1. Excused
        BY <3>1, <3>3, RefusedPreparation
      <4> QED
        BY <2>1, <3>1, <3>3, <4>1 DEF Explained
    <3> QED
      BY <3>2, <3>3
  <2>3. CASE StartTraining
    <3>1. entry' # "none" /\ entry' \in {"aligned", "direct"}
      BY <2>3 DEF StartTraining
    <3> QED
      BY <3>1 DEF Explained
  <2>4. CASE AttemptRaises \/ OutOfMemory \/ Complete
    <3>1. training = "running" /\ entry' = entry
      BY <2>4 DEF AttemptRaises, OutOfMemory, Complete, Fits
    <3>2. entry' # "none"
      BY <3>1 DEF Explained
    <3> QED
      BY <3>2 DEF Explained
  <2> QED
    BY <1>2, <2>2, <2>3, <2>4 DEF Train
<1> QED
  BY <1>1, <1>2 DEF DataNext

\* What is true of the data and of the run they are made of.
Accounted == Origin /\ Remembered /\ Refusals /\ Explained

LEMMA NextIsAccounted == Accounted /\ [DataNext]_<<vars, trainingVars>> => Accounted'
<1> SUFFICES ASSUME Accounted, [DataNext]_<<vars, trainingVars>>
             PROVE  Accounted'
  OBVIOUS
<1>1. Origin /\ Remembered /\ Refusals /\ Explained /\ Whole /\ Watched /\ OfCompleted
  BY DEF Accounted, Origin
<1>2. [Next]_vars
  BY DEF DataNext, vars
<1>3. Origin'
  BY <1>1, NextHasOrigin
<1>4. Remembered'
  BY <1>1, <1>2, NextIsRemembered
<1>5. Refusals'
  BY <1>1, <1>2, NextHasRefusals
<1>6. Explained'
  BY <1>1, NextIsExplained
<1> QED
  BY <1>3, <1>4, <1>5, <1>6 DEF Accounted

\* Prepared data are the actions that ran and the accepted finish, no refused
\* one; and a preparation refuses a seed whose answers were all well formed, and
\* whose refused finish was told in its contexts, only if one of these examples
\* is too long.  Under either bounded policy.  (prepare_aligned_sft.py:41)
THEOREM ExportsAreFaithful == DataSpec /\ policy \in BoundedPolicies => []ExportIsFaithful
<1>1. DataInit /\ policy \in BoundedPolicies => Accounted
  <2>1. DataInit /\ policy \in BoundedPolicies => Origin
    BY InitHasOrigin
  <2>2. DataInit => Remembered /\ Refusals
    BY InitIsRemembered, InitHasRefusals DEF DataInit
  <2>3. DataInit => Explained
    BY DEF DataInit, InitTraining, Explained
  <2> QED
    BY <2>1, <2>2, <2>3 DEF Accounted
<1>2. Accounted => ExportIsFaithful
  <2> SUFFICES ASSUME Accounted
               PROVE  ExportIsFaithful
    OBVIOUS
  <2>1. training = "prepared" => data = RealActions
    BY DEF Accounted, Origin, Genuine, HasData
  <2>2. training = "failed" /\ entry = "none" => Excused
    BY DEF Accounted, Explained
  <2>3. ~Forgets <=> policy # "last-action-v2" \/ \A n \in DOMAIN turns : turns[n].outcome # "unverified"
    BY DEF Forgets
  <2> QED
    BY <2>1, <2>2, <2>3 DEF ExportIsFaithful, Excused, Overlong
<1> QED
  BY <1>1, <1>2, NextIsAccounted, PTL DEF DataSpec
=============================================================================
