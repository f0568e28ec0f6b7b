------------------------ MODULE ThreadRollback_proofs -----------------------
(***************************************************************************)
(* Proof that a rollback, live or replayed, drops whole turns: the history *)
(* of ThreadHistory agrees with the chronicle of its rollout, for any      *)
(* number of turns, rollbacks, compactions and restarts.                   *)
(*                                                                         *)
(* The argument has two halves.  Read forward, replay and chronicle agree  *)
(* record by record as long as no rollback was odd (Matches).  And then    *)
(* the reverse scan selects the last compaction of the rollout, so that    *)
(* the suffix replayed gives what a replay of all records would.           *)
(***************************************************************************)
EXTENDS ThreadHistory_proofs

(* Positions and items, one at a time *)

\* Two listings that agree on the positions up to n agree there.
LEMMA ClimbsAgree ==
    ASSUME NEW n \in Nat, NEW m \in Nat, n <= m, NEW S, NEW T, NEW f, NEW g,
           Climbs(f, S, n), Climbs(g, T, m), \A p \in 1 .. n : p \in S <=> p \in T
    PROVE  f[n] = g[n]
<1> DEFINE U == {p \in 0 .. n : f[p] = g[p]}
<1>1. 0 \in U
  BY DEF Climbs
<1>2. ASSUME NEW p \in 0 .. n - 1, p \in U PROVE p + 1 \in U
  <2>1. p + 1 \in 0 .. n /\ p + 1 \in 0 .. m /\ p + 1 # 0 /\ (p + 1) - 1 = p /\ p + 1 \in 1 .. n
    OBVIOUS
  <2>2. f[p] = g[p]
    BY <1>2
  <2>3. f[p + 1] = IF p + 1 \in S THEN Append(f[p], p + 1) ELSE f[p]
    BY <2>1 DEF Climbs
  <2>4. g[p + 1] = IF p + 1 \in T THEN Append(g[p], p + 1) ELSE g[p]
    BY <2>1 DEF Climbs
  <2>5. p + 1 \in S <=> p + 1 \in T
    BY <2>1
  <2> QED  BY <2>1, <2>2, <2>3, <2>4, <2>5
<1>3. n \in U
  <2> HIDE DEF U
  <2> QED  BY <1>1, <1>2, Induct
<1> QED  BY <1>3

\* Positions beyond n do not matter.
LEMMA AscendingSame ==
    ASSUME NEW n \in Nat, NEW S, NEW T, \A p \in 1 .. n : p \in S <=> p \in T
    PROVE  Ascending(S, n) = Ascending(T, n)
<1>1. PICK f : Ascending(S, n) = f[n] /\ Climbs(f, S, n)
  BY AscendingDef
<1>2. PICK g : Ascending(T, n) = g[n] /\ Climbs(g, T, n)
  BY AscendingDef
<1>3. f[n] = g[n]
  BY <1>1, <1>2, ClimbsAgree
<1> QED  BY <1>1, <1>2, <1>3

\* One position more.
LEMMA AscendingNext ==
    ASSUME NEW n \in Nat, NEW S
    PROVE  Ascending(S, n + 1) = IF n + 1 \in S THEN Append(Ascending(S, n), n + 1)
                                 ELSE Ascending(S, n)
<1>0. n + 1 \in Nat /\ n + 1 \in 0 .. n + 1 /\ n + 1 # 0 /\ (n + 1) - 1 = n /\ n <= n + 1
  OBVIOUS
<1>1. PICK f : Ascending(S, n) = f[n] /\ Climbs(f, S, n)
  BY AscendingDef
<1>2. PICK g : Ascending(S, n + 1) = g[n + 1] /\ Climbs(g, S, n + 1)
  BY <1>0, AscendingDef
<1>3. f[n] = g[n]
  BY <1>0, <1>1, <1>2, ClimbsAgree
<1>4. g[n + 1] = IF n + 1 \in S THEN Append(g[n], n + 1) ELSE g[n]
  BY <1>0, <1>2 DEF Climbs
<1> QED  BY <1>1, <1>2, <1>3, <1>4

\* Items picked from h with one item more.
LEMMA ItemsAtNext ==
    ASSUME NEW I, NEW h \in Seq(I), NEW i \in I, NEW S, NEW T,
           \A p \in 1 .. Len(h) : p \in S <=> p \in T
    PROVE  ItemsAt(Append(h, i), T) = IF Len(h) + 1 \in T THEN Append(ItemsAt(h, S), i)
                                      ELSE ItemsAt(h, S)
<1> DEFINE g == Append(h, i)
           a == Ascending(S, Len(h))
           b == Ascending(T, Len(h) + 1)
<1>1. Len(h) \in Nat /\ Len(g) = Len(h) + 1 /\ g[Len(h) + 1] = i /\ \A p \in 1 .. Len(h) : g[p] = h[p]
  OBVIOUS
<1>2. a = Ascending(T, Len(h))
  BY <1>1, AscendingSame
<1>3. b = IF Len(h) + 1 \in T THEN Append(a, Len(h) + 1) ELSE a
  BY <1>1, <1>2, AscendingNext
<1>4. a \in Seq(1 .. Len(h))
  BY <1>1, AscendingLists DEF Lists
<1>5. ItemsAt(g, T) = [x \in DOMAIN b |-> g[b[x]]] /\ ItemsAt(h, S) = [x \in DOMAIN a |-> h[a[x]]]
  BY <1>1 DEF ItemsAt
<1> HIDE DEF g, a, b
<1>6. /\ DOMAIN a = 1 .. Len(a) /\ Len(a) \in Nat /\ \A x \in 1 .. Len(a) : a[x] \in 1 .. Len(h)
  BY <1>4
<1>7. CASE Len(h) + 1 \notin T
  <2>1. [x \in DOMAIN a |-> g[a[x]]] = [x \in DOMAIN a |-> h[a[x]]]
    BY <1>1, <1>6
  <2> QED  BY <1>3, <1>5, <1>7, <2>1 DEF g
<1>8. CASE Len(h) + 1 \in T
  <2>1. DOMAIN b = 1 .. Len(a) + 1 /\ b[Len(a) + 1] = Len(h) + 1 /\ \A x \in 1 .. Len(a) : b[x] = a[x]
    BY <1>3, <1>4, <1>8
  <2> DEFINE c == [x \in DOMAIN a |-> h[a[x]]]
  <2>2. c \in Seq(I) /\ Len(c) = Len(a)
    BY <1>6
  <2>3. Append(c, i) = [x \in 1 .. Len(a) + 1 |-> IF x = Len(a) + 1 THEN i ELSE c[x]]
    BY <1>6, <2>2
  <2>4. \A x \in 1 .. Len(a) + 1 : g[b[x]] = IF x = Len(a) + 1 THEN i ELSE c[x]
    BY <1>1, <1>6, <2>1
  <2>5. ItemsAt(g, T) = Append(c, i)
    <3> HIDE DEF c
    <3> QED  BY <1>5, <2>1, <2>3, <2>4
  <2> QED  BY <1>5, <1>8, <2>5 DEF g
<1> QED  BY <1>7, <1>8

\* The spoken items of h with one item more.
LEMMA SpokenNext ==
    ASSUME NEW I, NEW h \in Seq(I), NEW i \in I
    PROVE  Spoken(Append(h, i)) = IF IsContextual(i) THEN Spoken(h) ELSE Append(Spoken(h), i)
<1> DEFINE g == Append(h, i)
           S == {p \in DOMAIN h : ~IsContextual(h[p])}
           T == {p \in DOMAIN g : ~IsContextual(g[p])}
<1>1. /\ DOMAIN h = 1 .. Len(h) /\ Len(h) \in Nat /\ DOMAIN g = 1 .. Len(h) + 1
      /\ g[Len(h) + 1] = i /\ \A p \in 1 .. Len(h) : g[p] = h[p]
  OBVIOUS
<1>2. /\ \A p \in 1 .. Len(h) : p \in S <=> p \in T
      /\ Len(h) + 1 \in T <=> ~IsContextual(i)
  <2> HIDE DEF g
  <2> QED  BY <1>1
<1>3. Spoken(h) = ItemsAt(h, S) /\ Spoken(g) = ItemsAt(g, T)
  BY DEF Spoken
<1> HIDE DEF S, T
<1> QED  BY <1>2, <1>3, ItemsAtNext

\* Its instructions.
LEMMA PositionsNext ==
    ASSUME NEW I, NEW h \in Seq(I), NEW i \in I
    PROVE  UserMessagePositions(Append(h, i)) =
              IF IsUserTurnBoundary(i) THEN Append(UserMessagePositions(h), Len(h) + 1)
              ELSE UserMessagePositions(h)
<1> DEFINE g == Append(h, i)
           S == {p \in DOMAIN h : IsUserTurnBoundary(h[p])}
           T == {p \in DOMAIN g : IsUserTurnBoundary(g[p])}
<1>1. /\ DOMAIN h = 1 .. Len(h) /\ Len(h) \in Nat /\ DOMAIN g = 1 .. Len(h) + 1
      /\ Len(g) = Len(h) + 1 /\ g[Len(h) + 1] = i /\ \A p \in 1 .. Len(h) : g[p] = h[p]
  OBVIOUS
<1>2. /\ \A p \in 1 .. Len(h) : p \in S <=> p \in T
      /\ Len(h) + 1 \in T <=> IsUserTurnBoundary(i)
  <2> HIDE DEF g
  <2> QED  BY <1>1
<1>3. UserMessagePositions(h) = Ascending(S, Len(h))
  BY DEF UserMessagePositions
<1>4. UserMessagePositions(g) = Ascending(T, Len(h) + 1)
  BY <1>1 DEF UserMessagePositions
<1> HIDE DEF S, T
<1>5. Ascending(S, Len(h)) = Ascending(T, Len(h))
  BY <1>1, <1>2, AscendingSame
<1>6. Ascending(T, Len(h) + 1) = IF Len(h) + 1 \in T THEN Append(Ascending(T, Len(h)), Len(h) + 1)
                                 ELSE Ascending(T, Len(h))
  BY <1>1, AscendingNext
<1> QED  BY <1>2, <1>3, <1>4, <1>5, <1>6

\* The items of earlier turns.
Early(s, t) == ItemsAt(s, {p \in DOMAIN s : s[p].t < t})

LEMMA EarlyNext ==
    ASSUME NEW I, NEW h \in Seq(I), NEW i \in I, NEW t
    PROVE  Early(Append(h, i), t) = IF i.t < t THEN Append(Early(h, t), i) ELSE Early(h, t)
<1> DEFINE g == Append(h, i)
           S == {p \in DOMAIN h : h[p].t < t}
           T == {p \in DOMAIN g : g[p].t < t}
<1>1. /\ DOMAIN h = 1 .. Len(h) /\ Len(h) \in Nat /\ DOMAIN g = 1 .. Len(h) + 1
      /\ g[Len(h) + 1] = i /\ \A p \in 1 .. Len(h) : g[p] = h[p]
  OBVIOUS
<1>2. /\ \A p \in 1 .. Len(h) : p \in S <=> p \in T
      /\ Len(h) + 1 \in T <=> i.t < t
  <2> HIDE DEF g
  <2> QED  BY <1>1
<1>3. Early(h, t) = ItemsAt(h, S) /\ Early(g, t) = ItemsAt(g, T)
  BY DEF Early
<1> HIDE DEF S, T
<1> QED  BY <1>2, <1>3, ItemsAtNext

\* The positions of instructions: in the history, in order, and all of them.
LEMMA PositionsList ==
    ASSUME NEW I, NEW h \in Seq(I)
    PROVE  LET P == UserMessagePositions(h)
           IN /\ P \in Seq(1 .. Len(h)) /\ Len(P) \in Nat
              /\ \A x \in 1 .. Len(P) : P[x] \in 1 .. Len(h) /\ IsUserTurnBoundary(h[P[x]])
              /\ \A x, y \in 1 .. Len(P) : x < y => P[x] < P[y]
              /\ \A p \in 1 .. Len(h) : IsUserTurnBoundary(h[p]) => \E x \in 1 .. Len(P) : P[x] = p
<1> DEFINE S == {p \in DOMAIN h : IsUserTurnBoundary(h[p])}
<1>1. Len(h) \in Nat /\ DOMAIN h = 1 .. Len(h)
  OBVIOUS
<1>2. Lists(UserMessagePositions(h), S, Len(h))
  BY <1>1, AscendingLists DEF UserMessagePositions
<1> QED  BY <1>1, <1>2 DEF Lists

\* A prefix one item longer.
LEMMA PrefixNext ==
    ASSUME NEW I, NEW h \in Seq(I), NEW k \in 0 .. Len(h) - 1
    PROVE  /\ SubSeq(h, 1, k) \in Seq(I) /\ h[k + 1] \in I /\ Len(SubSeq(h, 1, k)) = k
           /\ SubSeq(h, 1, k + 1) = Append(SubSeq(h, 1, k), h[k + 1])
<1>1. SubSeq(h, 1, k) \in Seq(I) /\ h[k + 1] \in I /\ Len(SubSeq(h, 1, k)) = k
  OBVIOUS
<1>2. SubSeq(h, 1, k + 1) = [p \in 1 .. k + 1 |-> h[p]]
  OBVIOUS
<1>3. SubSeq(h, 1, k) = [p \in 1 .. k |-> h[p]]
  OBVIOUS
<1>4. Append(SubSeq(h, 1, k), h[k + 1]) = [p \in 1 .. k + 1 |-> IF p = k + 1 THEN h[k + 1] ELSE SubSeq(h, 1, k)[p]]
  BY <1>1
<1> QED  BY <1>1, <1>2, <1>3, <1>4

\* The spoken items of a history that is ordered at c are, as far as they belong to
\* turns before t, those ahead of c.
LEMMA EarlySpoken ==
    ASSUME NEW n \in Nat, NEW h \in Histories(n), NEW t \in Int, NEW c \in 1 .. Len(h) + 1,
           \A p \in 1 .. Len(h) : ~IsContextual(h[p]) => (h[p].t < t <=> p < c)
    PROVE  Early(Spoken(h), t) = Spoken(SubSeq(h, 1, c - 1))
<1> DEFINE I == TurnItems(n)
           At(k) == SubSeq(h, 1, k)
           U == {k \in 0 .. Len(h) : Early(Spoken(At(k)), t) = Spoken(At(IF k < c THEN k ELSE c - 1))}
<1>0. h \in Seq(I) /\ Len(h) \in Nat
  BY DEF Histories
<1>1. 0 \in U
  <2>1. Spoken(<<>>) = <<>> /\ Early(<<>>, t) = <<>>
    <3>1. \A S : Ascending(S, 0) = <<>>
      <4> SUFFICES ASSUME NEW S PROVE Ascending(S, 0) = <<>>
        OBVIOUS
      <4>1. PICK f : Ascending(S, 0) = f[0] /\ Climbs(f, S, 0)
        BY AscendingDef
      <4> QED  BY <4>1 DEF Climbs
    <3>2. \A S : ItemsAt(<<>>, S) = <<>>
      <4> SUFFICES ASSUME NEW S PROVE ItemsAt(<<>>, S) = <<>>
        OBVIOUS
      <4>1. Ascending(S, Len(<<>>)) = <<>>
        BY <3>1
      <4> QED  BY <4>1 DEF ItemsAt
    <3> QED  BY <3>2 DEF Spoken, Early
  <2>2. At(0) = <<>>
    BY <1>0
  <2>3. (IF 0 < c THEN 0 ELSE c - 1) = 0 /\ 0 \in 0 .. Len(h)
    BY <1>0
  <2>4. Early(Spoken(At(0)), t) = Spoken(At(0))
    BY <2>1, <2>2
  <2> HIDE DEF At
  <2> QED  BY <2>3, <2>4
<1>2. ASSUME NEW k \in 0 .. Len(h) - 1, k \in U PROVE k + 1 \in U
  <2> DEFINE g == At(k)
             i == h[k + 1]
  <2>1. g \in Seq(I) /\ i \in I /\ At(k + 1) = Append(g, i) /\ k + 1 \in 1 .. Len(h) /\ k + 1 \in 0 .. Len(h)
    BY <1>0, PrefixNext
  <2>2. Early(Spoken(g), t) = Spoken(At(IF k < c THEN k ELSE c - 1))
    BY <1>2
  <2>3. Spoken(At(k + 1)) = IF IsContextual(i) THEN Spoken(g) ELSE Append(Spoken(g), i)
    BY <2>1, SpokenNext
  <2>4. Spoken(g) \in Seq(I)
    BY <2>1, ItemsAtIn DEF Spoken
  <2>5. Early(Append(Spoken(g), i), t) = IF i.t < t THEN Append(Early(Spoken(g), t), i) ELSE Early(Spoken(g), t)
    BY <2>1, <2>4, EarlyNext
  <2>6. ~IsContextual(i) => (i.t < t <=> k + 1 < c)
    BY <2>1
  <2> HIDE DEF i, I
  <2>7. CASE k + 1 < c
    <3>1. k < c
      BY <2>7
    <3>2. Early(Spoken(g), t) = Spoken(g)
      BY <2>2, <3>1
    <3>3. Early(Spoken(At(k + 1)), t) = Spoken(At(k + 1))
      BY <2>3, <2>5, <2>6, <2>7, <3>2
    <3> QED  BY <2>1, <2>7, <3>3
  <2>8. CASE ~(k + 1 < c)
    <3>1. (IF k < c THEN k ELSE c - 1) = c - 1
      BY <2>8
    <3>2. Early(Spoken(At(k + 1)), t) = Early(Spoken(g), t)
      BY <2>3, <2>5, <2>6, <2>8
    <3> QED  BY <2>1, <2>2, <2>8, <3>1, <3>2
  <2> QED  BY <2>7, <2>8
<1>3. Len(h) \in U
  <2> HIDE DEF U
  <2>1. \A k \in 0 .. Len(h) : k \in U
    BY <1>0, <1>1, <1>2, Induct
  <2>2. Len(h) \in 0 .. Len(h)
    BY <1>0
  <2> QED  BY <2>1, <2>2
<1>4. At(Len(h)) = h /\ (IF Len(h) < c THEN Len(h) ELSE c - 1) = c - 1
  BY <1>0
<1> QED  BY <1>3, <1>4

\* The instructions of a prefix are a prefix of the instructions.
LEMMA PositionsPrefix ==
    ASSUME NEW I, NEW h \in Seq(I), NEW c \in 1 .. Len(h) + 1, NEW j \in Nat,
           j <= Len(UserMessagePositions(h)),
           \A x \in 1 .. Len(UserMessagePositions(h)) : UserMessagePositions(h)[x] < c <=> x <= j
    PROVE  UserMessagePositions(SubSeq(h, 1, c - 1)) = SubSeq(UserMessagePositions(h), 1, j)
<1> DEFINE P == UserMessagePositions(h)
           At(k) == SubSeq(h, 1, k)
           Below(k) == {x \in 1 .. Len(P) : P[x] <= k}
           U == {k \in 0 .. Len(h) :
                   \E m \in 0 .. Len(P) : /\ UserMessagePositions(At(k)) = SubSeq(P, 1, m)
                                          /\ \A x \in 1 .. Len(P) : P[x] <= k <=> x <= m}
<1>0. /\ Len(h) \in Nat /\ P \in Seq(1 .. Len(h)) /\ Len(P) \in Nat
      /\ \A x \in 1 .. Len(P) : P[x] \in 1 .. Len(h) /\ IsUserTurnBoundary(h[P[x]])
      /\ \A x, y \in 1 .. Len(P) : x < y => P[x] < P[y]
      /\ \A p \in 1 .. Len(h) : IsUserTurnBoundary(h[p]) => \E x \in 1 .. Len(P) : P[x] = p
  <2>1. Len(h) \in Nat
    OBVIOUS
  <2> HIDE DEF U, At, Below
  <2> QED  BY <2>1, PositionsList
<1> HIDE DEF P
<1>1. 0 \in U
  <2>1. UserMessagePositions(At(0)) = <<>>
    <3>1. At(0) \in Seq(I) /\ Len(At(0)) = 0
      OBVIOUS
    <3>2. UserMessagePositions(At(0)) \in Seq(1 .. 0)
      BY <3>1, PositionsList
    <3> QED  BY <3>2
  <2>2. SubSeq(P, 1, 0) = <<>> /\ \A x \in 1 .. Len(P) : P[x] <= 0 <=> x <= 0
    BY <1>0
  <2>3. 0 \in 0 .. Len(P) /\ 0 \in 0 .. Len(h)
    BY <1>0
  <2> QED  BY <2>1, <2>2, <2>3
<1>2. ASSUME NEW k \in 0 .. Len(h) - 1, k \in U PROVE k + 1 \in U
  <2>1. /\ At(k) \in Seq(I) /\ h[k + 1] \in I /\ Len(At(k)) = k
        /\ At(k + 1) = Append(At(k), h[k + 1]) /\ k + 1 \in 1 .. Len(h) /\ k + 1 \in 0 .. Len(h)
    BY PrefixNext
  <2>2. PICK m \in 0 .. Len(P) : /\ UserMessagePositions(At(k)) = SubSeq(P, 1, m)
                                 /\ \A x \in 1 .. Len(P) : P[x] <= k <=> x <= m
    BY <1>2
  <2>3. UserMessagePositions(At(k + 1)) =
           IF IsUserTurnBoundary(h[k + 1]) THEN Append(SubSeq(P, 1, m), k + 1) ELSE SubSeq(P, 1, m)
    <3> HIDE DEF At
    <3>1. UserMessagePositions(Append(At(k), h[k + 1])) =
             IF IsUserTurnBoundary(h[k + 1]) THEN Append(UserMessagePositions(At(k)), Len(At(k)) + 1)
             ELSE UserMessagePositions(At(k))
      BY <2>1, PositionsNext
    <3> QED  BY <2>1, <2>2, <3>1
  <2>4. CASE ~IsUserTurnBoundary(h[k + 1])
    <3>1. \A x \in 1 .. Len(P) : P[x] # k + 1
      BY <1>0, <2>4
    <3>2. \A x \in 1 .. Len(P) : P[x] <= k + 1 <=> x <= m
      <4> SUFFICES ASSUME NEW x \in 1 .. Len(P) PROVE P[x] <= k + 1 <=> x <= m
        OBVIOUS
      <4>1. P[x] \in Int /\ k \in Int /\ P[x] # k + 1
        BY <1>0, <3>1
      <4>2. P[x] <= k <=> x <= m
        BY <2>2
      <4>3. P[x] <= k + 1 <=> P[x] <= k
        BY <4>1
      <4> QED  BY <4>2, <4>3
    <3> QED  BY <2>1, <2>3, <2>4, <3>2
  <2>5. CASE IsUserTurnBoundary(h[k + 1])
    <3>1. PICK x \in 1 .. Len(P) : P[x] = k + 1
      BY <1>0, <2>1, <2>5
    <3>2. x > m
      BY <2>2, <3>1
    <3>3. x = m + 1
      <4> SUFFICES ASSUME x > m + 1 PROVE FALSE
        BY <3>2
      <4>0. m \in Nat /\ k \in Int /\ x \in Int /\ x <= Len(P) /\ Len(P) \in Nat
        BY <1>0
      <4>1. PICK y \in 1 .. Len(P) : y = m + 1
        BY <4>0
      <4>2. P[y] < P[x] /\ P[y] \in Int
        <5>1. y < x
          BY <4>1
        <5> QED  BY <1>0, <5>1
      <4>3. P[y] <= k
        BY <3>1, <4>0, <4>2
      <4>4. y <= m
        BY <2>2, <4>3
      <4> QED  BY <4>0, <4>1, <4>4
    <3>4. SubSeq(P, 1, m + 1) = Append(SubSeq(P, 1, m), P[m + 1])
      <4>1. m \in 0 .. Len(P) - 1
        BY <1>0, <3>3
      <4> QED  BY <1>0, <4>1, PrefixNext
    <3>5. UserMessagePositions(At(k + 1)) = SubSeq(P, 1, m + 1) /\ m + 1 \in 0 .. Len(P)
      <4>1. m + 1 \in 0 .. Len(P) /\ P[m + 1] = k + 1
        BY <1>0, <3>1, <3>3
      <4> HIDE DEF At
      <4> QED  BY <2>3, <2>5, <3>4, <4>1
    <3>6. \A y \in 1 .. Len(P) : P[y] <= k + 1 <=> y <= m + 1
      <4> SUFFICES ASSUME NEW y \in 1 .. Len(P) PROVE P[y] <= k + 1 <=> y <= m + 1
        OBVIOUS
      <4>0. P[y] \in Int /\ k \in Int /\ m \in Int /\ y \in Int
        BY <1>0
      <4>1. CASE y < m + 1
        <5>1. y <= m
          BY <4>0, <4>1
        <5>2. P[y] <= k
          BY <2>2, <5>1
        <5> QED  BY <4>0, <4>1, <5>2
      <4>2. CASE y = m + 1
        BY <3>1, <3>3, <4>2
      <4>3. CASE y > m + 1
        <5>1. P[m + 1] < P[y]
          BY <1>0, <3>3, <4>3
        <5>2. P[m + 1] = k + 1
          BY <3>1, <3>3
        <5> QED  BY <4>0, <4>3, <5>1, <5>2
      <4> QED  BY <4>0, <4>1, <4>2, <4>3
    <3> QED  BY <2>1, <3>5, <3>6
  <2> QED  BY <2>4, <2>5
<1>3. c - 1 \in U
  <2>1. \A k \in 0 .. Len(h) : k \in U
    <3> HIDE DEF U
    <3> QED  BY <1>0, <1>1, <1>2, Induct
  <2>2. c - 1 \in 0 .. Len(h)
    BY <1>0
  <2> HIDE DEF U
  <2> QED  BY <2>1, <2>2
<1>4. PICK m \in 0 .. Len(P) : /\ UserMessagePositions(At(c - 1)) = SubSeq(P, 1, m)
                               /\ \A x \in 1 .. Len(P) : P[x] <= c - 1 <=> x <= m
  BY <1>3
<1>5. \A x \in 1 .. Len(P) : x <= j <=> x <= m
  <2>1. \A x \in 1 .. Len(P) : P[x] < c <=> x <= j
    BY DEF P
  <2>2. \A x \in 1 .. Len(P) : P[x] < c <=> P[x] <= c - 1
    BY <1>0
  <2> QED  BY <1>4, <2>1, <2>2
<1>6. j = m
  <2>1. j \in 0 .. Len(P)
    BY DEF P
  <2>2. ~(j < m) /\ ~(m < j)
    BY <1>0, <1>5, <2>1
  <2> QED  BY <1>0, <2>1, <2>2
<1> QED  BY <1>4, <1>6 DEF P
-----------------------------------------------------------------------------
(* Rollback of a history *)

\* Where the last m of k are dropped, at least one.
CutIndex(m, k) == IF m >= k THEN 1 ELSE k - m + 1

\* What a rollback drops: the instruction at the cut, all behind it, and context
\* ahead of it.
LEMMA DropExact ==
    ASSUME NEW I, NEW h \in Seq(I), NEW n \in Nat \ {0}, NEW P, P = UserMessagePositions(h),
           NEW j \in 1 .. Len(P), j = CutIndex(n, Len(P))
    PROVE  \E c \in 1 .. P[j] : /\ DropLastNUserTurns(h, n) = SubSeq(h, 1, c - 1)
                                /\ \A p \in c .. P[j] - 1 : IsContextual(h[p])
<1> DEFINE first == Head(P)
           cut == IF n >= Len(P) THEN first ELSE P[Len(P) - n + 1]
           C == {c \in first .. cut : \A p \in c .. (cut - 1) : IsContextual(h[p])}
           c == TrimPreTurnContextUpdates(h, first, cut)
<1>1. /\ P \in Seq(1 .. Len(h)) /\ Len(P) \in Nat
      /\ \A x \in 1 .. Len(P) : P[x] \in 1 .. Len(h)
      /\ \A x, y \in 1 .. Len(P) : x < y => P[x] < P[y]
  BY PositionsList
<1>2. first = P[1] /\ P # <<>> /\ 1 \in 1 .. Len(P)
  BY <1>1
<1>3. cut = P[j]
  BY <1>1, <1>2 DEF CutIndex
<1>4. P[1] <= P[j] /\ P[1] \in Nat /\ P[j] \in Nat /\ P[1] >= 1
  <2>1. P[1] \in 1 .. Len(h) /\ P[j] \in 1 .. Len(h)
    BY <1>1, <1>2
  <2>2. j = 1 \/ 1 < j
    OBVIOUS
  <2> QED  BY <1>1, <1>2, <2>1, <2>2
<1>5. DropLastNUserTurns(h, n) = SubSeq(h, 1, c - 1)
  BY <1>2 DEF DropLastNUserTurns
<1> HIDE DEF first, cut
<1>6. c \in C
  <2>1. cut \in C
    BY <1>2, <1>3, <1>4
  <2>2. C \in SUBSET Nat
    BY <1>2, <1>3, <1>4
  <2>3. \E m \in C : \A x \in C : m <= x
    <3> HIDE DEF C
    <3> QED  BY <2>1, <2>2, LeastNumber
  <2>4. Min(C) \in C
    <3> HIDE DEF C
    <3> QED  BY <2>3 DEF Min
  <2> QED  BY <2>4 DEF TrimPreTurnContextUpdates
<1>7. c \in 1 .. P[j] /\ \A p \in c .. P[j] - 1 : IsContextual(h[p])
  <2> HIDE DEF c
  <2> QED  BY <1>2, <1>3, <1>4, <1>6
<1> HIDE DEF c
<1> QED  BY <1>5, <1>7

\* A history without instructions stays.
LEMMA DropNothing ==
    ASSUME NEW h, NEW n, UserMessagePositions(h) = <<>>
    PROVE  DropLastNUserTurns(h, n) = h
BY DEF DropLastNUserTurns
-----------------------------------------------------------------------------
(* The chronicle *)

\* Chronicle computes what its recursive definition says.
LEMMA ChronicleDef ==
    ASSUME NEW I, NEW r \in Seq(I)
    PROVE  /\ Chronicle(r)[0] = NewChronicle
           /\ \A p \in 1 .. Len(r) : Chronicle(r)[p] = ReadRecord(Chronicle(r)[p - 1], r[p])
<1> DEFINE D(g) == [p \in 0 .. Len(r) |-> IF p = 0 THEN NewChronicle ELSE ReadRecord(g[p - 1], r[p])]
           Ok(f, m) == \A p \in 0 .. m : f[p] = IF p = 0 THEN NewChronicle ELSE ReadRecord(f[p - 1], r[p])
           n == Len(r)
           T == {m \in 0 .. n : \E f : Ok(f, m)}
<1>0. n \in Nat
  OBVIOUS
<1>1. 0 \in T
  <2>1. Ok([p \in {0} |-> NewChronicle], 0)
    OBVIOUS
  <2> HIDE DEF Ok
  <2>2. \E f : Ok(f, 0)
    BY <2>1
  <2> QED  BY <1>0, <2>2
<1>2. ASSUME NEW m \in 0 .. n - 1, m \in T PROVE m + 1 \in T
  <2>1. PICK f : Ok(f, m)
    BY <1>2
  <2> DEFINE e == [p \in 0 .. m + 1 |-> IF p <= m THEN f[p] ELSE ReadRecord(f[m], r[p])]
  <2>2. Ok(e, m + 1)
    <3> SUFFICES ASSUME NEW p \in 0 .. m + 1
                 PROVE  e[p] = IF p = 0 THEN NewChronicle ELSE ReadRecord(e[p - 1], r[p])
      OBVIOUS
    <3>1. CASE p <= m
      <4>1. e[p] = f[p] /\ (p > 0 => e[p - 1] = f[p - 1])
        BY <3>1
      <4> HIDE DEF e
      <4> QED  BY <2>1, <3>1, <4>1
    <3>2. CASE p = m + 1
      <4>1. e[p] = ReadRecord(f[m], r[p]) /\ e[p - 1] = f[m]
        BY <3>2
      <4> HIDE DEF e
      <4> QED  BY <3>2, <4>1
    <3> QED  BY <3>1, <3>2
  <2> HIDE DEF Ok, e
  <2>3. \E g : Ok(g, m + 1)
    BY <2>2
  <2> QED  BY <2>3
<1>3. n \in T
  <2>1. \A m \in 0 .. n - 1 : m \in T => m + 1 \in T
    BY <1>2
  <2> HIDE DEF T, n
  <2>2. \A m \in 0 .. n : m \in T
    BY <1>0, <1>1, <2>1, Induct
  <2> QED  BY <1>0, <2>2
<1>4. PICK f : Ok(f, n)
  BY <1>3
<1> DEFINE f0 == [p \in 0 .. Len(r) |-> f[p]]
<1>5. f0 = D(f0)
  BY <1>4
<1> DEFINE h == CHOOSE g : g = D(g)
<1>6. h = D(h)
  BY <1>5
<1>7. Chronicle(r) = h
  BY DEF Chronicle
<1> HIDE DEF h
<1> QED  BY <1>0, <1>6, <1>7

\* The chronicle of a rollout is that of a longer one, as far as it goes.
LEMMA ChroniclePrefix ==
    ASSUME NEW I, NEW r \in Seq(I), NEW b \in Seq(I), Len(r) <= Len(b),
           \A p \in 1 .. Len(r) : b[p] = r[p]
    PROVE  \A p \in 0 .. Len(r) : Chronicle(b)[p] = Chronicle(r)[p]
<1> DEFINE T == {p \in 0 .. Len(r) : Chronicle(b)[p] = Chronicle(r)[p]}
<1>0. Len(r) \in Nat /\ Len(b) \in Nat
  OBVIOUS
<1>1. 0 \in T
  BY <1>0, ChronicleDef
<1>2. ASSUME NEW p \in 0 .. Len(r) - 1, p \in T PROVE p + 1 \in T
  <2>1. p + 1 \in 1 .. Len(r) /\ p + 1 \in 1 .. Len(b) /\ (p + 1) - 1 = p /\ p + 1 \in 0 .. Len(r)
    BY <1>0
  <2>2. Chronicle(r)[p + 1] = ReadRecord(Chronicle(r)[p], r[p + 1])
    BY <2>1, ChronicleDef
  <2>3. Chronicle(b)[p + 1] = ReadRecord(Chronicle(b)[p], b[p + 1])
    BY <2>1, ChronicleDef
  <2>4. b[p + 1] = r[p + 1]
    BY <2>1
  <2> QED  BY <1>2, <2>1, <2>2, <2>3, <2>4
<1> HIDE DEF T
<1>3. \A p \in 0 .. Len(r) : p \in T
  BY <1>0, <1>1, <1>2, Induct
<1> QED  BY <1>3 DEF T
Chronicles(n) ==
    [turn : Nat, items : Histories(n), said : SUBSET TurnItems(n), told : Seq(Nat),
     spoke : SUBSET Nat, steered : SUBSET Nat, compacted : SUBSET Nat, context : SUBSET Nat,
     odd : BOOLEAN]

\* The turns of a chronicle: those told something are in order and have spoken
\* items, those steered were told.
WellRead(c, n) ==
    /\ c \in Chronicles(n)
    /\ \A j \in 1 .. Len(c.told) : c.told[j] \in 1 .. c.turn /\ c.told[j] \in c.spoke
    /\ \A j, k \in 1 .. Len(c.told) : j < k => c.told[j] < c.told[k]
    /\ \A t \in c.steered : \E j \in 1 .. Len(c.told) : c.told[j] = t
    /\ \A t \in c.spoke \cup c.compacted : t \in 1 .. c.turn

\* The turns of the spoken items do not decrease.
Ordered(h) ==
    \A p, q \in 1 .. Len(h) :
        p < q /\ ~IsContextual(h[p]) /\ ~IsContextual(h[q]) => h[p].t <= h[q].t

\* They are not later than t.
NotBeyond(h, t) == \A p \in 1 .. Len(h) : ~IsContextual(h[p]) => h[p].t <= t

\* The record rec may follow those that were read as c.
MayFollow(c, rec) ==
    /\ rec.k = "started" => rec.t > c.turn
    /\ rec.k \in InTurnKinds => c.turn > 0
    /\ rec.k = "item" => rec.i.t = c.turn
    /\ rec.k \in {"context", "complete", "aborted"} => rec.t = c.turn
    /\ rec.k = "compacted" => c.odd \/ (Ordered(rec.h) /\ NotBeyond(rec.h, c.turn))
    /\ rec.k = "rolled_back" => rec.n > 0

\* Whether an item tells its turn for the first time.
FirstTold(c, i) == IsUserTurnBoundary(i) /\ ~(c.told # <<>> /\ Last(c.told) = i.t)

\* The item i was read.
ItemRead(c, i, d) ==
    /\ d.turn = c.turn /\ d.odd = c.odd /\ d.compacted = c.compacted
    /\ d.items = IF IsContextual(i) THEN c.items ELSE Append(c.items, i)
    /\ d.told = IF FirstTold(c, i) THEN Append(c.told, i.t) ELSE c.told
    /\ d.spoke = IF IsContextual(i) THEN c.spoke ELSE c.spoke \cup {i.t}
    /\ d.steered = IF IsUserTurnBoundary(i) /\ i.t \in c.spoke
                   THEN c.steered \cup {i.t} ELSE c.steered

LEMMA ReadItemFields ==
    ASSUME NEW n \in Nat, NEW c \in Chronicles(n), NEW i \in TurnItems(n)
    PROVE  ReadItem(c, i) \in Chronicles(n) /\ ItemRead(c, i, ReadItem(c, i))
<1> DEFINE d == ReadItem(c, i)
           items1 == IF IsContextual(i) THEN c.items ELSE Append(c.items, i)
           said1 == IF i.k = "user" THEN c.said \cup {i} ELSE c.said
           told1 == IF FirstTold(c, i) THEN Append(c.told, i.t) ELSE c.told
           spoke1 == IF IsContextual(i) THEN c.spoke ELSE c.spoke \cup {i.t}
           steered1 == IF IsUserTurnBoundary(i) /\ i.t \in c.spoke
                      THEN c.steered \cup {i.t} ELSE c.steered
           context1 == IF i.k \in {"context", "update"} THEN c.context \cup {i.t} ELSE c.context
<1>1. d = [c EXCEPT !.items = items1, !.said = said1, !.told = told1, !.spoke = spoke1,
                    !.steered = steered1, !.context = context1]
  BY DEF ReadItem, Chronicles, FirstTold
<1>2. i.t \in Nat
  BY DEF TurnItems
<1>3. /\ items1 \in Histories(n) /\ said1 \in SUBSET TurnItems(n) /\ told1 \in Seq(Nat)
      /\ spoke1 \in SUBSET Nat /\ steered1 \in SUBSET Nat /\ context1 \in SUBSET Nat
  BY <1>2 DEF Chronicles, Histories
<1> HIDE DEF d, items1, said1, told1, spoke1, steered1, context1
<1>4. /\ d \in Chronicles(n) /\ d.turn = c.turn /\ d.odd = c.odd /\ d.compacted = c.compacted
      /\ d.items = items1 /\ d.told = told1 /\ d.spoke = spoke1 /\ d.steered = steered1
  BY <1>1, <1>3 DEF Chronicles
<1> QED  BY <1>4 DEF ItemRead, d, items1, told1, spoke1, steered1

FirstAt(c, m, j) ==
    /\ j \in 1 .. Len(c.told) /\ FirstDropped(c, m) = c.told[j]
    /\ SubSeq(c.told, 1, Len(c.told) - m) = SubSeq(c.told, 1, j - 1)

\* The first turn dropped.
LEMMA FirstIs ==
    ASSUME NEW n \in Nat, NEW c, WellRead(c, n), NEW m \in Nat \ {0}
    PROVE  /\ c.told = <<>> => FirstDropped(c, m) = c.turn + 1
           /\ c.told # <<>> => FirstAt(c, m, CutIndex(m, Len(c.told)))
           /\ FirstDropped(c, m) \in Nat
<1>0. c.told \in Seq(Nat) /\ c.turn \in Nat /\ Len(c.told) \in Nat
  BY DEF WellRead, Chronicles
<1>1. c.told = <<>> => FirstDropped(c, m) = c.turn + 1
  BY DEF FirstDropped
<1>2. ASSUME c.told # <<>>
      PROVE  FirstAt(c, m, CutIndex(m, Len(c.told)))
  <2> DEFINE j == IF m >= Len(c.told) THEN 1 ELSE Len(c.told) - m + 1
  <2>1. j \in 1 .. Len(c.told)
    BY <1>0, <1>2
  <2>2. FirstDropped(c, m) = c.told[j]
    BY <1>0, <1>2 DEF FirstDropped
  <2>3. SubSeq(c.told, 1, Len(c.told) - m) = SubSeq(c.told, 1, j - 1)
    BY <1>0, <1>2
  <2> QED  BY <2>1, <2>2, <2>3 DEF FirstAt, CutIndex
<1>3. ASSUME c.told # <<>> PROVE FirstDropped(c, m) \in Nat
  BY <1>0, <1>2, <1>3 DEF FirstAt
<1> QED  BY <1>0, <1>1, <1>2, <1>3

\* Turns dropped.
LEMMA DropTurnsFields ==
    ASSUME NEW n \in Nat, NEW c, WellRead(c, n), NEW m \in Nat \ {0},
           NEW d, d = DropTurns(c, m), NEW first, first = FirstDropped(c, m)
    PROVE  /\ d \in Chronicles(n) /\ d.turn = c.turn
           /\ d.items = Early(c.items, first)
           /\ d.told = SubSeq(c.told, 1, Len(c.told) - m)
           /\ d.spoke = {t \in c.spoke : t < first}
           /\ d.steered = {t \in c.steered : t < first}
           /\ d.compacted = {t \in c.compacted : t < first}
           /\ d.odd <=> \/ c.odd
                        \/ \E t \in c.compacted \cup c.steered : t >= first
                        \/ m > Len(c.told) /\ c.compacted # {}
<1> DEFINE odd == \/ c.odd
                  \/ \E t \in c.compacted \cup c.steered : t >= first
                  \/ m > Len(c.told) /\ c.compacted # {}
<1>0. first \in Nat /\ c \in Chronicles(n)
  BY FirstIs DEF WellRead
<1>1. d = [turn |-> c.turn, items |-> Early(c.items, first), said |-> {i \in c.said : i.t < first},
           told |-> SubSeq(c.told, 1, Len(c.told) - m), spoke |-> {t \in c.spoke : t < first},
           steered |-> {t \in c.steered : t < first}, compacted |-> {t \in c.compacted : t < first},
           context |-> {t \in c.context : t < first}, odd |-> odd]
  BY DEF DropTurns, Early
<1>2. Early(c.items, first) \in Histories(n)
  <2>1. c.items \in Seq(TurnItems(n))
    BY <1>0 DEF Chronicles, Histories
  <2> QED  BY <2>1, ItemsAtIn DEF Early, Histories
<1>3. SubSeq(c.told, 1, Len(c.told) - m) \in Seq(Nat)
  BY <1>0 DEF Chronicles
<1>4. odd \in BOOLEAN
  BY DEF Chronicles
<1> HIDE DEF odd
<1>5. d \in Chronicles(n)
  BY <1>0, <1>1, <1>2, <1>3, <1>4 DEF Chronicles
<1>6. /\ d.turn = c.turn /\ d.items = Early(c.items, first)
      /\ d.told = SubSeq(c.told, 1, Len(c.told) - m)
      /\ d.spoke = {t \in c.spoke : t < first} /\ d.steered = {t \in c.steered : t < first}
      /\ d.compacted = {t \in c.compacted : t < first} /\ d.odd = odd
  BY <1>1
<1> QED  BY <1>5, <1>6 DEF odd

\* Where the turn was not told, all told turns are earlier.
LEMMA ToldEarlier ==
    ASSUME NEW n \in Nat, NEW c, WellRead(c, n), NEW i, FirstTold(c, i), i.t = c.turn
    PROVE  \A j \in 1 .. Len(c.told) : c.told[j] < c.turn
<1>0. c.told \in Seq(Nat) /\ c.turn \in Nat /\ Len(c.told) \in Nat
  BY DEF WellRead, Chronicles
<1> SUFFICES ASSUME NEW j \in 1 .. Len(c.told), c.told[j] >= c.turn PROVE FALSE
  BY <1>0
<1>1. c.told[j] = c.turn
  BY <1>0 DEF WellRead
<1>2. c.told # <<>> /\ Last(c.told) = c.told[Len(c.told)] /\ Len(c.told) \in 1 .. Len(c.told)
  BY <1>0 DEF Last
<1>3. c.told[Len(c.told)] # c.turn
  BY <1>2 DEF FirstTold
<1>4. j < Len(c.told)
  BY <1>0, <1>1, <1>3
<1>5. c.told[j] < c.told[Len(c.told)] /\ c.told[Len(c.told)] \in 1 .. c.turn
  BY <1>2, <1>4 DEF WellRead
<1> QED  BY <1>0, <1>1, <1>5

\* The chronicle stays well read: an item,
LEMMA WellReadItem ==
    ASSUME NEW n \in Nat, NEW c, WellRead(c, n), NEW i \in TurnItems(n), i.t = c.turn, c.turn > 0
    PROVE  WellRead(ReadItem(c, i), n)
<1> DEFINE d == ReadItem(c, i)
<1>0. c \in Chronicles(n) /\ c.told \in Seq(Nat) /\ c.turn \in Nat /\ Len(c.told) \in Nat
  BY DEF WellRead, Chronicles
<1>1. /\ d \in Chronicles(n) /\ d.turn = c.turn /\ d.compacted = c.compacted
      /\ d.told = IF FirstTold(c, i) THEN Append(c.told, i.t) ELSE c.told
      /\ d.spoke = IF IsContextual(i) THEN c.spoke ELSE c.spoke \cup {i.t}
      /\ d.steered = IF IsUserTurnBoundary(i) /\ i.t \in c.spoke
                     THEN c.steered \cup {i.t} ELSE c.steered
  <2>1. d \in Chronicles(n) /\ ItemRead(c, i, d)
    BY <1>0, ReadItemFields
  <2> HIDE DEF d
  <2> QED  BY <2>1 DEF ItemRead
<1> HIDE DEF d
<1>2. IsUserTurnBoundary(i) => ~IsContextual(i)
  BY DEF IsUserTurnBoundary, IsContextual
<1>3. \A t \in d.spoke \cup d.compacted : t \in 1 .. d.turn
  BY <1>0, <1>1 DEF WellRead
<1>4. CASE FirstTold(c, i)
  <2>1. /\ Len(d.told) = Len(c.told) + 1 /\ d.told[Len(c.told) + 1] = c.turn
        /\ \A j \in 1 .. Len(c.told) : d.told[j] = c.told[j] /\ c.told[j] < c.turn
    BY <1>0, <1>1, <1>4, ToldEarlier
  <2>2. \A j \in 1 .. Len(d.told) : j = Len(c.told) + 1 \/ j \in 1 .. Len(c.told)
    BY <1>0, <2>1
  <2>3. \A j \in 1 .. Len(d.told) : d.told[j] \in 1 .. d.turn /\ d.told[j] \in d.spoke
    <3>1. c.turn \in 1 .. c.turn /\ c.turn \in d.spoke
      BY <1>0, <1>1, <1>2, <1>4 DEF FirstTold
    <3> QED  BY <1>0, <1>1, <2>1, <2>2, <3>1 DEF WellRead
  <2>4. \A j, k \in 1 .. Len(d.told) : j < k => d.told[j] < d.told[k]
    <3> SUFFICES ASSUME NEW j \in 1 .. Len(d.told), NEW k \in 1 .. Len(d.told), j < k
                 PROVE  d.told[j] < d.told[k]
      OBVIOUS
    <3>1. j \in 1 .. Len(c.told)
      BY <1>0, <2>1
    <3>2. CASE k = Len(c.told) + 1
      BY <2>1, <3>1, <3>2
    <3>3. CASE k \in 1 .. Len(c.told)
      BY <2>1, <3>1, <3>3 DEF WellRead
    <3> QED  BY <2>2, <3>2, <3>3
  <2>5. \A t \in d.steered : \E j \in 1 .. Len(d.told) : d.told[j] = t
    <3> SUFFICES ASSUME NEW t \in d.steered PROVE \E j \in 1 .. Len(d.told) : d.told[j] = t
      OBVIOUS
    <3>1. CASE t = c.turn
      BY <1>0, <2>1, <3>1
    <3>2. CASE t # c.turn
      <4>1. PICK j \in 1 .. Len(c.told) : c.told[j] = t
        BY <1>1, <3>2 DEF WellRead
      <4>2. j \in 1 .. Len(d.told) /\ d.told[j] = t
        BY <1>0, <2>1, <4>1
      <4> QED  BY <4>2
    <3> QED  BY <3>1, <3>2
  <2> QED  BY <1>1, <1>3, <2>3, <2>4, <2>5 DEF WellRead, d
<1>5. CASE ~FirstTold(c, i)
  <2>1. d.told = c.told
    BY <1>1, <1>5
  <2>2. \A t \in d.steered : \E j \in 1 .. Len(c.told) : c.told[j] = t
    <3> SUFFICES ASSUME NEW t \in d.steered, t \notin c.steered PROVE \E j \in 1 .. Len(c.told) : c.told[j] = t
      BY DEF WellRead
    <3>1. t = i.t /\ c.told # <<>> /\ Last(c.told) = i.t
      BY <1>1, <1>5 DEF FirstTold
    <3>2. Len(c.told) \in 1 .. Len(c.told) /\ c.told[Len(c.told)] = t
      BY <1>0, <3>1 DEF Last
    <3> QED  BY <3>2
  <2> QED  BY <1>1, <1>3, <2>1, <2>2 DEF WellRead, d
<1> QED  BY <1>4, <1>5

\* a rollback,
LEMMA WellReadDrop ==
    ASSUME NEW n \in Nat, NEW c, WellRead(c, n), NEW m \in Nat \ {0}
    PROVE  WellRead(DropTurns(c, m), n)
<1> DEFINE d == DropTurns(c, m)
           first == FirstDropped(c, m)
<1>0. /\ c \in Chronicles(n) /\ c.told \in Seq(Nat) /\ c.turn \in Nat /\ Len(c.told) \in Nat
      /\ first \in Nat
  <2>1. first \in Nat
    BY FirstIs
  <2> QED  BY <2>1 DEF WellRead, Chronicles
<1>1. /\ d \in Chronicles(n) /\ d.turn = c.turn
      /\ d.told = SubSeq(c.told, 1, Len(c.told) - m)
      /\ d.spoke = {t \in c.spoke : t < first}
      /\ d.steered = {t \in c.steered : t < first}
      /\ d.compacted = {t \in c.compacted : t < first}
  BY DropTurnsFields
<1>2. c.told = <<>> \/ \E j \in 1 .. Len(c.told) : first = c.told[j] /\ d.told = SubSeq(c.told, 1, j - 1)
  <2> SUFFICES ASSUME c.told # <<>>
               PROVE  \E j \in 1 .. Len(c.told) : first = c.told[j] /\ d.told = SubSeq(c.told, 1, j - 1)
    OBVIOUS
  <2>0. FirstAt(c, m, CutIndex(m, Len(c.told)))
    BY FirstIs
  <2>1. PICK j \in 1 .. Len(c.told) :
           first = c.told[j] /\ SubSeq(c.told, 1, Len(c.told) - m) = SubSeq(c.told, 1, j - 1)
    BY <2>0 DEF FirstAt
  <2> HIDE DEF d, first
  <2> QED  BY <1>1, <2>1
<1> HIDE DEF d, first
<1>3. \A t \in d.spoke \cup d.compacted : t \in 1 .. d.turn
  BY <1>1 DEF WellRead
<1>4. CASE c.told = <<>>
  <2>1. d.told = <<>> /\ Len(d.told) = 0 /\ d.steered = {}
    BY <1>0, <1>1, <1>4 DEF WellRead
  <2> QED  BY <1>1, <1>3, <2>1 DEF WellRead, d
<1>5. CASE \E j \in 1 .. Len(c.told) : first = c.told[j] /\ d.told = SubSeq(c.told, 1, j - 1)
  <2>1. PICK j \in 1 .. Len(c.told) : first = c.told[j] /\ d.told = SubSeq(c.told, 1, j - 1)
    BY <1>5
  <2>2. Len(d.told) = j - 1 /\ \A k \in 1 .. j - 1 : d.told[k] = c.told[k] /\ k \in 1 .. Len(c.told) /\ c.told[k] < first
    BY <1>0, <2>1 DEF WellRead
  <2>3. \A k \in 1 .. Len(d.told) : d.told[k] \in 1 .. d.turn /\ d.told[k] \in d.spoke
    BY <1>1, <2>2 DEF WellRead
  <2>4. \A k, l \in 1 .. Len(d.told) : k < l => d.told[k] < d.told[l]
    BY <2>2 DEF WellRead
  <2>5. \A t \in d.steered : \E k \in 1 .. Len(d.told) : d.told[k] = t
    <3> SUFFICES ASSUME NEW t \in d.steered PROVE \E k \in 1 .. Len(d.told) : d.told[k] = t
      OBVIOUS
    <3>1. PICK k \in 1 .. Len(c.told) : c.told[k] = t
      BY <1>1 DEF WellRead
    <3>2. t < first
      BY <1>1
    <3>3. k < j
      <4> SUFFICES ASSUME k >= j PROVE FALSE
        OBVIOUS
      <4>1. k = j \/ j < k
        OBVIOUS
      <4>2. c.told[j] <= c.told[k]
        <5>1. c.told[j] \in Nat /\ c.told[k] \in Nat
          BY <1>0
        <5>2. \A l \in 1 .. Len(c.told) : j < l => c.told[j] < c.told[l]
          BY DEF WellRead
        <5> QED  BY <4>1, <5>1, <5>2
      <4>3. first <= t /\ t \in Nat
        BY <1>0, <2>1, <3>1, <4>2
      <4> QED  BY <1>0, <3>2, <4>3
    <3>4. k \in 1 .. j - 1
      BY <3>3
    <3> QED  BY <2>2, <3>1, <3>4
  <2> QED  BY <1>1, <1>3, <2>3, <2>4, <2>5 DEF WellRead, d
<1> QED  BY <1>2, <1>4, <1>5

\* and every other record.
LEMMA WellReadNext ==
    ASSUME NEW n \in Nat, NEW c, WellRead(c, n), NEW rec \in Records(n), MayFollow(c, rec)
    PROVE  /\ WellRead(ReadRecord(c, rec), n)
           /\ c.odd => ReadRecord(c, rec).odd
<1> DEFINE d == ReadRecord(c, rec)
<1>0. c \in Chronicles(n) /\ c.told \in Seq(Nat) /\ c.turn \in Nat /\ Len(c.told) \in Nat
  BY DEF WellRead, Chronicles
<1>1. CASE rec.k = "started" /\ rec.t \in 1 .. n
  <2>1. d = [c EXCEPT !.turn = rec.t]
    BY <1>1 DEF ReadRecord
  <2>2. rec.t > c.turn /\ rec.t \in Nat
    BY <1>1 DEF MayFollow
  <2>3. /\ d \in Chronicles(n) /\ d.turn = rec.t /\ d.told = c.told /\ d.spoke = c.spoke
        /\ d.steered = c.steered /\ d.compacted = c.compacted /\ d.odd = c.odd
    BY <1>0, <2>1, <2>2 DEF Chronicles
  <2> HIDE DEF d
  <2>4. \A t \in 1 .. c.turn : t \in 1 .. d.turn
    BY <1>0, <2>2, <2>3
  <2> QED  BY <2>3, <2>4 DEF WellRead, d
<1>2. CASE rec.k = "item" /\ rec.i \in TurnItems(n)
  <2>1. d = ReadItem(c, rec.i) /\ rec.i.t = c.turn /\ c.turn > 0
    BY <1>2 DEF ReadRecord, MayFollow, InTurnKinds
  <2>2. d.odd = c.odd
    <3>1. ItemRead(c, rec.i, d)
      BY <1>0, <1>2, <2>1, ReadItemFields
    <3> HIDE DEF d
    <3> QED  BY <3>1 DEF ItemRead
  <2> QED  BY <1>2, <2>1, <2>2, WellReadItem
<1>3. CASE rec.k = "compacted" /\ rec.h \in Histories(n)
  <2>1. d = [c EXCEPT !.items = Spoken(rec.h), !.compacted = c.compacted \cup {c.turn}]
    BY <1>0, <1>3 DEF ReadRecord, Chronicles
  <2>2. Spoken(rec.h) \in Histories(n)
    BY <1>3, ItemsAtIn DEF Spoken, Histories
  <2>a. PICK spoken \in Histories(n) : spoken = Spoken(rec.h)
    BY <2>2
  <2>b. PICK with \in SUBSET Nat : with = c.compacted \cup {c.turn}
    BY <1>0 DEF Chronicles
  <2>c. d = [c EXCEPT !.items = spoken, !.compacted = with]
    BY <2>1, <2>a, <2>b
  <2> HIDE DEF d
  <2>d. /\ d \in Chronicles(n) /\ d.turn = c.turn /\ d.told = c.told /\ d.spoke = c.spoke
        /\ d.steered = c.steered /\ d.compacted = with /\ d.odd = c.odd
    BY <1>0, <2>c DEF Chronicles
  <2>3. /\ d \in Chronicles(n) /\ d.turn = c.turn /\ d.told = c.told /\ d.spoke = c.spoke
        /\ d.steered = c.steered /\ d.compacted = c.compacted \cup {c.turn} /\ d.odd = c.odd
    BY <2>b, <2>d
  <2> HIDE DEF d
  <2>4. c.turn \in 1 .. c.turn
    BY <1>0, <1>3 DEF MayFollow, InTurnKinds
  <2> QED  BY <2>3, <2>4 DEF WellRead, d
<1>4. CASE rec.k = "rolled_back" /\ rec.n \in Nat
  <2>1. d = DropTurns(c, rec.n) /\ rec.n \in Nat \ {0}
    BY <1>4 DEF ReadRecord, MayFollow
  <2>2. c.odd => d.odd
    BY <2>1, DropTurnsFields
  <2> QED  BY <2>1, <2>2, WellReadDrop
<1>5. CASE rec.k \in {"complete", "aborted", "context"}
  BY <1>5 DEF ReadRecord
<1> QED  BY <1>1, <1>2, <1>3, <1>4, <1>5, RecordKinds
-----------------------------------------------------------------------------
(* Replay and chronicle, read forward *)

\* No compaction and no steering from turn t on.
Whole(c, t) == \A b \in c.compacted \cup c.steered : b < t

\* The x-th instruction of h is the first spoken item of turn t.
OpensTurn(h, t, x) ==
    LET P == UserMessagePositions(h)
    IN /\ x \in 1 .. Len(P) /\ h[P[x]].t = t
       /\ \A p \in 1 .. P[x] - 1 : ~IsContextual(h[p]) => h[p].t < t

\* Counted from the end, instructions and told turns go together.
Aligned(h, c) ==
    LET off == Len(UserMessagePositions(h)) - Len(c.told)
    IN /\ \A j \in 1 .. Len(c.told) : Whole(c, c.told[j]) => OpensTurn(h, c.told[j], j + off)
       /\ c.compacted \cup c.steered = {} => off = 0

OwnSpoken(h, c) ==
    \A p \in 1 .. Len(h) :
        ~IsContextual(h[p]) /\ h[p].t = c.turn => c.turn \in c.spoke \cup c.compacted

\* The history h is what the chronicle c says.
Matches(h, c) ==
    /\ Spoken(h) = c.items
    /\ Ordered(h) /\ NotBeyond(h, c.turn)
    /\ OwnSpoken(h, c)
    /\ Aligned(h, c)

\* One more item, of the turn t or later.
LEMMA OpensNext ==
    ASSUME NEW I, NEW h \in Seq(I), NEW i \in I, NEW t, NEW x, OpensTurn(h, t, x)
    PROVE  OpensTurn(Append(h, i), t, x)
<1> DEFINE P == UserMessagePositions(h)
           g == Append(h, i)
           Q == UserMessagePositions(g)
<1>1. P \in Seq(1 .. Len(h)) /\ Len(P) \in Nat /\ \A y \in 1 .. Len(P) : P[y] \in 1 .. Len(h)
  BY PositionsList
<1>2. Q = IF IsUserTurnBoundary(i) THEN Append(P, Len(h) + 1) ELSE P
  BY PositionsNext
<1>3. x \in 1 .. Len(P) /\ h[P[x]].t = t /\ \A p \in 1 .. P[x] - 1 : ~IsContextual(h[p]) => h[p].t < t
  BY DEF OpensTurn
<1>4. \A p \in 1 .. Len(h) : g[p] = h[p]
  OBVIOUS
<1>5. Len(h) \in Nat
  OBVIOUS
<1> HIDE DEF P, g, Q
<1>6. x \in 1 .. Len(Q) /\ Q[x] = P[x]
  BY <1>1, <1>2, <1>3, <1>5
<1>7. P[x] \in 1 .. Len(h)
  BY <1>1, <1>3
<1>8. g[Q[x]].t = t /\ \A p \in 1 .. Q[x] - 1 : ~IsContextual(g[p]) => g[p].t < t
  BY <1>3, <1>4, <1>5, <1>6, <1>7
<1> QED  BY <1>6, <1>8 DEF OpensTurn, g, Q

\* The turn records an item.
LEMMA MatchItem ==
    ASSUME NEW n \in Nat, NEW h \in Histories(n), NEW c, WellRead(c, n), Matches(h, c),
           NEW i \in TurnItems(n), i.t = c.turn, c.turn > 0
    PROVE  Matches(Append(h, i), ReadItem(c, i))
<1> DEFINE g == Append(h, i)
           d == ReadItem(c, i)
           P == UserMessagePositions(h)
           Q == UserMessagePositions(g)
<1>0. /\ h \in Seq(TurnItems(n)) /\ Len(h) \in Nat /\ c \in Chronicles(n)
      /\ c.turn \in Nat /\ c.told \in Seq(Nat) /\ Len(c.told) \in Nat
      /\ c.steered \in SUBSET Nat /\ c.compacted \in SUBSET Nat
  BY DEF Histories, WellRead, Chronicles
<1>1. ItemRead(c, i, d)
  BY <1>0, ReadItemFields
<1>2. Len(g) = Len(h) + 1 /\ g[Len(h) + 1] = i /\ \A p \in 1 .. Len(h) : g[p] = h[p]
  BY <1>0
<1>3. Spoken(g) = IF IsContextual(i) THEN Spoken(h) ELSE Append(Spoken(h), i)
  BY <1>0, SpokenNext
<1>4. Q = IF IsUserTurnBoundary(i) THEN Append(P, Len(h) + 1) ELSE P
  BY <1>0, PositionsNext
<1>5. P \in Seq(1 .. Len(h)) /\ Len(P) \in Nat
  BY <1>0, PositionsList
<1>6. IsUserTurnBoundary(i) => ~IsContextual(i)
  BY DEF IsUserTurnBoundary, IsContextual
<1>7. \A x, t : OpensTurn(h, t, x) => OpensTurn(g, t, x)
  BY <1>0, OpensNext
<1>8. \A p \in 1 .. Len(h) : h[p].t \in Nat
  <2>1. \A p \in 1 .. Len(h) : h[p] \in TurnItems(n)
    BY <1>0
  <2> QED  BY <2>1 DEF TurnItems
<1>9. d.turn = c.turn /\ d.compacted = c.compacted /\ \A t \in c.steered : t \in d.steered
  BY <1>1 DEF ItemRead
<1>10. \A t \in c.spoke : t \in d.spoke
  BY <1>1 DEF ItemRead
<1>11. d.told = IF FirstTold(c, i) THEN Append(c.told, i.t) ELSE c.told
  BY <1>1 DEF ItemRead
<1>12. IsUserTurnBoundary(i) /\ i.t \in c.spoke => i.t \in d.steered
  BY <1>1 DEF ItemRead
<1>13. ~IsUserTurnBoundary(i) => d.steered = c.steered
  BY <1>1 DEF ItemRead
<1>14. Spoken(g) = d.items
  BY <1>1, <1>3 DEF ItemRead, Matches
<1>15. ~IsContextual(i) => c.turn \in d.spoke
  BY <1>1 DEF ItemRead
<1>16. \A t \in 1 .. c.turn : c.turn \in d.steered \cup d.compacted => ~Whole(d, t)
  BY <1>0 DEF Whole
<1> HIDE DEF g, d, P, Q
<1>17. \A p \in 1 .. Len(g) : p \in 1 .. Len(h) \/ p = Len(h) + 1
  BY <1>0, <1>2
<1>18. NotBeyond(g, d.turn)
  BY <1>2, <1>9, <1>17, <1>0 DEF Matches, NotBeyond
<1>19. Ordered(g)
  <2> SUFFICES ASSUME NEW p \in 1 .. Len(g), NEW q \in 1 .. Len(g), p < q,
                      ~IsContextual(g[p]), ~IsContextual(g[q])
               PROVE  g[p].t <= g[q].t
    BY DEF Ordered
  <2>1. p \in 1 .. Len(h) /\ g[p] = h[p]
    BY <1>0, <1>2
  <2>2. CASE q = Len(h) + 1
    BY <1>2, <2>1, <2>2 DEF Matches, NotBeyond
  <2>3. CASE q \in 1 .. Len(h)
    BY <1>2, <2>1, <2>3 DEF Matches, Ordered
  <2> QED  BY <1>17, <2>2, <2>3
<1>20. OwnSpoken(g, d)
  <2> SUFFICES ASSUME NEW p \in 1 .. Len(g), ~IsContextual(g[p]), g[p].t = c.turn
               PROVE  c.turn \in d.spoke \cup d.compacted
    BY <1>9 DEF OwnSpoken
  <2>1. CASE p = Len(h) + 1
    BY <1>2, <1>15, <2>1
  <2>2. CASE p \in 1 .. Len(h)
    BY <1>2, <1>9, <1>10, <2>2 DEF Matches, OwnSpoken
  <2> QED  BY <1>17, <2>1, <2>2
<1>21. Aligned(h, c)
  BY DEF Matches
<1>22. ASSUME NEW t, Whole(d, t) PROVE Whole(c, t)
  BY <1>9, <1>22 DEF Whole
<1>23. CASE FirstTold(c, i)
  <2>1. IsUserTurnBoundary(i) /\ ~IsContextual(i)
    BY <1>6, <1>23 DEF FirstTold
  <2>2. Q = Append(P, Len(h) + 1) /\ d.told = Append(c.told, c.turn)
    BY <1>4, <1>11, <1>23, <2>1
  <2>3. /\ Len(Q) = Len(P) + 1 /\ Q[Len(P) + 1] = Len(h) + 1
        /\ Len(d.told) = Len(c.told) + 1 /\ d.told[Len(c.told) + 1] = c.turn
        /\ \A j \in 1 .. Len(c.told) : d.told[j] = c.told[j]
    BY <1>0, <1>5, <2>2
  <2>4. Len(Q) - Len(d.told) = Len(P) - Len(c.told)
    BY <1>0, <1>5, <2>3
  <2>5. ASSUME NEW j \in 1 .. Len(d.told), Whole(d, d.told[j])
        PROVE  OpensTurn(g, d.told[j], j + (Len(P) - Len(c.told)))
    <3>1. CASE j \in 1 .. Len(c.told)
      <4>1. Whole(c, c.told[j])
        BY <1>22, <2>3, <2>5, <3>1
      <4>2. OpensTurn(h, c.told[j], j + (Len(P) - Len(c.told)))
        BY <1>21, <3>1, <4>1 DEF Aligned, P
      <4> QED  BY <1>7, <2>3, <3>1, <4>2
    <3>2. CASE j = Len(c.told) + 1
      <4>1. d.told[j] = c.turn /\ j + (Len(P) - Len(c.told)) = Len(P) + 1
        <5>1. d.told[j] = c.turn
          BY <2>3, <3>2
        <5>2. \A a, b \in Nat : (b + 1) + (a - b) = a + 1
          OBVIOUS
        <5> QED  BY <1>0, <1>5, <3>2, <5>1, <5>2
      <4>2. c.turn \notin d.steered /\ c.turn \notin d.compacted
        <5>1. c.turn \in 1 .. c.turn
          BY <1>0
        <5> QED  BY <1>16, <2>5, <4>1, <5>1
      <4>3. c.turn \notin c.spoke \cup c.compacted
        BY <1>9, <1>12, <2>1, <4>2
      <4>4. \A p \in 1 .. Len(h) : ~IsContextual(h[p]) => h[p].t < c.turn
        BY <1>0, <1>8, <4>3 DEF Matches, OwnSpoken, NotBeyond
      <4>5. Len(P) + 1 \in 1 .. Len(Q) /\ g[Q[Len(P) + 1]].t = c.turn
        BY <1>2, <1>5, <2>3
      <4>6. \A p \in 1 .. Q[Len(P) + 1] - 1 : ~IsContextual(g[p]) => g[p].t < c.turn
        BY <1>0, <1>2, <2>3, <4>4
      <4>7. OpensTurn(g, c.turn, Len(P) + 1)
        BY <4>5, <4>6 DEF OpensTurn, Q
      <4> QED  BY <4>1, <4>7
    <3>3. j \in 1 .. Len(c.told) \/ j = Len(c.told) + 1
      BY <1>0, <2>3
    <3> QED  BY <3>1, <3>2, <3>3
  <2>6. d.compacted \cup d.steered = {} => Len(P) - Len(c.told) = 0
    BY <1>9, <1>21 DEF Aligned, P
  <2>7. Aligned(g, d)
    BY <2>4, <2>5, <2>6 DEF Aligned, Q
  <2> QED  BY <1>14, <1>18, <1>19, <1>20, <2>7 DEF Matches, g, d
<1>24. CASE ~FirstTold(c, i) /\ IsUserTurnBoundary(i)
  <2>1. c.told # <<>> /\ Last(c.told) = i.t
    BY <1>24 DEF FirstTold
  <2>2. Len(c.told) \in 1 .. Len(c.told) /\ c.told[Len(c.told)] = c.turn
    BY <1>0, <2>1 DEF Last
  <2>3. c.turn \in c.spoke
    BY <2>2 DEF WellRead
  <2>4. c.turn \in d.steered
    BY <1>12, <1>24, <2>3
  <2>5. d.told = c.told /\ \A j \in 1 .. Len(c.told) : c.told[j] \in 1 .. c.turn
    BY <1>11, <1>24 DEF WellRead
  <2>6. Aligned(g, d)
    BY <1>16, <2>4, <2>5 DEF Aligned
  <2> QED  BY <1>14, <1>18, <1>19, <1>20, <2>6 DEF Matches, g, d
<1>25. CASE ~IsUserTurnBoundary(i)
  <2>1. Q = P /\ d.told = c.told
    BY <1>4, <1>11, <1>25 DEF FirstTold
  <2>2. d.steered = c.steered
    BY <1>13, <1>25
  <2>3. \A j \in 1 .. Len(c.told) : Whole(d, c.told[j]) => OpensTurn(g, c.told[j], j + (Len(P) - Len(c.told)))
    BY <1>7, <1>21, <1>22 DEF Aligned, P
  <2>4. d.compacted \cup d.steered = {} => Len(P) - Len(c.told) = 0
    BY <1>9, <1>21, <2>2 DEF Aligned, P
  <2>5. Aligned(g, d)
    BY <2>1, <2>3, <2>4 DEF Aligned, Q
  <2> QED  BY <1>14, <1>18, <1>19, <1>20, <2>5 DEF Matches, g, d
<1> QED  BY <1>23, <1>24, <1>25

\* The next turn begins.
LEMMA MatchStarted ==
    ASSUME NEW n \in Nat, NEW h \in Histories(n), NEW c, WellRead(c, n), Matches(h, c),
           NEW t \in Nat, t > c.turn
    PROVE  Matches(h, [c EXCEPT !.turn = t])
<1> DEFINE d == [c EXCEPT !.turn = t]
<1>0. c \in Chronicles(n) /\ c.turn \in Nat
  BY DEF WellRead, Chronicles
<1>1. /\ d.turn = t /\ d.items = c.items /\ d.told = c.told /\ d.spoke = c.spoke
      /\ d.steered = c.steered /\ d.compacted = c.compacted
  BY <1>0 DEF Chronicles
<1> HIDE DEF d
<1>2. \A p \in 1 .. Len(h) : h[p].t \in Nat
  <2>1. \A p \in 1 .. Len(h) : h[p] \in TurnItems(n)
    BY DEF Histories
  <2> QED  BY <2>1 DEF TurnItems
<1>3. \A p \in 1 .. Len(h) : ~IsContextual(h[p]) => h[p].t < t
  BY <1>0, <1>2 DEF Matches, NotBeyond
<1>4. NotBeyond(h, d.turn) /\ OwnSpoken(h, d)
  BY <1>1, <1>2, <1>3 DEF NotBeyond, OwnSpoken
<1>5. Aligned(h, d)
  BY <1>1 DEF Matches, Aligned, Whole
<1> QED  BY <1>1, <1>4, <1>5 DEF Matches, d

\* The turn compacts the history.
LEMMA MatchCompacted ==
    ASSUME NEW n \in Nat, NEW g \in Histories(n), NEW c, WellRead(c, n), c.turn > 0,
           Ordered(g), NotBeyond(g, c.turn),
           NEW d, d.items = Spoken(g), d.turn = c.turn, d.told = c.told,
           d.compacted = c.compacted \cup {c.turn}
    PROVE  Matches(g, d)
<1>0. c.turn \in Nat
  BY DEF WellRead, Chronicles
<1>1. OwnSpoken(g, d)
  BY DEF OwnSpoken
<1>2. \A j \in 1 .. Len(c.told) : ~Whole(d, c.told[j])
  <2>1. c.turn \in d.compacted \cup d.steered
    OBVIOUS
  <2>2. \A j \in 1 .. Len(c.told) : ~(c.turn < c.told[j])
    BY <1>0 DEF WellRead
  <2> QED  BY <2>1, <2>2 DEF Whole
<1>3. d.compacted \cup d.steered # {}
  OBVIOUS
<1>4. Aligned(g, d)
  BY <1>2, <1>3 DEF Aligned
<1> QED  BY <1>1, <1>4 DEF Matches

\* Nothing to drop.
LEMMA MatchDropNothing ==
    ASSUME NEW n \in Nat, NEW h \in Histories(n), NEW c, WellRead(c, n), Matches(h, c),
           NEW m \in Nat \ {0}, c.told = <<>>, ~DropTurns(c, m).odd
    PROVE  Matches(DropLastNUserTurns(h, m), DropTurns(c, m))
<1> DEFINE d == DropTurns(c, m)
           first == FirstDropped(c, m)
           P == UserMessagePositions(h)
<1>0. /\ h \in Seq(TurnItems(n)) /\ c \in Chronicles(n) /\ c.turn \in Nat
      /\ c.spoke \in SUBSET Nat
  BY DEF WellRead, Chronicles, Histories
<1>1. first = c.turn + 1
  BY FirstIs
<1>2. /\ d.turn = c.turn /\ d.items = Early(c.items, first)
      /\ d.told = SubSeq(c.told, 1, Len(c.told) - m)
      /\ d.spoke = {t \in c.spoke : t < first}
      /\ d.steered = {t \in c.steered : t < first}
      /\ d.compacted = {t \in c.compacted : t < first}
      /\ m > Len(c.told) => c.compacted = {}
  BY DropTurnsFields
<1>3. Len(c.told) = 0 /\ c.compacted = {} /\ c.steered = {}
  BY <1>2 DEF WellRead
<1>4. P = <<>>
  <2>1. Len(P) - Len(c.told) = 0
    BY <1>3 DEF Matches, Aligned
  <2>2. P \in Seq(1 .. Len(h))
    BY <1>0, PositionsList
  <2> QED  BY <1>3, <2>1, <2>2
<1>5. DropLastNUserTurns(h, m) = h
  BY <1>4, DropNothing
<1>6. \A p \in 1 .. Len(h) : h[p] \in TurnItems(n) /\ h[p].t \in Nat
  <2>1. \A p \in 1 .. Len(h) : h[p] \in TurnItems(n)
    BY <1>0
  <2> QED  BY <2>1 DEF TurnItems
<1>7. \A p \in 1 .. Len(h) : ~IsContextual(h[p]) => (h[p].t < first <=> p < Len(h) + 1)
  <2>1. \A p \in 1 .. Len(h) : ~IsContextual(h[p]) => h[p].t <= c.turn
    BY DEF Matches, NotBeyond
  <2>2. \A p \in 1 .. Len(h) : p < Len(h) + 1
    BY <1>0
  <2>3. \A p \in 1 .. Len(h) : h[p].t <= c.turn => h[p].t < first
    BY <1>0, <1>1, <1>6
  <2> QED  BY <2>1, <2>2, <2>3
<1>8. Early(Spoken(h), first) = Spoken(h)
  <2>1. first \in Int /\ Len(h) + 1 \in 1 .. Len(h) + 1 /\ SubSeq(h, 1, (Len(h) + 1) - 1) = h
    BY <1>0, <1>1
  <2> HIDE DEF first
  <2> QED  BY <1>7, <2>1, EarlySpoken
<1>9. d.items = Spoken(h)
  BY <1>2, <1>8 DEF Matches
<1>10. d.told = <<>> /\ Len(d.told) = 0 /\ d.compacted = {} /\ d.steered = {}
  BY <1>2, <1>3
<1>11. Aligned(h, d)
  BY <1>4, <1>10 DEF Aligned
<1>12. OwnSpoken(h, d)
  BY <1>0, <1>1, <1>2, <1>3 DEF Matches, OwnSpoken
<1> HIDE DEF d
<1> QED  BY <1>2, <1>5, <1>9, <1>11, <1>12 DEF Matches, d

\* The rollback of m turns cuts h at the instruction that opens the first of them:
\* the x-th of the history is the j-th told turn of the chronicle.
CutsAt(h, c, m) ==
    LET L == Len(c.told)
        N == Len(UserMessagePositions(h))
        j == CutIndex(m, L)
        x == CutIndex(m, N)
    IN j \in 1 .. L /\ x \in 1 .. N /\ x = j + (N - L) /\ OpensTurn(h, c.told[j], x)

\* The cut, counted from the end of two lists.
LEMMA CutFromEnd ==
    ASSUME NEW m \in Nat \ {0}, NEW L \in Nat, NEW N \in Nat, NEW j \in 1 .. L,
           j = CutIndex(m, L), NEW off \in Int, off = N - L, NEW x \in 1 .. N, x = j + off
    PROVE  m <= L \/ off = 0 => x = CutIndex(m, N)
<1>1. CASE m <= L
  <2>1. j = L - m + 1
    BY <1>1 DEF CutIndex
  <2>2. x + m = N + 1
    BY <2>1
  <2> QED  BY <2>2 DEF CutIndex
<1>2. CASE m > L
  BY <1>2 DEF CutIndex
<1>3. m <= L \/ m > L
  OBVIOUS
<1> QED  BY <1>1, <1>2, <1>3

LEMMA CutsAtTurn ==
    ASSUME NEW n \in Nat, NEW h \in Histories(n), NEW c, WellRead(c, n), Aligned(h, c),
           NEW m \in Nat \ {0}, c.told # <<>>, Whole(c, c.told[CutIndex(m, Len(c.told))]),
           m > Len(c.told) => c.compacted = {}
    PROVE  CutsAt(h, c, m)
<1>a. PICK L \in Nat : L = Len(c.told) /\ L > 0
  <2>1. c.told \in Seq(Nat)
    BY DEF WellRead, Chronicles
  <2>2. Len(c.told) \in Nat /\ Len(c.told) > 0
    BY <2>1
  <2> QED  BY <2>2
<1>b. PICK N \in Nat : N = Len(UserMessagePositions(h))
  <2>1. Len(UserMessagePositions(h)) \in Nat
    BY PositionsList DEF Histories
  <2> QED  BY <2>1
<1>c. PICK j \in 1 .. L : j = CutIndex(m, L)
  <2>1. CutIndex(m, L) \in 1 .. L
    BY <1>a DEF CutIndex
  <2> QED  BY <2>1
<1>d. PICK off \in Int : off = N - L
  OBVIOUS
<1>e. PICK x \in Int : x = j + off
  <2>1. j + off \in Int
    OBVIOUS
  <2> QED  BY <2>1
<1>0. c.turn \in Nat /\ \A k \in 1 .. L : c.told[k] \in 1 .. c.turn
  BY <1>a DEF WellRead, Chronicles
<1>1. ASSUME NEW k \in 1 .. L PROVE c.told[k] \in Nat
  <2>1. c.told[k] \in 1 .. c.turn
    BY <1>0
  <2> QED  BY <1>0, <2>1
<1>f. Whole(c, c.told[j])
  BY <1>a, <1>c
<1>2. OpensTurn(h, c.told[j], x)
  BY <1>a, <1>b, <1>d, <1>e, <1>f DEF Aligned
<1>3. x \in 1 .. N
  BY <1>2, <1>b DEF OpensTurn
<1>4. ASSUME m <= L \/ off = 0 PROVE CutsAt(h, c, m)
  <2>1. x = CutIndex(m, N)
    BY <1>3, <1>4, <1>c, <1>d, <1>e, CutFromEnd
  <2>2. x = j + (N - L)
    BY <1>d, <1>e
  <2> QED  BY <1>2, <1>3, <1>a, <1>b, <1>c, <2>1, <2>2 DEF CutsAt
<1>5. CASE m > L
  <2>1. j = 1 /\ c.compacted = {}
    BY <1>5, <1>a, <1>c DEF CutIndex
  <2>2. c.steered = {}
    <3> SUFFICES ASSUME NEW t \in c.steered PROVE FALSE
      OBVIOUS
    <3>1. PICK k \in 1 .. L : c.told[k] = t
      BY <1>a DEF WellRead
    <3>2. t < c.told[1]
      BY <1>f, <2>1 DEF Whole
    <3>3. 1 \in 1 .. L /\ (k = 1 \/ 1 < k)
      BY <2>1
    <3>4. k = 1 \/ c.told[1] < c.told[k]
      BY <1>a, <3>3 DEF WellRead
    <3>5. c.told[1] \in Nat /\ c.told[k] \in Nat
      BY <1>1, <3>3
    <3> QED  BY <3>1, <3>2, <3>4, <3>5
  <2>3. off = 0
    BY <1>a, <1>b, <1>d, <2>1, <2>2 DEF Aligned
  <2> QED  BY <1>4, <2>3
<1>6. m <= L \/ m > L
  OBVIOUS
<1> QED  BY <1>4, <1>5, <1>6

\* Whole turns are dropped.
LEMMA MatchDropTurns ==
    ASSUME NEW n \in Nat, NEW h \in Histories(n), NEW c, WellRead(c, n), Matches(h, c),
           NEW m \in Nat \ {0}, c.told # <<>>, ~DropTurns(c, m).odd
    PROVE  Matches(DropLastNUserTurns(h, m), DropTurns(c, m))
<1> DEFINE d == DropTurns(c, m)
           first == FirstDropped(c, m)
           P == UserMessagePositions(h)
<1>0. /\ h \in Seq(TurnItems(n)) /\ Len(h) \in Nat /\ c \in Chronicles(n) /\ c.turn \in Nat
      /\ c.spoke \in SUBSET Nat /\ c.compacted \in SUBSET Nat /\ c.steered \in SUBSET Nat
      /\ c.told \in Seq(Nat) /\ Len(c.told) \in Nat
  BY DEF WellRead, Chronicles, Histories
<1>a. PICK L \in Nat : L = Len(c.told)
  BY <1>0
<1>b. PICK N \in Nat : N = Len(P)
  BY <1>0, PositionsList
<1>1. PICK j \in 1 .. L : /\ j = CutIndex(m, L) /\ first = c.told[j]
                          /\ SubSeq(c.told, 1, L - m) = SubSeq(c.told, 1, j - 1)
  <2>1. FirstAt(c, m, CutIndex(m, L))
    BY <1>a, FirstIs
  <2> QED  BY <1>a, <2>1 DEF FirstAt
<1>2. /\ d.turn = c.turn /\ d.items = Early(c.items, first)
      /\ d.told = SubSeq(c.told, 1, L - m)
      /\ d.spoke = {t \in c.spoke : t < first}
      /\ d.steered = {t \in c.steered : t < first}
      /\ d.compacted = {t \in c.compacted : t < first}
      /\ \A t \in c.compacted \cup c.steered : ~(t >= first)
      /\ m > L => c.compacted = {}
  BY <1>a, DropTurnsFields
<1>3. first \in Nat
  BY FirstIs
<1> HIDE DEF d, first
<1>4. \A t \in c.compacted \cup c.steered : t < first
  BY <1>0, <1>2, <1>3
<1>5. d.steered = c.steered /\ d.compacted = c.compacted
  BY <1>2, <1>4
<1>6. Whole(c, c.told[j])
  BY <1>1, <1>4 DEF Whole
<1>7. Aligned(h, c)
  BY DEF Matches
<1>c. PICK off \in Int : off = N - L
  OBVIOUS
<1>d. PICK x \in Int : x = j + off
  <2>1. j + off \in Int
    OBVIOUS
  <2> QED  BY <2>1
<1>8. OpensTurn(h, first, x) /\ x \in 1 .. N /\ x = CutIndex(m, N)
  <2>1. /\ m > Len(c.told) => c.compacted = {}
        /\ j = CutIndex(m, Len(c.told)) /\ first = c.told[j]
    BY <1>1, <1>2, <1>a
  <2>2. Whole(c, c.told[CutIndex(m, Len(c.told))])
    BY <1>6, <2>1
  <2>3. CutsAt(h, c, m)
    BY <1>7, <2>1, <2>2, CutsAtTurn
  <2>4. CutIndex(m, N) = j + (N - L) /\ CutIndex(m, N) \in 1 .. N
        /\ OpensTurn(h, c.told[j], CutIndex(m, N))
    BY <1>a, <1>b, <2>1, <2>3 DEF CutsAt
  <2>5. x = j + (N - L)
    BY <1>c, <1>d
  <2> QED  BY <2>1, <2>4, <2>5
<1>9. /\ P \in Seq(1 .. Len(h))
      /\ \A y \in 1 .. N : P[y] \in 1 .. Len(h) /\ IsUserTurnBoundary(h[P[y]])
      /\ \A y, z \in 1 .. N : y < z => P[y] < P[z]
  BY <1>0, <1>b, PositionsList
<1>10. /\ h[P[x]].t = first
       /\ \A p \in 1 .. P[x] - 1 : ~IsContextual(h[p]) => h[p].t < first
  BY <1>8 DEF OpensTurn
<1>e. PICK cut \in 1 .. Len(h) : cut = P[x]
  BY <1>8, <1>9
<1>11. PICK e \in 1 .. cut : /\ DropLastNUserTurns(h, m) = SubSeq(h, 1, e - 1)
                            /\ \A p \in e .. cut - 1 : IsContextual(h[p])
  BY <1>0, <1>b, <1>8, <1>e, DropExact
<1>12. x - 1 = (j - 1) + off
  BY <1>d
<1> HIDE DEF P
<1>13. e \in 1 .. Len(h) + 1 /\ e \in Nat /\ cut \in Nat /\ e <= cut
  BY <1>0, <1>11
<1>14. \A i : IsUserTurnBoundary(i) => ~IsContextual(i)
  BY DEF IsUserTurnBoundary, IsContextual
<1>15. \A p \in 1 .. Len(h) : h[p].t \in Nat
  <2>1. \A p \in 1 .. Len(h) : h[p] \in TurnItems(n)
    BY <1>0
  <2> QED  BY <2>1 DEF TurnItems
<1>16. \A p \in 1 .. Len(h) : ~IsContextual(h[p]) => (h[p].t < first <=> p < e)
  <2> SUFFICES ASSUME NEW p \in 1 .. Len(h), ~IsContextual(h[p]) PROVE h[p].t < first <=> p < e
    OBVIOUS
  <2>1. CASE p < e
    <3>1. p \in 1 .. cut - 1
      BY <1>13, <2>1
    <3> QED  BY <1>10, <1>e, <2>1, <3>1
  <2>2. CASE p >= e
    <3>1. p >= cut
      BY <1>11, <1>13, <2>2
    <3>2. ~IsContextual(h[cut]) /\ h[cut].t = first
      BY <1>8, <1>9, <1>10, <1>14, <1>e
    <3>3. p = cut \/ cut < p
      BY <3>1
    <3>4. p = cut \/ h[cut].t <= h[p].t
      BY <3>2, <3>3 DEF Matches, Ordered
    <3> QED  BY <1>3, <1>13, <1>15, <2>2, <3>2, <3>4
  <2> QED  BY <1>13, <2>1, <2>2
<1> DEFINE g == SubSeq(h, 1, e - 1)
           Q == UserMessagePositions(g)
<1>17. Spoken(g) = d.items
  BY <1>2, <1>3, <1>13, <1>16, EarlySpoken DEF Matches
<1>18. \A y \in 1 .. N : P[y] < e <=> y <= x - 1
  <2> SUFFICES ASSUME NEW y \in 1 .. N PROVE P[y] < e <=> y <= x - 1
    OBVIOUS
  <2>0. PICK z \in 1 .. Len(h) : z = P[y]
    BY <1>9
  <2>1. ~IsContextual(h[z])
    BY <1>9, <1>14, <2>0
  <2>2. CASE y < x
    <3>1. z < cut
      BY <1>8, <1>9, <1>e, <2>0, <2>2
    <3>2. z < e
      BY <1>11, <1>13, <2>1, <3>1
    <3> QED  BY <2>0, <2>2, <3>2
  <2>3. CASE y >= x
    <3>1. y = x \/ x < y
      BY <2>3
    <3>2. z = cut \/ cut < z
      BY <1>8, <1>9, <1>e, <2>0, <3>1
    <3>3. ~(z < e)
      BY <1>13, <3>2
    <3> QED  BY <2>0, <2>3, <3>3
  <2> QED  BY <2>2, <2>3
<1>19. Q = SubSeq(P, 1, x - 1)
  <2>1. x - 1 \in Nat /\ x - 1 <= N
    BY <1>8
  <2> QED  BY <1>0, <1>b, <1>13, <1>18, <2>1, PositionsPrefix DEF P
<1>20. Len(Q) = x - 1 /\ \A y \in 1 .. x - 1 : Q[y] = P[y] /\ y \in 1 .. N /\ P[y] < e
  <2>1. x - 1 \in 0 .. N /\ N = Len(P)
    BY <1>8, <1>b DEF P
  <2>2. Len(Q) = x - 1 /\ \A y \in 1 .. x - 1 : Q[y] = P[y]
    <3> HIDE DEF Q
    <3> QED  BY <1>9, <1>19, <2>1
  <2>3. \A y \in 1 .. x - 1 : y \in 1 .. N /\ P[y] < e
    BY <1>18, <2>1
  <2> QED  BY <2>2, <2>3
<1>21. Len(d.told) = j - 1 /\ \A k \in 1 .. j - 1 : d.told[k] = c.told[k] /\ k \in 1 .. L
  <2>1. d.told = SubSeq(c.told, 1, j - 1) /\ j - 1 \in 0 .. L
    BY <1>1, <1>2
  <2> QED  BY <1>0, <1>a, <2>1
<1>22. Len(g) = e - 1 /\ \A p \in 1 .. e - 1 : g[p] = h[p] /\ p \in 1 .. Len(h)
  BY <1>0, <1>13
<1>23. Len(Q) - Len(d.told) = off
  <2>1. (x - 1) - (j - 1) = off
    BY <1>12
  <2> HIDE DEF Q
  <2> QED  BY <1>20, <1>21, <2>1
<1> HIDE DEF g, Q
<1>24. Ordered(g) /\ NotBeyond(g, d.turn)
  BY <1>2, <1>22 DEF Matches, Ordered, NotBeyond
<1>25. OwnSpoken(g, d)
  <2> SUFFICES ASSUME NEW p \in 1 .. Len(g), ~IsContextual(g[p]), g[p].t = c.turn
               PROVE  c.turn \in d.spoke \cup d.compacted
    BY <1>2 DEF OwnSpoken
  <2>1. p \in 1 .. Len(h) /\ g[p] = h[p] /\ p < e
    BY <1>13, <1>22
  <2>2. c.turn < first /\ c.turn \in c.spoke \cup c.compacted
    BY <1>16, <2>1 DEF Matches, OwnSpoken
  <2> QED  BY <1>2, <2>2
<1>26. ASSUME NEW k \in 1 .. Len(d.told), Whole(d, d.told[k])
       PROVE  OpensTurn(g, d.told[k], k + off)
  <2>1. k \in 1 .. j - 1 /\ d.told[k] = c.told[k] /\ k \in 1 .. L
    BY <1>21
  <2>2. Whole(c, c.told[k])
    BY <1>5, <1>26, <2>1 DEF Whole
  <2>3. PICK y \in Int : y = k + off
    BY <2>1
  <2>4. OpensTurn(h, c.told[k], y)
    BY <1>7, <1>a, <1>b, <1>c, <2>1, <2>2, <2>3 DEF Aligned, P
  <2>5. /\ y \in 1 .. N /\ h[P[y]].t = c.told[k]
        /\ \A p \in 1 .. P[y] - 1 : ~IsContextual(h[p]) => h[p].t < c.told[k]
    BY <1>b, <2>4 DEF OpensTurn, P
  <2>6. y \in 1 .. x - 1
    BY <1>12, <2>1, <2>3, <2>5
  <2>7. y \in 1 .. Len(Q) /\ Q[y] = P[y] /\ P[y] < e
    BY <1>20, <2>6
  <2>8. PICK z \in 1 .. Len(h) : z = P[y]
    BY <1>9, <2>5
  <2>9. z \in 1 .. e - 1
    BY <1>13, <2>7, <2>8
  <2>a. h[z].t = c.told[k] /\ \A p \in 1 .. z - 1 : ~IsContextual(h[p]) => h[p].t < c.told[k]
    BY <2>5, <2>8
  <2>b. g[z] = h[z] /\ \A p \in 1 .. z - 1 : g[p] = h[p]
    <3>1. g[z] = h[z]
      BY <1>22, <2>9
    <3>2. \A p \in 1 .. z - 1 : p \in 1 .. e - 1
      BY <1>13, <2>9
    <3> QED  BY <1>22, <3>1, <3>2
  <2>10. g[z].t = c.told[k] /\ \A p \in 1 .. z - 1 : ~IsContextual(g[p]) => g[p].t < c.told[k]
    BY <2>a, <2>b
  <2>11. OpensTurn(g, c.told[k], y)
    BY <2>7, <2>8, <2>10 DEF OpensTurn, Q
  <2> QED  BY <2>1, <2>3, <2>11
<1>27. d.compacted \cup d.steered = {} => off = 0
  BY <1>5, <1>7, <1>a, <1>b, <1>c DEF Aligned, P
<1>28. Aligned(g, d)
  BY <1>23, <1>26, <1>27 DEF Aligned, Q
<1> QED  BY <1>11, <1>17, <1>24, <1>25, <1>28 DEF Matches, g, d

\* Any record.
LEMMA MatchNext ==
    ASSUME NEW n \in Nat, NEW h \in Histories(n), NEW c, WellRead(c, n), Matches(h, c),
           NEW rec \in Records(n), MayFollow(c, rec), ~ReadRecord(c, rec).odd
    PROVE  Matches(ReplayRecord(h, rec), ReadRecord(c, rec))
<1>1. CASE rec.k = "started" /\ rec.t \in 1 .. n
  <2>1. ReadRecord(c, rec) = [c EXCEPT !.turn = rec.t] /\ ReplayRecord(h, rec) = h
    BY <1>1 DEF ReadRecord, ReplayRecord
  <2>2. rec.t \in Nat /\ rec.t > c.turn
    BY <1>1 DEF MayFollow
  <2> QED  BY <2>1, <2>2, MatchStarted
<1>2. CASE rec.k = "item" /\ rec.i \in TurnItems(n)
  <2>1. ReadRecord(c, rec) = ReadItem(c, rec.i) /\ ReplayRecord(h, rec) = Append(h, rec.i)
    BY <1>2 DEF ReadRecord, ReplayRecord
  <2>2. rec.i.t = c.turn /\ c.turn > 0
    BY <1>2 DEF MayFollow, InTurnKinds
  <2> QED  BY <1>2, <2>1, <2>2, MatchItem
<1>3. CASE rec.k = "compacted" /\ rec.h \in Histories(n)
  <2> DEFINE d == ReadRecord(c, rec)
  <2>0. c \in Chronicles(n)
    BY DEF WellRead
  <2>1. d = [c EXCEPT !.items = Spoken(rec.h), !.compacted = c.compacted \cup {c.turn}]
        /\ ReplayRecord(h, rec) = rec.h
    BY <1>3, <2>0 DEF ReadRecord, ReplayRecord, Chronicles
  <2>2. /\ d.items = Spoken(rec.h) /\ d.turn = c.turn /\ d.told = c.told
        /\ d.compacted = c.compacted \cup {c.turn} /\ d.odd = c.odd
    BY <2>0, <2>1 DEF Chronicles
  <2> HIDE DEF d
  <2>3. ~d.odd
    BY DEF d
  <2>4. c.turn > 0 /\ Ordered(rec.h) /\ NotBeyond(rec.h, c.turn)
    BY <1>3, <2>2, <2>3 DEF MayFollow, InTurnKinds
  <2>5. Matches(rec.h, d)
    BY <1>3, <2>2, <2>4, MatchCompacted
  <2> QED  BY <2>1, <2>5 DEF d
<1>4. CASE rec.k = "rolled_back" /\ rec.n \in Nat
  <2>1. ReadRecord(c, rec) = DropTurns(c, rec.n) /\ ReplayRecord(h, rec) = DropLastNUserTurns(h, rec.n)
    BY <1>4 DEF ReadRecord, ReplayRecord
  <2>2. rec.n \in Nat \ {0}
    BY <1>4 DEF MayFollow
  <2>3. ~DropTurns(c, rec.n).odd
    BY <2>1
  <2>4. Matches(DropLastNUserTurns(h, rec.n), DropTurns(c, rec.n))
    <3>1. CASE c.told = <<>>
      BY <2>2, <2>3, <3>1, MatchDropNothing
    <3>2. CASE c.told # <<>>
      BY <2>2, <2>3, <3>2, MatchDropTurns
    <3> QED  BY <3>1, <3>2
  <2> QED  BY <2>1, <2>4
<1>5. CASE rec.k \in {"complete", "aborted", "context"}
  BY <1>5 DEF ReadRecord, ReplayRecord
<1> QED  BY <1>1, <1>2, <1>3, <1>4, <1>5, RecordKinds

\* The replay of all records.
Full(r) == Replay(r, 1, <<>>)

\* Every record may stand where it stands; a turn does not go on behind a rollback.
Fits(r, p) ==
    /\ MayFollow(Chronicle(r)[p - 1], r[p])
    /\ r[p].k \in InTurnKinds => p > 1 /\ r[p - 1].k # "rolled_back"

Fitting(r) == \A p \in 1 .. Len(r) : Fits(r, p)

\* Replay and chronicle agree until a rollback is odd.
Agrees(r, n, p) ==
    /\ WellRead(Chronicle(r)[p], n)
    /\ Full(r)[p] \in Histories(n)
    /\ Chronicle(r)[p].odd \/ Matches(Full(r)[p], Chronicle(r)[p])

\* It begins well read, and matches the empty history.
LEMMA NewChronicleRead ==
    ASSUME NEW n \in Nat
    PROVE  WellRead(NewChronicle, n) /\ Matches(<<>>, NewChronicle)
<1> DEFINE c == NewChronicle
<1>1. /\ c.turn = 0 /\ c.items = <<>> /\ c.told = <<>> /\ c.spoke = {} /\ c.steered = {}
      /\ c.compacted = {} /\ c \in Chronicles(n)
  BY DEF NewChronicle, Chronicles, Histories
<1> HIDE DEF c
<1>2. Len(c.told) = 0
  BY <1>1
<1>3. WellRead(c, n)
  BY <1>1, <1>2 DEF WellRead
<1>4. UserMessagePositions(<<>>) = <<>> /\ Spoken(<<>>) = <<>>
  <2>1. \A S : Ascending(S, 0) = <<>>
    <3> SUFFICES ASSUME NEW S PROVE Ascending(S, 0) = <<>>
      OBVIOUS
    <3>1. PICK f : Ascending(S, 0) = f[0] /\ Climbs(f, S, 0)
      BY AscendingDef
    <3> QED  BY <3>1 DEF Climbs
  <2>2. Len(<<>>) = 0
    OBVIOUS
  <2>3. UserMessagePositions(<<>>) = <<>>
    BY <2>1, <2>2 DEF UserMessagePositions
  <2>4. \A S : ItemsAt(<<>>, S) = <<>>
    <3> SUFFICES ASSUME NEW S PROVE ItemsAt(<<>>, S) = <<>>
      OBVIOUS
    <3>1. Ascending(S, Len(<<>>)) = <<>>
      BY <2>1, <2>2
    <3> QED  BY <3>1 DEF ItemsAt
  <2> QED  BY <2>3, <2>4 DEF Spoken
<1>5. Aligned(<<>>, c)
  <2>1. Len(UserMessagePositions(<<>>)) = 0
    BY <1>4
  <2> QED  BY <1>2, <2>1 DEF Aligned
<1>6. Ordered(<<>>) /\ NotBeyond(<<>>, c.turn) /\ OwnSpoken(<<>>, c)
  BY DEF Ordered, NotBeyond, OwnSpoken
<1>7. Matches(<<>>, c)
  BY <1>1, <1>4, <1>5, <1>6 DEF Matches
<1> QED  BY <1>3, <1>7 DEF c

LEMMA Forward ==
    ASSUME NEW n \in Nat, NEW r \in Seq(Records(n)), Fitting(r)
    PROVE  \A p \in 0 .. Len(r) : Agrees(r, n, p)
<1> DEFINE T == {p \in 0 .. Len(r) : Agrees(r, n, p)}
<1>0. Len(r) \in Nat /\ 1 \in 1 .. Len(r) + 1 /\ <<>> \in Histories(n)
  BY DEF Histories
<1>1. \A p \in 0 .. Len(r) : Full(r)[p] = IF p < 1 THEN <<>> ELSE ReplayRecord(Full(r)[p - 1], r[p])
  BY <1>0, ReplayDef DEF Full
<1>2. \A p \in 0 .. Len(r) : Full(r)[p] \in Histories(n)
  <2>1. \A p \in 1 - 1 .. Len(r) : Full(r)[p] \in Histories(n)
    BY <1>0, ReplayTyped DEF Full
  <2> QED  BY <2>1
<1>3. 0 \in T
  <2>1. Full(r)[0] = <<>> /\ Chronicle(r)[0] = NewChronicle /\ 0 \in 0 .. Len(r)
    BY <1>0, <1>1, ChronicleDef
  <2>2. WellRead(NewChronicle, n) /\ Matches(<<>>, NewChronicle)
    BY NewChronicleRead
  <2> QED  BY <1>0, <2>1, <2>2 DEF Agrees
<1>4. ASSUME NEW p \in 0 .. Len(r) - 1, p \in T PROVE p + 1 \in T
  <2> DEFINE c == Chronicle(r)[p]
             h == Full(r)[p]
             rec == r[p + 1]
  <2>1. p + 1 \in 1 .. Len(r) /\ p + 1 \in 0 .. Len(r) /\ (p + 1) - 1 = p /\ ~(p + 1 < 1)
    BY <1>0
  <2>2. Chronicle(r)[p + 1] = ReadRecord(c, rec)
    BY <2>1, ChronicleDef
  <2>3. Full(r)[p + 1] = ReplayRecord(h, rec)
    BY <1>1, <2>1
  <2>4. MayFollow(c, rec)
    BY <2>1 DEF Fitting, Fits
  <2>5. rec \in Records(n) /\ Full(r)[p + 1] \in Histories(n)
    BY <1>2, <2>1
  <2>6. WellRead(c, n) /\ h \in Histories(n) /\ (c.odd \/ Matches(h, c))
    BY <1>4 DEF Agrees
  <2> HIDE DEF c, h, rec
  <2>7. WellRead(ReadRecord(c, rec), n) /\ (c.odd => ReadRecord(c, rec).odd)
    BY <2>4, <2>5, <2>6, WellReadNext
  <2>8. ReadRecord(c, rec).odd \/ Matches(ReplayRecord(h, rec), ReadRecord(c, rec))
    BY <2>4, <2>5, <2>6, <2>7, MatchNext
  <2> QED  BY <2>1, <2>2, <2>3, <2>5, <2>7, <2>8 DEF Agrees
<1> HIDE DEF T
<1>5. \A p \in 0 .. Len(r) : p \in T
  BY <1>0, <1>3, <1>4, Induct
<1> QED  BY <1>5 DEF T-----------------------------------------------------------------------------
(* The scan, read backward *)

\* A rollback that was odd stays in the chronicle.
LEMMA NeverOdd ==
    ASSUME NEW n \in Nat, NEW r \in Seq(Records(n)), Fitting(r), ~Chronicle(r)[Len(r)].odd
    PROVE  \A p \in 0 .. Len(r) : ~Chronicle(r)[p].odd
<1> DEFINE T == {p \in 0 .. Len(r) : ~Chronicle(r)[p].odd}
<1>0. Len(r) \in Nat /\ 0 \in Int /\ Len(r) \in Int /\ 0 <= Len(r) /\ Len(r) \in 0 .. Len(r)
  OBVIOUS
<1>1. Len(r) \in T
  BY <1>0
<1>2. ASSUME NEW p \in 0 .. Len(r), p > 0, p \in T PROVE p - 1 \in T
  <2>1. p \in 1 .. Len(r) /\ p - 1 \in 0 .. Len(r)
    BY <1>0, <1>2
  <2>2. Chronicle(r)[p] = ReadRecord(Chronicle(r)[p - 1], r[p])
    BY <2>1, ChronicleDef
  <2>3. WellRead(Chronicle(r)[p - 1], n)
    BY <2>1, Forward DEF Agrees
  <2>4. MayFollow(Chronicle(r)[p - 1], r[p]) /\ r[p] \in Records(n)
    BY <2>1 DEF Fitting, Fits
  <2>5. Chronicle(r)[p - 1].odd => Chronicle(r)[p].odd
    BY <2>2, <2>3, <2>4, WellReadNext
  <2> QED  BY <1>2, <2>1, <2>5
<1> HIDE DEF T
<1>3. \A p \in 0 .. Len(r) : p \in T
  BY <1>0, <1>1, <1>2, InductDown
<1> QED  BY <1>3 DEF T

\* What a record changes of turn and instructions.
TurnRead(c, rec, d) ==
    /\ rec.k = "started" => d.turn = rec.t /\ d.told = c.told
    /\ rec.k # "started" => d.turn = c.turn
    /\ rec.k \in InTurnKinds =>
          d.told = IF rec.k = "item" /\ FirstTold(c, rec.i) THEN Append(c.told, c.turn) ELSE c.told
    /\ rec.k # "rolled_back" => c.compacted \subseteq d.compacted
    /\ rec.k = "compacted" => c.turn \in d.compacted

LEMMA RecordRead ==
    ASSUME NEW n \in Nat, NEW c, WellRead(c, n), NEW rec \in Records(n), MayFollow(c, rec)
    PROVE  TurnRead(c, rec, ReadRecord(c, rec))
<1> DEFINE d == ReadRecord(c, rec)
<1>0. c \in Chronicles(n)
  BY DEF WellRead
<1>1. CASE rec.k = "started" /\ rec.t \in 1 .. n
  <2>1. d = [c EXCEPT !.turn = rec.t]
    BY <1>1 DEF ReadRecord
  <2>2. d.turn = rec.t /\ d.told = c.told /\ d.compacted = c.compacted
    BY <1>0, <2>1 DEF Chronicles
  <2> HIDE DEF d
  <2>3. TurnRead(c, rec, d)
    BY <1>1, <2>2 DEF TurnRead, InTurnKinds
  <2> QED  BY <2>3 DEF d
<1>2. CASE rec.k = "item" /\ rec.i \in TurnItems(n)
  <2>1. d = ReadItem(c, rec.i) /\ rec.i.t = c.turn
    BY <1>2 DEF ReadRecord, MayFollow
  <2>2. ItemRead(c, rec.i, d)
    BY <1>0, <1>2, <2>1, ReadItemFields
  <2> HIDE DEF d
  <2>3. d.turn = c.turn /\ d.compacted = c.compacted
        /\ d.told = IF FirstTold(c, rec.i) THEN Append(c.told, c.turn) ELSE c.told
    BY <2>1, <2>2 DEF ItemRead
  <2>4. TurnRead(c, rec, d)
    BY <1>2, <2>3 DEF TurnRead
  <2> QED  BY <2>4 DEF d
<1>3. CASE rec.k = "compacted" /\ rec.h \in Histories(n)
  <2>1. d = [c EXCEPT !.items = Spoken(rec.h), !.compacted = c.compacted \cup {c.turn}]
    BY <1>0, <1>3 DEF ReadRecord, Chronicles
  <2>2. d.turn = c.turn /\ d.told = c.told /\ d.compacted = c.compacted \cup {c.turn}
    BY <1>0, <2>1 DEF Chronicles
  <2> HIDE DEF d
  <2>3. TurnRead(c, rec, d)
    BY <1>3, <2>2 DEF TurnRead
  <2> QED  BY <2>3 DEF d
<1>4. CASE rec.k = "rolled_back" /\ rec.n \in Nat
  <2>1. d = DropTurns(c, rec.n) /\ rec.n \in Nat \ {0}
    BY <1>4 DEF ReadRecord, MayFollow
  <2>2. d.turn = c.turn
    BY <2>1, DropTurnsFields
  <2> HIDE DEF d
  <2>3. TurnRead(c, rec, d)
    BY <1>4, <2>2 DEF TurnRead, InTurnKinds
  <2> QED  BY <2>3 DEF d
<1>5. CASE rec.k \in {"complete", "aborted", "context"}
  <2>1. d = c
    BY <1>5 DEF ReadRecord
  <2> HIDE DEF d
  <2>2. TurnRead(c, rec, d)
    BY <1>5, <2>1 DEF TurnRead
  <2> QED  BY <2>2 DEF d
<1> QED  BY <1>1, <1>2, <1>3, <1>4, <1>5, RecordKinds

\* The last k instructed turns come behind turn t.
Survives(c, k, t) == k > 0 => k <= Len(c.told) /\ c.told[Len(c.told) - k + 1] > t

\* A rollback that is not odd leaves a compaction alone.
LEMMA DropSpares ==
    ASSUME NEW n \in Nat, NEW c, WellRead(c, n), NEW m \in Nat \ {0}, ~DropTurns(c, m).odd,
           NEW t \in c.compacted
    PROVE  /\ t \in DropTurns(c, m).compacted
           /\ m <= Len(c.told) /\ c.told[Len(c.told) - m + 1] > t
           /\ DropTurns(c, m).told = SubSeq(c.told, 1, Len(c.told) - m)
<1> DEFINE d == DropTurns(c, m)
           first == FirstDropped(c, m)
<1>0. c.told \in Seq(Nat) /\ Len(c.told) \in Nat /\ t \in Nat /\ first \in Nat
  <2>1. first \in Nat
    BY FirstIs
  <2> QED  BY <2>1 DEF WellRead, Chronicles
<1>1. /\ d.compacted = {u \in c.compacted : u < first}
      /\ d.told = SubSeq(c.told, 1, Len(c.told) - m)
      /\ d.odd <=> \/ c.odd
                   \/ \E u \in c.compacted \cup c.steered : u >= first
                   \/ m > Len(c.told) /\ c.compacted # {}
  BY DropTurnsFields
<1>2. m <= Len(c.told) /\ t < first
  <2> HIDE DEF d, first
  <2>1. ~d.odd
    BY DEF d
  <2> QED  BY <1>0, <1>1, <2>1
<1>3. first = c.told[CutIndex(m, Len(c.told))]
  <2>1. c.told # <<>>
    BY <1>0, <1>2
  <2> QED  BY <2>1, FirstIs DEF FirstAt
<1>4. CutIndex(m, Len(c.told)) = Len(c.told) - m + 1
  BY <1>0, <1>2 DEF CutIndex
<1> HIDE DEF d, first
<1> QED  BY <1>0, <1>1, <1>2, <1>3, <1>4 DEF d

LEMMA SurvivesDrop ==
    ASSUME NEW n \in Nat, NEW c, WellRead(c, n), NEW m \in Nat \ {0}, ~DropTurns(c, m).odd,
           NEW t \in c.compacted, NEW k \in Nat, Survives(DropTurns(c, m), k, t)
    PROVE  Survives(c, k + m, t)
<1> DEFINE d == DropTurns(c, m)
<1>0. c.told \in Seq(Nat) /\ Len(c.told) \in Nat
  BY DEF WellRead, Chronicles
<1>1. m <= Len(c.told) /\ c.told[Len(c.told) - m + 1] > t /\ d.told = SubSeq(c.told, 1, Len(c.told) - m)
  BY DropSpares
<1>2. Survives(d, k, t)
  OBVIOUS
<1> HIDE DEF d
<1>3. Len(d.told) = Len(c.told) - m /\ \A j \in 1 .. Len(c.told) - m : d.told[j] = c.told[j]
  BY <1>0, <1>1
<1>4. CASE k = 0
  BY <1>0, <1>1, <1>4 DEF Survives
<1>5. CASE k > 0
  <2>1. k <= Len(c.told) - m /\ d.told[(Len(c.told) - m) - k + 1] > t
    BY <1>2, <1>3, <1>5 DEF Survives
  <2>2. (Len(c.told) - m) - k + 1 = Len(c.told) - (k + m) + 1 /\ (Len(c.told) - m) - k + 1 \in 1 .. Len(c.told) - m
    BY <1>0, <1>5, <2>1
  <2>3. d.told[(Len(c.told) - m) - k + 1] = c.told[(Len(c.told) - m) - k + 1]
    BY <1>3, <2>2
  <2>4. c.told[Len(c.told) - (k + m) + 1] > t
    BY <2>1, <2>2, <2>3
  <2>5. k + m <= Len(c.told)
    BY <1>0, <2>1
  <2> QED  BY <2>4, <2>5 DEF Survives
<1> QED  BY <1>4, <1>5

\* An instruction more or less.
LEMMA SurvivesTold ==
    ASSUME NEW c, c.told \in Seq(Nat), NEW d, NEW x \in Nat, d.told = Append(c.told, x),
           NEW k \in Nat \ {0}, NEW t, Survives(d, k, t)
    PROVE  Survives(c, k - 1, t)
<1>1. Len(c.told) \in Nat /\ Len(d.told) = Len(c.told) + 1 /\ \A j \in 1 .. Len(c.told) : d.told[j] = c.told[j]
  OBVIOUS
<1>2. k <= Len(c.told) + 1 /\ d.told[(Len(c.told) + 1) - k + 1] > t
  BY <1>1 DEF Survives
<1> SUFFICES ASSUME k - 1 > 0 PROVE k - 1 <= Len(c.told) /\ c.told[Len(c.told) - (k - 1) + 1] > t
  BY DEF Survives
<1>3. (Len(c.told) + 1) - k + 1 = Len(c.told) - (k - 1) + 1 /\ (Len(c.told) + 1) - k + 1 \in 1 .. Len(c.told)
  BY <1>1, <1>2
<1> QED  BY <1>1, <1>2, <1>3

\* Whether the chronicle counts its turn as instructed.
IsTold(c) == c.told # <<>> /\ Last(c.told) = c.turn

\* The instructed turns the scan still has to drop from those read as c.
Due(z, c) == IF z.pending > 0 /\ ActiveSegment(z).user /\ ~IsTold(c) THEN z.pending - 1
             ELSE z.pending

\* The scan z, behind the last compaction, which turn t made; c is what was read
\* before the record at p.
BehindLast(r, z, c, p, t) ==
    /\ z.base = <<>> /\ ~z.done /\ ActiveSegment(z).base = <<>>
    /\ z.seg # <<>> => /\ p <= Len(r) /\ r[p].k \in InTurnKinds
                       /\ ActiveSegment(z).t \in {0, c.turn}
    /\ Survives(c, Due(z, c), t)
    /\ z.pending > 0 /\ ActiveSegment(z).user => c.turn > t

\* A scan that holds no segment.
LEMMA NoSegment ==
    ASSUME NEW z, z.seg = <<>>
    PROVE  /\ ActiveSegment(z).base = <<>> /\ ActiveSegment(z).user = FALSE
           /\ ActiveSegment(z).t = 0
           /\ \A c : Due(z, c) = z.pending
<1>1. ActiveSegment(z) = NewSegment
  BY DEF ActiveSegment
<1>2. ActiveSegment(z).base = <<>> /\ ActiveSegment(z).user = FALSE /\ ActiveSegment(z).t = 0
  BY <1>1 DEF NewSegment
<1> QED  BY <1>2 DEF Due

\* One step of the scan, from a at p + 1 to z at p, past the record that turned the
\* chronicle c into d.
StepBack(r, n, p, a, z, c, d) ==
    /\ r \in Seq(Records(n)) /\ p \in 1 .. Len(r) /\ a \in Scans(n) /\ z = ScanStep(a, r, p)
    /\ WellRead(c, n) /\ WellRead(d, n) /\ d = ReadRecord(c, r[p]) /\ ~d.odd
    /\ TurnRead(c, r[p], d) /\ MayFollow(c, r[p])

\* Behind the last compaction: a rollback,
LEMMA BehindRolledBack ==
    ASSUME NEW n \in Nat, NEW r, NEW p, NEW a, NEW z, NEW c, NEW d, StepBack(r, n, p, a, z, c, d),
           NEW t \in c.compacted, BehindLast(r, a, d, p + 1, t), a.seg = <<>>,
           r[p].k = "rolled_back"
    PROVE  BehindLast(r, z, c, p, t)
<1> DEFINE m == r[p].n
<1>1. r \in Seq(Records(n)) /\ p \in 1 .. Len(r) /\ a \in Scans(n) /\ z = ScanStep(a, r, p)
      /\ WellRead(c, n) /\ ~d.odd /\ p \in Nat
  BY DEF StepBack
<1>2. m \in Nat \ {0} /\ d = DropTurns(c, m)
  <2>1. r[p] \in Records(n) /\ r[p].n > 0
    BY <1>1 DEF StepBack, MayFollow
  <2>2. r[p].n \in Nat
    BY <2>1, RecordKinds
  <2>3. d = ReadRecord(c, r[p])
    BY DEF StepBack
  <2> QED  BY <2>1, <2>2, <2>3 DEF ReadRecord
<1>3. /\ z.seg = <<>> /\ z.base = <<>> /\ z.pending = a.pending + m /\ ~z.done
  <2> DEFINE x == ScanRecord(a, r, p)
  <2>1. x.seg = a.seg /\ x.base = a.base /\ x.pending = a.pending + m
    BY <1>1, <1>2, ScanRolledBack
  <2>2. ~a.done /\ a.base = <<>>
    BY DEF BehindLast
  <2>3. z.seg = x.seg /\ z.base = x.base /\ z.pending = x.pending /\ (z.done => x.base # <<>>)
    BY <1>1, <2>2, ScanStepFields
  <2> HIDE DEF x
  <2> QED  BY <2>1, <2>2, <2>3
<1>4. a.pending \in Nat
  BY <1>1 DEF Scans
<1>5. Survives(d, a.pending, t)
  BY NoSegment DEF BehindLast
<1> HIDE DEF m
<1>6. Survives(c, a.pending + m, t)
  BY <1>1, <1>2, <1>4, <1>5, SurvivesDrop
<1>7. /\ ActiveSegment(z).base = <<>> /\ ActiveSegment(z).user = FALSE /\ Due(z, c) = z.pending
  BY <1>3, NoSegment
<1> QED  BY <1>3, <1>6, <1>7 DEF BehindLast

\* the beginning of a turn,
LEMMA BehindStarted ==
    ASSUME NEW n \in Nat, NEW r, NEW p, NEW a, NEW z, NEW c, NEW d, StepBack(r, n, p, a, z, c, d),
           NEW t, BehindLast(r, a, d, p + 1, t), r[p].k = "started"
    PROVE  BehindLast(r, z, c, p, t)
<1> DEFINE x == ScanRecord(a, r, p)
           g == ActiveSegment(a)
<1>1. r \in Seq(Records(n)) /\ p \in 1 .. Len(r) /\ a \in Scans(n) /\ z = ScanStep(a, r, p)
      /\ WellRead(c, n) /\ p \in Nat /\ TurnRead(c, r[p], d) /\ MayFollow(c, r[p])
  BY DEF StepBack
<1>2. ~a.done /\ a.base = <<>> /\ g.base = <<>>
  BY DEF BehindLast
<1>3. z.seg = x.seg /\ z.base = x.base /\ z.pending = x.pending /\ (z.done => x.base # <<>>)
  BY <1>1, <1>2, ScanStepFields
<1>4. d.turn = r[p].t /\ d.told = c.told /\ r[p].t > c.turn
  BY <1>1 DEF TurnRead, MayFollow
<1>5. ~IsTold(d)
  <2>1. c.told \in Seq(Nat) /\ c.turn \in Nat
    BY <1>1 DEF WellRead, Chronicles
  <2> SUFFICES ASSUME c.told # <<>>, Last(c.told) = r[p].t PROVE FALSE
    BY <1>4 DEF IsTold
  <2>2. Len(c.told) \in 1 .. Len(c.told) /\ c.told[Len(c.told)] = r[p].t
    BY <2>1 DEF Last
  <2>3. r[p].t \in 1 .. c.turn
    BY <1>1, <2>2 DEF WellRead
  <2> QED  BY <1>4, <2>1, <2>3
<1>6. a.pending \in Nat /\ g.user \in BOOLEAN
  <2>1. g \in Segments(n)
    BY <1>1, ActiveSegmentTyped
  <2> QED  BY <1>1, <2>1 DEF Scans, Segments
<1>7. /\ x.seg = <<>> /\ x.base = <<>>
      /\ x.pending = IF a.pending > 0 /\ g.user THEN a.pending - 1 ELSE a.pending
  <2>1. CASE a.seg = <<>>
    <3>1. x = a
      BY <2>1, ScanStarted
    <3>2. g.user = FALSE
      BY <2>1, NoSegment
    <3> HIDE DEF x, g
    <3> QED  BY <1>2, <2>1, <3>1, <3>2
  <2>2. CASE a.seg # <<>>
    <3>1. Named(a, r[p].t) = r[p].t
      <4>1. g.t \in {0, d.turn}
        BY <2>2 DEF BehindLast
      <4> QED  BY <1>4, <4>1 DEF Named
    <3>2. x = FinalizeActiveSegment(a)
      BY <2>2, <3>1, ScanStarted
    <3>3. /\ x.seg = <<>>
          /\ a.pending > 0 => x.pending = (IF g.user THEN a.pending - 1 ELSE a.pending) /\ x.base = a.base
          /\ a.pending = 0 => x.pending = 0 /\ x.base = IF a.base = <<>> THEN g.base ELSE a.base
      BY <1>1, <2>2, <3>2, Finalized
    <3> HIDE DEF x, g
    <3>4. a.pending = 0 \/ a.pending > 0
      BY <1>6
    <3> QED  BY <1>2, <3>3, <3>4
  <2> QED  BY <2>1, <2>2
<1>8. Survives(d, x.pending, t)
  <2>1. Survives(d, Due(a, d), t)
    BY DEF BehindLast
  <2>2. Due(a, d) = IF a.pending > 0 /\ g.user THEN a.pending - 1 ELSE a.pending
    BY <1>5 DEF Due
  <2> HIDE DEF x, g
  <2> QED  BY <1>7, <2>1, <2>2
<1>9. Survives(c, x.pending, t)
  BY <1>4, <1>8 DEF Survives
<1> HIDE DEF x, g
<1>10. z.seg = <<>> /\ z.base = <<>> /\ ~z.done /\ z.pending = x.pending
  BY <1>3, <1>7
<1>11. ActiveSegment(z).base = <<>> /\ ActiveSegment(z).user = FALSE /\ Due(z, c) = z.pending
  BY <1>10, NoSegment
<1> QED  BY <1>9, <1>10, <1>11 DEF BehindLast

\* What an in-turn record makes of a scan that knows no base.
LEMMA InTurnStep ==
    ASSUME NEW n \in Nat, NEW r, NEW p, NEW a, NEW z, NEW c, NEW d, StepBack(r, n, p, a, z, c, d),
           ~a.done, a.base = <<>>, r[p].k \in InTurnKinds
    PROVE  /\ z.base = <<>> /\ ~z.done /\ z.pending = a.pending /\ z.seg # <<>>
           /\ ActiveSegment(z) = SegmentAfter(a, r[p])
           /\ z.from = IF r[p].k = "compacted" /\ ActiveSegment(a).base = <<>> THEN p + 1 ELSE a.from
<1> DEFINE x == ScanRecord(a, r, p)
<1>1. r \in Seq(Records(n)) /\ p \in 1 .. Len(r) /\ a \in Scans(n) /\ z = ScanStep(a, r, p)
      /\ p \in Nat /\ r[p] \in Records(n)
  BY DEF StepBack
<1>2. /\ x.seg = <<SegmentAfter(a, r[p])>> /\ OnlySegment(x, a)
      /\ x.from = IF r[p].k = "compacted" /\ ActiveSegment(a).base = <<>> THEN p + 1 ELSE a.from
  BY <1>1, ScanInTurn
<1>3. z.seg = x.seg /\ z.base = x.base /\ z.pending = x.pending /\ z.from = x.from /\ (z.done => x.base # <<>>)
  BY <1>1, ScanStepFields
<1> HIDE DEF x
<1>4. x.base = <<>> /\ x.pending = a.pending
  BY <1>2 DEF OnlySegment
<1>5. z.seg = <<SegmentAfter(a, r[p])>>
  BY <1>2, <1>3
<1>6. z.seg # <<>>
  BY <1>5
<1>7. ActiveSegment(z) = SegmentAfter(a, r[p])
  BY <1>5, SegmentOf
<1> QED  BY <1>2, <1>3, <1>4, <1>6, <1>7

\* The segment e of turn u, which was g behind the record rec.
OwnAfter(e, g, rec, u) ==
    /\ e.t \in {0, u}
    /\ e.user = (g.user \/ (rec.k = "item" /\ IsUserTurnBoundary(rec.i)))
    /\ e.base = IF g.base = <<>> /\ rec.k = "compacted" THEN <<rec.h>> ELSE g.base

\* The segment of the turn.
LEMMA OwnSegment ==
    ASSUME NEW n \in Nat, NEW r, NEW p, NEW a, NEW z, NEW c, NEW d, StepBack(r, n, p, a, z, c, d),
           r[p].k \in InTurnKinds, ActiveSegment(a).t \in {0, c.turn}
    PROVE  OwnAfter(SegmentAfter(a, r[p]), ActiveSegment(a), r[p], c.turn)
<1> DEFINE g == ActiveSegment(a)
           e == SegmentAfter(a, r[p])
<1>1. /\ e.t = IF r[p].k \in {"complete", "aborted", "context"} THEN Named(a, r[p].t) ELSE g.t
      /\ e.user = (g.user \/ (r[p].k = "item" /\ IsUserTurnBoundary(r[p].i)))
      /\ e.base = IF g.base = <<>> /\ r[p].k = "compacted" THEN <<r[p].h>> ELSE g.base
  BY DEF SegmentAfter
<1>2. r[p].k \in {"complete", "aborted", "context"} => r[p].t = c.turn
  BY DEF StepBack, MayFollow
<1>3. e.t \in {0, c.turn}
  <2> HIDE DEF e
  <2> QED  BY <1>1, <1>2 DEF Named
<1> QED  BY <1>1, <1>3 DEF OwnAfter

\* and what a turn records.
LEMMA BehindInTurn ==
    ASSUME NEW n \in Nat, NEW r, NEW p, NEW a, NEW z, NEW c, NEW d, StepBack(r, n, p, a, z, c, d),
           NEW t \in Nat, BehindLast(r, a, d, p + 1, t), r[p].k \in InTurnKinds \ {"compacted"}
    PROVE  BehindLast(r, z, c, p, t)
<1> DEFINE g == ActiveSegment(a)
           e == ActiveSegment(z)
           i == r[p].i
           tells == r[p].k = "item" /\ IsUserTurnBoundary(i)
<1>1. /\ p \in 1 .. Len(r) /\ a \in Scans(n) /\ WellRead(c, n) /\ WellRead(d, n)
      /\ TurnRead(c, r[p], d) /\ MayFollow(c, r[p]) /\ p <= Len(r)
  BY DEF StepBack
<1>2. d.turn = c.turn /\ d.told = IF r[p].k = "item" /\ FirstTold(c, i) THEN Append(c.told, c.turn) ELSE c.told
  <2>1. r[p].k # "started"
    BY DEF InTurnKinds
  <2> QED  BY <1>1, <2>1 DEF TurnRead
<1>3. g.t \in {0, c.turn}
  <2>1. CASE a.seg = <<>>
    BY <2>1, NoSegment
  <2>2. CASE a.seg # <<>>
    BY <1>2, <2>2 DEF BehindLast
  <2> QED  BY <2>1, <2>2
<1>4. ~a.done /\ a.base = <<>> /\ g.base = <<>> /\ Survives(d, Due(a, d), t)
      /\ (a.pending > 0 /\ g.user => d.turn > t)
  BY DEF BehindLast
<1>5. z.base = <<>> /\ ~z.done /\ z.pending = a.pending /\ z.seg # <<>> /\ e = SegmentAfter(a, r[p])
  BY <1>4, InTurnStep
<1>6. e.t \in {0, c.turn} /\ e.user = (g.user \/ tells) /\ e.base = <<>>
  <2>0. r[p].k \in InTurnKinds
    OBVIOUS
  <2>1. OwnAfter(SegmentAfter(a, r[p]), g, r[p], c.turn)
    BY <1>3, <2>0, OwnSegment
  <2> HIDE DEF e
  <2> QED  BY <1>4, <1>5, <2>1 DEF OwnAfter
<1>7. a.pending \in Nat /\ g.user \in BOOLEAN
  <2>1. g \in Segments(n)
    BY <1>1, ActiveSegmentTyped
  <2> QED  BY <1>1, <2>1 DEF Scans, Segments
<1>8. c.told \in Seq(Nat) /\ c.turn \in Nat /\ Len(c.told) \in Nat
  BY <1>1 DEF WellRead, Chronicles
<1>9. r[p].k = "item" => i.t = c.turn
  BY <1>1 DEF MayFollow
<1>10. Due(a, d) = (IF a.pending > 0 /\ g.user /\ ~IsTold(d) THEN a.pending - 1 ELSE a.pending)
  BY DEF Due
<1>11. Due(z, c) = (IF a.pending > 0 /\ (g.user \/ tells) /\ ~IsTold(c) THEN a.pending - 1 ELSE a.pending)
  BY <1>5, <1>6 DEF Due
<1> HIDE DEF g, e
<1>12. CASE ~tells
  <2>1. d.told = c.told
    BY <1>2, <1>12 DEF FirstTold
  <2>2. IsTold(c) <=> IsTold(d)
    BY <1>2, <2>1 DEF IsTold
  <2>3. Due(z, c) = Due(a, d)
    BY <1>10, <1>11, <1>12, <2>2
  <2>4. Survives(c, Due(z, c), t)
    BY <1>4, <2>1, <2>3 DEF Survives
  <2> QED  BY <1>1, <1>2, <1>4, <1>5, <1>6, <1>12, <2>4 DEF BehindLast, e
<1>13. CASE tells
  <2>1. IsTold(d)
    <3>1. CASE FirstTold(c, i)
      <4>1. d.told = Append(c.told, c.turn)
        BY <1>2, <1>13, <3>1
      <4>a. Len(d.told) = Len(c.told) + 1 /\ d.told[Len(c.told) + 1] = c.turn
        BY <1>8, <4>1
      <4>2. d.told # <<>> /\ Last(d.told) = c.turn
        BY <1>8, <4>a DEF Last
      <4> QED  BY <1>2, <4>2 DEF IsTold
    <3>2. CASE ~FirstTold(c, i)
      <4>1. d.told = c.told
        BY <1>2, <3>2
      <4>2. c.told # <<>> /\ Last(c.told) = c.turn
        BY <1>9, <1>13, <3>2 DEF FirstTold
      <4> QED  BY <1>2, <4>1, <4>2 DEF IsTold
    <3> QED  BY <3>1, <3>2
  <2>2. Survives(d, a.pending, t)
    BY <1>4, <1>10, <2>1
  <2>3. Survives(c, Due(z, c), t)
    <3>1. CASE a.pending = 0
      BY <1>11, <3>1 DEF Survives
    <3>2. CASE a.pending > 0 /\ ~IsTold(c)
      <4>1. FirstTold(c, i)
        BY <1>9, <1>13, <3>2 DEF FirstTold, IsTold
      <4>2. d.told = Append(c.told, c.turn)
        BY <1>2, <1>13, <4>1
      <4>3. Due(z, c) = a.pending - 1
        BY <1>11, <1>13, <3>2
      <4>4. a.pending \in Nat \ {0}
        BY <1>7, <3>2
      <4> QED  BY <1>8, <2>2, <4>2, <4>3, <4>4, SurvivesTold
    <3>3. CASE a.pending > 0 /\ IsTold(c)
      <4>1. ~FirstTold(c, i)
        BY <1>9, <1>13, <3>3 DEF FirstTold, IsTold
      <4>2. d.told = c.told
        BY <1>2, <4>1
      <4>3. Due(z, c) = a.pending
        BY <1>11, <3>3
      <4> QED  BY <2>2, <4>2, <4>3 DEF Survives
    <3> QED  BY <1>7, <3>1, <3>2, <3>3
  <2>4. a.pending > 0 => c.turn > t
    <3> SUFFICES ASSUME a.pending > 0 PROVE c.turn > t
      OBVIOUS
    <3>1. d.told \in Seq(Nat) /\ Len(d.told) \in Nat
      BY <1>1 DEF WellRead, Chronicles
    <3>2. PICK j \in 1 .. Len(d.told) : d.told[j] > t
      <4>1. a.pending <= Len(d.told) /\ d.told[Len(d.told) - a.pending + 1] > t
        BY <2>2 DEF Survives
      <4>2. Len(d.told) - a.pending + 1 \in 1 .. Len(d.told)
        BY <1>7, <3>1, <4>1
      <4> QED  BY <4>1, <4>2
    <3>3. d.told[j] \in 1 .. c.turn
      BY <1>1, <1>2 DEF WellRead
    <3> QED  BY <1>8, <3>2, <3>3
  <2> QED  BY <1>1, <1>5, <1>6, <2>3, <2>4 DEF BehindLast, e
<1> QED  BY <1>12, <1>13

\* The steps of the scan of a rollout without odd rollbacks.
LEMMA StepsBack ==
    ASSUME NEW n \in Nat, NEW r \in Seq(Records(n)), Fitting(r), ~Chronicle(r)[Len(r)].odd,
           NEW p \in 1 .. Len(r)
    PROVE  StepBack(r, n, p, Scan(r)[p + 1], Scan(r)[p], Chronicle(r)[p - 1], Chronicle(r)[p])
<1> DEFINE c == Chronicle(r)[p - 1]
           d == Chronicle(r)[p]
<1>1. p - 1 \in 0 .. Len(r) /\ p \in 0 .. Len(r) /\ p + 1 \in 1 .. Len(r) + 1 /\ r[p] \in Records(n)
  OBVIOUS
<1>2. Scan(r)[p + 1] \in Scans(n) /\ Scan(r)[p] = ScanStep(Scan(r)[p + 1], r, p)
  BY <1>1, ScanTyped, ScanDef
<1>3. WellRead(c, n) /\ WellRead(d, n)
  BY <1>1, Forward DEF Agrees
<1>4. d = ReadRecord(c, r[p]) /\ ~d.odd
  BY <1>1, ChronicleDef, NeverOdd
<1>5. MayFollow(c, r[p])
  BY DEF Fitting, Fits
<1>6. TurnRead(c, r[p], d)
  BY <1>1, <1>3, <1>4, <1>5, RecordRead
<1> QED  BY <1>2, <1>3, <1>4, <1>5, <1>6 DEF StepBack

\* A compaction is not rolled back.
LEMMA CompactionStays ==
    ASSUME NEW n \in Nat, NEW r \in Seq(Records(n)), Fitting(r), ~Chronicle(r)[Len(r)].odd,
           NEW q \in 1 .. Len(r), r[q].k = "compacted"
    PROVE  \A p \in q .. Len(r) : Chronicle(r)[q - 1].turn \in Chronicle(r)[p].compacted
<1> DEFINE t == Chronicle(r)[q - 1].turn
           T == {p \in 0 .. Len(r) : p >= q => t \in Chronicle(r)[p].compacted}
<1>0. Len(r) \in Nat
  OBVIOUS
<1>1. 0 \in T
  BY <1>0
<1>2. ASSUME NEW p \in 0 .. Len(r) - 1, p \in T PROVE p + 1 \in T
  <2> DEFINE c == Chronicle(r)[p]
             d == Chronicle(r)[p + 1]
             rec == r[p + 1]
  <2>1. p + 1 \in 1 .. Len(r) /\ (p + 1) - 1 = p /\ p + 1 \in 0 .. Len(r)
    BY <1>0
  <2>2. WellRead(c, n) /\ d = ReadRecord(c, rec) /\ ~d.odd /\ TurnRead(c, rec, d) /\ MayFollow(c, rec)
    BY <2>1, StepsBack DEF StepBack
  <2> HIDE DEF c, d
  <2>3. CASE p + 1 = q
    <3>1. t = c.turn
      BY <2>1, <2>3 DEF c
    <3>2. c.turn \in d.compacted
      BY <2>2, <2>3 DEF TurnRead
    <3> QED  BY <2>1, <3>1, <3>2 DEF d
  <2>4. CASE p + 1 > q
    <3>1. t \in c.compacted
      BY <1>2, <2>4 DEF c
    <3>2. CASE rec.k # "rolled_back"
      <4>1. t \in d.compacted
        BY <2>2, <3>1, <3>2 DEF TurnRead
      <4> QED  BY <2>1, <4>1 DEF d
    <3>3. CASE rec.k = "rolled_back"
      <4>1. rec \in Records(n)
        BY <2>1
      <4>2. rec.n \in Nat /\ rec.n > 0
        BY <2>2, <3>3, <4>1, RecordKinds DEF MayFollow
      <4>3. d = DropTurns(c, rec.n)
        BY <2>2, <3>3 DEF ReadRecord
      <4>4. rec.n \in Nat \ {0} /\ ~DropTurns(c, rec.n).odd
        BY <2>2, <4>2, <4>3
      <4>5. t \in DropTurns(c, rec.n).compacted
        <5> HIDE DEF t, rec
        <5> QED  BY <2>2, <3>1, <4>4, DropSpares
      <4> QED  BY <2>1, <4>3, <4>5 DEF d
    <3> QED  BY <3>2, <3>3
  <2>5. CASE p + 1 < q
    BY <2>1, <2>5
  <2> QED  BY <2>1, <2>3, <2>4, <2>5
<1> HIDE DEF T
<1>3. \A p \in 0 .. Len(r) : p \in T
  BY <1>0, <1>1, <1>2, Induct
<1> QED  BY <1>3 DEF T

\* The scan behind the last compaction.
LEMMA ScanBehindLast ==
    ASSUME NEW n \in Nat, NEW r \in Seq(Records(n)), Fitting(r), ~Chronicle(r)[Len(r)].odd,
           NEW q \in 1 .. Len(r), r[q].k = "compacted",
           \A p \in q + 1 .. Len(r) : r[p].k # "compacted"
    PROVE  \A p \in q + 1 .. Len(r) + 1 :
              BehindLast(r, Scan(r)[p], Chronicle(r)[p - 1], p, Chronicle(r)[q - 1].turn)
<1> DEFINE t == Chronicle(r)[q - 1].turn
           B(p) == BehindLast(r, Scan(r)[p], Chronicle(r)[p - 1], p, t)
           M == q + 1
           N == Len(r) + 1
           T == {p \in M .. N : B(p)}
<1>0. M \in Int /\ N \in Int /\ M <= N /\ N \in M .. N /\ Len(r) \in Nat
  OBVIOUS
<1>1. t \in Nat
  <2>1. WellRead(Chronicle(r)[q - 1], n)
    BY StepsBack DEF StepBack
  <2> QED  BY <2>1 DEF WellRead, Chronicles
<1> HIDE DEF t
<1>2. N \in T
  <2> DEFINE z == Scan(r)[N]
  <2>1. z = NewScan
    BY ScanDef
  <2>2. z.seg = <<>> /\ z.base = <<>> /\ ~z.done /\ z.pending = 0
    BY <2>1 DEF NewScan
  <2> HIDE DEF z
  <2>3. \A c : /\ ActiveSegment(z).base = <<>> /\ ActiveSegment(z).user = FALSE /\ Due(z, c) = z.pending
    BY <2>2, NoSegment
  <2>4. \A c : Survives(c, 0, t)
    BY DEF Survives
  <2>5. BehindLast(r, z, Chronicle(r)[N - 1], N, t)
    BY <2>2, <2>3, <2>4 DEF BehindLast
  <2> QED  BY <1>0, <2>5 DEF z
<1>3. ASSUME NEW p \in M .. N, p > M, p \in T PROVE p - 1 \in T
  <2> DEFINE o == p - 1
             a == Scan(r)[p]
             z == Scan(r)[p - 1]
             c == Chronicle(r)[p - 2]
             d == Chronicle(r)[p - 1]
  <2>1. /\ o \in 1 .. Len(r) /\ o \in q + 1 .. Len(r) /\ o + 1 = p /\ o - 1 = p - 2 /\ o \in M .. N
        /\ o - 1 \in q .. Len(r) /\ p - 1 = o /\ (p - 1) - 1 = p - 2
    BY <1>3
  <2>2. StepBack(r, n, o, a, z, c, d)
    BY <2>1, StepsBack
  <2>3. BehindLast(r, a, d, o + 1, t)
    BY <1>3, <2>1
  <2>4. t \in c.compacted
    BY <2>1, CompactionStays DEF t
  <2>5. r[o] \in Records(n) /\ r[o].k # "compacted"
    BY <2>1
  <2>6. r[o].k = "rolled_back" => a.seg = <<>>
    <3> SUFFICES ASSUME r[o].k = "rolled_back", a.seg # <<>> PROVE FALSE
      OBVIOUS
    <3>1. o + 1 <= Len(r) /\ r[o + 1].k \in InTurnKinds
      BY <2>3 DEF BehindLast
    <3>2. o + 1 \in 1 .. Len(r) /\ (o + 1) - 1 = o
      BY <2>1, <3>1
    <3>3. r[o].k # "rolled_back"
      BY <3>1, <3>2 DEF Fitting, Fits
    <3> QED  BY <3>3
  <2> HIDE DEF a, z, c, d, o
  <2>7. BehindLast(r, z, c, o, t)
    <3>1. CASE r[o].k = "rolled_back"
      BY <2>2, <2>3, <2>4, <2>6, <3>1, BehindRolledBack
    <3>2. CASE r[o].k = "started"
      BY <2>2, <2>3, <3>2, BehindStarted
    <3>3. CASE r[o].k \in InTurnKinds \ {"compacted"}
      BY <1>1, <2>2, <2>3, <3>3, BehindInTurn
    <3>4. r[o].k = "rolled_back" \/ r[o].k = "started" \/ r[o].k \in InTurnKinds \ {"compacted"}
      BY <2>5, RecordKinds DEF InTurnKinds
    <3> QED  BY <3>1, <3>2, <3>3, <3>4
  <2>8. BehindLast(r, Scan(r)[p - 1], Chronicle(r)[(p - 1) - 1], p - 1, t)
    BY <2>1, <2>7 DEF z, c, o
  <2>9. p - 1 \in M .. N
    BY <2>1
  <2> QED  BY <2>8, <2>9
<1>4. \A p \in M .. N : p \in T
  <2> HIDE DEF T, N, M
  <2> QED  BY <1>0, <1>2, <1>3, InductDown, Zenon
<1> QED  BY <1>4 DEF t

\* The scan z at or before the last compaction q, which turn t made: it knows the
\* base, or its segment does.
AtLast(r, z, c, p, q, t) ==
    \/ ScanBase(r, z, q)
    \/ /\ z.base = <<>> /\ ~z.done /\ z.seg # <<>> /\ ActiveSegment(z).base = <<r[q].h>>
       /\ z.from = q + 1 /\ z.pending = 0 /\ ActiveSegment(z).t \in {0, t}
       /\ c.turn = t /\ r[p].k \in InTurnKinds

\* The last compaction itself.
LEMMA ScanAtLast ==
    ASSUME NEW n \in Nat, NEW r, NEW q, NEW a, NEW z, NEW c, NEW d, StepBack(r, n, q, a, z, c, d),
           BehindLast(r, a, d, q + 1, c.turn), r[q].k = "compacted"
    PROVE  AtLast(r, z, c, q, q, c.turn)
<1> DEFINE g == ActiveSegment(a)
<1>1. /\ a \in Scans(n) /\ WellRead(c, n) /\ WellRead(d, n) /\ TurnRead(c, r[q], d)
      /\ r[q].k \in InTurnKinds
  BY DEF StepBack, InTurnKinds
<1>2. d.turn = c.turn
  BY <1>1 DEF TurnRead
<1>3. c.turn \in Nat /\ d.told \in Seq(Nat) /\ Len(d.told) \in Nat /\ a.pending \in Nat
  BY <1>1 DEF WellRead, Chronicles, Scans
<1>4. ~a.done /\ a.base = <<>> /\ g.base = <<>> /\ Survives(d, Due(a, d), c.turn)
      /\ (a.pending > 0 /\ g.user => d.turn > c.turn)
  BY DEF BehindLast
<1>5. a.pending = 0
  <2> SUFFICES ASSUME a.pending > 0 PROVE FALSE
    BY <1>3
  <2>1. ~g.user
    BY <1>2, <1>3, <1>4
  <2>2. Due(a, d) = a.pending
    BY <2>1 DEF Due
  <2>3. a.pending <= Len(d.told) /\ d.told[Len(d.told) - a.pending + 1] > c.turn
    BY <1>4, <2>2 DEF Survives
  <2>4. Len(d.told) - a.pending + 1 \in 1 .. Len(d.told)
    BY <1>3, <2>3
  <2>5. d.told[Len(d.told) - a.pending + 1] \in 1 .. c.turn
    BY <1>1, <1>2, <2>4 DEF WellRead
  <2> QED  BY <1>3, <2>3, <2>5
<1>6. g.t \in {0, c.turn}
  <2>1. CASE a.seg = <<>>
    BY <2>1, NoSegment
  <2>2. CASE a.seg # <<>>
    BY <1>2, <2>2 DEF BehindLast
  <2> QED  BY <2>1, <2>2
<1>7. OwnAfter(SegmentAfter(a, r[q]), g, r[q], c.turn)
  BY <1>1, <1>6, OwnSegment
<1>8. /\ z.base = <<>> /\ ~z.done /\ z.pending = a.pending /\ z.seg # <<>>
      /\ ActiveSegment(z) = SegmentAfter(a, r[q])
      /\ z.from = IF r[q].k = "compacted" /\ g.base = <<>> THEN q + 1 ELSE a.from
  BY <1>1, <1>4, InTurnStep
<1>9. ActiveSegment(z).base = <<r[q].h>> /\ ActiveSegment(z).t \in {0, c.turn}
  BY <1>4, <1>7, <1>8 DEF OwnAfter
<1> QED  BY <1>1, <1>4, <1>5, <1>8, <1>9 DEF AtLast

\* The records before it.
LEMMA ScanBeforeLast ==
    ASSUME NEW n \in Nat, NEW r, NEW p, NEW a, NEW z, NEW c, NEW d, StepBack(r, n, p, a, z, c, d),
           NEW q \in 1 .. Len(r), p < q, r[q].k = "compacted", NEW t,
           AtLast(r, a, d, p + 1, q, t), r[p + 1].k \in InTurnKinds => r[p].k # "rolled_back"
    PROVE  AtLast(r, z, c, p, q, t)
<1> DEFINE g == ActiveSegment(a)
           x == ScanRecord(a, r, p)
<1>1. /\ r \in Seq(Records(n)) /\ p \in 1 .. Len(r) /\ a \in Scans(n) /\ TurnRead(c, r[p], d)
      /\ z = ScanStep(a, r, p) /\ p \in Nat /\ r[p] \in Records(n)
  BY DEF StepBack
<1>2. CASE ScanBase(r, a, q)
  <2>1. a.base = <<r[q].h>> /\ a.from <= q + 1
    BY <1>2 DEF ScanBase
  <2>2. z.base = a.base /\ z.from \in {a.from, p + 1}
    <3>1. a.base # <<>>
      BY <2>1
    <3> QED  BY <1>1, <3>1, FoundStays
  <2>3. ScanBase(r, z, q)
    BY <1>1, <2>1, <2>2 DEF ScanBase
  <2> QED  BY <2>3 DEF AtLast
<1>3. CASE ~ScanBase(r, a, q)
  <2>1. /\ a.base = <<>> /\ ~a.done /\ a.seg # <<>> /\ g.base = <<r[q].h>> /\ a.from = q + 1
        /\ a.pending = 0 /\ g.t \in {0, t} /\ d.turn = t /\ r[p + 1].k \in InTurnKinds
    BY <1>3 DEF AtLast
  <2>2. g.base # <<>>
    BY <2>1
  <2>3. CASE r[p].k \in InTurnKinds
    <3>1. c.turn = t
      BY <1>1, <2>1, <2>3 DEF TurnRead, InTurnKinds
    <3>2. OwnAfter(SegmentAfter(a, r[p]), g, r[p], c.turn)
      BY <2>1, <2>3, <3>1, OwnSegment
    <3>3. /\ z.base = <<>> /\ ~z.done /\ z.pending = a.pending /\ z.seg # <<>>
          /\ ActiveSegment(z) = SegmentAfter(a, r[p])
          /\ z.from = IF r[p].k = "compacted" /\ g.base = <<>> THEN p + 1 ELSE a.from
      <4>1. ~a.done /\ a.base = <<>>
        BY <2>1
      <4> QED  BY <2>3, <4>1, InTurnStep
    <3> HIDE DEF g
    <3>4. ActiveSegment(z).base = <<r[q].h>> /\ ActiveSegment(z).t \in {0, t} /\ z.from = q + 1
      BY <2>1, <2>2, <3>1, <3>2, <3>3 DEF OwnAfter
    <3> QED  BY <2>1, <2>3, <3>1, <3>3, <3>4 DEF AtLast
  <2>4. CASE r[p].k = "started"
    <3>1. r[p].t = t
      BY <1>1, <2>1, <2>4 DEF TurnRead
    <3>2. Named(a, r[p].t) = r[p].t
      BY <2>1, <3>1 DEF Named
    <3>3. x = FinalizeActiveSegment(a)
      BY <2>1, <2>4, <3>2, ScanStarted
    <3>4. x.from = a.from /\ x.base = IF a.base = <<>> THEN g.base ELSE a.base
      BY <1>1, <2>1, <3>3, Finalized
    <3>5. z.base = x.base /\ z.from = x.from
      BY <1>1, <2>1, ScanStepFields
    <3> HIDE DEF x, g
    <3>6. z.base = <<r[q].h>> /\ z.from = q + 1
      BY <2>1, <3>4, <3>5
    <3>7. ScanBase(r, z, q)
      BY <3>6 DEF ScanBase
    <3> QED  BY <3>7 DEF AtLast
  <2>5. r[p].k \in InTurnKinds \/ r[p].k = "started"
    <3>1. r[p].k # "rolled_back"
      BY <2>1
    <3> QED  BY <1>1, <3>1, RecordKinds DEF InTurnKinds
  <2> QED  BY <2>3, <2>4, <2>5
<1> QED  BY <1>2, <1>3

\* The scan finds the last compaction.
LEMMA LastIsFound ==
    ASSUME NEW n \in Nat, NEW r \in Seq(Records(n)), Fitting(r), ~Chronicle(r)[Len(r)].odd,
           NEW q \in 1 .. Len(r), r[q].k = "compacted",
           \A p \in q + 1 .. Len(r) : r[p].k # "compacted"
    PROVE  ScanBase(r, ReverseScan(r), q)
<1> DEFINE t == Chronicle(r)[q - 1].turn
           B(p) == AtLast(r, Scan(r)[p], Chronicle(r)[p - 1], p, q, t)
           T == {p \in 1 .. q : B(p)}
<1>0. 1 \in Int /\ q \in Int /\ 1 <= q /\ q \in 1 .. q /\ Len(r) \in Nat /\ 1 \in 1 .. q /\ 1 \in 1 .. Len(r) + 1
  OBVIOUS
<1>1. q \in T
  <2>1. StepBack(r, n, q, Scan(r)[q + 1], Scan(r)[q], Chronicle(r)[q - 1], Chronicle(r)[q])
    BY StepsBack
  <2>2. BehindLast(r, Scan(r)[q + 1], Chronicle(r)[q], q + 1, t)
    <3>1. q + 1 \in q + 1 .. Len(r) + 1 /\ (q + 1) - 1 = q
      BY <1>0
    <3> QED  BY <3>1, ScanBehindLast
  <2>3. AtLast(r, Scan(r)[q], Chronicle(r)[q - 1], q, q, t)
    BY <2>1, <2>2, ScanAtLast
  <2> QED  BY <1>0, <2>3
<1> HIDE DEF t
<1>2. ASSUME NEW p \in 1 .. q, p > 1, p \in T PROVE p - 1 \in T
  <2> DEFINE o == p - 1
  <2>1. /\ o \in 1 .. Len(r) /\ o < q /\ o + 1 = p /\ o \in 1 .. q /\ p \in 1 .. Len(r)
        /\ p - 1 = o
    BY <1>2
  <2>2. StepBack(r, n, o, Scan(r)[o + 1], Scan(r)[o], Chronicle(r)[o - 1], Chronicle(r)[o])
    BY <2>1, StepsBack
  <2>3. AtLast(r, Scan(r)[o + 1], Chronicle(r)[o], o + 1, q, t)
    BY <1>2, <2>1
  <2>4. r[o + 1].k \in InTurnKinds => r[o].k # "rolled_back"
    BY <2>1 DEF Fitting, Fits
  <2> HIDE DEF o
  <2>5. AtLast(r, Scan(r)[o], Chronicle(r)[o - 1], o, q, t)
    BY <2>1, <2>2, <2>3, <2>4, ScanBeforeLast
  <2>6. B(o)
    BY <2>5
  <2> QED  BY <2>1, <2>6
<1>3. 1 \in T
  <2> HIDE DEF T
  <2> QED  BY <1>0, <1>1, <1>2, InductDown
<1>4. ScanBase(r, Scan(r)[1], q)
  <2>1. AtLast(r, Scan(r)[1], Chronicle(r)[0], 1, q, t)
    <3>1. 1 - 1 = 0
      OBVIOUS
    <3> QED  BY <1>3, <3>1
  <2>2. Chronicle(r)[0].turn = 0
    BY ChronicleDef DEF NewChronicle
  <2>3. t > 0
    BY DEF Fitting, Fits, MayFollow, InTurnKinds, t
  <2> QED  BY <2>1, <2>2, <2>3 DEF AtLast
<1>5. Scan(r)[1] \in Scans(n)
  BY <1>0, ScanTyped
<1>6. ReverseScan(r).base = Scan(r)[1].base
  <2>1. Scan(r)[1].base # <<>>
    BY <1>4 DEF ScanBase
  <2> QED  BY <1>0, <2>1, FoundAtEnd
<1>7. ReverseScan(r).from = Scan(r)[1].from
  <2>1. CASE Scan(r)[1].seg = <<>>
    BY <2>1 DEF ReverseScan
  <2>2. CASE Scan(r)[1].seg # <<>>
    <3>1. ReverseScan(r) = FinalizeActiveSegment(Scan(r)[1])
      BY <2>2 DEF ReverseScan
    <3> QED  BY <1>5, <2>2, <3>1, Finalized
  <2> QED  BY <2>1, <2>2
<1> QED  BY <1>4, <1>6, <1>7 DEF ScanBase

\* Replays that pass over a compaction give what follows from it.
LEMMA FullFromCompaction ==
    ASSUME NEW n \in Nat, NEW r \in Seq(Records(n)), NEW q \in 1 .. Len(r), r[q].k = "compacted"
    PROVE  Full(r)[Len(r)] = Replay(r, q + 1, r[q].h)[Len(r)]
<1> DEFINE A(p) == Full(r)[p]
           B(p) == Replay(r, q + 1, r[q].h)[p]
           T == {p \in 0 .. Len(r) : p >= q => A(p) = B(p)}
<1>0. Len(r) \in Nat /\ q + 1 \in 1 .. Len(r) + 1 /\ q \in Nat /\ (q + 1) - 1 = q /\ 1 \in 1 .. Len(r) + 1
      /\ 1 - 1 = 0 /\ Len(r) \in 0 .. Len(r) /\ Len(r) >= q
  OBVIOUS
<1>1. \A p \in 0 .. Len(r) : A(p) = IF p < 1 THEN <<>> ELSE ReplayRecord(A(p - 1), r[p])
  BY <1>0, ReplayDef DEF Full
<1>2. \A p \in q .. Len(r) : B(p) = IF p < q + 1 THEN r[q].h ELSE ReplayRecord(B(p - 1), r[p])
  BY <1>0, ReplayDef
<1>3. 0 \in T
  BY <1>0
<1>4. ASSUME NEW p \in 0 .. Len(r) - 1, p \in T PROVE p + 1 \in T
  <2>1. p + 1 \in 0 .. Len(r) /\ ~(p + 1 < 1) /\ (p + 1) - 1 = p
    BY <1>0
  <2>2. A(p + 1) = ReplayRecord(A(p), r[p + 1])
    BY <1>1, <2>1
  <2>3. CASE p + 1 = q
    <3>1. A(p + 1) = r[q].h
      BY <2>2, <2>3 DEF ReplayRecord
    <3>2. q \in q .. Len(r) /\ q < q + 1
      BY <1>0
    <3>3. B(q) = r[q].h
      BY <1>2, <3>2
    <3> QED  BY <2>1, <2>3, <3>1, <3>3
  <2>4. CASE p + 1 > q
    <3>1. p + 1 \in q .. Len(r) /\ ~(p + 1 < q + 1) /\ p >= q
      BY <1>0, <2>4
    <3>2. B(p + 1) = ReplayRecord(B(p), r[p + 1])
      BY <1>2, <2>1, <3>1
    <3>3. A(p) = B(p)
      BY <1>4, <3>1
    <3> QED  BY <2>1, <2>2, <3>2, <3>3
  <2>5. CASE p + 1 < q
    BY <2>1, <2>5
  <2> QED  BY <1>0, <2>1, <2>3, <2>4, <2>5
<1>5. \A p \in 0 .. Len(r) : p \in T
  <2> HIDE DEF T
  <2> QED  BY <1>0, <1>3, <1>4, Induct
<1> QED  BY <1>0, <1>5

\* Without odd rollbacks, a reconstruction gives what a replay of all records would.
LEMMA RebuiltIsFull ==
    ASSUME NEW n \in Nat, NEW r \in Seq(Records(n)), Fitting(r), ~Chronicle(r)[Len(r)].odd
    PROVE  ReconstructHistoryFromRollout(r).items = Full(r)[Len(r)]
<1> DEFINE C == {p \in 1 .. Len(r) : r[p].k = "compacted"}
<1>0. Len(r) \in Nat
  OBVIOUS
<1>1. CASE C = {}
  <2>1. FromCompaction(r, ReverseScan(r).base) /\ BehindCompaction(r, ReverseScan(r).from)
    BY SelectedByCompaction
  <2>2. ReverseScan(r).base = <<>> /\ ReverseScan(r).from = 1
    BY <1>1, <2>1 DEF FromCompaction, BehindCompaction
  <2>3. BaseOf(ReverseScan(r)) = <<>>
    BY <2>2 DEF BaseOf
  <2>4. ReconstructHistoryFromRollout(r).items = Replay(r, ReverseScan(r).from, BaseOf(ReverseScan(r)))[Len(r)]
    BY RebuiltFields
  <2> QED  BY <2>2, <2>3, <2>4 DEF Full
<1>2. CASE C # {}
  <2>1. PICK q \in C : \A p \in C : p <= q
    <3> DEFINE D == {x \in 0 .. Len(r) : Len(r) - x \in C}
    <3>1. PICK p0 \in C : TRUE
      BY <1>2
    <3>2. Len(r) - p0 \in D
      BY <1>0, <3>1
    <3>a. D \in SUBSET Nat
      BY <1>0
    <3>3. D \in SUBSET Nat /\ D # {}
      <4> HIDE DEF D
      <4> QED  BY <3>2, <3>a
    <3>4. PICK m \in D : \A x \in D : m <= x
      <4> HIDE DEF D
      <4> QED  BY <3>3, LeastNumber
    <3>5. Len(r) - m \in C
      BY <3>4
    <3>6. ASSUME NEW p \in C PROVE p <= Len(r) - m
      <4>1. p \in 1 .. Len(r)
        OBVIOUS
      <4>2. Len(r) - p \in 0 .. Len(r) /\ Len(r) - (Len(r) - p) = p
        BY <1>0, <4>1
      <4>3. Len(r) - p \in D
        BY <4>2
      <4>4. m <= Len(r) - p
        BY <3>4, <4>3
      <4>5. m \in 0 .. Len(r)
        BY <3>4
      <4> QED  BY <1>0, <4>1, <4>4, <4>5
    <3> HIDE DEF C, D
    <3> QED  BY <3>5, <3>6
  <2>2. q \in 1 .. Len(r) /\ r[q].k = "compacted" /\ \A p \in q + 1 .. Len(r) : r[p].k # "compacted"
    <3>1. q \in 1 .. Len(r) /\ r[q].k = "compacted"
      BY <2>1
    <3>2. ASSUME NEW p \in q + 1 .. Len(r), r[p].k = "compacted" PROVE FALSE
      <4>1. p \in C
        BY <1>0, <3>1, <3>2
      <4> QED  BY <1>0, <2>1, <3>1, <4>1
    <3> QED  BY <3>1, <3>2
  <2>3. ScanBase(r, ReverseScan(r), q)
    BY <2>2, LastIsFound
  <2>4. ReconstructHistoryFromRollout(r).items = Replay(r, q + 1, r[q].h)[Len(r)]
    BY <2>3, RebuiltFromBase
  <2>5. Full(r)[Len(r)] = Replay(r, q + 1, r[q].h)[Len(r)]
    BY <2>2, FullFromCompaction
  <2> QED  BY <2>4, <2>5
<1> QED  BY <1>1, <1>2

\* So it gives the history the chronicle says.
LEMMA RebuiltMatches ==
    ASSUME NEW n \in Nat, NEW r \in Seq(Records(n)), Fitting(r), ~Chronicle(r)[Len(r)].odd
    PROVE  Matches(ReconstructHistoryFromRollout(r).items, Chronicle(r)[Len(r)])
<1>1. Len(r) \in 0 .. Len(r)
  OBVIOUS
<1>2. Agrees(r, n, Len(r))
  BY <1>1, Forward
<1>3. ReconstructHistoryFromRollout(r).items = Full(r)[Len(r)]
  BY RebuiltIsFull
<1> QED  BY <1>2, <1>3 DEF Agrees-----------------------------------------------------------------------------
(* Compactions keep the order of turns *)

\* In order, and no later than t.
InOrder(h, t) == Ordered(h) /\ NotBeyond(h, t)

LEMMA ItemsAtOrdered ==
    ASSUME NEW I, NEW h \in Seq(I), NEW S, NEW t, InOrder(h, t)
    PROVE  InOrder(ItemsAt(h, S), t)
<1> DEFINE a == Ascending(S, Len(h))
           g == ItemsAt(h, S)
<1>1. a \in Seq(1 .. Len(h)) /\ \A x, y \in 1 .. Len(a) : x < y => a[x] < a[y]
  BY AscendingLists DEF Lists
<1>2. g = [x \in DOMAIN a |-> h[a[x]]]
  BY DEF ItemsAt
<1> HIDE DEF a, g
<1>3. Len(g) = Len(a) /\ \A x \in 1 .. Len(a) : g[x] = h[a[x]] /\ a[x] \in 1 .. Len(h)
  BY <1>1, <1>2
<1>4. NotBeyond(g, t)
  BY <1>3 DEF InOrder, NotBeyond
<1>5. Ordered(g)
  <2> SUFFICES ASSUME NEW x \in 1 .. Len(g), NEW y \in 1 .. Len(g), x < y,
                      ~IsContextual(g[x]), ~IsContextual(g[y])
               PROVE  g[x].t <= g[y].t
    BY DEF Ordered
  <2>1. a[x] < a[y] /\ a[x] \in 1 .. Len(h) /\ a[y] \in 1 .. Len(h) /\ g[x] = h[a[x]] /\ g[y] = h[a[y]]
    BY <1>1, <1>3
  <2> QED  BY <2>1 DEF InOrder, Ordered
<1> QED  BY <1>4, <1>5 DEF InOrder, g

LEMMA SuffixOrdered ==
    ASSUME NEW I, NEW h \in Seq(I), NEW a \in 1 .. Len(h) + 1, NEW t, InOrder(h, t)
    PROVE  InOrder(SubSeq(h, a, Len(h)), t)
<1> DEFINE g == SubSeq(h, a, Len(h))
<1>1. /\ Len(h) \in Nat /\ Len(g) = Len(h) - a + 1
      /\ \A x \in 1 .. Len(g) : g[x] = h[a + x - 1] /\ a + x - 1 \in 1 .. Len(h)
  OBVIOUS
<1> HIDE DEF g
<1>2. NotBeyond(g, t)
  BY <1>1 DEF InOrder, NotBeyond
<1>3. Ordered(g)
  <2> SUFFICES ASSUME NEW x \in 1 .. Len(g), NEW y \in 1 .. Len(g), x < y,
                      ~IsContextual(g[x]), ~IsContextual(g[y])
               PROVE  g[x].t <= g[y].t
    BY DEF Ordered
  <2>1. a + x - 1 < a + y - 1
    OBVIOUS
  <2>2. /\ g[x] = h[a + x - 1] /\ g[y] = h[a + y - 1]
        /\ a + x - 1 \in 1 .. Len(h) /\ a + y - 1 \in 1 .. Len(h)
    BY <1>1
  <2> QED  BY <2>1, <2>2 DEF InOrder, Ordered
<1> QED  BY <1>2, <1>3 DEF InOrder, g

LEMMA AppendOrdered ==
    ASSUME NEW I, NEW h \in Seq(I), NEW i \in I, i.t \in Nat, InOrder(h, i.t)
    PROVE  InOrder(Append(h, i), i.t)
<1> DEFINE g == Append(h, i)
<1>1. /\ Len(h) \in Nat /\ Len(g) = Len(h) + 1 /\ g[Len(h) + 1] = i
      /\ \A p \in 1 .. Len(h) : g[p] = h[p]
  OBVIOUS
<1> HIDE DEF g
<1>2. \A p \in 1 .. Len(g) : p \in 1 .. Len(h) \/ p = Len(h) + 1
  BY <1>1
<1>3. NotBeyond(g, i.t)
  BY <1>1, <1>2 DEF InOrder, NotBeyond
<1>4. Ordered(g)
  <2> SUFFICES ASSUME NEW p \in 1 .. Len(g), NEW q \in 1 .. Len(g), p < q,
                      ~IsContextual(g[p]), ~IsContextual(g[q])
               PROVE  g[p].t <= g[q].t
    BY DEF Ordered
  <2>1. p \in 1 .. Len(h) /\ g[p] = h[p]
    BY <1>1
  <2>2. CASE q = Len(h) + 1
    BY <1>1, <2>1, <2>2 DEF InOrder, NotBeyond
  <2>3. CASE q \in 1 .. Len(h)
    BY <1>1, <2>1, <2>3 DEF InOrder, Ordered
  <2> QED  BY <1>2, <2>2, <2>3
<1> QED  BY <1>3, <1>4 DEF InOrder, g

\* A compacted history is in order,
LEMMA BuiltOrdered ==
    ASSUME NEW n \in Nat, NEW h \in Histories(n), NEW i \in TurnItems(n), InOrder(h, i.t)
    PROVE  InOrder(BuildCompactedHistory(h, i), i.t)
<1> DEFINE S == {p \in DOMAIN h : h[p].k = "user"}
           users == ItemsAt(h, S)
           kept == IF Len(users) <= CompactKeep THEN users
                   ELSE SubSeq(users, Len(users) - CompactKeep + 1, Len(users))
<1>0. h \in Seq(TurnItems(n)) /\ i.t \in Nat /\ CompactKeep \in Nat
  BY BoundsAreNaturals DEF Histories, TurnItems
<1>1. users \in Seq(TurnItems(n)) /\ InOrder(users, i.t)
  <2> HIDE DEF S
  <2> QED  BY <1>0, ItemsAtIn, ItemsAtOrdered
<1>2. BuildCompactedHistory(h, i) = Append(kept, i)
  BY DEF BuildCompactedHistory
<1> HIDE DEF users
<1>3. kept \in Seq(TurnItems(n)) /\ InOrder(kept, i.t)
  <2>1. CASE Len(users) <= CompactKeep
    BY <1>1, <2>1
  <2>2. CASE ~(Len(users) <= CompactKeep)
    <3> DEFINE a == Len(users) - CompactKeep + 1
    <3>1. kept = SubSeq(users, a, Len(users))
      BY <2>2
    <3>2. a \in 1 .. Len(users) + 1
      BY <1>0, <1>1, <2>2
    <3> HIDE DEF a, kept
    <3>3. SubSeq(users, a, Len(users)) \in Seq(TurnItems(n))
      BY <1>1, <3>2
    <3> QED  BY <1>1, <3>1, <3>2, <3>3, SuffixOrdered
  <2> QED  BY <2>1, <2>2
<1> HIDE DEF kept
<1> QED  BY <1>0, <1>2, <1>3, AppendOrdered

\* also with the context in it.
LEMMA InsertedOrdered ==
    ASSUME NEW n \in Nat, NEW h \in Histories(n), NEW i \in TurnItems(n), i.k = "context",
           h # <<>>, NEW t, InOrder(h, t)
    PROVE  InOrder(InsertInitialContext(h, i), t)
<1> DEFINE real == Ascending({p \in DOMAIN h : h[p].k = "user"}, Len(h))
           at == IF real # <<>> THEN Last(real) ELSE Len(h)
<1>0. h \in Seq(TurnItems(n)) /\ Len(h) \in Nat \ {0} /\ IsContextual(i)
  BY DEF Histories, IsContextual
<1>1. real \in Seq(1 .. Len(h))
  BY <1>0, AscendingLists DEF Lists
<1>2. at \in 1 .. Len(h)
  <2> HIDE DEF real
  <2> QED  BY <1>0, <1>1 DEF Last
<1>3. InsertInitialContext(h, i) = SubSeq(h, 1, at - 1) \o <<i>> \o SubSeq(h, at, Len(h))
  BY DEF InsertInitialContext, InsertAt
<1> HIDE DEF at
<1> DEFINE a == SubSeq(h, 1, at - 1)
           b == SubSeq(h, at, Len(h))
           g == a \o <<i>> \o b
           Of(x) == IF x < at THEN x ELSE x - 1
<1>4. /\ a \in Seq(TurnItems(n)) /\ b \in Seq(TurnItems(n)) /\ Len(a) = at - 1 /\ Len(b) = Len(h) - at + 1
      /\ \A p \in 1 .. at - 1 : a[p] = h[p]
      /\ \A p \in 1 .. Len(h) - at + 1 : b[p] = h[at + p - 1]
  BY <1>0, <1>2
<1> HIDE DEF a, b
<1>5. g \in Seq(TurnItems(n)) /\ Len(g) = Len(h) + 1
  <2>1. a \in Seq(TurnItems(n)) /\ b \in Seq(TurnItems(n))
    BY <1>4
  <2>2. g \in Seq(TurnItems(n))
    BY <2>1
  <2>3. Len(g) = Len(a) + 1 + Len(b)
    BY <2>1
  <2> HIDE DEF g
  <2> QED  BY <1>0, <1>2, <1>4, <2>2, <2>3
<1>6. ASSUME NEW x \in 1 .. Len(g), ~IsContextual(g[x])
      PROVE  x # at /\ Of(x) \in 1 .. Len(h) /\ g[x] = h[Of(x)]
  <2>1. CASE x < at
    <3>1. x \in 1 .. at - 1 /\ x \in 1 .. Len(h)
      BY <1>0, <1>2, <2>1
    <3>2. g[x] = a[x]
      BY <1>4, <3>1
    <3> QED  BY <1>4, <2>1, <3>1, <3>2
  <2>2. CASE x = at
    <3>1. g[x] = i
      BY <1>2, <1>4, <2>2
    <3> QED  BY <1>0, <1>6, <3>1
  <2>3. CASE x > at
    <3>1. x - at \in 1 .. Len(h) - at + 1 /\ x - 1 \in 1 .. Len(h) /\ at + (x - at) - 1 = x - 1
      BY <1>0, <1>2, <1>5, <2>3
    <3>2. g[x] = b[x - at]
      BY <1>2, <1>4, <2>3, <3>1
    <3>3. b[x - at] = h[x - 1]
      BY <1>4, <3>1
    <3> QED  BY <1>2, <2>3, <3>1, <3>2, <3>3
  <2> QED  BY <1>2, <2>1, <2>2, <2>3
<1> HIDE DEF g
<1>7. NotBeyond(g, t)
  <2> SUFFICES ASSUME NEW x \in 1 .. Len(g), ~IsContextual(g[x]) PROVE g[x].t <= t
    BY DEF NotBeyond
  <2>1. Of(x) \in 1 .. Len(h) /\ g[x] = h[Of(x)]
    BY <1>6
  <2> HIDE DEF Of
  <2> QED  BY <2>1 DEF InOrder, NotBeyond
<1>8. Ordered(g)
  <2> SUFFICES ASSUME NEW x \in 1 .. Len(g), NEW y \in 1 .. Len(g), x < y,
                      ~IsContextual(g[x]), ~IsContextual(g[y])
               PROVE  g[x].t <= g[y].t
    BY DEF Ordered
  <2>1. /\ Of(x) \in 1 .. Len(h) /\ g[x] = h[Of(x)] /\ x # at
        /\ Of(y) \in 1 .. Len(h) /\ g[y] = h[Of(y)] /\ y # at
    BY <1>6
  <2>2. Of(x) < Of(y)
    BY <1>2, <2>1
  <2> HIDE DEF Of
  <2> QED  BY <2>1, <2>2 DEF InOrder, Ordered
<1> QED  BY <1>3, <1>7, <1>8 DEF InOrder, g, a, b
-----------------------------------------------------------------------------
(* What the session records fits *)

Read(r) == Chronicle(r)[Len(r)]

\* The turn read last was started.
LEMMA TurnBounded ==
    ASSUME NEW n \in Nat, NEW r \in Seq(Records(n)), Fitting(r)
    PROVE  Read(r).turn \in 0 .. n
<1> DEFINE T == {p \in 0 .. Len(r) : Chronicle(r)[p].turn \in 0 .. n}
<1>0. Len(r) \in Nat /\ Len(r) \in 0 .. Len(r)
  OBVIOUS
<1>1. 0 \in T
  <2>1. Chronicle(r)[0] = NewChronicle /\ NewChronicle.turn = 0
    BY ChronicleDef DEF NewChronicle
  <2> QED  BY <1>0, <2>1
<1>2. ASSUME NEW p \in 0 .. Len(r) - 1, p \in T PROVE p + 1 \in T
  <2> DEFINE c == Chronicle(r)[p]
             d == Chronicle(r)[p + 1]
             rec == r[p + 1]
  <2>1. p + 1 \in 1 .. Len(r) /\ p + 1 \in 0 .. Len(r) /\ (p + 1) - 1 = p /\ p \in 0 .. Len(r)
    BY <1>0
  <2>2. d = ReadRecord(c, rec) /\ rec \in Records(n)
    BY <2>1, ChronicleDef
  <2>3. WellRead(c, n) /\ MayFollow(c, rec)
    BY <2>1, Forward DEF Agrees, Fitting, Fits
  <2>4. c.turn \in 0 .. n
    BY <1>2
  <2> HIDE DEF c, d, rec
  <2>5. TurnRead(c, rec, d)
    BY <2>2, <2>3, RecordRead
  <2>6. d.turn \in 0 .. n
    <3>1. CASE rec.k = "started"
      <4>1. rec.t \in 1 .. n
        BY <2>2, <3>1, RecordKinds
      <4> QED  BY <2>5, <3>1, <4>1 DEF TurnRead
    <3>2. CASE rec.k # "started"
      BY <2>4, <2>5, <3>2 DEF TurnRead
    <3> QED  BY <3>1, <3>2
  <2> QED  BY <2>1, <2>6 DEF d
<1> HIDE DEF T
<1>3. \A p \in 0 .. Len(r) : p \in T
  BY <1>0, <1>1, <1>2, Induct
<1> QED  BY <1>0, <1>3 DEF T, Read

\* A record that may follow keeps the rollout fitting.
LEMMA FitsAppend ==
    ASSUME NEW n \in Nat, NEW r \in Seq(Records(n)), Fitting(r), NEW x \in Records(n),
           MayFollow(Read(r), x), x.k \in InTurnKinds => Len(r) > 0 /\ r[Len(r)].k # "rolled_back"
    PROVE  /\ Append(r, x) \in Seq(Records(n)) /\ Fitting(Append(r, x))
           /\ Read(Append(r, x)) = ReadRecord(Read(r), x)
<1> DEFINE b == Append(r, x)
<1>1. b \in Seq(Records(n)) /\ Extends(b, r, x)
  BY Appended
<1> HIDE DEF b
<1>2. /\ Len(r) \in Nat /\ Len(b) = Len(r) + 1 /\ b[Len(r) + 1] = x
      /\ \A p \in 1 .. Len(r) : b[p] = r[p]
  BY <1>1 DEF Extends
<1>3. \A p \in 0 .. Len(r) : Chronicle(b)[p] = Chronicle(r)[p]
  <2>1. Len(r) <= Len(b)
    BY <1>2
  <2> QED  BY <1>1, <1>2, <2>1, ChroniclePrefix
<1>4. Chronicle(b)[Len(r)] = Read(r)
  BY <1>2, <1>3 DEF Read
<1>5. Fits(b, Len(r) + 1)
  <2>1. (Len(r) + 1) - 1 = Len(r) /\ (Len(r) > 0 => Len(r) \in 1 .. Len(r) /\ Len(r) + 1 > 1)
    BY <1>2
  <2>2. MayFollow(Chronicle(b)[(Len(r) + 1) - 1], b[Len(r) + 1])
    BY <1>2, <1>4, <2>1
  <2>3. x.k \in InTurnKinds => Len(r) + 1 > 1 /\ b[(Len(r) + 1) - 1].k # "rolled_back"
    BY <1>2, <2>1
  <2> QED  BY <1>2, <2>2, <2>3 DEF Fits
<1>6. ASSUME NEW p \in 1 .. Len(r) PROVE Fits(b, p)
  <2>1. p - 1 \in 0 .. Len(r) /\ (p > 1 => p - 1 \in 1 .. Len(r))
    BY <1>2
  <2>2. Chronicle(b)[p - 1] = Chronicle(r)[p - 1] /\ b[p] = r[p] /\ (p > 1 => b[p - 1] = r[p - 1])
    BY <1>2, <1>3, <2>1
  <2>3. Fits(r, p)
    BY DEF Fitting
  <2> QED  BY <2>2, <2>3 DEF Fits
<1>7. Fitting(b)
  <2> SUFFICES ASSUME NEW p \in 1 .. Len(b) PROVE Fits(b, p)
    BY DEF Fitting
  <2>1. p \in 1 .. Len(r) \/ p = Len(r) + 1
    BY <1>2
  <2> QED  BY <1>5, <1>6, <2>1
<1>8. Read(b) = ReadRecord(Read(r), x)
  <2>1. Len(b) \in 1 .. Len(b) /\ Len(b) - 1 = Len(r)
    BY <1>2
  <2>2. Chronicle(b)[Len(b)] = ReadRecord(Chronicle(b)[Len(b) - 1], b[Len(b)])
    BY <1>1, <2>1, ChronicleDef
  <2> QED  BY <1>2, <1>4, <2>1, <2>2 DEF Read
<1> QED  BY <1>1, <1>7, <1>8 DEF b

\* The rollout r ends within turn t, and x is a record of that turn.
Within(r, t) ==
    /\ r \in Seq(Records(t)) /\ Fitting(r) /\ Read(r).turn = t
    /\ Len(r) > 0 /\ r[Len(r)].k # "rolled_back"

Own(x, t) ==
    /\ x \in Records(t) /\ x.k \in InTurnKinds
    /\ x.k = "item" => x.i.t = t
    /\ x.k \in {"context", "complete", "aborted"} => x.t = t

\* Records of the turn that runs.
LEMMA WithinTurn ==
    ASSUME NEW t \in Nat, t > 0, NEW r, Within(r, t), NEW x, Own(x, t),
           x.k = "compacted" => Read(r).odd \/ InOrder(x.h, t)
    PROVE  Within(Append(r, x), t)
<1>1. /\ r \in Seq(Records(t)) /\ Fitting(r) /\ Read(r).turn = t
      /\ Len(r) > 0 /\ r[Len(r)].k # "rolled_back"
  BY DEF Within
<1>2. x \in Records(t) /\ x.k \in InTurnKinds /\ x.k \notin {"started", "rolled_back"}
  BY DEF Own, InTurnKinds
<1>3. MayFollow(Read(r), x)
  BY <1>1, <1>2 DEF MayFollow, Own, InOrder
<1>4. /\ Append(r, x) \in Seq(Records(t)) /\ Fitting(Append(r, x))
      /\ Read(Append(r, x)) = ReadRecord(Read(r), x)
  BY <1>1, <1>2, <1>3, FitsAppend
<1>5. Read(Append(r, x)).turn = t
  <2>1. WellRead(Read(r), t)
    <3>1. Len(r) \in 0 .. Len(r)
      BY <1>1
    <3> QED  BY <1>1, <3>1, Forward DEF Agrees, Read
  <2>2. TurnRead(Read(r), x, ReadRecord(Read(r), x))
    BY <1>2, <1>3, <2>1, RecordRead
  <2> QED  BY <1>1, <1>2, <1>4, <2>2 DEF TurnRead
<1>6. Len(Append(r, x)) > 0 /\ Append(r, x)[Len(Append(r, x))] = x
  BY <1>1, <1>2
<1> QED  BY <1>2, <1>4, <1>5, <1>6 DEF Within
-----------------------------------------------------------------------------
(* The invariant behind the rollbacks *)

\* The rollout can be read, and the task that runs is that of the turn read last.
RollInv == Fitting(rollout) /\ (phase # "idle" => Read(rollout).turn = turn)

LEMMA InitRoll == Init => RollInv
BY DEF Init, RollInv, Fitting

\* The rollout of a session whose task runs.
LEMMA RunningWithin ==
    ASSUME Inv, RollInv, phase # "idle"
    PROVE  Within(rollout, turn) /\ turn \in Nat /\ turn > 0
<1>1. turn \in Nat /\ turn \in 1 .. turn /\ rollout \in Seq(Records(turn)) /\ Len(rollout) \in Nat
  BY Running
<1>2. PICK s : OpenTurn(rollout, turn, s)
  BY Running
<1>3. s \in 1 .. Len(rollout) /\ rollout[s].k = "started"
  BY <1>2 DEF OpenTurn, Started
<1>4. Len(rollout) = s \/ Len(rollout) \in s + 1 .. Len(rollout)
  BY <1>1, <1>3
<1>5. rollout[Len(rollout)].k # "rolled_back"
  <2>1. CASE Len(rollout) = s
    BY <1>3, <2>1
  <2>2. CASE Len(rollout) \in s + 1 .. Len(rollout)
    BY <1>2, <2>2 DEF OpenTurn, OfTurn
  <2> QED  BY <1>4, <2>1, <2>2
<1> QED  BY <1>1, <1>3, <1>5 DEF RollInv, Within

LEMMA RollStart ==
    ASSUME Inv, RollInv, NEW v \in Settings, StartTurn(v) \/ StartCompactTask(v)
    PROVE  RollInv'
<1> DEFINE x == Started(turn + 1)
<1>1. turn' = turn + 1 /\ rollout' = rollout \o <<x>>
  BY DEF StartTurn, StartCompactTask, Persist
<1>2. turn \in Nat /\ rollout \in Seq(Records(turn)) /\ Fitting(rollout)
  BY DEF Inv, TypeInv, HistoryInv, InStep, RollInv
<1>3. Records(turn) \subseteq Records(turn + 1)
  BY <1>2, RecordsGrow
<1>4. rollout \in Seq(Records(turn + 1)) /\ turn + 1 \in Nat
  BY <1>2, <1>3
<1>5. x \in Records(turn + 1) /\ x.k = "started" /\ x.t = turn + 1
  BY <1>2 DEF Records, Started
<1> HIDE DEF x
<1>6. Read(rollout).turn \in 0 .. turn
  BY <1>2, TurnBounded
<1>7. MayFollow(Read(rollout), x) /\ x.k \notin InTurnKinds
  BY <1>2, <1>5, <1>6 DEF MayFollow, InTurnKinds
<1>8. rollout' = Append(rollout, x)
  BY <1>1, <1>4, <1>5
<1>9. Fitting(rollout') /\ Read(rollout') = ReadRecord(Read(rollout), x)
  BY <1>4, <1>5, <1>2, <1>7, <1>8, FitsAppend
<1>10. WellRead(Read(rollout), turn + 1)
  <2>1. Len(rollout) \in 0 .. Len(rollout)
    BY <1>4
  <2> QED  BY <1>2, <1>4, <2>1, Forward DEF Agrees, Read
<1>11. TurnRead(Read(rollout), x, ReadRecord(Read(rollout), x))
  BY <1>4, <1>5, <1>7, <1>10, RecordRead
<1>12. Read(rollout').turn = turn'
  BY <1>1, <1>5, <1>9, <1>11 DEF TurnRead
<1> QED  BY <1>9, <1>12 DEF RollInv, Read

\* One item of the running turn.
LEMMA RollItem ==
    ASSUME Inv, RollInv, phase # "idle", NEW k \in ItemKinds, NEW v \in Settings \cup Nat,
           RecordConversationItems(<<Item(k, turn, v)>>), turn' = turn
    PROVE  RollInv'
<1> DEFINE i == Item(k, turn, v)
           x == Response(i)
<1>1. Within(rollout, turn) /\ turn \in Nat /\ turn > 0 /\ turn \in 1 .. turn
  BY RunningWithin
<1>2. i \in TurnItems(turn) /\ i.t = turn
  BY <1>1, OwnItems DEF Item
<1>3. rollout' = rollout \o <<x>>
  <2> HIDE DEF i
  <2>1. RecordConversationItems(<<i>>)
    BY DEF i
  <2>2. [n \in DOMAIN <<i>> |-> Response(<<i>>[n])] = <<x>>
    OBVIOUS
  <2> QED  BY <2>1, <2>2 DEF RecordConversationItems, Persist
<1> HIDE DEF i
<1>4. Own(x, turn) /\ x.k # "compacted" /\ x \in Records(turn)
  BY <1>2 DEF Own, Records, Response, InTurnKinds
<1> HIDE DEF x
<1>5. Within(Append(rollout, x), turn)
  BY <1>1, <1>4, WithinTurn
<1>6. rollout' = Append(rollout, x)
  BY <1>1, <1>3, <1>4 DEF Within
<1> QED  BY <1>5, <1>6 DEF Within, RollInv, Read

LEMMA RollContext ==
    ASSUME Inv, RollInv, RecordContextUpdates
    PROVE  RollInv'
<1> DEFINE new == CASE baseline = "none" -> <<Item("context", turn, setting)>>
                    [] baseline \notin {"none", setting} -> <<Item("update", turn, setting)>>
                    [] OTHER -> <<>>
           recs == [n \in DOMAIN new |-> Response(new[n])]
           x == TurnContext(turn, setting)
<1>1. phase = "started" /\ rollout' = rollout \o (recs \o <<x>>) /\ turn' = turn
  BY DEF RecordContextUpdates, Persist
<1>2. Within(rollout, turn) /\ turn \in Nat /\ turn > 0 /\ turn \in 1 .. turn /\ setting \in Settings
  BY <1>1, RunningWithin, Running
<1>3. rollout \in Seq(Records(turn))
  BY <1>2 DEF Within
<1>4. x \in Records(turn) /\ Own(x, turn) /\ x.k # "compacted"
  BY <1>2 DEF Own, Records, TurnContext, InTurnKinds
<1>5. \/ new = <<>>
      \/ \E k \in {"context", "update"} : new = <<Item(k, turn, setting)>>
  OBVIOUS
<1> HIDE DEF x
<1>6. \E r : Within(r, turn) /\ rollout' = Append(r, x)
  <2>1. CASE new = <<>>
    <3>1. recs = <<>>
      BY <2>1
    <3> HIDE DEF recs
    <3>2. rollout' = Append(rollout, x)
      BY <1>1, <1>3, <1>4, <3>1
    <3> QED  BY <1>2, <3>2
  <2>2. ASSUME NEW k \in {"context", "update"}, new = <<Item(k, turn, setting)>>
        PROVE  \E r : Within(r, turn) /\ rollout' = Append(r, x)
    <3> DEFINE i == Item(k, turn, setting)
               y == Response(i)
               r == Append(rollout, y)
    <3>1. i \in TurnItems(turn) /\ i.t = turn
      BY <1>2, OwnItems DEF ItemKinds, Item
    <3>2. recs = <<y>>
      BY <2>2
    <3> HIDE DEF i, new
    <3>3. y \in Records(turn) /\ Own(y, turn) /\ y.k # "compacted"
      BY <3>1 DEF Own, Records, Response, InTurnKinds
    <3> HIDE DEF y, recs
    <3>4. Within(r, turn)
      BY <1>2, <3>3, WithinTurn
    <3>5. rollout' = Append(r, x)
      BY <1>1, <1>3, <1>4, <3>2, <3>3
    <3> QED  BY <3>4, <3>5
  <2> QED  BY <1>5, <2>1, <2>2
<1>7. PICK r : Within(r, turn) /\ rollout' = Append(r, x)
  BY <1>6
<1>8. Within(Append(r, x), turn)
  BY <1>2, <1>4, <1>7, WithinTurn
<1> QED  BY <1>1, <1>7, <1>8 DEF Within, RollInv, Read

LEMMA RollComplete ==
    ASSUME Inv, RollInv, Complete
    PROVE  RollInv'
<1> DEFINE x == Ended("complete", turn)
<1>1. phase = "ending" /\ phase' = "idle" /\ rollout' = rollout \o <<x>>
  BY DEF Complete, Persist
<1>2. Within(rollout, turn) /\ turn \in Nat /\ turn > 0 /\ turn \in 1 .. turn
  BY <1>1, RunningWithin
<1>3. x \in Records(turn) /\ Own(x, turn) /\ x.k # "compacted"
  BY <1>2 DEF Own, Records, Ended, InTurnKinds
<1> HIDE DEF x
<1>4. rollout' = Append(rollout, x)
  BY <1>1, <1>2, <1>3 DEF Within
<1>5. Within(Append(rollout, x), turn)
  BY <1>2, <1>3, WithinTurn
<1> QED  BY <1>1, <1>4, <1>5 DEF Within, RollInv

LEMMA RollAbort ==
    ASSUME Inv, RollInv, Abort
    PROVE  RollInv'
<1> DEFINE i == Item("marker", turn, 0)
           y == Response(i)
           x == Ended("aborted", turn)
           r == Append(rollout, y)
<1>1. /\ phase # "idle" /\ phase' = "idle" /\ items' = Append(items, i)
      /\ rollout' = rollout \o <<Response(Last(items')), x>>
  BY DEF Abort, Persist
<1>2. /\ Within(rollout, turn) /\ turn \in Nat /\ turn > 0 /\ turn \in 1 .. turn
      /\ items \in Histories(turn)
  BY <1>1, RunningWithin, Running
<1>3. rollout \in Seq(Records(turn))
  BY <1>2 DEF Within
<1>4. i \in TurnItems(turn) /\ i.t = turn
  BY <1>2, OwnItems DEF ItemKinds, Item
<1>5. x \in Records(turn) /\ Own(x, turn) /\ x.k # "compacted"
  BY <1>2 DEF Own, Records, Ended, InTurnKinds
<1> HIDE DEF i, x
<1>6. y \in Records(turn) /\ Own(y, turn) /\ y.k # "compacted"
  BY <1>4 DEF Own, Records, Response, InTurnKinds
<1>7. Last(items') = i
  BY <1>1, <1>2, <1>4 DEF Last, Histories
<1>8. rollout' = rollout \o <<y, x>>
  BY <1>1, <1>7
<1> HIDE DEF y
<1>9. Within(r, turn)
  BY <1>2, <1>6, WithinTurn
<1>10. rollout' = Append(r, x)
  BY <1>3, <1>5, <1>6, <1>8
<1> HIDE DEF r
<1>11. Within(Append(r, x), turn)
  BY <1>2, <1>5, <1>9, WithinTurn
<1> QED  BY <1>1, <1>10, <1>11 DEF Within, RollInv

\* A compaction: its replacement history is in the order of the turns, because the
\* history it was built from is.
LEMMA RollCompact ==
    ASSUME Inv, RollInv, phase # "idle", NEW inject \in BOOLEAN, Compact(inject)
    PROVE  RollInv'
<1> DEFINE i == Item("agent", turn, Len(rollout))
           j == Item("summary", turn, Len(rollout))
           c == Item("context", turn, setting)
           asked == Append(items, i)
           built == BuildCompactedHistory(asked, j)
           new == IF inject THEN InsertInitialContext(built, c) ELSE built
           y == Response(i)
           w == Compacted(new)
           x == TurnContext(turn, setting)
           r == Append(rollout, y)
           b == Append(r, w)
<1>1. /\ rollout' = rollout \o (<<Response(Last(asked)), w>> \o (IF inject THEN <<x>> ELSE <<>>))
      /\ turn' = turn
  BY DEF Compact, Persist
<1>2. /\ turn \in Nat /\ turn \in 1 .. turn /\ InStep(rollout, items, turn)
      /\ rollout \in Seq(Records(turn)) /\ Len(rollout) \in Nat /\ items \in Histories(turn)
      /\ setting \in Settings
  BY Running
<1>3. PICK s : OpenTurn(rollout, turn, s)
  BY Running
<1>a. Within(rollout, turn) /\ turn > 0
  BY RunningWithin
<1>4. /\ i \in TurnItems(turn) /\ i.k = "agent" /\ i.t = turn
      /\ j \in TurnItems(turn) /\ j.k = "summary" /\ j.t = turn
      /\ c \in TurnItems(turn) /\ c.k = "context"
  BY <1>2, OwnItems DEF ItemKinds, Item
<1> HIDE DEF i, j, c
<1>5. asked \in Histories(turn) /\ Last(asked) = i
  BY <1>2, <1>4 DEF Histories, Last
<1>6. InStep(r, asked, turn)
  <2>1. Follows(i, items, Len(rollout)) /\ i.k # "output"
    BY <1>4 DEF Follows
  <2> QED  BY <1>2, <1>3, <1>4, <2>1, InStepItem
<1> HIDE DEF asked
<1>7. built \in Histories(turn) /\ built # <<>>
  BY <1>2, <1>4, <1>5, BuiltTyped
<1>8. y \in Records(turn) /\ Own(y, turn) /\ y.k # "compacted"
  BY <1>4 DEF Own, Records, Response, InTurnKinds
<1>b. rollout' = rollout \o (<<y, w>> \o (IF inject THEN <<x>> ELSE <<>>))
  BY <1>1, <1>5
<1> HIDE DEF y
<1>9. Within(r, turn)
  BY <1>2, <1>8, <1>a, WithinTurn
<1>10. Read(r).odd \/ InOrder(new, turn)
  <2> SUFFICES ASSUME ~Read(r).odd PROVE InOrder(new, turn)
    OBVIOUS
  <2> HIDE DEF r
  <2>1. /\ r \in Seq(Records(turn)) /\ Fitting(r) /\ Read(r).turn = turn
        /\ ReconstructHistoryFromRollout(r).items = asked
    BY <1>6, <1>9 DEF Within, InStep
  <2>2. Matches(asked, Read(r))
    BY <1>2, <2>1, RebuiltMatches DEF Read
  <2>3. InOrder(asked, j.t)
    BY <1>4, <2>1, <2>2 DEF Matches, InOrder
  <2>4. InOrder(built, turn)
    BY <1>2, <1>4, <1>5, <2>3, BuiltOrdered
  <2> HIDE DEF built
  <2>5. CASE inject
    BY <1>2, <1>4, <1>7, <2>4, <2>5, InsertedOrdered
  <2>6. CASE ~inject
    BY <2>4, <2>6
  <2> QED  BY <2>5, <2>6
<1> HIDE DEF built
<1>11. new \in Histories(turn)
  <2>1. CASE inject
    <3>1. \A p \in 1 .. Len(built) : built[p].k \in KeptKinds
      BY <1>2, <1>4, <1>5, BuiltTyped DEF built
    <3> QED  BY <1>2, <1>4, <1>7, <2>1, <3>1, InsertedTyped
  <2>2. CASE ~inject
    BY <1>7, <2>2
  <2> QED  BY <2>1, <2>2
<1> HIDE DEF new
<1>12. w \in Records(turn) /\ Own(w, turn) /\ w.h = new
  BY <1>11 DEF Own, Records, Compacted, InTurnKinds
<1>13. x \in Records(turn) /\ Own(x, turn) /\ x.k # "compacted"
  BY <1>2 DEF Own, Records, TurnContext, InTurnKinds
<1> HIDE DEF w, x
<1>14. Within(b, turn)
  <2> HIDE DEF r
  <2> QED  BY <1>2, <1>9, <1>10, <1>12, <1>a, WithinTurn
<1>15. CASE inject
  <2>1. rollout' = Append(b, x)
    BY <1>2, <1>8, <1>12, <1>13, <1>b, <1>15
  <2> HIDE DEF b
  <2>2. Within(Append(b, x), turn)
    BY <1>2, <1>13, <1>14, <1>a, WithinTurn
  <2> QED  BY <1>1, <2>1, <2>2 DEF Within, RollInv, Read
<1>16. CASE ~inject
  <2>1. rollout' = b
    BY <1>2, <1>8, <1>12, <1>b, <1>16
  <2> HIDE DEF b
  <2> QED  BY <1>1, <1>14, <2>1 DEF Within, RollInv, Read
<1> QED  BY <1>15, <1>16

LEMMA RollBack ==
    ASSUME Inv, RollInv, NEW n \in 1 .. MaxTurns, ThreadRollback(n)
    PROVE  RollInv'
<1> DEFINE x == RolledBack(n)
<1>1. turn \in Nat /\ rollout \in Seq(Records(turn)) /\ Fitting(rollout)
  BY DEF Inv, TypeInv, HistoryInv, InStep, RollInv
<1>2. x \in Records(turn) /\ x.k = "rolled_back" /\ x.n > 0
  <2>1. n \in Nat /\ n > 0
    BY BoundsAreNaturals
  <2> QED  BY <2>1 DEF Records, RolledBack
<1>3. phase' = "idle" /\ rollout' = rollout \o <<x>>
  BY DEF ThreadRollback, Persist
<1> HIDE DEF x
<1>4. rollout' = Append(rollout, x)
  BY <1>1, <1>2, <1>3
<1>5. MayFollow(Read(rollout), x) /\ x.k \notin InTurnKinds
  BY <1>2 DEF MayFollow, InTurnKinds
<1>6. Fitting(Append(rollout, x))
  BY <1>1, <1>2, <1>5, FitsAppend
<1> QED  BY <1>3, <1>4, <1>6 DEF RollInv

LEMMA RollResume ==
    ASSUME Inv, RollInv, NEW kept \in durable .. Len(rollout), RestartAndResume(kept)
    PROVE  RollInv'
<1>1. /\ turn \in Nat /\ rollout \in Seq(Records(turn)) /\ durable \in 0 .. Len(rollout)
      /\ Fitting(rollout)
  BY DEF Inv, TypeInv, HistoryInv, InStep, RollInv
<1> DEFINE b == SubSeq(rollout, 1, kept)
<1>2. phase' = "idle" /\ rollout' = b
  BY DEF RestartAndResume
<1>3. /\ kept \in 0 .. Len(rollout) /\ b \in Seq(Records(turn)) /\ Len(b) = kept
      /\ \A p \in 1 .. kept : b[p] = rollout[p]
  BY <1>1
<1> HIDE DEF b
<1>4. \A p \in 0 .. Len(b) : Chronicle(rollout)[p] = Chronicle(b)[p]
  <2>1. Len(b) <= Len(rollout) /\ \A p \in 1 .. Len(b) : rollout[p] = b[p]
    BY <1>1, <1>3
  <2> QED  BY <1>1, <1>3, <2>1, ChroniclePrefix
<1>5. Fitting(b)
  <2> SUFFICES ASSUME NEW p \in 1 .. Len(b) PROVE Fits(b, p)
    BY DEF Fitting
  <2>1. p \in 1 .. Len(rollout) /\ p - 1 \in 0 .. Len(b) /\ (p > 1 => p - 1 \in 1 .. kept)
    BY <1>1, <1>3
  <2>2. /\ Chronicle(rollout)[p - 1] = Chronicle(b)[p - 1] /\ b[p] = rollout[p]
        /\ (p > 1 => b[p - 1] = rollout[p - 1])
    BY <1>3, <1>4, <2>1
  <2>3. Fits(rollout, p)
    BY <1>1, <2>1 DEF Fitting
  <2> QED  BY <2>2, <2>3 DEF Fits
<1> QED  BY <1>2, <1>5 DEF RollInv

\* Every step keeps it.
LEMMA StepRoll == Inv /\ RollInv /\ [Next]_vars => RollInv'
<1> SUFFICES ASSUME Inv, RollInv, [Next]_vars PROVE RollInv'
  OBVIOUS
<1>1. ASSUME NEW v \in Settings, StartTurn(v) \/ StartCompactTask(v) PROVE RollInv'
  BY <1>1, RollStart
<1>2. CASE PreTurnCompact \/ ManualCompact \/ MidTurnCompact
  <2>1. phase # "idle" /\ \E inject \in BOOLEAN : Compact(inject)
    BY <1>2 DEF PreTurnCompact, ManualCompact, MidTurnCompact
  <2> QED  BY <2>1, RollCompact
<1>3. CASE CompactFails \/ BlockInput \/ FollowUp
  <2>1. UNCHANGED <<rollout, turn>> /\ phase # "idle"
    BY <1>3 DEF CompactFails, BlockInput, FollowUp
  <2> QED  BY <2>1 DEF RollInv
<1>4. CASE RecordContextUpdates
  BY <1>4, RollContext
<1>5. ASSUME NEW kind \in {"user", "mail", "goal"}, RecordInput(kind) PROVE RollInv'
  <2>1. phase # "idle" /\ RecordConversationItems(<<Item(kind, turn, 1)>>) /\ turn' = turn
    BY <1>5 DEF RecordInput
  <2>2. kind \in ItemKinds /\ 1 \in Settings \cup Nat
    BY DEF ItemKinds
  <2> QED  BY <2>1, <2>2, RollItem
<1>6. CASE FinalAnswer
  <2>1. phase # "idle" /\ RecordConversationItems(<<Item("agent", turn, 0)>>) /\ turn' = turn
    BY <1>6 DEF FinalAnswer
  <2>2. "agent" \in ItemKinds /\ 0 \in Settings \cup Nat
    BY DEF ItemKinds
  <2> QED  BY <2>1, <2>2, RollItem
<1>7. CASE Steer
  <2>1. phase # "idle" /\ RecordConversationItems(<<Item("user", turn, 2)>>) /\ turn' = turn
    BY <1>7 DEF Steer
  <2>2. "user" \in ItemKinds /\ 2 \in Settings \cup Nat
    BY DEF ItemKinds
  <2> QED  BY <2>1, <2>2, RollItem
<1>8. CASE CallTool
  <2>1. /\ phase # "idle" /\ turn' = turn
        /\ RecordConversationItems(<<Item("call", turn, Len(rollout))>>)
    BY <1>8 DEF CallTool
  <2>2. "call" \in ItemKinds /\ Len(rollout) \in Settings \cup Nat
    BY <2>1, Running DEF ItemKinds
  <2> QED  BY <2>1, <2>2, RollItem
<1>9. CASE ToolOutput
  <2> DEFINE c == items[Len(items)]
  <2>1. /\ phase = "tool" /\ turn' = turn
        /\ RecordConversationItems(<<Item("output", turn, Last(items).v)>>)
    BY <1>9 DEF ToolOutput
  <2>2. Len(items) > 0 /\ items \in Histories(turn) /\ Last(items) = c
    BY <2>1, Running DEF Inv, ToolInv, Last
  <2>3. c \in TurnItems(turn)
    BY <2>2 DEF Histories
  <2> HIDE DEF c
  <2>4. "output" \in ItemKinds /\ c.v \in Settings \cup Nat
    BY <2>3 DEF ItemKinds, TurnItems
  <2>5. RecordConversationItems(<<Item("output", turn, c.v)>>)
    BY <2>1, <2>2
  <2> QED  BY <2>1, <2>4, <2>5, RollItem
<1>10. CASE Complete
  BY <1>10, RollComplete
<1>11. CASE Abort
  BY <1>11, RollAbort
<1>12. ASSUME NEW n \in 1 .. MaxTurns, ThreadRollback(n) PROVE RollInv'
  BY <1>12, RollBack
<1>13. ASSUME NEW kept \in durable .. Len(rollout), RestartAndResume(kept) PROVE RollInv'
  BY <1>13, RollResume
<1>14. CASE UNCHANGED vars
  BY <1>14 DEF vars, RollInv
<1> QED  BY <1>1, <1>2, <1>3, <1>4, <1>5, <1>6, <1>7, <1>8, <1>9, <1>10, <1>11, <1>12, <1>13, <1>14
         DEF Next

\* Every rollback of the thread, live (thread_rollback) or replayed by a resume
\* (reconstruct_history_from_rollout), drops exactly the last n turns and what was
\* recorded behind them, as long as no rollback dropped a turn that was compacted
\* or steered, or reached behind a compaction for turns that do not exist.
THEOREM RollbacksDropWholeTurns == Spec => []RollbackDropsWholeTurns
<1>1. Init => Inv /\ RollInv
  BY InitInv, InitRoll
<1>2. Inv /\ RollInv /\ [Next]_vars => (Inv /\ RollInv)'
  BY StepInv, StepRoll
<1>3. Inv /\ RollInv => RollbackDropsWholeTurns
  <2> SUFFICES ASSUME Inv, RollInv, ~Chronicled.odd PROVE Spoken(items) = Chronicled.items
    BY DEF RollbackDropsWholeTurns
  <2>1. /\ turn \in Nat /\ rollout \in Seq(Records(turn)) /\ Fitting(rollout)
        /\ ReconstructHistoryFromRollout(rollout).items = items
    BY DEF Inv, TypeInv, HistoryInv, InStep, RollInv
  <2>2. Matches(items, Chronicled)
    BY <2>1, RebuiltMatches DEF Chronicled
  <2> QED  BY <2>2 DEF Matches
<1> QED  BY <1>1, <1>2, <1>3, PTL DEF Spec
=============================================================================
