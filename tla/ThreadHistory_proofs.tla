------------------------ MODULE ThreadHistory_proofs ------------------------
(***************************************************************************)
(* Proofs about ThreadHistory: its type invariant, that a resume yields    *)
(* the live history, and that every prompt pairs calls with outputs, for   *)
(* any number of turns, any settings and any compaction limit.             *)
(*                                                                         *)
(* Scan, replay and the helpers on sequences are recursive functions.      *)
(* Their values exist, and have properties, by induction over positions;   *)
(* induction is used in the form of the lemmas Induct and InductDown on    *)
(* sets of numbers.                                                        *)
(***************************************************************************)
EXTENDS ThreadHistory, WellFoundedInduction, TLAPS

(* Induction *)

\* Every set of numbers has a least one.
LEMMA LeastNumber ==
    ASSUME NEW T \in SUBSET Nat, T # {}
    PROVE  \E m \in T : \A n \in T : m <= n
<1>1. IsWellFoundedOn(OpToRel(<, Nat), Nat)
  BY NatLessThanWellFounded
<1>2. PICK m \in T : \A n \in T : <<n, m>> \notin OpToRel(<, Nat)
  BY <1>1, WFMin
<1>3. \A n \in T : ~(n < m)
  BY <1>2 DEF OpToRel
<1> QED  BY <1>3

\* A set that holds 0 and with every number below N the next holds 0 .. N.
LEMMA Induct ==
    ASSUME NEW N \in Nat, NEW T, 0 \in T, \A n \in 0 .. N - 1 : n \in T => n + 1 \in T
    PROVE  \A n \in 0 .. N : n \in T
<1> SUFFICES ASSUME NEW x \in 0 .. N, x \notin T PROVE FALSE
  OBVIOUS
<1> DEFINE U == {n \in 0 .. N : n \notin T}
<1>1. U \in SUBSET Nat /\ U # {}
  OBVIOUS
<1>2. PICK m \in U : \A n \in U : m <= n
  BY <1>1, LeastNumber
<1>3. m # 0 /\ m - 1 \in 0 .. N - 1 /\ m - 1 \notin U
  BY <1>2
<1>4. m - 1 \in T
  BY <1>3
<1> QED  BY <1>2, <1>3, <1>4

\* A set that holds N and with every number above M the one below holds M .. N.
LEMMA InductDown ==
    ASSUME NEW M \in Int, NEW N \in Int, M <= N, NEW T,
           N \in T, \A n \in M .. N : n > M /\ n \in T => n - 1 \in T
    PROVE  \A n \in M .. N : n \in T
<1> DEFINE U == {n \in 0 .. N - M : N - n \in T}
<1>1. 0 \in U
  OBVIOUS
<1>2. \A n \in 0 .. (N - M) - 1 : n \in U => n + 1 \in U
  <2> SUFFICES ASSUME NEW n \in 0 .. (N - M) - 1, N - n \in T PROVE N - (n + 1) \in T
    OBVIOUS
  <2>1. (N - n) - 1 \in T
    OBVIOUS
  <2>2. N - (n + 1) = (N - n) - 1
    OBVIOUS
  <2> QED  BY <2>1, <2>2
<1>3. \A n \in 0 .. N - M : n \in U
  <2> HIDE DEF U
  <2> QED  BY <1>1, <1>2, Induct
<1> SUFFICES ASSUME NEW n \in M .. N PROVE n \in T
  OBVIOUS
<1>4. N - n \in U
  BY <1>3
<1>5. N - (N - n) = n
  OBVIOUS
<1> QED  BY <1>4, <1>5
-----------------------------------------------------------------------------
(* Positions in order *)

\* up is the recursive function of Ascending.
Climbs(up, S, n) ==
    \A p \in 0 .. n : up[p] = IF p = 0 THEN <<>>
                             ELSE IF p \in S THEN Append(up[p - 1], p) ELSE up[p - 1]

\* Ascending computes what its recursive definition says.
LEMMA AscendingDef ==
    ASSUME NEW S, NEW n \in Nat
    PROVE  \E up : Ascending(S, n) = up[n] /\ Climbs(up, S, n)
<1> DEFINE Eq(f, p) == f[p] = IF p = 0 THEN <<>>
                              ELSE IF p \in S THEN Append(f[p - 1], p) ELSE f[p - 1]
           Ok(f, m) == \A p \in 0 .. m : Eq(f, p)
           T == {m \in 0 .. n : \E f : Ok(f, m)}
<1>1. 0 \in T
  <2>1. Ok([p \in {0} |-> <<>>], 0)
    OBVIOUS
  <2> HIDE DEF Ok
  <2>2. \E f : Ok(f, 0)
    BY <2>1
  <2> QED  BY <2>2
<1>2. ASSUME NEW m \in 0 .. n - 1, m \in T PROVE m + 1 \in T
  <2>1. PICK f : Ok(f, m)
    BY <1>2
  <2> DEFINE e == [p \in 0 .. m + 1 |-> IF p <= m THEN f[p]
                                        ELSE IF p \in S THEN Append(f[m], p) ELSE f[m]]
  <2>2. Ok(e, m + 1)
    BY <2>1
  <2> HIDE DEF Ok, e
  <2>3. \E g : Ok(g, m + 1)
    BY <2>2
  <2> QED  BY <2>3
<1>3. n \in T
  <2> HIDE DEF T
  <2> QED  BY <1>1, <1>2, Induct
<1>4. PICK f : Ok(f, n)
  BY <1>3
<1> DEFINE D(g) == [p \in 0 .. n |-> IF p = 0 THEN <<>>
                                     ELSE IF p \in S THEN Append(g[p - 1], p) ELSE g[p - 1]]
           f0 == [p \in 0 .. n |-> f[p]]
<1>5. f0 = D(f0)
  BY <1>4
<1> DEFINE up == CHOOSE g : g = D(g)
<1>6. up = D(up)
  BY <1>5
<1>7. Ascending(S, n) = up[n]
  BY DEF Ascending
<1>8. \A p \in 0 .. n : Eq(up, p)
  <2> HIDE DEF up
  <2> QED  BY <1>6
<1>9. Climbs(up, S, n)
  BY <1>8 DEF Climbs
<1> HIDE DEF up
<1> QED  BY <1>7, <1>9

\* a lists the members of S in 1 .. n, each once, in order.
Lists(a, S, n) ==
    /\ a \in Seq(1 .. n)
    /\ \A x \in 1 .. Len(a) : a[x] \in S
    /\ \A x, y \in 1 .. Len(a) : x < y => a[x] < a[y]
    /\ \A p \in 1 .. n : p \in S => \E x \in 1 .. Len(a) : a[x] = p

\* One more position.
LEMMA ListsStep ==
    ASSUME NEW S, NEW n \in Nat, NEW a, Lists(a, S, n)
    PROVE  Lists(IF n + 1 \in S THEN Append(a, n + 1) ELSE a, S, n + 1)
<1>0. a \in Seq(Nat) /\ a \in Seq(1 .. n + 1)
  BY DEF Lists
<1>1. CASE n + 1 \in S
  <2> DEFINE b == Append(a, n + 1)
  <2>1. /\ b \in Seq(1 .. n + 1) /\ Len(b) = Len(a) + 1 /\ b[Len(a) + 1] = n + 1
        /\ \A x \in 1 .. Len(a) : b[x] = a[x]
    BY <1>0
  <2>2. \A x \in 1 .. Len(a) : a[x] \in 1 .. n
    BY DEF Lists
  <2>3. \A x \in 1 .. Len(b) : b[x] \in S
    BY <1>0, <1>1, <2>1 DEF Lists
  <2>4. \A x, y \in 1 .. Len(b) : x < y => b[x] < b[y]
    <3> SUFFICES ASSUME NEW x \in 1 .. Len(b), NEW y \in 1 .. Len(b), x < y
                 PROVE  b[x] < b[y]
      OBVIOUS
    <3>1. x \in 1 .. Len(a) /\ b[x] = a[x] /\ a[x] \in 1 .. n
      BY <1>0, <2>1, <2>2
    <3>2. CASE y = Len(a) + 1
      BY <2>1, <3>1, <3>2
    <3>3. CASE y # Len(a) + 1
      <4>1. y \in 1 .. Len(a) /\ b[y] = a[y]
        BY <1>0, <2>1, <3>3
      <4> HIDE DEF b
      <4> QED  BY <3>1, <4>1 DEF Lists
    <3> QED  BY <3>2, <3>3
  <2>5. \A p \in 1 .. n + 1 : p \in S => \E x \in 1 .. Len(b) : b[x] = p
    <3> SUFFICES ASSUME NEW p \in 1 .. n + 1, p \in S PROVE \E x \in 1 .. Len(b) : b[x] = p
      OBVIOUS
    <3>1. CASE p = n + 1
      BY <1>0, <2>1, <3>1
    <3>2. CASE p # n + 1
      <4>1. PICK x \in 1 .. Len(a) : a[x] = p
        BY <3>2 DEF Lists
      <4> QED  BY <1>0, <2>1, <4>1
    <3> QED  BY <3>1, <3>2
  <2> HIDE DEF b
  <2>6. Lists(b, S, n + 1)
    BY <2>1, <2>3, <2>4, <2>5 DEF Lists
  <2> QED  BY <1>1, <2>6 DEF b
<1>2. CASE n + 1 \notin S
  <2>1. Lists(a, S, n + 1)
    <3>1. \A p \in 1 .. n + 1 : p \in S => \E x \in 1 .. Len(a) : a[x] = p
      BY <1>2 DEF Lists
    <3> QED  BY <1>0, <3>1 DEF Lists
  <2> QED  BY <1>2, <2>1
<1> QED  BY <1>1, <1>2

\* Ascending lists the members of S up to n.
LEMMA AscendingLists ==
    ASSUME NEW S, NEW n \in Nat
    PROVE  Lists(Ascending(S, n), S, n)
<1>1. PICK up : Ascending(S, n) = up[n] /\ Climbs(up, S, n)
  BY AscendingDef
<1> DEFINE T == {p \in 0 .. n : Lists(up[p], S, p)}
<1>2. 0 \in T
  <2>1. up[0] = <<>>
    BY <1>1 DEF Climbs
  <2>2. Lists(<<>>, S, 0)
    BY DEF Lists
  <2> QED  BY <2>1, <2>2
<1>3. \A p \in 0 .. n - 1 : p \in T => p + 1 \in T
  <2> SUFFICES ASSUME NEW p \in 0 .. n - 1, Lists(up[p], S, p) PROVE Lists(up[p + 1], S, p + 1)
    OBVIOUS
  <2>1. up[p + 1] = IF p + 1 \in S THEN Append(up[p], p + 1) ELSE up[p]
    BY <1>1 DEF Climbs
  <2> QED  BY <2>1, ListsStep
<1>4. n \in T
  <2> HIDE DEF T
  <2> QED  BY <1>2, <1>3, Induct
<1> QED  BY <1>1, <1>4

\* When S holds all positions, Ascending is the identity.
LEMMA AscendingAll ==
    ASSUME NEW S, NEW n \in Nat, 1 .. n \subseteq S
    PROVE  /\ Len(Ascending(S, n)) = n
           /\ \A x \in 1 .. n : Ascending(S, n)[x] = x
<1>1. PICK up : Ascending(S, n) = up[n] /\ Climbs(up, S, n)
  BY AscendingDef
<1> DEFINE All(a, p) == a \in Seq(Nat) /\ Len(a) = p /\ \A x \in 1 .. p : a[x] = x
           T == {p \in 0 .. n : All(up[p], p)}
<1>2. 0 \in T
  <2>1. up[0] = <<>>
    BY <1>1 DEF Climbs
  <2>2. All(<<>>, 0)
    OBVIOUS
  <2> HIDE DEF All
  <2> QED  BY <2>1, <2>2
<1>3. \A p \in 0 .. n - 1 : p \in T => p + 1 \in T
  <2> SUFFICES ASSUME NEW p \in 0 .. n - 1, All(up[p], p) PROVE All(up[p + 1], p + 1)
    OBVIOUS
  <2>1. up[p + 1] = Append(up[p], p + 1)
    <3>1. p + 1 \in S /\ p + 1 \in 0 .. n /\ p + 1 # 0 /\ (p + 1) - 1 = p
      OBVIOUS
    <3> QED  BY <1>1, <3>1 DEF Climbs
  <2> DEFINE b == Append(up[p], p + 1)
  <2>2. b \in Seq(Nat) /\ Len(b) = p + 1 /\ b[p + 1] = p + 1 /\ \A x \in 1 .. p : b[x] = up[p][x]
    OBVIOUS
  <2> HIDE DEF b
  <2>3. \A x \in 1 .. p + 1 : b[x] = x
    BY <2>2
  <2> QED  BY <2>1, <2>2, <2>3 DEF b
<1>4. n \in T
  <2> HIDE DEF T
  <2> QED  BY <1>2, <1>3, Induct
<1> QED  BY <1>1, <1>4

\* Items picked from h, in order.
LEMMA ItemsAtIn ==
    ASSUME NEW I, NEW h \in Seq(I), NEW S
    PROVE  /\ ItemsAt(h, S) \in Seq(I)
           /\ \A x \in 1 .. Len(ItemsAt(h, S)) :
                 \E p \in 1 .. Len(h) : p \in S /\ ItemsAt(h, S)[x] = h[p]
<1> DEFINE a == Ascending(S, Len(h))
<1>1. a \in Seq(1 .. Len(h)) /\ \A x \in 1 .. Len(a) : a[x] \in S
  BY AscendingLists DEF Lists
<1>2. ItemsAt(h, S) = [x \in 1 .. Len(a) |-> h[a[x]]]
  BY <1>1 DEF ItemsAt
<1> HIDE DEF a
<1>3. \A x \in 1 .. Len(a) : a[x] \in 1 .. Len(h)
  BY <1>1
<1> QED  BY <1>1, <1>2, <1>3

\* Picking all positions picks all items.
LEMMA ItemsAtAll ==
    ASSUME NEW I, NEW h \in Seq(I), NEW S, 1 .. Len(h) \subseteq S
    PROVE  ItemsAt(h, S) = h
<1> DEFINE a == Ascending(S, Len(h))
<1>1. a \in Seq(1 .. Len(h)) /\ Len(a) = Len(h) /\ \A x \in 1 .. Len(h) : a[x] = x
  <2>1. Len(h) \in Nat
    OBVIOUS
  <2> QED  BY <2>1, AscendingLists, AscendingAll DEF Lists
<1>2. ItemsAt(h, S) = [x \in 1 .. Len(a) |-> h[a[x]]]
  BY <1>1 DEF ItemsAt
<1> HIDE DEF a
<1> QED  BY <1>1, <1>2
-----------------------------------------------------------------------------
(* Rollback of a history *)

\* What is trimmed lies between the first instruction and the cut.
LEMMA TrimInRange ==
    ASSUME NEW h, NEW first \in Nat, NEW cut \in Nat, first <= cut
    PROVE  TrimPreTurnContextUpdates(h, first, cut) \in first .. cut
<1> DEFINE C == {c \in first .. cut : \A p \in c .. (cut - 1) : IsContextual(h[p])}
<1>1. cut \in C
  OBVIOUS
<1>2. C \in SUBSET Nat
  OBVIOUS
<1>3. \E m \in C : \A c \in C : m <= c
  <2> HIDE DEF C
  <2> QED  BY <1>1, <1>2, LeastNumber
<1>4. Min(C) \in C
  <2> HIDE DEF C
  <2> QED  BY <1>3 DEF Min
<1> QED  BY <1>4 DEF TrimPreTurnContextUpdates

\* A rollback leaves a prefix of the history.
LEMMA DropIsPrefix ==
    ASSUME NEW I, NEW h \in Seq(I), NEW n \in Nat
    PROVE  \E c \in 0 .. Len(h) : DropLastNUserTurns(h, n) = SubSeq(h, 1, c)
<1> DEFINE pos == UserMessagePositions(h)
           first == Head(pos)
           cut == IF n >= Len(pos) THEN first ELSE pos[Len(pos) - n + 1]
<1>0. h = SubSeq(h, 1, Len(h))
  OBVIOUS
<1>1. CASE n = 0 \/ pos = <<>>
  <2>1. DropLastNUserTurns(h, n) = h
    BY <1>1 DEF DropLastNUserTurns
  <2>2. Len(h) \in 0 .. Len(h)
    OBVIOUS
  <2> HIDE DEF pos, first, cut
  <2> QED  BY <1>0, <2>1, <2>2
<1>2. CASE ~(n = 0 \/ pos = <<>>)
  <2>1. Lists(pos, {p \in DOMAIN h : IsUserTurnBoundary(h[p])}, Len(h))
    BY AscendingLists DEF UserMessagePositions
  <2>2. /\ pos \in Seq(1 .. Len(h)) /\ Len(pos) > 0
        /\ \A x, y \in 1 .. Len(pos) : x < y => pos[x] < pos[y]
    <3> HIDE DEF pos
    <3> QED  BY <1>2, <2>1 DEF Lists
  <2>3. first = pos[1] /\ first \in 1 .. Len(h)
    <3> HIDE DEF pos
    <3> QED  BY <2>2
  <2>4. cut \in first .. Len(h)
    <3> HIDE DEF pos
    <3>1. CASE n >= Len(pos)
      BY <2>3, <3>1
    <3>2. CASE n < Len(pos)
      <4> DEFINE x == Len(pos) - n + 1
      <4>1. x \in 2 .. Len(pos) /\ 1 \in 1 .. Len(pos)
        BY <1>2, <2>2, <3>2
      <4>2. pos[x] \in 1 .. Len(h) /\ pos[1] < pos[x]
        BY <2>2, <4>1
      <4>3. cut = pos[x]
        BY <2>2, <3>2
      <4> HIDE DEF cut, x, first
      <4> QED  BY <2>3, <4>2, <4>3
    <3> QED  BY <2>2, <3>1, <3>2
  <2> DEFINE c == TrimPreTurnContextUpdates(h, first, cut) - 1
  <2>5. DropLastNUserTurns(h, n) = SubSeq(h, 1, c)
    BY <1>2 DEF DropLastNUserTurns
  <2>6. c \in 0 .. Len(h)
    <3> HIDE DEF first, cut
    <3>1. TrimPreTurnContextUpdates(h, first, cut) \in first .. cut
      BY <2>3, <2>4, TrimInRange
    <3> QED  BY <2>3, <2>4, <3>1
  <2> HIDE DEF c
  <2> QED  BY <2>5, <2>6
<1> QED  BY <1>1, <1>2
-----------------------------------------------------------------------------
(* Scan and replay as recursive functions *)

\* Replay computes what its recursive definition says.
LEMMA ReplayDef ==
    ASSUME NEW I, NEW r \in Seq(I), NEW from \in 1 .. Len(r) + 1, NEW base
    PROVE  \A p \in from - 1 .. Len(r) :
              Replay(r, from, base)[p] =
                 IF p < from THEN base ELSE ReplayRecord(Replay(r, from, base)[p - 1], r[p])
<1> DEFINE D(g) == [p \in from - 1 .. Len(r) |->
                       IF p < from THEN base ELSE ReplayRecord(g[p - 1], r[p])]
           Ok(f, m) == \A p \in from - 1 .. from - 1 + m :
                          f[p] = IF p < from THEN base ELSE ReplayRecord(f[p - 1], r[p])
           n == Len(r) + 1 - from
           T == {m \in 0 .. n : \E f : Ok(f, m)}
<1>0. n \in Nat /\ Len(r) = from - 1 + n
  OBVIOUS
<1>1. 0 \in T
  <2>1. Ok([p \in {from - 1} |-> base], 0)
    OBVIOUS
  <2> HIDE DEF Ok
  <2>2. \E f : Ok(f, 0)
    BY <2>1
  <2> QED  BY <1>0, <2>2
<1>2. ASSUME NEW m \in 0 .. n - 1, m \in T PROVE m + 1 \in T
  <2>1. PICK f : Ok(f, m)
    BY <1>2
  <2> DEFINE e == [p \in from - 1 .. from + m |->
                      IF p < from + m THEN f[p] ELSE ReplayRecord(f[from + m - 1], r[p])]
  <2>2. Ok(e, m + 1)
    <3> SUFFICES ASSUME NEW p \in from - 1 .. from - 1 + (m + 1)
                 PROVE  e[p] = IF p < from THEN base ELSE ReplayRecord(e[p - 1], r[p])
      OBVIOUS
    <3>1. CASE p < from + m
      <4>1. e[p] = f[p] /\ (p >= from => e[p - 1] = f[p - 1])
        BY <3>1
      <4> HIDE DEF e
      <4> QED  BY <2>1, <3>1, <4>1
    <3>2. CASE p = from + m
      <4>1. e[p] = ReplayRecord(f[from + m - 1], r[p]) /\ e[p - 1] = f[from + m - 1]
        BY <3>2
      <4> HIDE DEF e
      <4> QED  BY <3>2, <4>1
    <3> QED  BY <3>1, <3>2
  <2> HIDE DEF Ok, e
  <2>3. \E g : Ok(g, m + 1)
    BY <2>2
  <2> QED  BY <2>3
<1>3. n \in T
  <2>1. \A m \in 0 .. n - 1 : m \in T => m + 1 \in T
    BY <1>2
  <2> HIDE DEF T, n
  <2>2. \A m \in 0 .. n : m \in T
    BY <1>0, <1>1, <2>1, Induct
  <2> QED  BY <1>0, <2>2
<1>4. PICK f : Ok(f, n)
  BY <1>3
<1> DEFINE f0 == [p \in from - 1 .. Len(r) |-> f[p]]
<1>5. f0 = D(f0)
  BY <1>4
<1> DEFINE h == CHOOSE g : g = D(g)
<1>6. h = D(h)
  BY <1>5
<1>7. Replay(r, from, base) = h
  BY DEF Replay
<1> HIDE DEF h
<1> QED  BY <1>6, <1>7

\* Scan computes what its recursive definition says.
LEMMA ScanDef ==
    ASSUME NEW I, NEW r \in Seq(I)
    PROVE  /\ Scan(r)[Len(r) + 1] = NewScan
           /\ \A p \in 1 .. Len(r) : Scan(r)[p] = ScanStep(Scan(r)[p + 1], r, p)
<1> DEFINE D(g) == [p \in 1 .. Len(r) + 1 |->
                       IF p = Len(r) + 1 THEN NewScan ELSE ScanStep(g[p + 1], r, p)]
           Ok(f, m) == \A p \in m .. Len(r) + 1 :
                          f[p] = IF p = Len(r) + 1 THEN NewScan ELSE ScanStep(f[p + 1], r, p)
           T == {m \in 1 .. Len(r) + 1 : \E f : Ok(f, m)}
<1>0. Len(r) \in Nat
  OBVIOUS
<1>1. Len(r) + 1 \in T
  <2>1. Ok([p \in {Len(r) + 1} |-> NewScan], Len(r) + 1)
    OBVIOUS
  <2> HIDE DEF Ok
  <2>2. \E f : Ok(f, Len(r) + 1)
    BY <2>1
  <2> QED  BY <1>0, <2>2
<1>2. ASSUME NEW m \in 1 .. Len(r) + 1, m > 1, m \in T PROVE m - 1 \in T
  <2>1. PICK f : Ok(f, m)
    BY <1>2
  <2> DEFINE e == [p \in m - 1 .. Len(r) + 1 |->
                      IF p >= m THEN f[p] ELSE ScanStep(f[m], r, p)]
  <2>2. Ok(e, m - 1)
    BY <2>1
  <2> HIDE DEF Ok, e
  <2>3. \E g : Ok(g, m - 1)
    BY <2>2
  <2> QED  BY <1>2, <2>3
<1>3. 1 \in T
  <2>1. \A m \in 1 .. Len(r) + 1 : m > 1 /\ m \in T => m - 1 \in T
    BY <1>2
  <2> HIDE DEF T
  <2>2. \A m \in 1 .. Len(r) + 1 : m \in T
    <3> DEFINE N == Len(r) + 1
    <3>1. 1 \in Int /\ N \in Int /\ 1 <= N /\ N \in T
      BY <1>0, <1>1
    <3>2. \A m \in 1 .. N : m > 1 /\ m \in T => m - 1 \in T
      BY <2>1
    <3> HIDE DEF N
    <3>3. \A m \in 1 .. N : m \in T
      BY <3>1, <3>2, InductDown, Zenon
    <3> QED  BY <3>3 DEF N
  <2> QED  BY <1>0, <2>2
<1>4. PICK f : Ok(f, 1)
  BY <1>3
<1> DEFINE f0 == [p \in 1 .. Len(r) + 1 |-> f[p]]
<1>5. f0 = D(f0)
  BY <1>4
<1> DEFINE s == CHOOSE g : g = D(g)
<1>6. s = D(s)
  BY <1>5
<1>7. Scan(r) = s
  BY DEF Scan
<1> HIDE DEF s
<1> QED  BY <1>6, <1>7
-----------------------------------------------------------------------------
(* Types *)

TurnItems(n) == [k : ItemKinds, t : 1 .. n, v : Settings \cup Nat]

Histories(n) == Seq(TurnItems(n))

Records(n) ==
    {Started(t) : t \in 1 .. n}
    \cup {Ended(k, t) : k \in {"complete", "aborted"}, t \in 1 .. n}
    \cup {Response(i) : i \in TurnItems(n)}
    \cup {TurnContext(t, v) : t \in 1 .. n, v \in Settings}
    \cup {Compacted(h) : h \in Histories(n)}
    \cup {RolledBack(m) : m \in Nat}

Optional(S) == {<<>>} \cup {<<x>> : x \in S}

Previous == Settings \cup {"none"}

References == Settings \cup {"never", "cleared"}

Segments(n) == [t : 0 .. n, user : BOOLEAN, previous : Previous, ref : References,
                base : Optional(Histories(n))]

Scans(n) == [seg : Optional(Segments(n)), base : Optional(Histories(n)), previous : Previous,
             ref : References, pending : Nat, from : Nat, done : BOOLEAN]

\* The kinds of records and their fields.
LEMMA RecordKinds ==
    ASSUME NEW n \in Nat, NEW rec \in Records(n)
    PROVE  \/ rec.k = "started" /\ rec.t \in 1 .. n
           \/ rec.k = "complete" /\ rec.t \in 1 .. n
           \/ rec.k = "aborted" /\ rec.t \in 1 .. n
           \/ rec.k = "item" /\ rec.i \in TurnItems(n)
           \/ rec.k = "context" /\ rec.t \in 1 .. n /\ rec.v \in Settings
           \/ rec.k = "compacted" /\ rec.h \in Histories(n)
           \/ rec.k = "rolled_back" /\ rec.n \in Nat
BY DEF Records, Started, Ended, Response, TurnContext, Compacted, RolledBack

\* What the rollout of n turns holds may stand in the rollout of more.
LEMMA RecordsGrow ==
    ASSUME NEW n \in Nat
    PROVE  /\ TurnItems(n) \subseteq TurnItems(n + 1)
           /\ Histories(n) \subseteq Histories(n + 1)
           /\ Records(n) \subseteq Records(n + 1)
<1>1. TurnItems(n) \subseteq TurnItems(n + 1)
  BY DEF TurnItems
<1>2. Histories(n) \subseteq Histories(n + 1)
  BY <1>1 DEF Histories
<1>3. Records(n) \subseteq Records(n + 1)
  BY <1>1, <1>2 DEF Records
<1> QED  BY <1>1, <1>2, <1>3

\* The active segment when a record is scanned, and its turn behind a record of t.
ActiveSegment(s) == IF s.seg = <<>> THEN NewSegment ELSE s.seg[1]

Named(s, t) == IF ActiveSegment(s).t = 0 THEN t ELSE ActiveSegment(s).t

\* The active segment of a scan that holds one.
LEMMA SegmentOf ==
    ASSUME NEW z, NEW g, z.seg = <<g>>
    PROVE  ActiveSegment(z) = g
BY DEF ActiveSegment

\* The active segment is a segment.
LEMMA ActiveSegmentTyped ==
    ASSUME NEW n \in Nat, NEW s \in Scans(n)
    PROVE  ActiveSegment(s) \in Segments(n)
<1>1. NewSegment \in Segments(n)
  BY DEF NewSegment, Segments, Previous, References, Optional
<1>2. s.seg \in Optional(Segments(n))
  BY DEF Scans
<1>3. s.seg # <<>> => s.seg[1] \in Segments(n)
  BY <1>2 DEF Optional
<1> QED  BY <1>1, <1>3 DEF ActiveSegment

\* Only the active segment of a scan differs.
OnlySegment(z, s) ==
    /\ z.base = s.base /\ z.previous = s.previous /\ z.ref = s.ref
    /\ z.pending = s.pending /\ z.done = s.done

\* The active segment behind a record of a turn.
SegmentAfter(s, rec) ==
    LET g == ActiveSegment(s)
    IN [t |-> IF rec.k \in {"complete", "aborted", "context"} THEN Named(s, rec.t) ELSE g.t,
        user |-> g.user \/ (rec.k = "item" /\ IsUserTurnBoundary(rec.i)),
        previous |-> IF rec.k = "context" /\ Named(s, rec.t) = rec.t THEN rec.v ELSE g.previous,
        ref |-> IF g.ref # "never" THEN g.ref
                ELSE IF rec.k = "compacted" THEN "cleared"
                ELSE IF rec.k = "context" /\ Named(s, rec.t) = rec.t THEN rec.v ELSE "never",
        base |-> IF g.base = <<>> /\ rec.k = "compacted" THEN <<rec.h>> ELSE g.base]

InTurnKinds == {"item", "complete", "aborted", "context", "compacted"}

\* That is a segment.
LEMMA SegmentAfterTyped ==
    ASSUME NEW n \in Nat, NEW s \in Scans(n), NEW rec \in Records(n), rec.k \in InTurnKinds
    PROVE  SegmentAfter(s, rec) \in Segments(n)
<1> DEFINE g == ActiveSegment(s)
           a == SegmentAfter(s, rec)
<1>1. g \in Segments(n)
  BY ActiveSegmentTyped
<1>2. /\ rec.k = "context" => rec.t \in 1 .. n /\ rec.v \in Settings
      /\ rec.k \in {"complete", "aborted"} => rec.t \in 1 .. n
      /\ rec.k = "compacted" => rec.h \in Histories(n)
  BY RecordKinds
<1>3. rec.k \in {"complete", "aborted", "context"} => Named(s, rec.t) \in 0 .. n
  BY <1>1, <1>2 DEF Named, Segments
<1> HIDE DEF g
<1>4. a.t \in 0 .. n
  BY <1>1, <1>3 DEF SegmentAfter, Segments, g
<1>5. a.user \in BOOLEAN
  BY DEF SegmentAfter
<1>6. a.previous \in Previous
  BY <1>1, <1>2 DEF SegmentAfter, Segments, Previous, g
<1>7. a.ref \in References
  BY <1>1, <1>2 DEF SegmentAfter, Segments, References, g
<1>8. a.base \in Optional(Histories(n))
  BY <1>1, <1>2 DEF SegmentAfter, Segments, Optional, g
<1>9. a = [t |-> a.t, user |-> a.user, previous |-> a.previous, ref |-> a.ref, base |-> a.base]
  BY DEF SegmentAfter
<1> HIDE DEF a
<1>10. a \in Segments(n)
  BY <1>4, <1>5, <1>6, <1>7, <1>8, <1>9 DEF Segments
<1> QED  BY <1>10 DEF a

\* A record of a turn goes into the active segment.
LEMMA ScanInTurn ==
    ASSUME NEW n \in Nat, NEW s \in Scans(n), NEW r, NEW p \in Nat, r[p] \in Records(n),
           r[p].k \in InTurnKinds
    PROVE  /\ ScanRecord(s, r, p) \in Scans(n)
           /\ ScanRecord(s, r, p).seg = <<SegmentAfter(s, r[p])>>
           /\ ScanRecord(s, r, p).from = IF r[p].k = "compacted" /\ ActiveSegment(s).base = <<>>
                                         THEN p + 1 ELSE s.from
           /\ OnlySegment(ScanRecord(s, r, p), s)
<1> DEFINE g == ActiveSegment(s)
           a == SegmentAfter(s, r[p])
           f == IF r[p].k = "compacted" /\ g.base = <<>> THEN p + 1 ELSE s.from
           z == [s EXCEPT !.seg = <<a>>, !.from = f]
<1>1. g \in Segments(n) /\ a \in Segments(n)
  BY ActiveSegmentTyped, SegmentAfterTyped
<1>2. f \in Nat
  <2> HIDE DEF g
  <2> QED  BY DEF Scans
<1>3. ScanRecord(s, r, p) = z
  <2>1. CASE r[p].k = "item"
    <3> DEFINE a2 == [g EXCEPT !.user = g.user \/ IsUserTurnBoundary(r[p].i)]
    <3>1. ScanRecord(s, r, p) = [s EXCEPT !.seg = <<a2>>]
      BY <2>1 DEF ScanRecord, ActiveSegment
    <3>2. a2 = a
      <4> HIDE DEF g
      <4> QED  BY <1>1, <2>1 DEF SegmentAfter, Segments, g
    <3>3. z = [s EXCEPT !.seg = <<a>>]
      <4> HIDE DEF a, g
      <4> QED  BY <2>1 DEF Scans
    <3> QED  BY <3>1, <3>2, <3>3
  <2>2. CASE r[p].k \in {"complete", "aborted"}
    <3> DEFINE a2 == [g EXCEPT !.t = Named(s, r[p].t)]
    <3>1. ScanRecord(s, r, p) = [s EXCEPT !.seg = <<a2>>]
      BY <2>2 DEF ScanRecord, ActiveSegment, Named
    <3>2. a2 = a
      <4> HIDE DEF g
      <4> QED  BY <1>1, <2>2 DEF SegmentAfter, Segments, References, g
    <3>3. z = [s EXCEPT !.seg = <<a>>]
      <4> HIDE DEF a, g
      <4> QED  BY <2>2 DEF Scans
    <3> QED  BY <3>1, <3>2, <3>3
  <2>3. CASE r[p].k = "context"
    <3> DEFINE a2 == IF Named(s, r[p].t) = r[p].t
                     THEN [g EXCEPT !.t = r[p].t, !.previous = r[p].v,
                                    !.ref = IF g.ref = "never" THEN r[p].v ELSE g.ref]
                     ELSE g
    <3>1. ScanRecord(s, r, p) = [s EXCEPT !.seg = <<a2>>]
      BY <2>3 DEF ScanRecord, ActiveSegment, Named
    <3>2. a2 = a
      <4>1. CASE Named(s, r[p].t) = r[p].t
        <5> HIDE DEF g
        <5> QED  BY <1>1, <2>3, <4>1 DEF SegmentAfter, Segments, g
      <4>2. CASE Named(s, r[p].t) # r[p].t
        <5>1. Named(s, r[p].t) = g.t
          BY <4>2 DEF Named
        <5> HIDE DEF g
        <5> QED  BY <1>1, <2>3, <4>2, <5>1 DEF SegmentAfter, Segments, g
      <4> QED  BY <4>1, <4>2
    <3>3. z = [s EXCEPT !.seg = <<a>>]
      <4> HIDE DEF a, g
      <4> QED  BY <2>3 DEF Scans
    <3> QED  BY <3>1, <3>2, <3>3
  <2>4. CASE r[p].k = "compacted"
    <3> DEFINE a2 == [g EXCEPT !.ref = IF g.ref = "never" THEN "cleared" ELSE g.ref,
                               !.base = IF g.base = <<>> THEN <<r[p].h>> ELSE g.base]
               f2 == IF g.base = <<>> THEN p + 1 ELSE s.from
    <3>1. ScanRecord(s, r, p) = [s EXCEPT !.seg = <<a2>>, !.from = f2]
      BY <2>4 DEF ScanRecord, ActiveSegment
    <3>2. a2 = a
      <4> DEFINE e == IF g.ref = "never" THEN "cleared" ELSE g.ref
                 b == IF g.base = <<>> THEN <<r[p].h>> ELSE g.base
      <4>1. a.ref = e
        <5> HIDE DEF g
        <5> QED  BY <2>4 DEF SegmentAfter, g
      <4>2. a.base = b
        <5> HIDE DEF g
        <5> QED  BY <2>4 DEF SegmentAfter, g
      <4>3. a.t = g.t /\ a.user = g.user /\ a.previous = g.previous
        <5> HIDE DEF g
        <5> QED  BY <1>1, <2>4 DEF SegmentAfter, Segments, g
      <4> HIDE DEF g, a, e, b
      <4>4. [g EXCEPT !.ref = e, !.base = b] = a
        BY <1>1, <4>1, <4>2, <4>3 DEF Segments
      <4> QED  BY <4>4 DEF e, b
    <3>3. f = f2
      BY <2>4
    <3> QED  BY <3>1, <3>2, <3>3
  <2> QED  BY <2>1, <2>2, <2>3, <2>4 DEF InTurnKinds
<1>4. z \in Scans(n) /\ z.seg = <<a>> /\ z.from = f /\ OnlySegment(z, s)
  <2> HIDE DEF g, a, f
  <2> QED  BY <1>1, <1>2 DEF Scans, Optional, OnlySegment
<1> HIDE DEF z
<1> QED  BY <1>3, <1>4

\* A rollback scanned.
LEMMA ScanRolledBack ==
    ASSUME NEW n \in Nat, NEW s \in Scans(n), NEW r, NEW p \in Nat,
           r[p].k = "rolled_back", r[p].n \in Nat
    PROVE  LET z == ScanRecord(s, r, p)
           IN /\ z \in Scans(n) /\ z.seg = s.seg /\ z.from = s.from /\ z.base = s.base
              /\ z.previous = s.previous /\ z.ref = s.ref /\ z.done = s.done
              /\ z.pending = s.pending + r[p].n
<1>1. ScanRecord(s, r, p) = [s EXCEPT !.pending = @ + r[p].n]
  BY DEF ScanRecord
<1> QED  BY <1>1 DEF Scans

\* A segment is closed.
LEMMA Finalized ==
    ASSUME NEW n \in Nat, NEW s \in Scans(n), s.seg # <<>>
    PROVE  LET z == FinalizeActiveSegment(s)
               g == ActiveSegment(s)
           IN /\ z \in Scans(n) /\ z.seg = <<>> /\ z.from = s.from /\ z.done = s.done
              /\ s.pending > 0 =>
                    /\ z.pending = IF g.user THEN s.pending - 1 ELSE s.pending
                    /\ z.base = s.base /\ z.previous = s.previous /\ z.ref = s.ref
              /\ s.pending = 0 =>
                    /\ z.pending = 0
                    /\ z.base = IF s.base = <<>> THEN g.base ELSE s.base
                    /\ z.previous = IF s.previous = "none" /\ g.user THEN g.previous ELSE s.previous
                    /\ z.ref = IF s.ref = "never" /\ (g.user \/ g.ref = "cleared")
                               THEN g.ref ELSE s.ref
<1> DEFINE g == ActiveSegment(s)
<1>0. g = s.seg[1] /\ g \in Segments(n)
  BY ActiveSegmentTyped DEF ActiveSegment
<1>1. CASE s.pending > 0
  <2> DEFINE m == IF g.user THEN s.pending - 1 ELSE s.pending
             z == [s EXCEPT !.seg = <<>>, !.pending = m]
  <2>1. FinalizeActiveSegment(s) = z
    BY <1>0, <1>1 DEF FinalizeActiveSegment, Scans
  <2>2. m \in Nat
    <3> HIDE DEF g
    <3> QED  BY <1>1 DEF Scans
  <2>3. z \in Scans(n) /\ z.seg = <<>> /\ z.from = s.from /\ z.done = s.done /\ z.pending = m
        /\ z.base = s.base /\ z.previous = s.previous /\ z.ref = s.ref
    <3> HIDE DEF m
    <3> QED  BY <2>2 DEF Scans, Optional
  <2> HIDE DEF z
  <2> QED  BY <1>1, <2>1, <2>3
<1>2. CASE s.pending = 0
  <2> DEFINE b == IF s.base = <<>> THEN g.base ELSE s.base
             v == IF s.previous = "none" /\ g.user THEN g.previous ELSE s.previous
             f == IF s.ref = "never" /\ (g.user \/ g.ref = "cleared") THEN g.ref ELSE s.ref
             z == [s EXCEPT !.seg = <<>>, !.base = b, !.previous = v, !.ref = f]
  <2>1. FinalizeActiveSegment(s) = z
    BY <1>0, <1>2 DEF FinalizeActiveSegment, Scans
  <2>2. b \in Optional(Histories(n)) /\ v \in Previous /\ f \in References
    <3> HIDE DEF g
    <3> QED  BY <1>0 DEF Scans, Segments
  <2>3. z \in Scans(n) /\ z.seg = <<>> /\ z.from = s.from /\ z.done = s.done /\ z.pending = 0
        /\ z.base = b /\ z.previous = v /\ z.ref = f
    <3> HIDE DEF b, v, f
    <3> QED  BY <1>2, <2>2 DEF Scans, Optional
  <2> HIDE DEF z
  <2> QED  BY <1>2, <2>1, <2>3
<1>3. s.pending \in Nat
  BY DEF Scans
<1> QED  BY <1>1, <1>2, <1>3

\* The beginning of a turn scanned.
LEMMA ScanStarted ==
    ASSUME NEW s, NEW r, NEW p, r[p].k = "started"
    PROVE  ScanRecord(s, r, p) = IF s.seg # <<>> /\ Named(s, r[p].t) = r[p].t
                                 THEN FinalizeActiveSegment(s) ELSE s
BY DEF ScanRecord, ActiveSegment, Named

\* Scans stay well typed, and the suffix they select starts behind a record.
LEMMA ScanRecordTyped ==
    ASSUME NEW n \in Nat, NEW s \in Scans(n), NEW r \in Seq(Records(n)), NEW p \in 1 .. Len(r)
    PROVE  /\ ScanRecord(s, r, p) \in Scans(n)
           /\ ScanRecord(s, r, p).from \in {s.from, p + 1}
<1>1. r[p] \in Records(n)
  OBVIOUS
<1>2. p \in Nat
  OBVIOUS
<1>3. CASE r[p].k \in InTurnKinds
  BY <1>1, <1>2, <1>3, ScanInTurn
<1>7. CASE r[p].k = "rolled_back" /\ r[p].n \in Nat
  BY <1>2, <1>7, ScanRolledBack
<1>8. CASE r[p].k = "started"
  <2>1. s.seg # <<>> => /\ FinalizeActiveSegment(s) \in Scans(n)
                        /\ FinalizeActiveSegment(s).from = s.from
    BY Finalized
  <2> QED  BY <1>8, <2>1, ScanStarted
<1> QED  BY <1>1, <1>3, <1>7, <1>8, RecordKinds DEF InTurnKinds

\* A step of the scan is the record scanned, and whether the scan may stop.
LEMMA ScanStepFields ==
    ASSUME NEW n \in Nat, NEW s \in Scans(n), ~s.done, NEW r \in Seq(Records(n)),
           NEW p \in 1 .. Len(r), NEW x, x = ScanRecord(s, r, p),
           NEW z, z = ScanStep(s, r, p)
    PROVE  /\ z \in Scans(n) /\ z.seg = x.seg /\ z.base = x.base /\ z.previous = x.previous
           /\ z.ref = x.ref /\ z.pending = x.pending /\ z.from = x.from
           /\ z.done <=> (x.base # <<>> /\ x.previous # "none" /\ x.ref # "never")
<1>1. x \in Scans(n)
  BY ScanRecordTyped
<1> DEFINE d == x.base # <<>> /\ x.previous # "none" /\ x.ref # "never"
<1>2. z = [x EXCEPT !.done = d]
  BY DEF ScanStep
<1>3. d \in BOOLEAN
  OBVIOUS
<1> HIDE DEF d
<1>4. /\ z \in Scans(n) /\ z.seg = x.seg /\ z.base = x.base /\ z.previous = x.previous
      /\ z.ref = x.ref /\ z.pending = x.pending /\ z.from = x.from /\ z.done = d
  BY <1>1, <1>2, <1>3 DEF Scans
<1> QED  BY <1>4 DEF d

\* A scan that has stopped stays as it is.
LEMMA ScanStepDone ==
    ASSUME NEW s, s.done, NEW r, NEW p
    PROVE  ScanStep(s, r, p) = s
BY DEF ScanStep

\* The scan begins well typed.
LEMMA NewScanTyped ==
    ASSUME NEW n \in Nat
    PROVE  NewScan \in Scans(n)
BY DEF NewScan, Scans, Optional, Previous, References

\* The scan is well typed at every record and selects a suffix of the rollout.
LEMMA ScanTyped ==
    ASSUME NEW n \in Nat, NEW r \in Seq(Records(n))
    PROVE  \A p \in 1 .. Len(r) + 1 : Scan(r)[p] \in Scans(n) /\ Scan(r)[p].from \in 1 .. Len(r) + 1
<1> DEFINE N == Len(r) + 1
           Fine(s) == s \in Scans(n) /\ s.from \in 1 .. N
           T == {p \in 1 .. N : Fine(Scan(r)[p])}
<1>0. 1 \in Int /\ N \in Int /\ 1 <= N
  OBVIOUS
<1>1. N \in T
  <2>1. Scan(r)[N] = NewScan
    BY ScanDef
  <2>2. NewScan.from = 1
    BY DEF NewScan
  <2> QED  BY <1>0, <2>1, <2>2, NewScanTyped
<1>2. \A p \in 1 .. N : p > 1 /\ p \in T => p - 1 \in T
  <2> SUFFICES ASSUME NEW p \in 1 .. N, p > 1, Fine(Scan(r)[p]) PROVE Fine(Scan(r)[p - 1])
    OBVIOUS
  <2>1. p - 1 \in 1 .. Len(r) /\ (p - 1) + 1 = p
    OBVIOUS
  <2>2. Scan(r)[p - 1] = ScanStep(Scan(r)[p], r, p - 1)
    BY <2>1, ScanDef
  <2>3. CASE Scan(r)[p].done
    BY <2>2, <2>3, ScanStepDone
  <2>4. CASE ~Scan(r)[p].done
    <3> DEFINE s == Scan(r)[p]
               x == ScanRecord(s, r, p - 1)
    <3>1. x.from \in {s.from, p}
      BY <2>1, ScanRecordTyped
    <3>2. Scan(r)[p - 1] \in Scans(n) /\ Scan(r)[p - 1].from = x.from
      BY <2>1, <2>2, <2>4, ScanStepFields
    <3> QED  BY <3>1, <3>2
  <2> QED  BY <2>3, <2>4
<1>3. \A p \in 1 .. N : p \in T
  <2> HIDE DEF T, N
  <2> QED  BY <1>0, <1>1, <1>2, InductDown, Zenon
<1> QED  BY <1>3

\* So is what it ends with.
LEMMA ReverseScanTyped ==
    ASSUME NEW n \in Nat, NEW r \in Seq(Records(n))
    PROVE  ReverseScan(r) \in Scans(n) /\ ReverseScan(r).from \in 1 .. Len(r) + 1
<1>1. Scan(r)[1] \in Scans(n) /\ Scan(r)[1].from \in 1 .. Len(r) + 1
  <2>1. 1 \in 1 .. Len(r) + 1
    OBVIOUS
  <2> QED  BY <2>1, ScanTyped
<1>2. Scan(r)[1].seg # <<>> => /\ FinalizeActiveSegment(Scan(r)[1]) \in Scans(n)
                               /\ FinalizeActiveSegment(Scan(r)[1]).from = Scan(r)[1].from
  BY <1>1, Finalized
<1> QED  BY <1>1, <1>2 DEF ReverseScan

\* A record replayed leaves a history.
LEMMA ReplayRecordTyped ==
    ASSUME NEW n \in Nat, NEW h \in Histories(n), NEW rec \in Records(n)
    PROVE  ReplayRecord(h, rec) \in Histories(n)
<1>1. CASE rec.k = "item" /\ rec.i \in TurnItems(n)
  BY <1>1 DEF ReplayRecord, Histories
<1>2. CASE rec.k = "compacted" /\ rec.h \in Histories(n)
  BY <1>2 DEF ReplayRecord
<1>3. CASE rec.k = "rolled_back" /\ rec.n \in Nat
  <2>1. ReplayRecord(h, rec) = DropLastNUserTurns(h, rec.n)
    BY <1>3 DEF ReplayRecord
  <2>2. PICK c \in 0 .. Len(h) : DropLastNUserTurns(h, rec.n) = SubSeq(h, 1, c)
    BY <1>3, DropIsPrefix DEF Histories
  <2> QED  BY <2>1, <2>2 DEF Histories
<1>4. CASE rec.k \notin {"item", "compacted", "rolled_back"}
  BY <1>4 DEF ReplayRecord
<1> QED  BY <1>1, <1>2, <1>3, <1>4, RecordKinds

\* The replay keeps to histories.
LEMMA ReplayTyped ==
    ASSUME NEW n \in Nat, NEW r \in Seq(Records(n)), NEW from \in 1 .. Len(r) + 1,
           NEW base \in Histories(n)
    PROVE  \A p \in from - 1 .. Len(r) : Replay(r, from, base)[p] \in Histories(n)
<1> DEFINE N == Len(r) + 1 - from
           H(p) == Replay(r, from, base)[p]
           T == {m \in 0 .. N : H(from - 1 + m) \in Histories(n)}
<1>0. N \in Nat /\ Len(r) = from - 1 + N
  OBVIOUS
<1>1. \A p \in from - 1 .. Len(r) : H(p) = IF p < from THEN base ELSE ReplayRecord(H(p - 1), r[p])
  BY ReplayDef
<1>2. 0 \in T
  <2>1. from - 1 + 0 = from - 1 /\ from - 1 \in from - 1 .. Len(r) /\ from - 1 < from
    OBVIOUS
  <2>2. H(from - 1) = base
    BY <1>1, <2>1
  <2> QED  BY <1>0, <2>1, <2>2
<1>3. \A m \in 0 .. N - 1 : m \in T => m + 1 \in T
  <2> SUFFICES ASSUME NEW m \in 0 .. N - 1, H(from - 1 + m) \in Histories(n)
               PROVE  H(from - 1 + (m + 1)) \in Histories(n)
    BY <1>0
  <2>1. /\ from - 1 + (m + 1) = from + m /\ (from + m) - 1 = from - 1 + m
        /\ from + m \in from .. Len(r)
    BY <1>0
  <2>2. H(from + m) = ReplayRecord(H(from - 1 + m), r[from + m])
    BY <1>1, <2>1
  <2>3. r[from + m] \in Records(n)
    BY <2>1
  <2> QED  BY <2>1, <2>2, <2>3, ReplayRecordTyped
<1>4. \A m \in 0 .. N : m \in T
  <2> HIDE DEF T, N
  <2> QED  BY <1>0, <1>2, <1>3, Induct
<1> SUFFICES ASSUME NEW p \in from - 1 .. Len(r) PROVE H(p) \in Histories(n)
  OBVIOUS
<1>5. p - (from - 1) \in 0 .. N /\ from - 1 + (p - (from - 1)) = p
  OBVIOUS
<1> QED  BY <1>4, <1>5

\* What the scan hands to the replay.
BaseOf(s) == IF s.base = <<>> THEN <<>> ELSE s.base[1]

\* The parts of a reconstruction.
LEMMA RebuiltFields ==
    ASSUME NEW r
    PROVE  LET s == ReverseScan(r)
           IN /\ ReconstructHistoryFromRollout(r).items = Replay(r, s.from, BaseOf(s))[Len(r)]
              /\ ReconstructHistoryFromRollout(r).previous = s.previous
              /\ ReconstructHistoryFromRollout(r).baseline =
                    IF s.ref \in Settings THEN s.ref ELSE "none"
BY DEF ReconstructHistoryFromRollout, BaseOf

\* A base is a history.
LEMMA BaseTyped ==
    ASSUME NEW n \in Nat, NEW s \in Scans(n)
    PROVE  BaseOf(s) \in Histories(n)
<1>1. s.base \in Optional(Histories(n))
  BY DEF Scans
<1>2. <<>> \in Histories(n)
  BY DEF Histories
<1> QED  BY <1>1, <1>2 DEF BaseOf, Optional

\* A reconstruction is well typed.
LEMMA RebuiltTyped ==
    ASSUME NEW n \in Nat, NEW r \in Seq(Records(n))
    PROVE  /\ ReconstructHistoryFromRollout(r).items \in Histories(n)
           /\ ReconstructHistoryFromRollout(r).previous \in Previous
           /\ ReconstructHistoryFromRollout(r).baseline \in Previous
<1> DEFINE s == ReverseScan(r)
<1>1. s \in Scans(n) /\ s.from \in 1 .. Len(r) + 1
  BY ReverseScanTyped
<1>2. Len(r) \in s.from - 1 .. Len(r)
  <2> HIDE DEF s
  <2> QED  BY <1>1
<1>3. Replay(r, s.from, BaseOf(s))[Len(r)] \in Histories(n)
  <2> HIDE DEF s
  <2> QED  BY <1>1, <1>2, BaseTyped, ReplayTyped
<1>4. s.previous \in Previous
  <2> HIDE DEF s
  <2> QED  BY <1>1 DEF Scans
<1> QED  BY <1>3, <1>4, RebuiltFields DEF Previous
-----------------------------------------------------------------------------
(* Compacted histories *)

\* What a compaction keeps or adds.
KeptKinds == {"user", "summary", "context"}

\* A compacted history holds user messages and the summary.
LEMMA BuiltTyped ==
    ASSUME NEW n \in Nat, NEW h \in Histories(n), NEW i \in TurnItems(n), i.k = "summary"
    PROVE  /\ BuildCompactedHistory(h, i) \in Histories(n)
           /\ \A p \in 1 .. Len(BuildCompactedHistory(h, i)) :
                 BuildCompactedHistory(h, i)[p].k \in KeptKinds
           /\ BuildCompactedHistory(h, i) # <<>>
<1> DEFINE users == ItemsAt(h, {p \in DOMAIN h : h[p].k = "user"})
           kept == IF Len(users) <= CompactKeep THEN users
                   ELSE SubSeq(users, Len(users) - CompactKeep + 1, Len(users))
<1>1. users \in Histories(n) /\ \A p \in 1 .. Len(users) : users[p].k = "user"
  BY ItemsAtIn DEF Histories
<1> HIDE DEF users
<1>2. CompactKeep \in Nat
  BY BoundsAreNaturals
<1>3. kept \in Histories(n) /\ \A p \in 1 .. Len(kept) : kept[p].k = "user"
  <2>1. CASE Len(users) <= CompactKeep
    BY <1>1, <2>1
  <2>2. CASE Len(users) > CompactKeep
    <3> DEFINE a == Len(users) - CompactKeep + 1
               t == SubSeq(users, a, Len(users))
    <3>1. users \in Seq(TurnItems(n)) /\ a \in 1 .. Len(users) + 1
      BY <1>1, <1>2, <2>2 DEF Histories
    <3>2. kept = t
      BY <1>1, <1>2, <2>2 DEF Histories
    <3> HIDE DEF a, kept
    <3>3. t \in Seq(TurnItems(n)) /\ \A p \in 1 .. Len(t) : t[p] = users[a + p - 1] /\ a + p - 1 \in 1 .. Len(users)
      BY <3>1
    <3> QED  BY <1>1, <3>2, <3>3 DEF Histories
  <2> QED  BY <1>1, <1>2, <2>1, <2>2 DEF Histories
<1>4. BuildCompactedHistory(h, i) = Append(kept, i)
  BY DEF BuildCompactedHistory, users
<1> HIDE DEF kept
<1>5. Append(kept, i) \in Histories(n)
  BY <1>3 DEF Histories
<1>6. \A p \in 1 .. Len(Append(kept, i)) : Append(kept, i)[p].k \in KeptKinds
  BY <1>3 DEF Histories, KeptKinds
<1>7. Append(kept, i) # <<>>
  <2>1. kept \in Seq(TurnItems(n))
    BY <1>3 DEF Histories
  <2> DEFINE a == Append(kept, i)
  <2>2. Len(a) = Len(kept) + 1 /\ Len(kept) \in Nat
    BY <2>1
  <2> HIDE DEF a
  <2>3. a # <<>>
    BY <2>2
  <2> QED  BY <2>3 DEF a
<1> QED  BY <1>4, <1>5, <1>6, <1>7

\* So does one with the context inserted.
LEMMA InsertedTyped ==
    ASSUME NEW n \in Nat, NEW h \in Histories(n), NEW i \in TurnItems(n), i.k = "context",
           \A p \in 1 .. Len(h) : h[p].k \in KeptKinds, h # <<>>
    PROVE  /\ InsertInitialContext(h, i) \in Histories(n)
           /\ \A p \in 1 .. Len(InsertInitialContext(h, i)) :
                 InsertInitialContext(h, i)[p].k \in KeptKinds
<1> DEFINE real == Ascending({p \in DOMAIN h : h[p].k = "user"}, Len(h))
           at == IF real # <<>> THEN Last(real) ELSE Len(h)
<1>0. h \in Seq(TurnItems(n)) /\ Len(h) \in Nat \ {0}
  BY DEF Histories
<1>1. real \in Seq(1 .. Len(h))
  BY <1>0, AscendingLists DEF Lists
<1>2. at \in 1 .. Len(h)
  <2> HIDE DEF real
  <2> QED  BY <1>0, <1>1 DEF Last
<1>3. InsertInitialContext(h, i) = SubSeq(h, 1, at - 1) \o <<i>> \o SubSeq(h, at, Len(h))
  BY DEF InsertInitialContext, InsertAt
<1> HIDE DEF at
<1> DEFINE a == SubSeq(h, 1, at - 1)
           b == SubSeq(h, at, Len(h))
           ab == a \o <<i>> \o b
<1>4. /\ a \in Seq(TurnItems(n)) /\ b \in Seq(TurnItems(n))
      /\ \A p \in 1 .. Len(a) : a[p].k \in KeptKinds
      /\ \A p \in 1 .. Len(b) : b[p].k \in KeptKinds
  BY <1>0, <1>2
<1> HIDE DEF a, b
<1>5. ab \in Seq(TurnItems(n))
  BY <1>4
<1>6. \A p \in 1 .. Len(ab) : ab[p].k \in KeptKinds
  <2> SUFFICES ASSUME NEW p \in 1 .. Len(ab) PROVE ab[p].k \in KeptKinds
    OBVIOUS
  <2>1. Len(ab) = Len(a) + 1 + Len(b)
    BY <1>4
  <2>2. CASE p \in 1 .. Len(a)
    BY <1>4, <2>2
  <2>3. CASE p = Len(a) + 1
    BY <1>4, <2>3 DEF KeptKinds
  <2>4. CASE p \in Len(a) + 2 .. Len(a) + 1 + Len(b)
    <3>1. ab[p] = b[p - (Len(a) + 1)] /\ p - (Len(a) + 1) \in 1 .. Len(b)
      BY <1>4, <2>4
    <3> QED  BY <1>4, <3>1
  <2> QED  BY <1>4, <2>1, <2>2, <2>3, <2>4
<1> QED  BY <1>3, <1>5, <1>6 DEF Histories, a, b
-----------------------------------------------------------------------------
(* The scan over an open turn *)

\* A record of the running turn t, and one that neither tells a context nor makes
\* its turn a user turn.
OfTurn(rec, t) ==
    \/ rec.k \in {"item", "compacted"}
    \/ rec.k \in {"context", "complete", "aborted"} /\ rec.t = t

Quiet(rec) == rec.k # "context" /\ (rec.k = "item" => ~IsUserTurnBoundary(rec.i))

\* The rollout r ends with the records of turn t, which started at s.
OpenTurn(r, t, s) ==
    s \in 1 .. Len(r) /\ r[s] = Started(t) /\ \A p \in s + 1 .. Len(r) : OfTurn(r[p], t)

QuietTurn(r, t, s) ==
    OpenTurn(r, t, s) /\ \A p \in s + 1 .. Len(r) : Quiet(r[p])

\* The base a segment holds is that of the compaction the suffix starts behind.
SegmentBase(r, z, p) ==
    ActiveSegment(z).base # <<>> =>
        /\ z.from - 1 \in p .. Len(r) /\ r[z.from - 1].k = "compacted"
        /\ ActiveSegment(z).base = <<r[z.from - 1].h>>

\* The base of a scan is that of a compaction the suffix starts at or before.
ScanBase(r, z, q) ==
    /\ q \in 1 .. Len(r) /\ r[q].k = "compacted"
    /\ z.base = <<r[q].h>> /\ z.from <= q + 1

\* The segment's base belongs to the suffix, at every record of any rollout.
LEMMA SegmentBaseKnown ==
    ASSUME NEW n \in Nat, NEW r \in Seq(Records(n))
    PROVE  \A p \in 1 .. Len(r) + 1 : SegmentBase(r, Scan(r)[p], p)
<1> DEFINE N == Len(r) + 1
           T == {p \in 1 .. N : SegmentBase(r, Scan(r)[p], p)}
<1>0. 1 \in Int /\ N \in Int /\ 1 <= N
  OBVIOUS
<1>a. ASSUME NEW z, z.seg = <<>> PROVE ActiveSegment(z).base = <<>>
  BY <1>a DEF ActiveSegment, NewSegment
<1>1. N \in T
  <2>1. Scan(r)[N] = NewScan
    BY ScanDef
  <2>2. NewScan.seg = <<>>
    BY DEF NewScan
  <2> QED  BY <1>0, <1>a, <2>1, <2>2 DEF SegmentBase
<1>2. \A p \in 1 .. N : p > 1 /\ p \in T => p - 1 \in T
  <2> SUFFICES ASSUME NEW p \in 1 .. N, p > 1, SegmentBase(r, Scan(r)[p], p)
               PROVE  SegmentBase(r, Scan(r)[p - 1], p - 1)
    OBVIOUS
  <2> DEFINE s == Scan(r)[p]
             z == Scan(r)[p - 1]
             x == ScanRecord(s, r, p - 1)
  <2>1. p - 1 \in 1 .. Len(r) /\ (p - 1) + 1 = p /\ p - 1 \in Nat
    OBVIOUS
  <2>2. z = ScanStep(s, r, p - 1) /\ s \in Scans(n) /\ s.from \in 1 .. N
    BY <2>1, ScanDef, ScanTyped
  <2>3. CASE s.done
    <3>1. z = s
      BY <2>2, <2>3, ScanStepDone
    <3>2. SegmentBase(r, s, p)
      OBVIOUS
    <3> HIDE DEF s, z
    <3>3. SegmentBase(r, s, p - 1)
      BY <2>1, <2>2, <3>2 DEF SegmentBase
    <3> QED  BY <3>1, <3>3 DEF z
  <2>4. CASE ~s.done
    <3>1. z.seg = x.seg /\ z.from = x.from
      BY <2>1, <2>2, <2>4, ScanStepFields
    <3>2. ActiveSegment(z) = ActiveSegment(x)
      BY <3>1 DEF ActiveSegment
    <3> SUFFICES SegmentBase(r, x, p - 1)
      BY <3>1, <3>2 DEF SegmentBase
    <3>3. r[p - 1] \in Records(n)
      BY <2>1
    <3>4. CASE r[p - 1].k \in InTurnKinds
      <4>1. /\ x.seg = <<SegmentAfter(s, r[p - 1])>>
            /\ x.from = IF r[p - 1].k = "compacted" /\ ActiveSegment(s).base = <<>>
                        THEN p ELSE s.from
        BY <2>1, <2>2, <3>3, <3>4, ScanInTurn
      <4>2. ActiveSegment(x) = SegmentAfter(s, r[p - 1])
        <5> HIDE DEF x, s
        <5> QED  BY <4>1, SegmentOf
      <4>3. ActiveSegment(x).base = IF ActiveSegment(s).base = <<>> /\ r[p - 1].k = "compacted"
                                    THEN <<r[p - 1].h>> ELSE ActiveSegment(s).base
        BY <4>2 DEF SegmentAfter
      <4> HIDE DEF x, s, z
      <4>4. SegmentBase(r, s, p)
        BY DEF s
      <4>5. CASE ActiveSegment(s).base = <<>> /\ r[p - 1].k = "compacted"
        BY <2>1, <4>1, <4>3, <4>5 DEF SegmentBase
      <4>6. CASE ~(ActiveSegment(s).base = <<>> /\ r[p - 1].k = "compacted")
        BY <2>1, <4>1, <4>3, <4>4, <4>6 DEF SegmentBase
      <4> QED  BY <4>5, <4>6
    <3>5. CASE r[p - 1].k = "rolled_back" /\ r[p - 1].n \in Nat
      <4>1. x.seg = s.seg /\ x.from = s.from
        BY <2>1, <2>2, <3>5, ScanRolledBack
      <4>2. ActiveSegment(x) = ActiveSegment(s)
        BY <4>1 DEF ActiveSegment
      <4> HIDE DEF x, z
      <4> QED  BY <2>1, <4>1, <4>2 DEF SegmentBase
    <3>6. CASE r[p - 1].k = "started"
      <4>1. x = s \/ (s.seg # <<>> /\ x = FinalizeActiveSegment(s))
        BY <3>6, ScanStarted
      <4>2. x = s \/ x.seg = <<>>
        BY <2>2, <4>1, Finalized
      <4> HIDE DEF x, z
      <4> QED  BY <1>a, <2>1, <4>2 DEF SegmentBase
    <3> QED  BY <3>3, <3>4, <3>5, <3>6, RecordKinds DEF InTurnKinds
  <2> QED  BY <2>3, <2>4
<1>3. \A p \in 1 .. N : p \in T
  <2> HIDE DEF T, N
  <2> QED  BY <1>0, <1>1, <1>2, InductDown, Zenon
<1> QED  BY <1>3

\* Inside an open turn nothing is known yet but what the segment holds.
Fresh(z) == z.base = <<>> /\ z.previous = "none" /\ z.ref = "never" /\ z.pending = 0 /\ ~z.done

InOpenTurn(r, t, z, p) ==
    /\ Fresh(z)
    /\ z.seg = <<>> <=> p = Len(r) + 1
    /\ ActiveSegment(z).t \in {0, t}
    /\ ActiveSegment(z).base = <<>> => z.from = 1
    /\ p <= Len(r) /\ r[Len(r)].k = "compacted" => ActiveSegment(z).base = <<r[Len(r)].h>>

\* The scan inside an open turn.
LEMMA OpenTurnScan ==
    ASSUME NEW n \in Nat, NEW r \in Seq(Records(n)), NEW t \in 1 .. n, NEW s, OpenTurn(r, t, s)
    PROVE  \A p \in s + 1 .. Len(r) + 1 : InOpenTurn(r, t, Scan(r)[p], p)
<1> DEFINE N == Len(r) + 1
           M == s + 1
           T == {p \in M .. N : InOpenTurn(r, t, Scan(r)[p], p)}
<1>0. s \in 1 .. Len(r) /\ M \in Int /\ N \in Int /\ M <= N
  BY DEF OpenTurn
<1>1. N \in T
  <2>1. Scan(r)[N] = NewScan
    BY ScanDef
  <2>2. Fresh(NewScan) /\ NewScan.seg = <<>> /\ NewScan.from = 1
    BY DEF NewScan, Fresh
  <2>3. ActiveSegment(NewScan).t = 0
    BY <2>2 DEF ActiveSegment, NewSegment
  <2> QED  BY <1>0, <2>1, <2>2, <2>3 DEF InOpenTurn
<1>2. \A p \in M .. N : p > M /\ p \in T => p - 1 \in T
  <2> SUFFICES ASSUME NEW p \in M .. N, p > M, InOpenTurn(r, t, Scan(r)[p], p)
               PROVE  InOpenTurn(r, t, Scan(r)[p - 1], p - 1)
    BY <1>0
  <2> DEFINE a == Scan(r)[p]
             z == Scan(r)[p - 1]
             x == ScanRecord(a, r, p - 1)
             rec == r[p - 1]
  <2>1. p - 1 \in 1 .. Len(r) /\ (p - 1) + 1 = p /\ p - 1 \in Nat /\ p \in 1 .. N
        /\ p - 1 \in s + 1 .. Len(r)
    BY <1>0
  <2>2. z = ScanStep(a, r, p - 1) /\ a \in Scans(n)
    BY <2>1, ScanDef, ScanTyped
  <2>3. rec \in Records(n) /\ OfTurn(rec, t) /\ rec.k \in InTurnKinds
    BY <2>1 DEF OpenTurn, OfTurn, InTurnKinds
  <2>4. Fresh(a) /\ ~a.done
    BY DEF InOpenTurn, Fresh
  <2>5. /\ x.seg = <<SegmentAfter(a, rec)>> /\ OnlySegment(x, a)
        /\ x.from = IF rec.k = "compacted" /\ ActiveSegment(a).base = <<>> THEN p ELSE a.from
    <3>1. x.seg = <<SegmentAfter(a, rec)>> /\ OnlySegment(x, a)
      BY <2>1, <2>2, <2>3, ScanInTurn
    <3>2. x.from = IF rec.k = "compacted" /\ ActiveSegment(a).base = <<>>
                   THEN (p - 1) + 1 ELSE a.from
      <4> HIDE DEF a
      <4> QED  BY <2>1, <2>2, <2>3, ScanInTurn
    <3> HIDE DEF x, a, rec
    <3> QED  BY <2>1, <3>1, <3>2
  <2>6. /\ z.seg = x.seg /\ z.base = x.base /\ z.previous = x.previous
        /\ z.ref = x.ref /\ z.pending = x.pending /\ z.from = x.from
        /\ z.done <=> (x.base # <<>> /\ x.previous # "none" /\ x.ref # "never")
    BY <2>1, <2>2, <2>4, ScanStepFields
  <2>7. Fresh(z)
    <3> HIDE DEF a, z, x, rec
    <3> QED  BY <2>4, <2>5, <2>6 DEF Fresh, OnlySegment
  <2>8. z.seg # <<>> /\ ActiveSegment(z) = SegmentAfter(a, rec)
    <3> HIDE DEF a, z, x, rec
    <3> QED  BY <2>5, <2>6 DEF ActiveSegment
  <2>9. ActiveSegment(z).t \in {0, t}
    <3>1. ActiveSegment(a).t \in {0, t}
      BY DEF InOpenTurn
    <3>2. ActiveSegment(z).t = IF rec.k \in {"complete", "aborted", "context"}
                               THEN Named(a, rec.t) ELSE ActiveSegment(a).t
      <4> HIDE DEF a, z, rec
      <4> QED  BY <2>8 DEF SegmentAfter
    <3> HIDE DEF a, z, x, rec
    <3> QED  BY <2>3, <3>1, <3>2 DEF OfTurn, Named
  <2>10. ActiveSegment(z).base = IF ActiveSegment(a).base = <<>> /\ rec.k = "compacted"
                                 THEN <<rec.h>> ELSE ActiveSegment(a).base
    <3> HIDE DEF a, z, rec
    <3> QED  BY <2>8 DEF SegmentAfter
  <2>11. ActiveSegment(z).base = <<>> => z.from = 1
    <3>1. ActiveSegment(a).base = <<>> => a.from = 1
      BY DEF InOpenTurn
    <3>2. <<rec.h>> # <<>>
      OBVIOUS
    <3> HIDE DEF a, z, x, rec
    <3> QED  BY <2>5, <2>6, <2>10, <3>1, <3>2
  <2>12. r[Len(r)].k = "compacted" => ActiveSegment(z).base = <<r[Len(r)].h>>
    <3>1. CASE p = N
      <4>1. a.seg = <<>>
        BY <3>1 DEF InOpenTurn
      <4>2. ActiveSegment(a).base = <<>>
        BY <4>1 DEF ActiveSegment, NewSegment
      <4>3. p - 1 = Len(r)
        BY <3>1
      <4> HIDE DEF a, z, x
      <4> QED  BY <2>10, <4>2, <4>3
    <3>2. CASE p # N
      <4>1. p <= Len(r)
        BY <2>1, <3>2
      <4>2. r[Len(r)].k = "compacted" => ActiveSegment(a).base = <<r[Len(r)].h>>
        BY <4>1 DEF InOpenTurn
      <4> HIDE DEF a, z, x, rec
      <4> QED  BY <2>10, <4>2
    <3> QED  BY <3>1, <3>2
  <2> HIDE DEF a, x, rec
  <2> QED  BY <2>1, <2>7, <2>8, <2>9, <2>11, <2>12 DEF InOpenTurn
<1>3. \A p \in M .. N : p \in T
  <2> HIDE DEF T, N, M
  <2> QED  BY <1>0, <1>1, <1>2, InductDown, Zenon
<1> QED  BY <1>3

\* What a record at p makes of the segment and the suffix.
SegmentStep(z, a, rec, p) ==
    /\ ActiveSegment(z) = SegmentAfter(a, rec)
    /\ z.from = IF rec.k = "compacted" /\ ActiveSegment(a).base = <<>> THEN p + 1 ELSE a.from

\* One record of the scan inside an open turn.
LEMMA OpenStep ==
    ASSUME NEW n \in Nat, NEW r \in Seq(Records(n)), NEW t \in 1 .. n, NEW s, OpenTurn(r, t, s),
           NEW p \in s + 1 .. Len(r)
    PROVE  SegmentStep(Scan(r)[p], Scan(r)[p + 1], r[p], p)
<1> DEFINE z == Scan(r)[p]
           a == Scan(r)[p + 1]
           x == ScanRecord(a, r, p)
<1>1. s \in 1 .. Len(r) /\ p \in 1 .. Len(r) /\ p \in Nat /\ p + 1 \in s + 1 .. Len(r) + 1
      /\ p + 1 \in 1 .. Len(r) + 1
  BY DEF OpenTurn
<1>2. r[p] \in Records(n) /\ r[p].k \in InTurnKinds
  BY <1>1 DEF OpenTurn, OfTurn, InTurnKinds
<1>3. a \in Scans(n)
  BY <1>1, ScanTyped
<1>4. ~a.done
  <2>1. InOpenTurn(r, t, a, p + 1)
    BY <1>1, OpenTurnScan
  <2> QED  BY <2>1 DEF InOpenTurn, Fresh
<1>5. z = ScanStep(a, r, p)
  BY <1>1, ScanDef
<1>6. z.seg = x.seg /\ z.from = x.from
  BY <1>1, <1>3, <1>4, <1>5, ScanStepFields
<1>7. /\ x.seg = <<SegmentAfter(a, r[p])>>
      /\ x.from = IF r[p].k = "compacted" /\ ActiveSegment(a).base = <<>> THEN p + 1 ELSE a.from
  BY <1>1, <1>2, <1>3, ScanInTurn
<1>8. ActiveSegment(z) = SegmentAfter(a, r[p])
  <2>1. z.seg = <<SegmentAfter(a, r[p])>>
    BY <1>6, <1>7
  <2> HIDE DEF z, a
  <2> QED  BY <2>1 DEF ActiveSegment
<1> HIDE DEF z, a, x
<1>9. SegmentStep(z, a, r[p], p)
  BY <1>6, <1>7, <1>8 DEF SegmentStep
<1> QED  BY <1>9 DEF z, a

\* b is r with the record x behind it.
Extends(b, r, x) ==
    /\ Len(b) = Len(r) + 1 /\ b[Len(r) + 1] = x
    /\ \A p \in 1 .. Len(r) : b[p] = r[p]

\* Appending a record to a rollout.
LEMMA Appended ==
    ASSUME NEW S, NEW r \in Seq(S), NEW x \in S
    PROVE  Append(r, x) \in Seq(S) /\ Extends(Append(r, x), r, x)
BY DEF Extends

\* A record of its turn leaves the turn open.
LEMMA OpenTurnGrows ==
    ASSUME NEW S, NEW r \in Seq(S), NEW b \in Seq(S), NEW x, Extends(b, r, x),
           NEW t, NEW s, OpenTurn(r, t, s), OfTurn(x, t)
    PROVE  OpenTurn(b, t, s)
<1>1. s \in 1 .. Len(r)
  BY DEF OpenTurn
<1> QED  BY <1>1 DEF OpenTurn, Extends

\* The scan z closes the segment of a, in which nothing else was known.
ClosesTurn(z, a) ==
    LET g == ActiveSegment(a)
    IN /\ z.seg = <<>> /\ z.pending = 0 /\ z.from = a.from /\ z.base = g.base
       /\ z.previous = IF g.user THEN g.previous ELSE "none"
       /\ z.ref = IF g.user \/ g.ref = "cleared" THEN g.ref ELSE "never"
       /\ z.done <=> (z.base # <<>> /\ z.previous # "none" /\ z.ref # "never")

\* The scan when it reaches the beginning of the open turn.
LEMMA AtTurnStart ==
    ASSUME NEW n \in Nat, NEW r \in Seq(Records(n)), NEW t \in 1 .. n, NEW s, OpenTurn(r, t, s)
    PROVE  ClosesTurn(Scan(r)[s], Scan(r)[s + 1])
<1> DEFINE z == Scan(r)[s]
           a == Scan(r)[s + 1]
           g == ActiveSegment(a)
           x == ScanRecord(a, r, s)
<1> SUFFICES ClosesTurn(z, a)
  OBVIOUS
<1>1. s \in 1 .. Len(r) /\ s + 1 \in s + 1 .. Len(r) + 1 /\ s + 1 \in 1 .. Len(r) + 1
  BY DEF OpenTurn
<1>2. r[s].k = "started" /\ r[s].t = t
  BY DEF OpenTurn, Started
<1>3. InOpenTurn(r, t, a, s + 1)
  BY <1>1, OpenTurnScan
<1>4. Fresh(a) /\ a \in Scans(n)
  BY <1>1, <1>3, ScanTyped DEF InOpenTurn
<1>5. z = ScanStep(a, r, s)
  BY <1>1, ScanDef
<1>6. /\ z.seg = x.seg /\ z.base = x.base /\ z.previous = x.previous
      /\ z.ref = x.ref /\ z.pending = x.pending /\ z.from = x.from
      /\ z.done <=> (x.base # <<>> /\ x.previous # "none" /\ x.ref # "never")
  BY <1>1, <1>4, <1>5, ScanStepFields DEF Fresh
<1>7. Named(a, r[s].t) = r[s].t
  BY <1>2, <1>3 DEF Named, InOpenTurn
<1>8. x = IF a.seg # <<>> THEN FinalizeActiveSegment(a) ELSE a
  BY <1>2, <1>7, ScanStarted
<1>9. CASE a.seg # <<>>
  <2>1. x = FinalizeActiveSegment(a)
    BY <1>8, <1>9
  <2>2. /\ x.seg = <<>> /\ x.from = a.from
        /\ x.pending = 0
        /\ x.base = IF a.base = <<>> THEN g.base ELSE a.base
        /\ x.previous = IF a.previous = "none" /\ g.user THEN g.previous ELSE a.previous
        /\ x.ref = IF a.ref = "never" /\ (g.user \/ g.ref = "cleared") THEN g.ref ELSE a.ref
    BY <1>4, <1>9, <2>1, Finalized DEF Fresh
  <2> HIDE DEF x, z, a
  <2> QED  BY <1>4, <1>6, <2>2 DEF Fresh, ClosesTurn
<1>10. CASE a.seg = <<>>
  <2>1. x = a
    BY <1>8, <1>10
  <2>2. g.base = <<>> /\ ~g.user /\ g.ref = "never"
    BY <1>10 DEF ActiveSegment, NewSegment
  <2> HIDE DEF x, z, a
  <2> QED  BY <1>4, <1>6, <1>10, <2>1, <2>2 DEF Fresh, ClosesTurn
<1> QED  BY <1>9, <1>10

\* A record scanned depends on the rollout only through the record itself.
SameAt(b, r, p) == b[p] = r[p]

LEMMA ScanStepSame ==
    ASSUME NEW r, NEW b, NEW p, SameAt(b, r, p), NEW z
    PROVE  ScanStep(z, b, p) = ScanStep(z, r, p)
BY DEF ScanStep, ScanRecord, SameAt

\* A base and a reference once found stay.
LEMMA FoundStays ==
    ASSUME NEW n \in Nat, NEW r \in Seq(Records(n)), NEW p \in 1 .. Len(r), NEW z \in Scans(n),
           NEW y, y = ScanStep(z, r, p)
    PROVE  /\ z.base # <<>> => y.base = z.base
           /\ z.ref # "never" => y.ref = z.ref
           /\ y.from \in {z.from, p + 1}
<1>1. CASE z.done
  BY <1>1, ScanStepDone
<1>2. CASE ~z.done
  <2> DEFINE x == ScanRecord(z, r, p)
  <2>1. y.base = x.base /\ y.ref = x.ref /\ y.from = x.from
    BY <1>2, ScanStepFields
  <2>2. x.from \in {z.from, p + 1}
    BY ScanRecordTyped
  <2>3. r[p] \in Records(n) /\ p \in Nat
    OBVIOUS
  <2>4. CASE r[p].k \in InTurnKinds
    <3>1. OnlySegment(x, z)
      BY <2>3, <2>4, ScanInTurn
    <3> QED  BY <2>1, <2>2, <3>1 DEF OnlySegment
  <2>5. CASE r[p].k = "rolled_back" /\ r[p].n \in Nat
    <3>1. x.base = z.base /\ x.ref = z.ref
      BY <2>3, <2>5, ScanRolledBack
    <3> QED  BY <2>1, <2>2, <3>1
  <2>6. CASE r[p].k = "started"
    <3>1. x = z \/ (z.seg # <<>> /\ x = FinalizeActiveSegment(z))
      BY <2>6, ScanStarted
    <3>2. z.seg # <<>> => /\ z.base # <<>> => FinalizeActiveSegment(z).base = z.base
                          /\ z.ref # "never" => FinalizeActiveSegment(z).ref = z.ref
      <4>1. z.pending \in Nat
        BY DEF Scans
      <4> QED  BY <4>1, Finalized
    <3> QED  BY <2>1, <2>2, <3>1, <3>2
  <2> QED  BY <2>3, <2>4, <2>5, <2>6, RecordKinds DEF InTurnKinds
<1> QED  BY <1>1, <1>2
-----------------------------------------------------------------------------
(* The scans of a rollout and of the rollout with one more record *)

\* Inside the open turn both hold the same base and select the same suffix,
\* unless the new record is a compaction.
LEMMA SameInTurn ==
    ASSUME NEW n \in Nat, NEW r \in Seq(Records(n)), NEW t \in 1 .. n, NEW s, OpenTurn(r, t, s),
           NEW x, OfTurn(x, t), x.k # "compacted", NEW b \in Seq(Records(n)), Extends(b, r, x)
    PROVE  \A p \in s + 1 .. Len(r) + 1 :
              /\ ActiveSegment(Scan(b)[p]).base = ActiveSegment(Scan(r)[p]).base
              /\ Scan(b)[p].from = Scan(r)[p].from
<1> DEFINE Same(p) == /\ ActiveSegment(Scan(b)[p]).base = ActiveSegment(Scan(r)[p]).base
                      /\ Scan(b)[p].from = Scan(r)[p].from
           N == Len(r) + 1
           M == s + 1
           T == {p \in M .. N : Same(p)}
<1>0. s \in 1 .. Len(r) /\ M \in Int /\ N \in Int /\ M <= N
  BY DEF OpenTurn
<1>a. Len(b) = N /\ b[N] = x /\ \A p \in 1 .. Len(r) : b[p] = r[p]
  BY DEF Extends
<1>b. OpenTurn(b, t, s)
  BY OpenTurnGrows
<1>1. N \in T
  <2>1. Scan(r)[N] = NewScan /\ Scan(b)[N + 1] = NewScan
    BY <1>a, ScanDef
  <2>2. N \in s + 1 .. Len(b)
    BY <1>0, <1>a
  <2>3. /\ ActiveSegment(Scan(b)[N]) = SegmentAfter(NewScan, x)
        /\ Scan(b)[N].from = NewScan.from
    <3>1. SegmentStep(Scan(b)[N], NewScan, x, N)
      BY <1>a, <1>b, <2>1, <2>2, OpenStep
    <3> HIDE DEF N
    <3> QED  BY <3>1 DEF SegmentStep
  <2>4. SegmentAfter(NewScan, x).base = ActiveSegment(NewScan).base
    BY DEF SegmentAfter
  <2> QED  BY <1>0, <2>1, <2>3, <2>4
<1>2. \A p \in M .. N : p > M /\ p \in T => p - 1 \in T
  <2> SUFFICES ASSUME NEW p \in M .. N, p > M, Same(p) PROVE Same(p - 1)
    BY <1>0
  <2> DEFINE a == Scan(r)[p]
             c == Scan(b)[p]
             rec == r[p - 1]
  <2>1. p - 1 \in s + 1 .. Len(r) /\ p - 1 \in s + 1 .. Len(b) /\ (p - 1) + 1 = p /\ p - 1 \in 1 .. Len(r)
    BY <1>0, <1>a
  <2>2. b[p - 1] = rec
    BY <1>a, <2>1
  <2>3. /\ ActiveSegment(Scan(r)[p - 1]) = SegmentAfter(a, rec)
        /\ Scan(r)[p - 1].from = IF rec.k = "compacted" /\ ActiveSegment(a).base = <<>>
                                 THEN p ELSE a.from
    <3>1. SegmentStep(Scan(r)[p - 1], a, rec, p - 1)
      BY <2>1, OpenStep
    <3> HIDE DEF a, rec
    <3> QED  BY <2>1, <3>1 DEF SegmentStep
  <2>4. /\ ActiveSegment(Scan(b)[p - 1]) = SegmentAfter(c, rec)
        /\ Scan(b)[p - 1].from = IF rec.k = "compacted" /\ ActiveSegment(c).base = <<>>
                                 THEN p ELSE c.from
    <3>1. SegmentStep(Scan(b)[p - 1], c, rec, p - 1)
      BY <1>b, <2>1, <2>2, OpenStep
    <3> HIDE DEF c, rec
    <3> QED  BY <2>1, <3>1 DEF SegmentStep
  <2>5. SegmentAfter(a, rec).base = SegmentAfter(c, rec).base
    BY DEF SegmentAfter
  <2> QED  BY <2>3, <2>4, <2>5
<1>3. \A p \in M .. N : p \in T
  <2> HIDE DEF T, N, M
  <2> QED  BY <1>0, <1>1, <1>2, InductDown, Zenon
<1> QED  BY <1>3

\* Before the open turn the two scans z and y lead to the same history: they are
\* alike until a base is known, and then have the same base, in a compaction at
\* q that both suffixes reach.
Alike(r, z, y, p) ==
    IF z.base = <<>>
    THEN /\ y.base = <<>> /\ ~z.done /\ ~y.done
         /\ y.seg = z.seg /\ y.pending = z.pending /\ y.from = z.from
    ELSE \E q \in p .. Len(r) : ScanBase(r, z, q) /\ ScanBase(r, y, q)

\* At the beginning of the open turn.
LEMMA AlikeAtStart ==
    ASSUME NEW n \in Nat, NEW r \in Seq(Records(n)), NEW t \in 1 .. n, NEW s, OpenTurn(r, t, s),
           NEW x, OfTurn(x, t), x.k # "compacted", NEW b \in Seq(Records(n)), Extends(b, r, x)
    PROVE  Alike(r, Scan(r)[s], Scan(b)[s], s)
<1> DEFINE z == Scan(r)[s]
           y == Scan(b)[s]
           a == Scan(r)[s + 1]
           c == Scan(b)[s + 1]
<1> SUFFICES Alike(r, z, y, s)
  OBVIOUS
<1>0. s \in 1 .. Len(r) /\ s + 1 \in s + 1 .. Len(r) + 1 /\ s + 1 \in 1 .. Len(r) + 1
  BY DEF OpenTurn
<1>a. OpenTurn(b, t, s)
  BY OpenTurnGrows
<1>1. ActiveSegment(c).base = ActiveSegment(a).base /\ c.from = a.from
  BY <1>0, SameInTurn
<1>2. /\ z.seg = <<>> /\ z.pending = 0 /\ z.from = a.from /\ z.base = ActiveSegment(a).base
      /\ z.base = <<>> => ~z.done
  BY AtTurnStart DEF ClosesTurn
<1>3. /\ y.seg = <<>> /\ y.pending = 0 /\ y.from = c.from /\ y.base = ActiveSegment(c).base
      /\ y.base = <<>> => ~y.done
  BY <1>a, AtTurnStart DEF ClosesTurn
<1>4. SegmentBase(r, a, s + 1)
  BY <1>0, SegmentBaseKnown
<1>5. a.from \in Nat
  BY <1>0, ScanTyped DEF Scans
<1> HIDE DEF z, y, a, c
<1>6. CASE z.base = <<>>
  BY <1>1, <1>2, <1>3, <1>6 DEF Alike
<1>7. CASE z.base # <<>>
  <2> DEFINE q == a.from - 1
  <2>1. q \in s + 1 .. Len(r) /\ r[q].k = "compacted" /\ z.base = <<r[q].h>> /\ y.base = <<r[q].h>>
    BY <1>1, <1>2, <1>3, <1>4, <1>7 DEF SegmentBase
  <2>2. z.from <= q + 1 /\ y.from <= q + 1 /\ q \in 1 .. Len(r) /\ q \in s .. Len(r)
    BY <1>0, <1>1, <1>2, <1>3, <1>5, <2>1
  <2> HIDE DEF q
  <2> QED  BY <1>7, <2>1, <2>2 DEF Alike, ScanBase
<1> QED  BY <1>6, <1>7

\* They stay alike.
LEMMA AlikeStep ==
    ASSUME NEW n \in Nat, NEW r \in Seq(Records(n)), NEW p \in 1 .. Len(r),
           NEW z \in Scans(n), NEW y \in Scans(n), Alike(r, z, y, p + 1), SegmentBase(r, z, p + 1)
    PROVE  Alike(r, ScanStep(z, r, p), ScanStep(y, r, p), p)
<1> DEFINE z2 == ScanStep(z, r, p)
           y2 == ScanStep(y, r, p)
<1> SUFFICES Alike(r, z2, y2, p)
  OBVIOUS
<1>0. p \in Nat /\ r[p] \in Records(n) /\ z.from \in Nat /\ y.from \in Nat /\ z.pending \in Nat
  BY DEF Scans
<1>1. CASE z.base # <<>>
  <2>1. PICK q \in p + 1 .. Len(r) : ScanBase(r, z, q) /\ ScanBase(r, y, q)
    BY <1>1 DEF Alike
  <2>2. y.base # <<>>
    BY <1>1, <2>1 DEF ScanBase
  <2>3. z2.base = z.base /\ z2.from \in {z.from, p + 1}
    BY <1>1, FoundStays
  <2>4. y2.base = y.base /\ y2.from \in {y.from, p + 1}
    BY <2>2, FoundStays
  <2> HIDE DEF z2, y2
  <2>5. ScanBase(r, z2, q) /\ ScanBase(r, y2, q) /\ q \in p .. Len(r)
    BY <1>0, <2>1, <2>3, <2>4 DEF ScanBase
  <2>6. Alike(r, z2, y2, p)
    BY <1>1, <2>3, <2>5 DEF Alike
  <2> QED  BY <2>6
<1>2. CASE z.base = <<>>
  <2> DEFINE x == ScanRecord(z, r, p)
             w == ScanRecord(y, r, p)
  <2>1. /\ y.base = <<>> /\ ~z.done /\ ~y.done
        /\ y.seg = z.seg /\ y.pending = z.pending /\ y.from = z.from
    BY <1>2 DEF Alike
  <2>2. /\ z2.seg = x.seg /\ z2.base = x.base /\ z2.pending = x.pending /\ z2.from = x.from
        /\ x.base = <<>> => ~z2.done
    BY <2>1, ScanStepFields
  <2>3. /\ y2.seg = w.seg /\ y2.base = w.base /\ y2.pending = w.pending /\ y2.from = w.from
        /\ w.base = <<>> => ~y2.done
    BY <2>1, ScanStepFields
  <2>4. ActiveSegment(y) = ActiveSegment(z)
    BY <2>1 DEF ActiveSegment
  <2>5. ASSUME x.base = <<>>, w.base = <<>>, w.seg = x.seg, w.pending = x.pending, w.from = x.from
        PROVE  Alike(r, z2, y2, p)
    <3> HIDE DEF z2, y2, x, w
    <3> QED  BY <2>2, <2>3, <2>5 DEF Alike
  <2>6. CASE r[p].k \in InTurnKinds
    <3>1. /\ x.seg = <<SegmentAfter(z, r[p])>> /\ x.base = <<>> /\ x.pending = z.pending
          /\ x.from = IF r[p].k = "compacted" /\ ActiveSegment(z).base = <<>> THEN p + 1 ELSE z.from
      BY <1>0, <1>2, <2>6, ScanInTurn DEF OnlySegment
    <3>2. /\ w.seg = <<SegmentAfter(y, r[p])>> /\ w.base = <<>> /\ w.pending = y.pending
          /\ w.from = IF r[p].k = "compacted" /\ ActiveSegment(y).base = <<>> THEN p + 1 ELSE y.from
      BY <1>0, <2>1, <2>6, ScanInTurn DEF OnlySegment
    <3>3. SegmentAfter(y, r[p]) = SegmentAfter(z, r[p])
      BY <2>4 DEF SegmentAfter, Named
    <3> HIDE DEF z2, y2, x, w
    <3> QED  BY <2>1, <2>4, <2>5, <3>1, <3>2, <3>3
  <2>7. CASE r[p].k = "rolled_back" /\ r[p].n \in Nat
    <3>1. x.seg = z.seg /\ x.base = <<>> /\ x.pending = z.pending + r[p].n /\ x.from = z.from
      BY <1>0, <1>2, <2>7, ScanRolledBack
    <3>2. w.seg = y.seg /\ w.base = <<>> /\ w.pending = y.pending + r[p].n /\ w.from = y.from
      BY <1>0, <2>1, <2>7, ScanRolledBack
    <3> HIDE DEF z2, y2, x, w
    <3> QED  BY <2>1, <2>5, <3>1, <3>2
  <2>8. CASE r[p].k = "started"
    <3>1. Named(y, r[p].t) = Named(z, r[p].t)
      BY <2>4 DEF Named
    <3>2. CASE ~(z.seg # <<>> /\ Named(z, r[p].t) = r[p].t)
      <4>1. x = z /\ w = y
        BY <2>1, <2>8, <3>1, <3>2, ScanStarted
      <4> HIDE DEF z2, y2, x, w
      <4> QED  BY <1>2, <2>1, <2>5, <4>1
    <3>3. CASE z.seg # <<>> /\ Named(z, r[p].t) = r[p].t
      <4> DEFINE g == ActiveSegment(z)
      <4>1. x = FinalizeActiveSegment(z) /\ w = FinalizeActiveSegment(y)
        BY <2>1, <2>8, <3>1, <3>3, ScanStarted
      <4>2. /\ x.seg = <<>> /\ x.from = z.from
            /\ z.pending > 0 => /\ x.pending = IF g.user THEN z.pending - 1 ELSE z.pending
                                /\ x.base = <<>>
            /\ z.pending = 0 => x.pending = 0 /\ x.base = g.base
        BY <1>2, <3>3, <4>1, Finalized
      <4>3. /\ w.seg = <<>> /\ w.from = y.from
            /\ y.pending > 0 => /\ w.pending = IF g.user THEN y.pending - 1 ELSE y.pending
                                /\ w.base = <<>>
            /\ y.pending = 0 => w.pending = 0 /\ w.base = g.base
        BY <2>1, <2>4, <3>3, <4>1, Finalized
      <4> HIDE DEF z2, y2, x, w
      <4>4. CASE x.base = <<>>
        <5> HIDE DEF g
        <5> QED  BY <1>0, <2>1, <2>5, <4>2, <4>3, <4>4
      <4>5. CASE x.base # <<>>
        <5> DEFINE q == z.from - 1
        <5>1. x.base = g.base /\ w.base = g.base
          BY <1>0, <2>1, <4>2, <4>3, <4>5
        <5>2. q \in p + 1 .. Len(r) /\ r[q].k = "compacted" /\ g.base = <<r[q].h>>
          BY <4>5, <5>1 DEF SegmentBase
        <5>3. q \in 1 .. Len(r) /\ q \in p .. Len(r) /\ z2.from <= q + 1 /\ y2.from <= q + 1
          BY <1>0, <2>1, <2>2, <2>3, <4>2, <4>3, <5>2
        <5>4. z2.base = <<r[q].h>> /\ y2.base = <<r[q].h>> /\ z2.base # <<>>
          BY <2>2, <2>3, <4>5, <5>1, <5>2
        <5> HIDE DEF q
        <5> QED  BY <5>2, <5>3, <5>4 DEF Alike, ScanBase
      <4> QED  BY <4>4, <4>5
    <3> QED  BY <3>2, <3>3
  <2> QED  BY <1>0, <2>6, <2>7, <2>8, RecordKinds DEF InTurnKinds
<1> QED  BY <1>1, <1>2

\* They are alike down to the oldest record.
LEMMA AlikeDown ==
    ASSUME NEW n \in Nat, NEW r \in Seq(Records(n)), NEW t \in 1 .. n, NEW s, OpenTurn(r, t, s),
           NEW x, OfTurn(x, t), x.k # "compacted", NEW b \in Seq(Records(n)), Extends(b, r, x)
    PROVE  Alike(r, Scan(r)[1], Scan(b)[1], 1)
<1> DEFINE T == {p \in 1 .. s : Alike(r, Scan(r)[p], Scan(b)[p], p)}
<1>0. s \in 1 .. Len(r) /\ 1 \in Int /\ s \in Int /\ 1 <= s
  BY DEF OpenTurn
<1>1. s \in T
  BY <1>0, AlikeAtStart
<1>2. \A p \in 1 .. s : p > 1 /\ p \in T => p - 1 \in T
  <2> SUFFICES ASSUME NEW p \in 1 .. s, p > 1, Alike(r, Scan(r)[p], Scan(b)[p], p)
               PROVE  Alike(r, Scan(r)[p - 1], Scan(b)[p - 1], p - 1)
    BY <1>0
  <2>1. /\ p - 1 \in 1 .. Len(r) /\ p - 1 \in 1 .. Len(b) /\ (p - 1) + 1 = p
        /\ p \in 1 .. Len(r) + 1 /\ p \in 1 .. Len(b) + 1
    BY <1>0 DEF Extends
  <2>2. b[p - 1] = r[p - 1]
    BY <2>1 DEF Extends
  <2>3. /\ Scan(r)[p - 1] = ScanStep(Scan(r)[p], r, p - 1)
        /\ Scan(b)[p - 1] = ScanStep(Scan(b)[p], b, p - 1)
    BY <2>1, ScanDef
  <2>4. Scan(b)[p - 1] = ScanStep(Scan(b)[p], r, p - 1)
    <3>1. ScanStep(Scan(b)[p], b, p - 1) = ScanStep(Scan(b)[p], r, p - 1)
      <4> DEFINE m == p - 1
                 y == Scan(b)[p]
      <4>1. SameAt(b, r, m)
        BY <2>2 DEF SameAt
      <4> HIDE DEF m, y
      <4>2. ScanStep(y, b, m) = ScanStep(y, r, m)
        BY <4>1, ScanStepSame
      <4> QED  BY <4>2 DEF m, y
    <3> QED  BY <2>3, <3>1
  <2>5. Scan(r)[p] \in Scans(n) /\ Scan(b)[p] \in Scans(n) /\ SegmentBase(r, Scan(r)[p], p)
    BY <2>1, ScanTyped, SegmentBaseKnown
  <2> QED  BY <2>1, <2>3, <2>4, <2>5, AlikeStep
<1>3. \A p \in 1 .. s : p \in T
  <2> HIDE DEF T
  <2> QED  BY <1>0, <1>1, <1>2, InductDown, Zenon
<1> QED  BY <1>0, <1>3

\* So both end with the same base, and suffixes that are the same or both reach
\* the compaction the base is from.
LEMMA AlikeAtEnd ==
    ASSUME NEW n \in Nat, NEW r \in Seq(Records(n)), NEW b \in Seq(Records(n)),
           Extends(b, r, b[Len(r) + 1]), Alike(r, Scan(r)[1], Scan(b)[1], 1)
    PROVE  \/ /\ ReverseScan(b).base = ReverseScan(r).base
              /\ ReverseScan(b).from = ReverseScan(r).from
           \/ \E q \in 1 .. Len(r) : ScanBase(r, ReverseScan(r), q) /\ ScanBase(r, ReverseScan(b), q)
<1> DEFINE z == Scan(r)[1]
           y == Scan(b)[1]
<1>0. 1 \in 1 .. Len(r) + 1 /\ 1 \in 1 .. Len(b) + 1
  OBVIOUS
<1>1. z \in Scans(n) /\ y \in Scans(n) /\ z.pending \in Nat /\ y.pending \in Nat
  BY <1>0, ScanTyped DEF Scans
<1>2. /\ ReverseScan(r) = IF z.seg = <<>> THEN z ELSE FinalizeActiveSegment(z)
      /\ ReverseScan(b) = IF y.seg = <<>> THEN y ELSE FinalizeActiveSegment(y)
  BY DEF ReverseScan
<1>3. Alike(r, z, y, 1)
  OBVIOUS
<1> HIDE DEF z, y
<1>4. ASSUME NEW a \in Scans(n), a.seg # <<>>, a.pending \in Nat
      PROVE  LET f == FinalizeActiveSegment(a)
             IN /\ f.from = a.from
                /\ f.base = IF a.base = <<>> /\ a.pending = 0 THEN ActiveSegment(a).base ELSE a.base
  BY <1>4, Finalized
<1>5. CASE z.base = <<>>
  <2>1. /\ y.base = <<>> /\ y.seg = z.seg /\ y.pending = z.pending /\ y.from = z.from
    BY <1>3, <1>5 DEF Alike
  <2>2. ActiveSegment(y) = ActiveSegment(z)
    BY <2>1 DEF ActiveSegment
  <2>3. CASE z.seg = <<>>
    BY <1>2, <1>5, <2>1, <2>3
  <2>4. CASE z.seg # <<>>
    <3>1. /\ ReverseScan(r) = FinalizeActiveSegment(z)
          /\ ReverseScan(b) = FinalizeActiveSegment(y)
      BY <1>2, <2>1, <2>4
    <3>2. /\ FinalizeActiveSegment(z).from = z.from
          /\ FinalizeActiveSegment(z).base = IF z.pending = 0 THEN ActiveSegment(z).base ELSE <<>>
      BY <1>1, <1>4, <1>5, <2>4
    <3>3. /\ FinalizeActiveSegment(y).from = y.from
          /\ FinalizeActiveSegment(y).base = IF y.pending = 0 THEN ActiveSegment(y).base ELSE <<>>
      BY <1>1, <1>4, <2>1, <2>4
    <3> QED  BY <2>1, <2>2, <3>1, <3>2, <3>3
  <2> QED  BY <2>3, <2>4
<1>6. CASE z.base # <<>>
  <2>1. PICK q \in 1 .. Len(r) : ScanBase(r, z, q) /\ ScanBase(r, y, q)
    BY <1>3, <1>6 DEF Alike
  <2>2. y.base # <<>>
    BY <1>6, <2>1 DEF ScanBase
  <2>3. ReverseScan(r).base = z.base /\ ReverseScan(r).from = z.from
    BY <1>1, <1>2, <1>4, <1>6
  <2>4. ReverseScan(b).base = y.base /\ ReverseScan(b).from = y.from
    BY <1>1, <1>2, <1>4, <2>2
  <2>5. ScanBase(r, ReverseScan(r), q) /\ ScanBase(r, ReverseScan(b), q)
    BY <2>1, <2>3, <2>4 DEF ScanBase
  <2> QED  BY <2>5
<1> QED  BY <1>5, <1>6

\* A replay that reaches the compaction its base is from passes over what is before.
LEMMA ReplayFromCompaction ==
    ASSUME NEW n \in Nat, NEW r \in Seq(Records(n)), NEW q \in 1 .. Len(r), r[q].k = "compacted",
           NEW from \in 1 .. Len(r) + 1, from <= q + 1
    PROVE  \A p \in q .. Len(r) : Replay(r, from, r[q].h)[p] = Replay(r, q + 1, r[q].h)[p]
<1> DEFINE A(p) == Replay(r, from, r[q].h)[p]
           B(p) == Replay(r, q + 1, r[q].h)[p]
           N == Len(r) - q
           T == {m \in 0 .. N : A(q + m) = B(q + m)}
<1>0. N \in Nat /\ q + 1 \in 1 .. Len(r) + 1 /\ q \in Nat /\ (q + 1) - 1 = q
  OBVIOUS
<1>1. \A p \in from - 1 .. Len(r) :
         A(p) = IF p < from THEN r[q].h ELSE ReplayRecord(A(p - 1), r[p])
  BY ReplayDef
<1>2. \A p \in q .. Len(r) :
         B(p) = IF p < q + 1 THEN r[q].h ELSE ReplayRecord(B(p - 1), r[p])
  BY <1>0, ReplayDef
<1>3. 0 \in T
  <2>1. q \in from - 1 .. Len(r) /\ q \in q .. Len(r) /\ q < q + 1 /\ q + 0 = q
    OBVIOUS
  <2>2. B(q) = r[q].h
    BY <1>2, <2>1
  <2>3. \A h : ReplayRecord(h, r[q]) = r[q].h
    BY DEF ReplayRecord
  <2>4. A(q) = r[q].h
    BY <1>1, <2>1, <2>3
  <2> QED  BY <1>0, <2>1, <2>2, <2>4
<1>4. \A m \in 0 .. N - 1 : m \in T => m + 1 \in T
  <2> SUFFICES ASSUME NEW m \in 0 .. N - 1, A(q + m) = B(q + m)
               PROVE  A(q + (m + 1)) = B(q + (m + 1))
    BY <1>0
  <2> DEFINE p == q + (m + 1)
  <2>1. p \in from - 1 .. Len(r) /\ p \in q .. Len(r) /\ ~(p < from) /\ ~(p < q + 1) /\ p - 1 = q + m
    OBVIOUS
  <2>2. A(p) = ReplayRecord(A(q + m), r[p]) /\ B(p) = ReplayRecord(B(q + m), r[p])
    <3> HIDE DEF p
    <3> QED  BY <1>1, <1>2, <2>1
  <2> QED  BY <2>2
<1>5. \A m \in 0 .. N : m \in T
  <2> HIDE DEF T, N
  <2> QED  BY <1>0, <1>3, <1>4, Induct
<1> SUFFICES ASSUME NEW p \in q .. Len(r) PROVE A(p) = B(p)
  OBVIOUS
<1>6. p - q \in 0 .. N /\ q + (p - q) = p
  OBVIOUS
<1>7. A(q + (p - q)) = B(q + (p - q))
  <2> DEFINE m == p - q
  <2>1. m \in T
    BY <1>5, <1>6
  <2> HIDE DEF m
  <2>2. A(q + m) = B(q + m)
    BY <2>1
  <2> QED  BY <2>2 DEF m
<1> QED  BY <1>6, <1>7

\* A replay goes on with one more record.
LEMMA ReplayExtends ==
    ASSUME NEW n \in Nat, NEW r \in Seq(Records(n)), NEW x, NEW b \in Seq(Records(n)),
           Extends(b, r, x), NEW from \in 1 .. Len(r) + 1, NEW base
    PROVE  Replay(b, from, base)[Len(b)] = ReplayRecord(Replay(r, from, base)[Len(r)], x)
<1> DEFINE A(p) == Replay(r, from, base)[p]
           B(p) == Replay(b, from, base)[p]
           N == Len(r) + 1 - from
           T == {m \in 0 .. N : A(from - 1 + m) = B(from - 1 + m)}
<1>0. N \in Nat /\ Len(b) = Len(r) + 1 /\ from \in 1 .. Len(b) + 1
  BY DEF Extends
<1>1. \A p \in from - 1 .. Len(r) : A(p) = IF p < from THEN base ELSE ReplayRecord(A(p - 1), r[p])
  BY ReplayDef
<1>2. \A p \in from - 1 .. Len(b) : B(p) = IF p < from THEN base ELSE ReplayRecord(B(p - 1), b[p])
  BY <1>0, ReplayDef
<1>3. 0 \in T
  <2>1. from - 1 \in from - 1 .. Len(r) /\ from - 1 \in from - 1 .. Len(b) /\ from - 1 < from
        /\ from - 1 + 0 = from - 1
    BY <1>0
  <2>2. A(from - 1) = base /\ B(from - 1) = base
    BY <1>1, <1>2, <2>1
  <2> QED  BY <1>0, <2>1, <2>2
<1>4. \A m \in 0 .. N - 1 : m \in T => m + 1 \in T
  <2> SUFFICES ASSUME NEW m \in 0 .. N - 1, A(from - 1 + m) = B(from - 1 + m)
               PROVE  A(from - 1 + (m + 1)) = B(from - 1 + (m + 1))
    BY <1>0
  <2> DEFINE p == from - 1 + (m + 1)
  <2>1. p \in from - 1 .. Len(r) /\ p \in from - 1 .. Len(b) /\ ~(p < from) /\ p - 1 = from - 1 + m
        /\ p \in 1 .. Len(r)
    BY <1>0
  <2>2. b[p] = r[p]
    BY <2>1 DEF Extends
  <2>3. A(p) = ReplayRecord(A(from - 1 + m), r[p]) /\ B(p) = ReplayRecord(B(from - 1 + m), b[p])
    <3> HIDE DEF p
    <3> QED  BY <1>1, <1>2, <2>1
  <2> QED  BY <2>2, <2>3
<1>5. \A m \in 0 .. N : m \in T
  <2> HIDE DEF T, N
  <2> QED  BY <1>0, <1>3, <1>4, Induct
<1>6. A(Len(r)) = B(Len(r))
  <2>1. N \in 0 .. N /\ from - 1 + N = Len(r)
    BY <1>0
  <2> QED  BY <1>5, <2>1
<1>7. B(Len(b)) = ReplayRecord(B(Len(r)), b[Len(b)])
  <2>1. Len(b) \in from - 1 .. Len(b) /\ ~(Len(b) < from) /\ Len(b) - 1 = Len(r)
    BY <1>0
  <2> QED  BY <1>2, <2>1
<1>8. b[Len(b)] = x
  BY <1>0 DEF Extends
<1> QED  BY <1>6, <1>7, <1>8
-----------------------------------------------------------------------------
(* What one more record does to the reconstruction *)

\* A reconstruction whose base is from a compaction the suffix reaches replays
\* from there.
LEMMA RebuiltFromBase ==
    ASSUME NEW n \in Nat, NEW r \in Seq(Records(n)), NEW q, ScanBase(r, ReverseScan(r), q)
    PROVE  ReconstructHistoryFromRollout(r).items = Replay(r, q + 1, r[q].h)[Len(r)]
<1> DEFINE z == ReverseScan(r)
<1>1. z.from \in 1 .. Len(r) + 1
  BY ReverseScanTyped
<1>2. q \in 1 .. Len(r) /\ r[q].k = "compacted" /\ z.base = <<r[q].h>> /\ z.from <= q + 1
  BY DEF ScanBase
<1>3. ReconstructHistoryFromRollout(r).items = Replay(r, z.from, BaseOf(z))[Len(r)]
  BY RebuiltFields
<1> HIDE DEF z
<1>4. BaseOf(z) = r[q].h
  BY <1>2 DEF BaseOf
<1>5. Len(r) \in q .. Len(r)
  BY <1>2
<1> QED  BY <1>1, <1>2, <1>3, <1>4, <1>5, ReplayFromCompaction

\* A record of the open turn that is no compaction is replayed on what was there.
LEMMA RebuiltAppend ==
    ASSUME NEW n \in Nat, NEW r \in Seq(Records(n)), NEW t \in 1 .. n, NEW s, OpenTurn(r, t, s),
           NEW x, OfTurn(x, t), x.k # "compacted", NEW b \in Seq(Records(n)), Extends(b, r, x)
    PROVE  ReconstructHistoryFromRollout(b).items
              = ReplayRecord(ReconstructHistoryFromRollout(r).items, x)
<1> DEFINE z == ReverseScan(r)
           y == ReverseScan(b)
<1>1. Alike(r, Scan(r)[1], Scan(b)[1], 1)
  BY AlikeDown
<1>2. b[Len(r) + 1] = x
  BY DEF Extends
<1>3. \/ y.base = z.base /\ y.from = z.from
      \/ \E q \in 1 .. Len(r) : ScanBase(r, z, q) /\ ScanBase(r, y, q)
  BY <1>1, <1>2, AlikeAtEnd
<1>4. z.from \in 1 .. Len(r) + 1 /\ y.from \in 1 .. Len(b) + 1
  BY ReverseScanTyped
<1>5. /\ ReconstructHistoryFromRollout(r).items = Replay(r, z.from, BaseOf(z))[Len(r)]
      /\ ReconstructHistoryFromRollout(b).items = Replay(b, y.from, BaseOf(y))[Len(b)]
  BY RebuiltFields
<1> HIDE DEF z, y
<1>6. CASE y.base = z.base /\ y.from = z.from
  <2>1. BaseOf(y) = BaseOf(z)
    BY <1>6 DEF BaseOf
  <2> QED  BY <1>4, <1>5, <1>6, <2>1, ReplayExtends
<1>7. CASE \E q \in 1 .. Len(r) : ScanBase(r, z, q) /\ ScanBase(r, y, q)
  <2>1. PICK q \in 1 .. Len(r) : ScanBase(r, z, q) /\ ScanBase(r, y, q)
    BY <1>7
  <2>2. b[q] = r[q] /\ Len(b) = Len(r) + 1
    BY DEF Extends
  <2>3. ScanBase(b, y, q)
    BY <2>1, <2>2 DEF ScanBase
  <2>4. ReconstructHistoryFromRollout(r).items = Replay(r, q + 1, r[q].h)[Len(r)]
    BY <2>1, RebuiltFromBase DEF z
  <2>5. ReconstructHistoryFromRollout(b).items = Replay(b, q + 1, r[q].h)[Len(b)]
    BY <2>2, <2>3, RebuiltFromBase DEF y
  <2>6. q + 1 \in 1 .. Len(r) + 1
    OBVIOUS
  <2> QED  BY <2>4, <2>5, <2>6, ReplayExtends
<1> QED  BY <1>3, <1>6, <1>7

\* What is found at p is found at the oldest record, and kept at the end.
LEMMA FoundAtEnd ==
    ASSUME NEW n \in Nat, NEW r \in Seq(Records(n)), NEW s \in 1 .. Len(r) + 1
    PROVE  /\ Scan(r)[s].base # <<>> => ReverseScan(r).base = Scan(r)[s].base
           /\ Scan(r)[s].ref # "never" => ReverseScan(r).ref = Scan(r)[s].ref
<1> DEFINE Found(p) == /\ Scan(r)[s].base # <<>> => Scan(r)[p].base = Scan(r)[s].base
                       /\ Scan(r)[s].ref # "never" => Scan(r)[p].ref = Scan(r)[s].ref
           T == {p \in 1 .. s : Found(p)}
<1>0. 1 \in Int /\ s \in Int /\ 1 <= s
  OBVIOUS
<1>1. s \in T
  OBVIOUS
<1>2. \A p \in 1 .. s : p > 1 /\ p \in T => p - 1 \in T
  <2> SUFFICES ASSUME NEW p \in 1 .. s, p > 1, Found(p) PROVE Found(p - 1)
    BY <1>0
  <2>1. p - 1 \in 1 .. Len(r) /\ (p - 1) + 1 = p /\ p \in 1 .. Len(r) + 1
    OBVIOUS
  <2>2. Scan(r)[p - 1] = ScanStep(Scan(r)[p], r, p - 1) /\ Scan(r)[p] \in Scans(n)
    BY <2>1, ScanDef, ScanTyped
  <2>3. /\ Scan(r)[p].base # <<>> => Scan(r)[p - 1].base = Scan(r)[p].base
        /\ Scan(r)[p].ref # "never" => Scan(r)[p - 1].ref = Scan(r)[p].ref
    BY <2>1, <2>2, FoundStays
  <2> QED  BY <2>3
<1>3. \A p \in 1 .. s : p \in T
  <2> HIDE DEF T
  <2> QED  BY <1>0, <1>1, <1>2, InductDown, Zenon
<1>4. Found(1)
  BY <1>0, <1>3
<1> DEFINE z == Scan(r)[1]
<1>5. z \in Scans(n) /\ z.pending \in Nat
  <2>1. 1 \in 1 .. Len(r) + 1
    OBVIOUS
  <2> QED  BY <2>1, ScanTyped DEF Scans
<1>6. z.seg # <<>> => /\ z.base # <<>> => FinalizeActiveSegment(z).base = z.base
                      /\ z.ref # "never" => FinalizeActiveSegment(z).ref = z.ref
  BY <1>5, Finalized
<1>7. ReverseScan(r) = IF z.seg = <<>> THEN z ELSE FinalizeActiveSegment(z)
  BY DEF ReverseScan
<1>8. /\ z.base # <<>> => ReverseScan(r).base = z.base
      /\ z.ref # "never" => ReverseScan(r).ref = z.ref
  <2> HIDE DEF z
  <2> QED  BY <1>6, <1>7
<1> QED  BY <1>4, <1>8

\* A compaction of the open turn is what is rebuilt.
LEMMA RebuiltCompacted ==
    ASSUME NEW n \in Nat, NEW b \in Seq(Records(n)), NEW t \in 1 .. n, NEW s, OpenTurn(b, t, s),
           s < Len(b), b[Len(b)].k = "compacted"
    PROVE  ReconstructHistoryFromRollout(b).items = b[Len(b)].h
<1>0. s \in 1 .. Len(b) /\ s + 1 \in s + 1 .. Len(b) + 1 /\ s + 1 <= Len(b) /\ s \in 1 .. Len(b) + 1
  BY DEF OpenTurn
<1>1. InOpenTurn(b, t, Scan(b)[s + 1], s + 1)
  BY <1>0, OpenTurnScan
<1>2. ActiveSegment(Scan(b)[s + 1]).base = <<b[Len(b)].h>>
  BY <1>0, <1>1 DEF InOpenTurn
<1>3. Scan(b)[s].base = <<b[Len(b)].h>>
  <2>1. ClosesTurn(Scan(b)[s], Scan(b)[s + 1])
    BY AtTurnStart
  <2> QED  BY <1>2, <2>1 DEF ClosesTurn
<1>4. ReverseScan(b).base = <<b[Len(b)].h>>
  <2>1. Scan(b)[s].base # <<>>
    BY <1>3
  <2> QED  BY <1>0, <1>3, <2>1, FoundAtEnd
<1>5. ScanBase(b, ReverseScan(b), Len(b))
  <2>1. ReverseScan(b).from \in 1 .. Len(b) + 1
    BY ReverseScanTyped
  <2> QED  BY <1>0, <1>4, <2>1 DEF ScanBase
<1>6. ReconstructHistoryFromRollout(b).items = Replay(b, Len(b) + 1, b[Len(b)].h)[Len(b)]
  BY <1>5, RebuiltFromBase
<1>7. Replay(b, Len(b) + 1, b[Len(b)].h)[Len(b)] = b[Len(b)].h
  <2>1. Len(b) + 1 \in 1 .. Len(b) + 1 /\ Len(b) \in (Len(b) + 1) - 1 .. Len(b) /\ Len(b) < Len(b) + 1
    OBVIOUS
  <2> QED  BY <2>1, ReplayDef
<1> QED  BY <1>6, <1>7

\* Scans that agree at a record agree at the end.
LEMMA SameScanSameEnd ==
    ASSUME NEW n \in Nat, NEW r \in Seq(Records(n)), NEW x, NEW b \in Seq(Records(n)),
           Extends(b, r, x), NEW s \in 1 .. Len(r) + 1, Scan(b)[s] = Scan(r)[s]
    PROVE  ReverseScan(b) = ReverseScan(r)
<1> DEFINE T == {p \in 1 .. s : Scan(b)[p] = Scan(r)[p]}
<1>0. 1 \in Int /\ s \in Int /\ 1 <= s
  OBVIOUS
<1>1. s \in T
  OBVIOUS
<1>2. \A p \in 1 .. s : p > 1 /\ p \in T => p - 1 \in T
  <2> SUFFICES ASSUME NEW p \in 1 .. s, p > 1, Scan(b)[p] = Scan(r)[p]
               PROVE  Scan(b)[p - 1] = Scan(r)[p - 1]
    BY <1>0
  <2> DEFINE m == p - 1
  <2>1. m \in 1 .. Len(r) /\ m \in 1 .. Len(b) /\ m + 1 = p
    BY DEF Extends
  <2>2. b[m] = r[m]
    BY <2>1 DEF Extends
  <2> HIDE DEF m
  <2>3. Scan(r)[m] = ScanStep(Scan(r)[p], r, m) /\ Scan(b)[m] = ScanStep(Scan(b)[p], b, m)
    BY <2>1, ScanDef
  <2>4. Scan(b)[m] = Scan(r)[m]
    <3>1. SameAt(b, r, m)
      BY <2>2 DEF SameAt
    <3>2. \A z : ScanStep(z, b, m) = ScanStep(z, r, m)
      BY <3>1, ScanStepSame
    <3> QED  BY <2>3, <3>2
  <2> QED  BY <2>4 DEF m
<1>3. \A p \in 1 .. s : p \in T
  <2> HIDE DEF T
  <2> QED  BY <1>0, <1>1, <1>2, InductDown, Zenon
<1>4. Scan(b)[1] = Scan(r)[1]
  BY <1>0, <1>3
<1> QED  BY <1>4 DEF ReverseScan

\* The beginning of a turn changes nothing.
LEMMA RebuiltStarted ==
    ASSUME NEW n \in Nat, NEW r \in Seq(Records(n)), NEW t, NEW b \in Seq(Records(n)),
           Extends(b, r, Started(t))
    PROVE  ReconstructHistoryFromRollout(b) = ReconstructHistoryFromRollout(r)
<1> DEFINE N == Len(r) + 1
<1>0. Len(b) = N /\ b[N] = Started(t) /\ N \in 1 .. Len(b) /\ N \in 1 .. Len(r) + 1
  BY DEF Extends
<1>1. Scan(b)[N + 1] = NewScan /\ Scan(r)[N] = NewScan /\ Scan(b)[N] = ScanStep(NewScan, b, N)
  BY <1>0, ScanDef
<1>2. ScanStep(NewScan, b, N) = NewScan
  <2>1. NewScan.seg = <<>> /\ NewScan.base = <<>> /\ NewScan.done = FALSE /\ NewScan \in Scans(n)
    BY NewScanTyped DEF NewScan
  <2>2. b[N].k = "started"
    BY <1>0 DEF Started
  <2>3. ScanRecord(NewScan, b, N) = NewScan
    BY <2>1, <2>2, ScanStarted
  <2>4. ScanStep(NewScan, b, N) = [NewScan EXCEPT !.done = FALSE]
    BY <2>1, <2>3 DEF ScanStep
  <2> QED  BY <2>4 DEF NewScan
<1>3. ReverseScan(b) = ReverseScan(r)
  <2> HIDE DEF N
  <2> QED  BY <1>0, <1>1, <1>2, SameScanSameEnd
<1> DEFINE z == ReverseScan(r)
<1>4. z.from \in 1 .. Len(r) + 1
  BY ReverseScanTyped
<1>5. Replay(b, z.from, BaseOf(z))[Len(b)] = Replay(r, z.from, BaseOf(z))[Len(r)]
  <2>1. \A h : ReplayRecord(h, Started(t)) = h
    BY DEF ReplayRecord, Started
  <2> HIDE DEF z
  <2> QED  BY <1>4, <2>1, ReplayExtends
<1> QED  BY <1>3, <1>5 DEF ReconstructHistoryFromRollout, BaseOf

\* A segment without context and instruction knows a reference only when a
\* compaction has cleared it.
QuietSegment(g) ==
    /\ g.user = FALSE
    /\ g.ref = IF g.base = <<>> THEN "never" ELSE "cleared"

\* The segment of a quiet turn.
LEMMA QuietScan ==
    ASSUME NEW n \in Nat, NEW r \in Seq(Records(n)), NEW t \in 1 .. n, NEW s, QuietTurn(r, t, s)
    PROVE  \A p \in s + 1 .. Len(r) + 1 : QuietSegment(ActiveSegment(Scan(r)[p]))
<1> DEFINE N == Len(r) + 1
           M == s + 1
           T == {p \in M .. N : QuietSegment(ActiveSegment(Scan(r)[p]))}
<1>a. OpenTurn(r, t, s)
  BY DEF QuietTurn
<1>0. s \in 1 .. Len(r) /\ M \in Int /\ N \in Int /\ M <= N
  BY <1>a DEF OpenTurn
<1>1. N \in T
  <2>1. Scan(r)[N] = NewScan
    BY ScanDef
  <2>2. ActiveSegment(NewScan) = NewSegment
    BY DEF NewScan, ActiveSegment
  <2>3. QuietSegment(NewSegment)
    BY DEF QuietSegment, NewSegment
  <2> QED  BY <1>0, <2>1, <2>2, <2>3
<1>2. \A p \in M .. N : p > M /\ p \in T => p - 1 \in T
  <2> SUFFICES ASSUME NEW p \in M .. N, p > M, QuietSegment(ActiveSegment(Scan(r)[p]))
               PROVE  QuietSegment(ActiveSegment(Scan(r)[p - 1]))
    BY <1>0
  <2> DEFINE m == p - 1
             a == Scan(r)[p]
             rec == r[m]
  <2>1. m \in s + 1 .. Len(r) /\ m + 1 = p
    BY <1>0
  <2> HIDE DEF m
  <2>2. ActiveSegment(Scan(r)[m]) = SegmentAfter(a, rec)
    BY <1>a, <2>1, OpenStep DEF SegmentStep
  <2>3. Quiet(rec)
    BY <2>1 DEF QuietTurn
  <2>4. QuietSegment(ActiveSegment(a))
    OBVIOUS
  <2>5. QuietSegment(SegmentAfter(a, rec))
    <3> DEFINE g == SegmentAfter(a, rec)
    <3> HIDE DEF a, rec
    <3>1. g.user = FALSE
      BY <2>3, <2>4 DEF SegmentAfter, Quiet, QuietSegment
    <3>2. <<rec.h>> # <<>>
      OBVIOUS
    <3>3. g.ref = IF g.base = <<>> THEN "never" ELSE "cleared"
      BY <2>3, <2>4, <3>2 DEF SegmentAfter, Quiet, QuietSegment
    <3> QED  BY <3>1, <3>3 DEF QuietSegment
  <2> QED  BY <2>2, <2>5 DEF m
<1>3. \A p \in M .. N : p \in T
  <2> HIDE DEF T, N, M
  <2> QED  BY <1>0, <1>1, <1>2, InductDown, Zenon
<1> QED  BY <1>3

\* A scan that has found the base of a quiet turn.
QuietStart(base, from) ==
    [seg |-> <<>>, base |-> base, previous |-> "none",
     ref |-> IF base = <<>> THEN "never" ELSE "cleared",
     pending |-> 0, from |-> from, done |-> FALSE]

\* What the scan knows when it reaches the beginning of a quiet turn.
LEMMA QuietAtStart ==
    ASSUME NEW n \in Nat, NEW r \in Seq(Records(n)), NEW t \in 1 .. n, NEW s, QuietTurn(r, t, s)
    PROVE  Scan(r)[s] = QuietStart(ActiveSegment(Scan(r)[s + 1]).base, Scan(r)[s + 1].from)
<1> DEFINE z == Scan(r)[s]
           a == Scan(r)[s + 1]
<1>a. OpenTurn(r, t, s)
  BY DEF QuietTurn
<1>0. s \in 1 .. Len(r) /\ s + 1 \in s + 1 .. Len(r) + 1 /\ s \in 1 .. Len(r) + 1
  BY <1>a DEF OpenTurn
<1>1. QuietSegment(ActiveSegment(a))
  BY <1>0, QuietScan
<1>2. ClosesTurn(z, a)
  BY <1>a, AtTurnStart
<1>3. z \in Scans(n)
  BY <1>0, ScanTyped
<1> HIDE DEF z, a
<1>4. /\ z.seg = <<>> /\ z.base = ActiveSegment(a).base /\ z.previous = "none"
      /\ z.ref = IF ActiveSegment(a).base = <<>> THEN "never" ELSE "cleared"
      /\ z.pending = 0 /\ z.from = a.from /\ ~z.done
  BY <1>1, <1>2 DEF ClosesTurn, QuietSegment
<1>5. z.done = FALSE
  BY <1>3, <1>4 DEF Scans
<1>6. z = [seg |-> z.seg, base |-> z.base, previous |-> z.previous, ref |-> z.ref,
           pending |-> z.pending, from |-> z.from, done |-> z.done]
  BY <1>3 DEF Scans
<1> QED  BY <1>4, <1>5, <1>6 DEF z, a, QuietStart

\* A quiet record that is no compaction leaves the reconstructed baseline.
LEMMA QuietAppend ==
    ASSUME NEW n \in Nat, NEW r \in Seq(Records(n)), NEW t \in 1 .. n, NEW s, QuietTurn(r, t, s),
           NEW x, OfTurn(x, t), Quiet(x), x.k # "compacted",
           NEW b \in Seq(Records(n)), Extends(b, r, x)
    PROVE  ReconstructHistoryFromRollout(b).baseline = ReconstructHistoryFromRollout(r).baseline
<1>a. OpenTurn(r, t, s)
  BY DEF QuietTurn
<1>0. s \in 1 .. Len(r) /\ s + 1 \in s + 1 .. Len(r) + 1 /\ s \in 1 .. Len(r) + 1
  BY <1>a DEF OpenTurn
<1>1. OpenTurn(b, t, s)
  BY <1>a, OpenTurnGrows
<1>2. QuietTurn(b, t, s)
  <2>1. \A p \in s + 1 .. Len(b) : Quiet(b[p])
    BY <1>0 DEF QuietTurn, Extends
  <2> QED  BY <1>1, <2>1 DEF QuietTurn
<1>3. /\ ActiveSegment(Scan(b)[s + 1]).base = ActiveSegment(Scan(r)[s + 1]).base
      /\ Scan(b)[s + 1].from = Scan(r)[s + 1].from
  <2> DEFINE p == s + 1
  <2>1. p \in s + 1 .. Len(r) + 1
    BY <1>0
  <2> HIDE DEF p
  <2>2. /\ ActiveSegment(Scan(b)[p]).base = ActiveSegment(Scan(r)[p]).base
        /\ Scan(b)[p].from = Scan(r)[p].from
    BY <1>a, <2>1, SameInTurn
  <2> QED  BY <2>2 DEF p
<1>4. Scan(b)[s] = Scan(r)[s]
  <2>1. Scan(b)[s] = QuietStart(ActiveSegment(Scan(b)[s + 1]).base, Scan(b)[s + 1].from)
    BY <1>2, QuietAtStart
  <2>2. Scan(r)[s] = QuietStart(ActiveSegment(Scan(r)[s + 1]).base, Scan(r)[s + 1].from)
    BY QuietAtStart
  <2> QED  BY <1>3, <2>1, <2>2
<1>5. ReverseScan(b) = ReverseScan(r)
  BY <1>0, <1>4, SameScanSameEnd
<1> QED  BY <1>5, RebuiltFields

\* A compaction of a quiet turn clears it.
LEMMA QuietCompacted ==
    ASSUME NEW n \in Nat, NEW b \in Seq(Records(n)), NEW t \in 1 .. n, NEW s, QuietTurn(b, t, s),
           s < Len(b), b[Len(b)].k = "compacted"
    PROVE  ReconstructHistoryFromRollout(b).baseline = "none"
<1>a. OpenTurn(b, t, s)
  BY DEF QuietTurn
<1>0. s \in 1 .. Len(b) /\ s + 1 \in s + 1 .. Len(b) + 1 /\ s + 1 <= Len(b) /\ s \in 1 .. Len(b) + 1
  BY <1>a DEF OpenTurn
<1>1. InOpenTurn(b, t, Scan(b)[s + 1], s + 1)
  BY <1>a, <1>0, OpenTurnScan
<1>2. ActiveSegment(Scan(b)[s + 1]).base # <<>>
  <2>1. ActiveSegment(Scan(b)[s + 1]).base = <<b[Len(b)].h>>
    BY <1>0, <1>1 DEF InOpenTurn
  <2>2. <<b[Len(b)].h>> # <<>>
    OBVIOUS
  <2> QED  BY <2>1, <2>2
<1>3. ClosesTurn(Scan(b)[s], Scan(b)[s + 1])
  BY <1>a, AtTurnStart
<1>4. QuietSegment(ActiveSegment(Scan(b)[s + 1]))
  BY <1>0, QuietScan
<1>5. Scan(b)[s].ref = "cleared"
  BY <1>2, <1>3, <1>4 DEF ClosesTurn, QuietSegment
<1>6. ReverseScan(b).ref = "cleared"
  BY <1>0, <1>5, FoundAtEnd
<1>7. "cleared" \notin Settings
  BY SettingsAreNoMarks
<1> QED  BY <1>6, <1>7, RebuiltFields
-----------------------------------------------------------------------------
(* What the scan selects comes from compactions *)

FromCompaction(r, base) ==
    base # <<>> => \E q \in 1 .. Len(r) : r[q].k = "compacted" /\ base = <<r[q].h>>

BehindCompaction(r, from) ==
    from # 1 => from - 1 \in 1 .. Len(r) /\ r[from - 1].k = "compacted"

\* A record scanned takes its base from the active segment and moves the start of
\* the suffix only for a compaction.
LEMMA ScanSelects ==
    ASSUME NEW n \in Nat, NEW s \in Scans(n), NEW r \in Seq(Records(n)), NEW p \in 1 .. Len(r)
    PROVE  /\ ScanStep(s, r, p).base \in {s.base, ActiveSegment(s).base}
           /\ ScanStep(s, r, p).from = s.from
              \/ (ScanStep(s, r, p).from = p + 1 /\ r[p].k = "compacted")
<1> DEFINE x == ScanRecord(s, r, p)
           z == ScanStep(s, r, p)
<1>0. r[p] \in Records(n) /\ p \in Nat
  OBVIOUS
<1>1. CASE s.done
  <2>1. z = s
    BY <1>1, ScanStepDone
  <2> QED  BY <2>1
<1>2. CASE ~s.done
  <2>1. z.base = x.base /\ z.from = x.from
    BY <1>2, ScanStepFields
  <2> SUFFICES x.base \in {s.base, ActiveSegment(s).base}
               /\ (x.from = s.from \/ (x.from = p + 1 /\ r[p].k = "compacted"))
    BY <2>1
  <2>2. CASE r[p].k \in InTurnKinds
    <3>1. /\ x.from = IF r[p].k = "compacted" /\ ActiveSegment(s).base = <<>>
                      THEN p + 1 ELSE s.from
          /\ OnlySegment(x, s)
      BY <1>0, <2>2, ScanInTurn
    <3> HIDE DEF x
    <3> QED  BY <3>1 DEF OnlySegment
  <2>3. CASE r[p].k = "rolled_back" /\ r[p].n \in Nat
    <3>1. x.base = s.base /\ x.from = s.from
      BY <1>0, <2>3, ScanRolledBack
    <3> QED  BY <3>1
  <2>4. CASE r[p].k = "started"
    <3>1. x = s \/ (s.seg # <<>> /\ x = FinalizeActiveSegment(s))
      BY <2>4, ScanStarted
    <3>2. s.pending \in Nat
      BY DEF Scans
    <3>3. CASE x = s
      BY <3>3
    <3>4. CASE s.seg # <<>> /\ x = FinalizeActiveSegment(s)
      <4>1. x.from = s.from
        BY <3>4, Finalized
      <4>2. s.pending > 0 => x.base = s.base
        BY <3>4, Finalized
      <4>3. s.pending = 0 => x.base = IF s.base = <<>> THEN ActiveSegment(s).base ELSE s.base
        BY <3>4, Finalized
      <4> HIDE DEF x
      <4> QED  BY <3>2, <4>1, <4>2, <4>3
    <3> QED  BY <3>1, <3>3, <3>4
  <2> QED  BY <1>0, <2>2, <2>3, <2>4, RecordKinds DEF InTurnKinds
<1> QED  BY <1>1, <1>2

\* The base and the suffix a reconstruction starts from.
LEMMA SelectedByCompaction ==
    ASSUME NEW n \in Nat, NEW r \in Seq(Records(n))
    PROVE  FromCompaction(r, ReverseScan(r).base) /\ BehindCompaction(r, ReverseScan(r).from)
<1> DEFINE N == Len(r) + 1
           Sel(z) == FromCompaction(r, z.base) /\ BehindCompaction(r, z.from)
           T == {p \in 1 .. N : Sel(Scan(r)[p])}
<1>0. 1 \in Int /\ N \in Int /\ 1 <= N
  OBVIOUS
<1>1. N \in T
  <2>1. Scan(r)[N] = NewScan
    BY ScanDef
  <2>2. NewScan.base = <<>> /\ NewScan.from = 1
    BY DEF NewScan
  <2>3. Sel(NewScan)
    BY <2>2 DEF FromCompaction, BehindCompaction
  <2> HIDE DEF Sel
  <2> QED  BY <1>0, <2>1, <2>3
<1>a. ASSUME NEW p \in 1 .. N PROVE FromCompaction(r, ActiveSegment(Scan(r)[p]).base)
  <2>1. SegmentBase(r, Scan(r)[p], p)
    BY SegmentBaseKnown
  <2> DEFINE z == Scan(r)[p]
  <2> HIDE DEF z
  <2>2. SegmentBase(r, z, p)
    BY <2>1 DEF z
  <2>3. FromCompaction(r, ActiveSegment(z).base)
    BY <2>2 DEF SegmentBase, FromCompaction
  <2> QED  BY <2>3 DEF z
<1>2. \A p \in 1 .. N : p > 1 /\ p \in T => p - 1 \in T
  <2> SUFFICES ASSUME NEW p \in 1 .. N, p > 1, Sel(Scan(r)[p]) PROVE Sel(Scan(r)[p - 1])
    OBVIOUS
  <2> DEFINE m == p - 1
             s == Scan(r)[p]
             z == Scan(r)[m]
  <2>1. m \in 1 .. Len(r) /\ m + 1 = p
    OBVIOUS
  <2> HIDE DEF m
  <2>2. z = ScanStep(s, r, m) /\ s \in Scans(n)
    BY <2>1, ScanDef, ScanTyped
  <2>3. /\ z.base \in {s.base, ActiveSegment(s).base}
        /\ z.from = s.from \/ (z.from = m + 1 /\ r[m].k = "compacted")
    BY <2>1, <2>2, ScanSelects
  <2>4. FromCompaction(r, s.base) /\ FromCompaction(r, ActiveSegment(s).base)
    BY <1>a
  <2>5. BehindCompaction(r, s.from)
    OBVIOUS
  <2> HIDE DEF s, z
  <2>6. FromCompaction(r, z.base)
    BY <2>3, <2>4
  <2>7. BehindCompaction(r, z.from)
    <3>1. CASE z.from = s.from
      BY <3>1, <2>5
    <3>2. CASE z.from = m + 1 /\ r[m].k = "compacted"
      <4>1. z.from - 1 = m
        BY <2>1, <3>2
      <4> QED  BY <2>1, <3>2, <4>1 DEF BehindCompaction
    <3> QED  BY <2>3, <3>1, <3>2
  <2> QED  BY <2>6, <2>7 DEF z, m
<1>3. \A p \in 1 .. N : p \in T
  <2> HIDE DEF T, N
  <2> QED  BY <1>0, <1>1, <1>2, InductDown, Zenon
<1>4. Sel(Scan(r)[1]) /\ FromCompaction(r, ActiveSegment(Scan(r)[1]).base)
  <2>1. 1 \in 1 .. N
    BY <1>0
  <2> QED  BY <1>3, <1>a, <2>1
<1>5. Scan(r)[1] \in Scans(n)
  <2>1. 1 \in 1 .. Len(r) + 1
    OBVIOUS
  <2> QED  BY <2>1, ScanTyped
<1> DEFINE s == Scan(r)[1]
<1>6. CASE s.seg = <<>>
  BY <1>4, <1>6 DEF ReverseScan
<1>7. CASE s.seg # <<>>
  <2> DEFINE y == FinalizeActiveSegment(s)
  <2>1. y.from = s.from
    BY <1>5, <1>7, Finalized
  <2>2. s.pending > 0 => y.base = s.base
    BY <1>5, <1>7, Finalized
  <2>3. s.pending = 0 => y.base = IF s.base = <<>> THEN ActiveSegment(s).base ELSE s.base
    BY <1>5, <1>7, Finalized
  <2>4. s.pending \in Nat
    BY <1>5 DEF Scans
  <2>5. ReverseScan(r) = y
    BY <1>7 DEF ReverseScan
  <2>6. FromCompaction(r, s.base) /\ FromCompaction(r, ActiveSegment(s).base)
        /\ BehindCompaction(r, s.from)
    BY <1>4
  <2> HIDE DEF s, y
  <2>7. y.base = s.base \/ y.base = ActiveSegment(s).base
    BY <2>2, <2>3, <2>4
  <2> QED  BY <2>1, <2>5, <2>6, <2>7
<1> QED  BY <1>6, <1>7
-----------------------------------------------------------------------------
(* Calls and their outputs *)

\* In a history written with fewer than m records an output stands behind its
\* call, and call ids are fresh.
WellPaired(h, m) ==
    /\ \A p \in 1 .. Len(h) : h[p].k = "call" => h[p].v \in 0 .. m - 1
    /\ \A p, q \in 1 .. Len(h) : h[p].k = "call" /\ h[q].k = "call" /\ h[p].v = h[q].v => p = q
    /\ \A p \in 1 .. Len(h) : h[p].k = "output" =>
          p > 1 /\ h[p - 1].k = "call" /\ h[p - 1].v = h[p].v

IsItem(rec, k) == rec.k = "item" /\ rec.i.k = k

\* The same of the records the history is rebuilt from.
PairedRecord(r, p) ==
    /\ IsItem(r[p], "call") => r[p].i.v = p - 1
    /\ IsItem(r[p], "output") =>
          p > 1 /\ IsItem(r[p - 1], "call") /\ r[p - 1].i.v = r[p].i.v
    /\ r[p].k = "compacted" => \A q \in 1 .. Len(r[p].h) : r[p].h[q].k \in KeptKinds

\* A history without calls and outputs.
LEMMA KeptPaired ==
    ASSUME NEW h, \A q \in 1 .. Len(h) : h[q].k \in KeptKinds, NEW m
    PROVE  WellPaired(h, m)
BY DEF WellPaired, KeptKinds

\* A later record count.
LEMMA PairedLater ==
    ASSUME NEW h, NEW m \in Nat, WellPaired(h, m)
    PROVE  WellPaired(h, m + 1)
BY DEF WellPaired

\* A prefix.
LEMMA PairedPrefix ==
    ASSUME NEW I, NEW h \in Seq(I), NEW m, WellPaired(h, m), NEW c \in 0 .. Len(h)
    PROVE  WellPaired(SubSeq(h, 1, c), m)
<1> DEFINE g == SubSeq(h, 1, c)
<1>1. Len(g) = c /\ \A p \in 1 .. c : g[p] = h[p]
  OBVIOUS
<1> HIDE DEF g
<1>2. \A p \in 1 .. c : p \in 1 .. Len(h) /\ (p > 1 => p - 1 \in 1 .. c)
  OBVIOUS
<1>3. WellPaired(g, m)
  BY <1>1, <1>2 DEF WellPaired
<1> QED  BY <1>3 DEF g

\* The item i may follow the m records that led to h.
Follows(i, h, m) ==
    /\ i.k = "call" => i.v = m
    /\ i.k = "output" => Len(h) > 0 /\ h[Len(h)].k = "call" /\ h[Len(h)].v = i.v

\* One item more.
LEMMA PairedAppend ==
    ASSUME NEW I, NEW h \in Seq(I), NEW m \in Nat, WellPaired(h, m), NEW i \in I, Follows(i, h, m)
    PROVE  WellPaired(Append(h, i), m + 1)
<1> DEFINE g == Append(h, i)
           L == Len(h)
<1>1. L \in Nat /\ Len(g) = L + 1 /\ g[L + 1] = i /\ \A p \in 1 .. L : g[p] = h[p]
  OBVIOUS
<1>2. \A p \in 1 .. L : h[p].k = "call" => h[p].v \in 0 .. m - 1
  BY DEF WellPaired
<1>3. \A p, q \in 1 .. L : h[p].k = "call" /\ h[q].k = "call" /\ h[p].v = h[q].v => p = q
  BY DEF WellPaired
<1>4. \A p \in 1 .. L : h[p].k = "output" => p > 1 /\ h[p - 1].k = "call" /\ h[p - 1].v = h[p].v
  BY DEF WellPaired
<1>5. /\ i.k = "call" => i.v = m
      /\ i.k = "output" => L > 0 /\ h[L].k = "call" /\ h[L].v = i.v
  BY DEF Follows
<1> HIDE DEF g, L
<1>6. \A p \in 1 .. L + 1 : g[p].k = "call" => g[p].v \in 0 .. m
  BY <1>1, <1>2, <1>5
<1>7. \A p, q \in 1 .. L + 1 : g[p].k = "call" /\ g[q].k = "call" /\ g[p].v = g[q].v => p = q
  <2> SUFFICES ASSUME NEW p \in 1 .. L + 1, NEW q \in 1 .. L + 1,
                      g[p].k = "call", g[q].k = "call", g[p].v = g[q].v
               PROVE  p = q
    OBVIOUS
  <2>1. CASE p \in 1 .. L /\ q \in 1 .. L
    BY <1>1, <1>3, <2>1
  <2>2. CASE p \in 1 .. L /\ q = L + 1
    BY <1>1, <1>2, <1>5, <2>2
  <2>3. CASE p = L + 1 /\ q \in 1 .. L
    BY <1>1, <1>2, <1>5, <2>3
  <2> QED  BY <1>1, <2>1, <2>2, <2>3
<1>8. \A p \in 1 .. L + 1 : g[p].k = "output" => p > 1 /\ g[p - 1].k = "call" /\ g[p - 1].v = g[p].v
  <2> SUFFICES ASSUME NEW p \in 1 .. L + 1, g[p].k = "output"
               PROVE  p > 1 /\ g[p - 1].k = "call" /\ g[p - 1].v = g[p].v
    OBVIOUS
  <2>1. CASE p \in 1 .. L
    <3>1. p > 1 /\ h[p - 1].k = "call" /\ h[p - 1].v = h[p].v
      BY <1>1, <1>4, <2>1
    <3>2. p - 1 \in 1 .. L
      BY <1>1, <2>1, <3>1
    <3> QED  BY <1>1, <2>1, <3>1, <3>2
  <2>2. CASE p = L + 1
    <3>1. L > 0 /\ p - 1 = L /\ L \in 1 .. L
      BY <1>1, <1>5, <2>2
    <3> QED  BY <1>1, <1>5, <2>2, <3>1
  <2> QED  BY <1>1, <2>1, <2>2
<1>9. WellPaired(g, m + 1)
  <2>1. (m + 1) - 1 = m
    OBVIOUS
  <2> QED  BY <1>1, <1>6, <1>7, <1>8, <2>1 DEF WellPaired
<1> QED  BY <1>9 DEF g

\* The history behind record p, replayed from paired records.
ReplayPaired(r, h, p) ==
    /\ WellPaired(h, p)
    /\ IsItem(r[p], "call") => Len(h) > 0 /\ h[Len(h)] = r[p].i

\* A record replayed.
LEMMA ReplayRecordPaired ==
    ASSUME NEW n \in Nat, NEW r \in Seq(Records(n)), NEW p \in 1 .. Len(r), PairedRecord(r, p),
           NEW h \in Histories(n), WellPaired(h, p - 1),
           IsItem(r[p], "output") =>
              Len(h) > 0 /\ h[Len(h)].k = "call" /\ h[Len(h)].v = r[p].i.v
    PROVE  ReplayPaired(r, ReplayRecord(h, r[p]), p)
<1>0. p - 1 \in Nat /\ (p - 1) + 1 = p /\ h \in Seq(TurnItems(n)) /\ r[p] \in Records(n)
  BY DEF Histories
<1>1. CASE r[p].k = "item" /\ r[p].i \in TurnItems(n)
  <2>1. ReplayRecord(h, r[p]) = Append(h, r[p].i)
    BY <1>1 DEF ReplayRecord
  <2>2. Follows(r[p].i, h, p - 1)
    BY <1>1 DEF Follows, PairedRecord, IsItem
  <2>3. WellPaired(Append(h, r[p].i), (p - 1) + 1)
    BY <1>0, <1>1, <2>2, PairedAppend
  <2>4. Len(Append(h, r[p].i)) > 0 /\ Append(h, r[p].i)[Len(Append(h, r[p].i))] = r[p].i
    BY <1>0, <1>1
  <2> QED  BY <1>0, <2>1, <2>3, <2>4 DEF ReplayPaired
<1>2. CASE r[p].k = "compacted" /\ r[p].h \in Histories(n)
  <2>1. ReplayRecord(h, r[p]) = r[p].h
    BY <1>2 DEF ReplayRecord
  <2>2. \A q \in 1 .. Len(r[p].h) : r[p].h[q].k \in KeptKinds
    BY <1>2 DEF PairedRecord
  <2>3. WellPaired(r[p].h, p)
    BY <2>2, KeptPaired
  <2> QED  BY <1>2, <2>1, <2>3 DEF ReplayPaired, IsItem
<1>3. CASE r[p].k = "rolled_back" /\ r[p].n \in Nat
  <2>1. ReplayRecord(h, r[p]) = DropLastNUserTurns(h, r[p].n)
    BY <1>3 DEF ReplayRecord
  <2>2. PICK c \in 0 .. Len(h) : DropLastNUserTurns(h, r[p].n) = SubSeq(h, 1, c)
    BY <1>0, <1>3, DropIsPrefix
  <2>3. WellPaired(SubSeq(h, 1, c), p - 1)
    BY <1>0, PairedPrefix
  <2>4. WellPaired(SubSeq(h, 1, c), (p - 1) + 1)
    BY <1>0, <2>3, PairedLater
  <2> QED  BY <1>0, <1>3, <2>1, <2>2, <2>4 DEF ReplayPaired, IsItem
<1>4. CASE r[p].k \notin {"item", "compacted", "rolled_back"}
  <2>1. ReplayRecord(h, r[p]) = h
    BY <1>4 DEF ReplayRecord
  <2>2. WellPaired(h, (p - 1) + 1)
    BY <1>0, PairedLater
  <2> QED  BY <1>0, <1>4, <2>1, <2>2 DEF ReplayPaired, IsItem
<1> QED  BY <1>0, <1>1, <1>2, <1>3, <1>4, RecordKinds

\* What is rebuilt from paired records is paired.
LEMMA RebuiltPaired ==
    ASSUME NEW n \in Nat, NEW r \in Seq(Records(n)), \A p \in 1 .. Len(r) : PairedRecord(r, p)
    PROVE  WellPaired(ReconstructHistoryFromRollout(r).items, Len(r))
<1> DEFINE z == ReverseScan(r)
           from == z.from
           base == BaseOf(z)
           H(p) == Replay(r, from, base)[p]
           N == Len(r) + 1 - from
           First(p) == p = from - 1 /\ WellPaired(H(p), p)
           Good(p) == H(p) \in Histories(n) /\ (First(p) \/ (p >= from /\ ReplayPaired(r, H(p), p)))
           T == {m \in 0 .. N : Good(from - 1 + m)}
<1>1. z \in Scans(n) /\ from \in 1 .. Len(r) + 1
  BY ReverseScanTyped
<1>2. base \in Histories(n)
  BY <1>1, BaseTyped
<1>3. WellPaired(base, from - 1)
  <2>1. FromCompaction(r, z.base)
    BY SelectedByCompaction
  <2>2. CASE z.base = <<>>
    <3>1. base = <<>>
      BY <2>2 DEF BaseOf
    <3>2. \A q \in 1 .. Len(<<>>) : <<>>[q].k \in KeptKinds
      OBVIOUS
    <3> QED  BY <3>1, <3>2, KeptPaired
  <2>3. CASE z.base # <<>>
    <3>1. PICK q \in 1 .. Len(r) : r[q].k = "compacted" /\ z.base = <<r[q].h>>
      BY <2>1, <2>3 DEF FromCompaction
    <3>2. base = r[q].h
      BY <2>3, <3>1 DEF BaseOf
    <3>3. \A x \in 1 .. Len(r[q].h) : r[q].h[x].k \in KeptKinds
      BY <3>1 DEF PairedRecord
    <3> QED  BY <3>2, <3>3, KeptPaired
  <2> QED  BY <2>2, <2>3
<1>4. BehindCompaction(r, from)
  BY SelectedByCompaction
<1>5. ReconstructHistoryFromRollout(r).items = H(Len(r))
  BY RebuiltFields
<1> HIDE DEF from, base, z
<1>6. \A p \in from - 1 .. Len(r) : H(p) = IF p < from THEN base ELSE ReplayRecord(H(p - 1), r[p])
  BY <1>1, ReplayDef
<1>7. \A p \in from - 1 .. Len(r) : H(p) \in Histories(n)
  BY <1>1, <1>2, ReplayTyped
<1> HIDE DEF H
<1>0. N \in Nat /\ Len(r) = from - 1 + N
  BY <1>1
<1>8. 0 \in T
  <2>1. from - 1 \in from - 1 .. Len(r) /\ from - 1 < from /\ from - 1 + 0 = from - 1
    BY <1>1
  <2>2. H(from - 1) = base
    BY <1>6, <2>1
  <2>3. Good(from - 1)
    BY <1>2, <1>3, <2>2
  <2> QED  BY <1>0, <2>1, <2>3
<1>9. \A m \in 0 .. N - 1 : m \in T => m + 1 \in T
  <2> SUFFICES ASSUME NEW m \in 0 .. N - 1, Good(from - 1 + m) PROVE Good(from - 1 + (m + 1))
    BY <1>0
  <2> DEFINE p == from - 1 + (m + 1)
             o == from - 1 + m
  <2>1. /\ p \in 1 .. Len(r) /\ p >= from /\ p \in from - 1 .. Len(r) /\ p - 1 = o /\ ~(p < from)
        /\ o \in Nat
    BY <1>0, <1>1
  <2>2. Good(o)
    OBVIOUS
  <2> HIDE DEF p, o
  <2>3. H(p) = ReplayRecord(H(o), r[p])
    BY <1>6, <2>1
  <2>4. H(o) \in Histories(n) /\ WellPaired(H(o), p - 1)
    BY <2>1, <2>2 DEF ReplayPaired
  <2>5. PairedRecord(r, p)
    BY <2>1
  <2>6. ASSUME IsItem(r[p], "output")
        PROVE  Len(H(o)) > 0 /\ H(o)[Len(H(o))].k = "call" /\ H(o)[Len(H(o))].v = r[p].i.v
    <3>1. p > 1 /\ IsItem(r[o], "call") /\ r[o].i.v = r[p].i.v
      BY <2>1, <2>5, <2>6 DEF PairedRecord
    <3>2. ~First(o)
      <4> SUFFICES ASSUME o = from - 1 PROVE FALSE
        OBVIOUS
      <4>1. from # 1
        BY <2>1, <3>1
      <4>2. r[o].k = "compacted"
        BY <1>4, <4>1 DEF BehindCompaction
      <4> QED  BY <3>1, <4>2 DEF IsItem
    <3>3. Len(H(o)) > 0 /\ H(o)[Len(H(o))] = r[o].i
      BY <2>2, <3>1, <3>2 DEF ReplayPaired
    <3> QED  BY <3>1, <3>3 DEF IsItem
  <2>7. ReplayPaired(r, ReplayRecord(H(o), r[p]), p)
    BY <2>1, <2>4, <2>5, <2>6, ReplayRecordPaired
  <2>8. H(p) \in Histories(n)
    BY <1>7, <2>1
  <2>9. Good(p)
    BY <2>1, <2>3, <2>7, <2>8
  <2> QED  BY <2>9 DEF p
<1>10. \A m \in 0 .. N : m \in T
  <2> HIDE DEF T, N
  <2> QED  BY <1>0, <1>8, <1>9, Induct
<1>11. Good(Len(r))
  <2>1. N \in 0 .. N
    BY <1>0
  <2> QED  BY <1>0, <1>10, <2>1
<1> QED  BY <1>5, <1>11 DEF ReplayPaired
-----------------------------------------------------------------------------
(* The rollout and the history it is rebuilt to, in step *)

\* The records are paired, and what is rebuilt from them is the history h.
InStep(r, h, n) ==
    /\ r \in Seq(Records(n)) /\ h \in Histories(n)
    /\ \A p \in 1 .. Len(r) : PairedRecord(r, p)
    /\ WellPaired(h, Len(r))
    /\ ReconstructHistoryFromRollout(r).items = h

\* One more record leaves the earlier ones paired.
LEMMA RecordsPaired ==
    ASSUME NEW S, NEW r \in Seq(S), \A p \in 1 .. Len(r) : PairedRecord(r, p), NEW x, NEW b,
           Extends(b, r, x), PairedRecord(b, Len(r) + 1)
    PROVE  \A p \in 1 .. Len(b) : PairedRecord(b, p)
<1> SUFFICES ASSUME NEW p \in 1 .. Len(b) PROVE PairedRecord(b, p)
  OBVIOUS
<1>0. Len(b) = Len(r) + 1
  BY DEF Extends
<1>1. CASE p = Len(r) + 1
  BY <1>1
<1>2. CASE p \in 1 .. Len(r)
  <2>1. PairedRecord(r, p) /\ b[p] = r[p]
    BY <1>2 DEF Extends
  <2>2. p > 1 => b[p - 1] = r[p - 1]
    BY <1>2 DEF Extends
  <2> QED  BY <2>1, <2>2 DEF PairedRecord
<1> QED  BY <1>0, <1>1, <1>2

\* The open turn records an item.
LEMMA InStepItem ==
    ASSUME NEW n \in Nat, NEW r, NEW h, InStep(r, h, n), NEW t \in 1 .. n, NEW s, OpenTurn(r, t, s),
           NEW i \in TurnItems(n), Follows(i, h, Len(r)),
           i.k = "output" => IsItem(r[Len(r)], "call") /\ r[Len(r)].i.v = i.v
    PROVE  InStep(Append(r, Response(i)), Append(h, i), n)
<1> DEFINE x == Response(i)
           b == Append(r, x)
<1>0. /\ r \in Seq(Records(n)) /\ h \in Histories(n) /\ h \in Seq(TurnItems(n))
      /\ \A p \in 1 .. Len(r) : PairedRecord(r, p)
      /\ WellPaired(h, Len(r)) /\ ReconstructHistoryFromRollout(r).items = h
  BY DEF InStep, Histories
<1>1. x \in Records(n) /\ x.k = "item" /\ x.i = i
  BY DEF Records, Response
<1> HIDE DEF x
<1>2. b \in Seq(Records(n)) /\ Extends(b, r, x)
  BY <1>0, <1>1, Appended
<1>3. s \in 1 .. Len(r)
  BY DEF OpenTurn
<1> HIDE DEF b
<1>4. ReconstructHistoryFromRollout(b).items = ReplayRecord(h, x)
  <2>1. OfTurn(x, t) /\ x.k # "compacted"
    BY <1>1 DEF OfTurn
  <2> QED  BY <1>0, <1>2, <2>1, RebuiltAppend
<1>5. ReplayRecord(h, x) = Append(h, i)
  BY <1>1 DEF ReplayRecord
<1>6. Len(b) = Len(r) + 1 /\ Len(r) \in Nat /\ b[Len(r) + 1] = x /\ b[Len(r)] = r[Len(r)]
  BY <1>0, <1>2, <1>3 DEF Extends
<1>7. WellPaired(Append(h, i), Len(b))
  BY <1>0, <1>6, PairedAppend
<1>8. PairedRecord(b, Len(r) + 1)
  <2>1. Len(r) + 1 > 1 /\ (Len(r) + 1) - 1 = Len(r)
    BY <1>3, <1>6
  <2> QED  BY <1>1, <1>6, <2>1 DEF PairedRecord, IsItem, Follows
<1>9. \A p \in 1 .. Len(b) : PairedRecord(b, p)
  BY <1>0, <1>2, <1>8, RecordsPaired
<1>10. Append(h, i) \in Histories(n)
  BY <1>0 DEF Histories
<1>11. InStep(b, Append(h, i), n)
  BY <1>2, <1>4, <1>5, <1>7, <1>9, <1>10 DEF InStep
<1> QED  BY <1>11 DEF b, x

\* It tells its settings, or ends.
LEMMA InStepMark ==
    ASSUME NEW n \in Nat, NEW r, NEW h, InStep(r, h, n), NEW t \in 1 .. n, NEW s, OpenTurn(r, t, s),
           NEW x \in Records(n), x.k \in {"context", "complete", "aborted"}, x.t = t
    PROVE  InStep(Append(r, x), h, n)
<1> DEFINE b == Append(r, x)
<1>0. /\ r \in Seq(Records(n)) /\ h \in Histories(n)
      /\ \A p \in 1 .. Len(r) : PairedRecord(r, p)
      /\ WellPaired(h, Len(r)) /\ ReconstructHistoryFromRollout(r).items = h
  BY DEF InStep
<1>2. b \in Seq(Records(n)) /\ Extends(b, r, x)
  BY <1>0, Appended
<1> HIDE DEF b
<1>4. ReconstructHistoryFromRollout(b).items = ReplayRecord(h, x)
  <2>1. OfTurn(x, t) /\ x.k # "compacted"
    BY DEF OfTurn
  <2> QED  BY <1>0, <1>2, <2>1, RebuiltAppend
<1>5. ReplayRecord(h, x) = h
  BY DEF ReplayRecord
<1>6. Len(b) = Len(r) + 1 /\ Len(r) \in Nat /\ b[Len(r) + 1] = x
  BY <1>0, <1>2 DEF Extends
<1>7. WellPaired(h, Len(b))
  BY <1>0, <1>6, PairedLater
<1>8. PairedRecord(b, Len(r) + 1)
  BY <1>6 DEF PairedRecord, IsItem
<1>9. \A p \in 1 .. Len(b) : PairedRecord(b, p)
  BY <1>0, <1>2, <1>8, RecordsPaired
<1>10. InStep(b, h, n)
  BY <1>0, <1>2, <1>4, <1>5, <1>7, <1>9 DEF InStep
<1> QED  BY <1>10 DEF b

\* It compacts the history.
LEMMA InStepCompacted ==
    ASSUME NEW n \in Nat, NEW r, NEW h, InStep(r, h, n), NEW t \in 1 .. n, NEW s, OpenTurn(r, t, s),
           NEW g \in Histories(n), \A q \in 1 .. Len(g) : g[q].k \in KeptKinds
    PROVE  InStep(Append(r, Compacted(g)), g, n)
<1> DEFINE x == Compacted(g)
           b == Append(r, x)
<1>0. r \in Seq(Records(n)) /\ \A p \in 1 .. Len(r) : PairedRecord(r, p)
  BY DEF InStep
<1>1. x \in Records(n) /\ x.k = "compacted" /\ x.h = g
  BY DEF Records, Compacted
<1> HIDE DEF x
<1>2. b \in Seq(Records(n)) /\ Extends(b, r, x)
  BY <1>0, <1>1, Appended
<1>3. s \in 1 .. Len(r)
  BY DEF OpenTurn
<1> HIDE DEF b
<1>6. Len(b) = Len(r) + 1 /\ Len(r) \in Nat /\ b[Len(b)] = x
  BY <1>0, <1>2 DEF Extends
<1>4. OpenTurn(b, t, s)
  <2>1. OfTurn(x, t)
    BY <1>1 DEF OfTurn
  <2> QED  BY <1>0, <1>2, <2>1, OpenTurnGrows
<1>5. ReconstructHistoryFromRollout(b).items = g
  <2>1. s < Len(b)
    BY <1>3, <1>6
  <2>2. b[Len(b)].k = "compacted" /\ b[Len(b)].h = g
    BY <1>1, <1>6
  <2> QED  BY <1>2, <1>4, <2>1, <2>2, RebuiltCompacted
<1>7. WellPaired(g, Len(b))
  BY KeptPaired
<1>8. PairedRecord(b, Len(r) + 1)
  BY <1>1, <1>6 DEF PairedRecord, IsItem
<1>9. \A p \in 1 .. Len(b) : PairedRecord(b, p)
  BY <1>0, <1>2, <1>8, RecordsPaired
<1>10. InStep(b, g, n)
  BY <1>2, <1>5, <1>7, <1>9 DEF InStep
<1> QED  BY <1>10 DEF b, x

\* The next turn begins.
LEMMA InStepStarted ==
    ASSUME NEW n \in Nat, NEW r, NEW h, InStep(r, h, n)
    PROVE  LET b == Append(r, Started(n + 1))
           IN /\ InStep(b, h, n + 1)
              /\ QuietTurn(b, n + 1, Len(r) + 1)
              /\ ReconstructHistoryFromRollout(b).baseline = ReconstructHistoryFromRollout(r).baseline
<1> DEFINE x == Started(n + 1)
           b == Append(r, x)
<1>0. /\ r \in Seq(Records(n)) /\ h \in Histories(n)
      /\ \A p \in 1 .. Len(r) : PairedRecord(r, p)
      /\ WellPaired(h, Len(r)) /\ ReconstructHistoryFromRollout(r).items = h
  BY DEF InStep
<1>1. r \in Seq(Records(n + 1)) /\ h \in Histories(n + 1)
  <2>1. Records(n) \subseteq Records(n + 1) /\ Histories(n) \subseteq Histories(n + 1)
    BY RecordsGrow
  <2> QED  BY <1>0, <2>1
<1>2. x \in Records(n + 1) /\ x.k = "started" /\ n + 1 \in Nat
  BY DEF Records, Started
<1>3. b \in Seq(Records(n + 1)) /\ Extends(b, r, x)
  <2> HIDE DEF x
  <2> QED  BY <1>1, <1>2, Appended
<1>4. ReconstructHistoryFromRollout(b) = ReconstructHistoryFromRollout(r)
  <2> HIDE DEF b
  <2> QED  BY <1>1, <1>2, <1>3, RebuiltStarted
<1> HIDE DEF b
<1>5. Len(b) = Len(r) + 1 /\ Len(r) \in Nat /\ b[Len(r) + 1] = x
  BY <1>1, <1>3 DEF Extends
<1>6. PairedRecord(b, Len(r) + 1)
  <2> HIDE DEF x
  <2> QED  BY <1>2, <1>5 DEF PairedRecord, IsItem
<1>7. \A p \in 1 .. Len(b) : PairedRecord(b, p)
  BY <1>0, <1>3, <1>6, RecordsPaired
<1>8. WellPaired(h, Len(b))
  BY <1>0, <1>5, PairedLater
<1>9. InStep(b, h, n + 1)
  BY <1>0, <1>1, <1>3, <1>4, <1>7, <1>8 DEF InStep
<1>10. QuietTurn(b, n + 1, Len(r) + 1)
  BY <1>5 DEF QuietTurn, OpenTurn
<1> QED  BY <1>4, <1>9, <1>10 DEF b

\* A record of the running turn leaves it open, and a quiet one leaves it quiet.
LEMMA TurnGoesOn ==
    ASSUME NEW n \in Nat, NEW r \in Seq(Records(n)), NEW x \in Records(n), NEW t, OfTurn(x, t),
           NEW s, OpenTurn(r, t, s)
    PROVE  /\ OpenTurn(Append(r, x), t, s)
           /\ QuietTurn(r, t, s) /\ Quiet(x) => QuietTurn(Append(r, x), t, s)
<1> DEFINE b == Append(r, x)
<1>1. b \in Seq(Records(n)) /\ Extends(b, r, x)
  BY Appended
<1> HIDE DEF b
<1>2. OpenTurn(b, t, s)
  BY <1>1, OpenTurnGrows
<1>3. ASSUME QuietTurn(r, t, s), Quiet(x) PROVE QuietTurn(b, t, s)
  <2>1. s \in 1 .. Len(r)
    BY DEF OpenTurn
  <2>2. \A p \in s + 1 .. Len(b) : Quiet(b[p])
    BY <1>1, <1>3, <2>1 DEF QuietTurn, Extends
  <2> QED  BY <1>2, <2>2 DEF QuietTurn
<1> QED  BY <1>2, <1>3 DEF b
-----------------------------------------------------------------------------
(* The inductive invariant *)

\* A running task has a turn and its settings; it has told them before it samples.
TypeInv ==
    /\ turn \in Nat
    /\ baseline \in Previous /\ previous \in Previous
    /\ durable \in 0 .. Len(rollout)
    /\ phase # "idle" => turn > 0 /\ setting \in Settings
    /\ phase \in {"inputs", "sampling", "tool", "follow_up"} => baseline \in Settings

\* The rollout ends with the records of the running turn; as long as the turn has
\* told no context they are quiet.
TurnInv ==
    /\ phase # "idle" => \E s : OpenTurn(rollout, turn, s)
    /\ phase # "idle" /\ (baseline = "none" \/ phase \in {"started", "compact_task"}) =>
          \E s : QuietTurn(rollout, turn, s)

HistoryInv == InStep(rollout, items, turn)

\* A tool call waits for its output with nothing recorded in between.
ToolInv ==
    phase = "tool" => /\ Len(items) > 0 /\ items[Len(items)].k = "call"
                      /\ rollout[Len(rollout)] = Response(items[Len(items)])

BaselineInv ==
    baseline = "none" => ReconstructHistoryFromRollout(rollout).baseline = "none"

Inv == TypeInv /\ TurnInv /\ HistoryInv /\ ToolInv /\ BaselineInv

\* Initially.
LEMMA InitInv == Init => Inv
<1> SUFFICES ASSUME Init PROVE Inv
  OBVIOUS
<1> USE DEF Init
<1>1. TypeInv /\ TurnInv /\ ToolInv
  BY DEF TypeInv, TurnInv, ToolInv, Previous
<1>2. 0 \in Nat /\ <<>> \in Seq(Records(0)) /\ <<>> \in Histories(0) /\ Len(<<>>) = 0
  BY DEF Histories
<1> DEFINE r == <<>>
<1>3. Scan(r)[1] = NewScan
  <2>1. Scan(r)[Len(r) + 1] = NewScan
    BY <1>2, ScanDef
  <2>2. Len(r) + 1 = 1
    OBVIOUS
  <2> QED  BY <2>1, <2>2
<1>4. ReverseScan(r) = NewScan
  BY <1>3 DEF ReverseScan, NewScan
<1>5. BaseOf(NewScan) = <<>> /\ NewScan.from = 1 /\ NewScan.ref = "never"
  BY DEF BaseOf, NewScan
<1>6. ReconstructHistoryFromRollout(r).items = Replay(r, 1, <<>>)[Len(r)]
  BY <1>4, <1>5, RebuiltFields
<1>7. Replay(r, 1, <<>>)[Len(r)] = <<>>
  <2>1. r \in Seq(Records(0)) /\ 1 \in 1 .. Len(r) + 1 /\ Len(r) \in 1 - 1 .. Len(r) /\ Len(r) < 1
    BY <1>2
  <2> HIDE DEF r
  <2>2. \A p \in 1 - 1 .. Len(r) :
           Replay(r, 1, <<>>)[p] =
              IF p < 1 THEN <<>> ELSE ReplayRecord(Replay(r, 1, <<>>)[p - 1], r[p])
    BY <2>1, ReplayDef
  <2> QED  BY <2>1, <2>2
<1>8. ReconstructHistoryFromRollout(r).baseline = "none"
  BY <1>4, <1>5, RebuiltFields, SettingsAreNoMarks
<1>9. HistoryInv
  <2>1. \A p \in 1 .. Len(r) : PairedRecord(r, p)
    OBVIOUS
  <2>2. WellPaired(r, Len(r))
    BY DEF WellPaired
  <2> HIDE DEF r
  <2>3. InStep(r, r, 0)
    BY <1>2, <1>6, <1>7, <2>1, <2>2 DEF InStep, r
  <2> QED  BY <2>3 DEF HistoryInv, r
<1> QED  BY <1>1, <1>8, <1>9 DEF Inv, BaselineInv

\* What the invariant says while a task runs.
LEMMA Running ==
    ASSUME Inv, phase # "idle"
    PROVE  /\ turn \in Nat /\ turn \in 1 .. turn /\ setting \in Settings
           /\ InStep(rollout, items, turn) /\ rollout \in Seq(Records(turn))
           /\ items \in Histories(turn) /\ Len(rollout) \in Nat
           /\ \E s : OpenTurn(rollout, turn, s)
<1>1. turn \in Nat /\ turn > 0 /\ setting \in Settings /\ \E s : OpenTurn(rollout, turn, s)
  BY DEF Inv, TypeInv, TurnInv
<1>2. InStep(rollout, items, turn)
  BY DEF Inv, HistoryInv
<1>3. rollout \in Seq(Records(turn)) /\ items \in Histories(turn)
  BY <1>2 DEF InStep
<1>4. Len(rollout) \in Nat
  BY <1>3
<1> QED  BY <1>1, <1>2, <1>3, <1>4

\* Items of the running turn.
LEMMA OwnItems ==
    ASSUME turn \in 1 .. turn, NEW k \in ItemKinds, NEW v \in Settings \cup Nat
    PROVE  Item(k, turn, v) \in TurnItems(turn) /\ Item(k, turn, v).k = k
           /\ Item(k, turn, v).v = v
BY DEF Item, TurnItems

\* Recording one item of the running turn.
LEMMA Records1 ==
    ASSUME Inv, phase # "idle", NEW i \in TurnItems(turn), RecordConversationItems(<<i>>),
           Follows(i, items, Len(rollout)),
           i.k = "output" =>
              IsItem(rollout[Len(rollout)], "call") /\ rollout[Len(rollout)].i.v = i.v
    PROVE  /\ rollout' = Append(rollout, Response(i)) /\ items' = Append(items, i)
           /\ InStep(rollout', items', turn) /\ \E s : OpenTurn(rollout', turn, s)
           /\ Len(rollout') = Len(rollout) + 1
<1>1. /\ turn \in Nat /\ turn \in 1 .. turn /\ InStep(rollout, items, turn)
      /\ rollout \in Seq(Records(turn)) /\ items \in Histories(turn)
  BY Running
<1>2. PICK s : OpenTurn(rollout, turn, s)
  BY Running
<1>3. items' = Append(items, i)
  <2>1. items' = items \o <<i>>
    BY DEF RecordConversationItems
  <2> QED  BY <1>1, <2>1 DEF Histories
<1>4. Response(i) \in Records(turn) /\ OfTurn(Response(i), turn)
  BY DEF Records, Response, OfTurn
<1>5. rollout' = Append(rollout, Response(i))
  <2>1. [n \in DOMAIN <<i>> |-> Response(<<i>>[n])] = <<Response(i)>>
    OBVIOUS
  <2>2. rollout' = rollout \o <<Response(i)>>
    BY <2>1 DEF RecordConversationItems, Persist
  <2> QED  BY <1>1, <1>4, <2>2
<1>6. InStep(Append(rollout, Response(i)), Append(items, i), turn)
  BY <1>1, <1>2, InStepItem
<1>7. OpenTurn(Append(rollout, Response(i)), turn, s)
  BY <1>1, <1>2, <1>4, TurnGoesOn
<1>8. Len(Append(rollout, Response(i))) = Len(rollout) + 1
  BY <1>1, <1>4
<1> QED  BY <1>3, <1>5, <1>6, <1>7, <1>8

\* The invariant where a turn under way has told its context.
LEMMA ToldInv ==
    ASSUME turn' \in Nat, turn' > 0, setting' \in Settings, baseline' \in Settings,
           previous' \in Previous, durable' \in 0 .. Len(rollout'),
           InStep(rollout', items', turn'), \E s : OpenTurn(rollout', turn', s),
           phase' \notin {"started", "compact_task", "tool"}
    PROVE  Inv'
<1>1. baseline' # "none" /\ baseline' \in Previous
  BY SettingsAreNoMarks DEF Previous
<1>2. TypeInv'
  BY <1>1 DEF TypeInv
<1>3. TurnInv'
  BY <1>1 DEF TurnInv
<1>4. HistoryInv' /\ ToolInv' /\ BaselineInv'
  BY <1>1 DEF HistoryInv, ToolInv, BaselineInv
<1> QED  BY <1>2, <1>3, <1>4 DEF Inv

\* A turn begins.
LEMMA StartInv ==
    ASSUME Inv, NEW v \in Settings, StartTurn(v) \/ StartCompactTask(v)
    PROVE  Inv'
<1>1. /\ phase = "idle" /\ turn' = turn + 1 /\ setting' = v
      /\ phase' \in {"started", "compact_task"} /\ rollout' = rollout \o <<Started(turn')>>
      /\ UNCHANGED <<items, baseline, previous, durable, deviations>>
  BY DEF StartTurn, StartCompactTask, Persist
<1>2. turn \in Nat /\ InStep(rollout, items, turn) /\ rollout \in Seq(Records(turn))
  BY DEF Inv, TypeInv, HistoryInv, InStep
<1>3. rollout' = Append(rollout, Started(turn + 1)) /\ Len(rollout') = Len(rollout) + 1
  BY <1>1, <1>2
<1>4. /\ InStep(rollout', items', turn')
      /\ QuietTurn(rollout', turn', Len(rollout) + 1)
      /\ ReconstructHistoryFromRollout(rollout').baseline
            = ReconstructHistoryFromRollout(rollout).baseline
  <2> DEFINE b == Append(rollout, Started(turn + 1))
  <2>1. /\ InStep(b, items, turn + 1) /\ QuietTurn(b, turn + 1, Len(rollout) + 1)
        /\ ReconstructHistoryFromRollout(b).baseline
              = ReconstructHistoryFromRollout(rollout).baseline
    BY <1>2, InStepStarted
  <2>2. rollout' = b /\ items' = items /\ turn' = turn + 1
    BY <1>1, <1>3
  <2> HIDE DEF b
  <2> QED  BY <2>1, <2>2
<1>5. TypeInv'
  BY <1>1, <1>2, <1>3 DEF Inv, TypeInv
<1>6. TurnInv'
  BY <1>4 DEF TurnInv, QuietTurn
<1>7. HistoryInv' /\ ToolInv' /\ BaselineInv'
  BY <1>1, <1>4 DEF Inv, HistoryInv, ToolInv, BaselineInv
<1> QED  BY <1>5, <1>6, <1>7 DEF Inv

\* Settings told: everything, what changed, or nothing new.
LEMMA ContextInv ==
    ASSUME Inv, RecordContextUpdates
    PROVE  Inv'
<1> DEFINE new == CASE baseline = "none" -> <<Item("context", turn, setting)>>
                    [] baseline \notin {"none", setting} -> <<Item("update", turn, setting)>>
                    [] OTHER -> <<>>
           recs == [n \in DOMAIN new |-> Response(new[n])]
           x == TurnContext(turn, setting)
<1>1. /\ phase = "started" /\ phase' = "inputs" /\ items' = items \o new
      /\ rollout' = rollout \o (recs \o <<x>>) /\ baseline' = setting
      /\ UNCHANGED <<previous, durable, turn, setting, deviations>>
  BY DEF RecordContextUpdates, Persist
<1>2. /\ turn \in Nat /\ turn \in 1 .. turn /\ setting \in Settings
      /\ InStep(rollout, items, turn) /\ rollout \in Seq(Records(turn))
      /\ items \in Histories(turn) /\ Len(rollout) \in Nat
  BY <1>1, Running
<1>3. PICK s : OpenTurn(rollout, turn, s)
  BY <1>1, Running
<1>4. x \in Records(turn) /\ x.k = "context" /\ x.t = turn /\ OfTurn(x, turn)
  BY <1>2 DEF Records, TurnContext, OfTurn
<1>5. \/ new = <<>>
      \/ \E k \in {"context", "update"} : new = <<Item(k, turn, setting)>>
  OBVIOUS
<1> HIDE DEF x
<1>6. \E r : /\ InStep(r, items', turn) /\ OpenTurn(r, turn, s) /\ rollout' = Append(r, x)
             /\ Len(r) >= Len(rollout) /\ r \in Seq(Records(turn))
  <2>1. CASE new = <<>>
    <3>1. recs = <<>>
      BY <2>1
    <3>2. items' = items
      BY <1>1, <1>2, <2>1 DEF Histories
    <3> HIDE DEF recs
    <3>3. rollout' = Append(rollout, x)
      BY <1>1, <1>2, <1>4, <3>1
    <3> QED  BY <1>2, <1>3, <3>2, <3>3
  <2>2. ASSUME NEW k \in {"context", "update"}, new = <<Item(k, turn, setting)>>
        PROVE  \E r : /\ InStep(r, items', turn) /\ OpenTurn(r, turn, s) /\ rollout' = Append(r, x)
                      /\ Len(r) >= Len(rollout) /\ r \in Seq(Records(turn))
    <3> DEFINE i == Item(k, turn, setting)
               y == Response(i)
               r == Append(rollout, y)
    <3>1. i \in TurnItems(turn) /\ i.k = k
      BY <1>2, OwnItems DEF ItemKinds
    <3>2. recs = <<y>> /\ new = <<i>>
      BY <2>2
    <3> HIDE DEF i, new
    <3>3. y \in Records(turn) /\ OfTurn(y, turn)
      BY <3>1 DEF Records, Response, OfTurn
    <3>4. items' = Append(items, i)
      BY <1>1, <1>2, <3>1, <3>2 DEF Histories
    <3>5. Follows(i, items, Len(rollout)) /\ i.k # "output"
      BY <3>1 DEF Follows
    <3>6. InStep(r, Append(items, i), turn)
      BY <1>2, <1>3, <3>1, <3>5, InStepItem
    <3>7. OpenTurn(r, turn, s)
      <4> HIDE DEF y
      <4> QED  BY <1>2, <1>3, <3>3, TurnGoesOn
    <3>8. rollout' = Append(r, x) /\ Len(r) >= Len(rollout) /\ r \in Seq(Records(turn))
      <4> HIDE DEF y, recs
      <4> QED  BY <1>1, <1>2, <1>4, <3>2, <3>3
    <3> QED  BY <3>4, <3>6, <3>7, <3>8
  <2> QED  BY <1>5, <2>1, <2>2
<1>7. PICK r : /\ InStep(r, items', turn) /\ OpenTurn(r, turn, s) /\ rollout' = Append(r, x)
               /\ Len(r) >= Len(rollout) /\ r \in Seq(Records(turn))
  BY <1>6
<1>8. InStep(rollout', items', turn)
  BY <1>2, <1>4, <1>7, InStepMark
<1>9. OpenTurn(rollout', turn, s) /\ Len(rollout') >= Len(rollout)
  BY <1>2, <1>4, <1>7, TurnGoesOn
<1>10. previous' \in Previous /\ durable' \in 0 .. Len(rollout')
  <2>1. Len(rollout') \in Nat
    BY <1>4, <1>7
  <2>2. previous \in Previous /\ durable \in 0 .. Len(rollout)
    BY DEF Inv, TypeInv
  <2> QED  BY <1>1, <1>2, <1>9, <2>1, <2>2
<1>11. /\ turn' \in Nat /\ turn' > 0 /\ setting' \in Settings /\ baseline' \in Settings
       /\ InStep(rollout', items', turn') /\ OpenTurn(rollout', turn', s)
       /\ phase' \notin {"started", "compact_task", "tool"}
  BY <1>1, <1>2, <1>8, <1>9
<1> QED  BY <1>10, <1>11, ToldInv

\* Plain items: inputs, answers and steered messages.
LEMMA PlainInv ==
    ASSUME Inv, phase \in {"inputs", "sampling", "follow_up"}, NEW k \in ItemKinds \ {"call", "output"},
           NEW v \in Nat, RecordConversationItems(<<Item(k, turn, v)>>),
           phase' \notin {"started", "compact_task", "tool"}, previous' \in {previous, setting},
           UNCHANGED <<baseline, durable, turn, setting>>
    PROVE  Inv'
<1>0. phase # "idle"
  OBVIOUS
<1>1. turn \in Nat /\ turn \in 1 .. turn /\ setting \in Settings /\ Len(rollout) \in Nat
  BY <1>0, Running
<1> DEFINE i == Item(k, turn, v)
<1>2. i \in TurnItems(turn) /\ i.k \notin {"call", "output"}
  BY <1>1, OwnItems
<1> HIDE DEF i
<1>3. RecordConversationItems(<<i>>)
  BY DEF i
<1>4. Follows(i, items, Len(rollout)) /\ i.k # "output"
  BY <1>2 DEF Follows
<1>5. /\ InStep(rollout', items', turn) /\ \E s : OpenTurn(rollout', turn, s)
      /\ Len(rollout') = Len(rollout) + 1
  BY <1>0, <1>2, <1>3, <1>4, Records1
<1>6. previous \in Previous /\ durable \in 0 .. Len(rollout) /\ baseline \in Settings
  BY DEF Inv, TypeInv
<1>7. /\ turn' \in Nat /\ turn' > 0 /\ setting' \in Settings /\ baseline' \in Settings
      /\ previous' \in Previous /\ durable' \in 0 .. Len(rollout')
  BY <1>1, <1>5, <1>6 DEF Previous
<1>8. InStep(rollout', items', turn') /\ \E s : OpenTurn(rollout', turn', s)
  BY <1>5
<1> QED  BY <1>7, <1>8, ToldInv

\* The model calls a tool.
LEMMA CallInv ==
    ASSUME Inv, CallTool
    PROVE  Inv'
<1>0. /\ phase = "sampling" /\ phase' = "tool"
      /\ RecordConversationItems(<<Item("call", turn, Len(rollout))>>)
      /\ UNCHANGED <<baseline, previous, durable, turn, setting>>
  BY DEF CallTool
<1>1. turn \in Nat /\ turn \in 1 .. turn /\ setting \in Settings /\ Len(rollout) \in Nat
      /\ items \in Histories(turn)
  BY <1>0, Running
<1> DEFINE i == Item("call", turn, Len(rollout))
<1>2. i \in TurnItems(turn) /\ i.k = "call" /\ i.v = Len(rollout)
  BY <1>1, OwnItems DEF ItemKinds
<1> HIDE DEF i
<1>3. RecordConversationItems(<<i>>)
  BY <1>0 DEF i
<1>4. Follows(i, items, Len(rollout)) /\ i.k # "output"
  BY <1>2 DEF Follows
<1>5. /\ rollout' = Append(rollout, Response(i)) /\ items' = Append(items, i)
      /\ InStep(rollout', items', turn) /\ \E s : OpenTurn(rollout', turn, s)
      /\ Len(rollout') = Len(rollout) + 1
  BY <1>0, <1>2, <1>3, <1>4, Records1
<1>6. previous \in Previous /\ durable \in 0 .. Len(rollout) /\ baseline \in Settings
  BY <1>0 DEF Inv, TypeInv
<1>a. baseline # "none" /\ baseline \in Previous
  BY <1>6, SettingsAreNoMarks DEF Previous
<1>7. TypeInv'
  BY <1>0, <1>1, <1>5, <1>6, <1>a DEF TypeInv
<1>8. TurnInv'
  BY <1>0, <1>5, <1>a DEF TurnInv
<1>9. HistoryInv' /\ BaselineInv'
  BY <1>0, <1>5, <1>a DEF HistoryInv, BaselineInv
<1>10. ToolInv'
  <2>1. rollout \in Seq(Records(turn)) /\ Response(i) \in Records(turn)
    BY <1>0, <1>2, Running DEF Records
  <2>2. Len(items') > 0 /\ items'[Len(items')] = i
    BY <1>1, <1>2, <1>5 DEF Histories
  <2>3. rollout'[Len(rollout')] = Response(i)
    BY <1>1, <1>5, <2>1
  <2> QED  BY <1>2, <2>2, <2>3 DEF ToolInv
<1> QED  BY <1>7, <1>8, <1>9, <1>10 DEF Inv

\* The tool answers.
LEMMA OutputInv ==
    ASSUME Inv, ToolOutput
    PROVE  Inv'
<1>0. /\ phase = "tool" /\ phase' = "follow_up"
      /\ RecordConversationItems(<<Item("output", turn, Last(items).v)>>)
      /\ UNCHANGED <<baseline, previous, durable, turn, setting>>
  BY DEF ToolOutput
<1>1. turn \in Nat /\ turn \in 1 .. turn /\ setting \in Settings /\ Len(rollout) \in Nat
      /\ items \in Histories(turn)
  BY <1>0, Running
<1> DEFINE c == items[Len(items)]
           i == Item("output", turn, c.v)
<1>2. Len(items) > 0 /\ c.k = "call" /\ rollout[Len(rollout)] = Response(c) /\ Last(items) = c
  BY <1>0 DEF Inv, ToolInv, Last
<1>3. c \in TurnItems(turn)
  BY <1>1, <1>2 DEF Histories
<1> HIDE DEF c
<1>4. c.v \in Settings \cup Nat
  BY <1>3 DEF TurnItems
<1>5. i \in TurnItems(turn) /\ i.k = "output" /\ i.v = c.v
  BY <1>1, <1>4, OwnItems DEF ItemKinds
<1> HIDE DEF i
<1>6. RecordConversationItems(<<i>>)
  BY <1>0, <1>2 DEF i
<1>7. Follows(i, items, Len(rollout))
  BY <1>2, <1>5 DEF Follows, c
<1>8. IsItem(rollout[Len(rollout)], "call") /\ rollout[Len(rollout)].i.v = i.v
  BY <1>2, <1>5 DEF IsItem, Response
<1>9. /\ InStep(rollout', items', turn) /\ \E s : OpenTurn(rollout', turn, s)
      /\ Len(rollout') = Len(rollout) + 1
  BY <1>0, <1>5, <1>6, <1>7, <1>8, Records1
<1>10. previous \in Previous /\ durable \in 0 .. Len(rollout) /\ baseline \in Settings
  BY <1>0 DEF Inv, TypeInv
<1>11. /\ turn' \in Nat /\ turn' > 0 /\ setting' \in Settings /\ baseline' \in Settings
       /\ previous' \in Previous /\ durable' \in 0 .. Len(rollout')
  BY <1>0, <1>1, <1>9, <1>10 DEF Previous
<1>12. InStep(rollout', items', turn') /\ \E s : OpenTurn(rollout', turn', s)
  BY <1>0, <1>9
<1> QED  BY <1>0, <1>11, <1>12, ToldInv

\* Steps that record nothing: a compaction that fails, a hook that stops the
\* input, the next request.
LEMMA SilentInv ==
    ASSUME Inv, CompactFails \/ BlockInput \/ FollowUp
    PROVE  Inv'
<1>1. /\ UNCHANGED <<items, baseline, previous, rollout, durable, turn, setting>>
      /\ phase \in {"started", "compact_task", "follow_up", "inputs"}
      /\ phase' = "ending" \/ (phase = "follow_up" /\ phase' = "sampling")
  BY DEF CompactFails, BlockInput, FollowUp
<1>2. TypeInv'
  BY <1>1 DEF Inv, TypeInv
<1>3. TurnInv'
  BY <1>1 DEF Inv, TurnInv
<1>4. HistoryInv' /\ ToolInv' /\ BaselineInv'
  BY <1>1 DEF Inv, HistoryInv, ToolInv, BaselineInv
<1> QED  BY <1>2, <1>3, <1>4 DEF Inv

\* A quiet record of a quiet turn.
LEMMA QuietRecord ==
    ASSUME NEW n \in Nat, NEW r \in Seq(Records(n)), NEW t \in 1 .. n, NEW s, QuietTurn(r, t, s),
           NEW x \in Records(n), OfTurn(x, t), Quiet(x), x.k # "compacted"
    PROVE  ReconstructHistoryFromRollout(Append(r, x)).baseline
              = ReconstructHistoryFromRollout(r).baseline
<1>1. Append(r, x) \in Seq(Records(n)) /\ Extends(Append(r, x), r, x)
  BY Appended
<1> QED  BY <1>1, QuietAppend

\* A turn that was quiet when its task began to end still is.
LEMMA StillQuiet ==
    ASSUME Inv, phase # "idle", baseline = "none"
    PROVE  /\ \E s : QuietTurn(rollout, turn, s)
           /\ ReconstructHistoryFromRollout(rollout).baseline = "none"
BY DEF Inv, TurnInv, BaselineInv

\* The task ends.
LEMMA CompleteInv ==
    ASSUME Inv, Complete
    PROVE  Inv'
<1> DEFINE x == Ended("complete", turn)
<1>1. /\ phase = "ending" /\ phase' = "idle" /\ durable' = Len(rollout)
      /\ rollout' = rollout \o <<x>>
      /\ UNCHANGED <<items, baseline, previous, turn, setting, deviations>>
  BY DEF Complete, Persist
<1>2. /\ turn \in Nat /\ turn \in 1 .. turn /\ InStep(rollout, items, turn)
      /\ rollout \in Seq(Records(turn)) /\ Len(rollout) \in Nat
  BY <1>1, Running
<1>3. PICK s : OpenTurn(rollout, turn, s)
  BY <1>1, Running
<1>4. x \in Records(turn) /\ x.k = "complete" /\ x.t = turn /\ OfTurn(x, turn) /\ Quiet(x)
  BY <1>2 DEF Records, Ended, OfTurn, Quiet
<1> HIDE DEF x
<1>5. rollout' = Append(rollout, x) /\ Len(rollout') = Len(rollout) + 1
  BY <1>1, <1>2, <1>4
<1>6. InStep(rollout', items', turn')
  <2>1. InStep(Append(rollout, x), items, turn)
    BY <1>2, <1>3, <1>4, InStepMark
  <2> QED  BY <1>1, <1>5, <2>1
<1>7. baseline = "none" => ReconstructHistoryFromRollout(rollout').baseline = "none"
  <2> SUFFICES ASSUME baseline = "none"
               PROVE  ReconstructHistoryFromRollout(rollout').baseline = "none"
    OBVIOUS
  <2>1. PICK q : QuietTurn(rollout, turn, q)
    BY <1>1, StillQuiet
  <2>2. ReconstructHistoryFromRollout(Append(rollout, x)).baseline
           = ReconstructHistoryFromRollout(rollout).baseline
    BY <1>2, <1>4, <2>1, QuietRecord
  <2> QED  BY <1>1, <1>5, <2>2, StillQuiet
<1>8. TypeInv' /\ TurnInv'
  BY <1>1, <1>2, <1>5 DEF Inv, TypeInv, TurnInv
<1>9. HistoryInv' /\ ToolInv' /\ BaselineInv'
  BY <1>1, <1>6, <1>7 DEF HistoryInv, ToolInv, BaselineInv
<1> QED  BY <1>8, <1>9 DEF Inv

\* The task is interrupted.
LEMMA AbortInv ==
    ASSUME Inv, Abort
    PROVE  Inv'
<1> DEFINE i == Item("marker", turn, 0)
           y == Response(i)
           x == Ended("aborted", turn)
           r == Append(rollout, y)
<1>1. /\ phase # "idle" /\ phase' = "idle" /\ durable' = Len(rollout) + 1
      /\ items' = Append(items, i)
      /\ rollout' = rollout \o <<Response(Last(items')), x>>
      /\ UNCHANGED <<baseline, previous, turn, setting>>
  BY DEF Abort, Persist
<1>2. /\ turn \in Nat /\ turn \in 1 .. turn /\ InStep(rollout, items, turn)
      /\ rollout \in Seq(Records(turn)) /\ Len(rollout) \in Nat /\ items \in Histories(turn)
  BY <1>1, Running
<1>3. PICK s : OpenTurn(rollout, turn, s)
  BY <1>1, Running
<1>4. x \in Records(turn) /\ x.k = "aborted" /\ x.t = turn /\ OfTurn(x, turn) /\ Quiet(x)
  BY <1>2 DEF Records, Ended, OfTurn, Quiet
<1>5. i \in TurnItems(turn) /\ i.k = "marker"
  BY <1>2, OwnItems DEF ItemKinds
<1> HIDE DEF x, i
<1>6. y \in Records(turn) /\ OfTurn(y, turn) /\ Quiet(y) /\ y.k # "compacted"
  BY <1>5 DEF Records, Response, OfTurn, Quiet, IsUserTurnBoundary
<1>7. Last(items') = i
  BY <1>1, <1>2, <1>5 DEF Last, Histories
<1>8. rollout' = rollout \o <<y, x>>
  BY <1>1, <1>7
<1>a. Follows(i, items, Len(rollout)) /\ i.k # "output"
  BY <1>5 DEF Follows
<1>9. InStep(r, items', turn)
  BY <1>1, <1>2, <1>3, <1>5, <1>a, InStepItem
<1> HIDE DEF y
<1>10. r \in Seq(Records(turn)) /\ rollout' = Append(r, x) /\ Len(rollout') = Len(rollout) + 2
  BY <1>2, <1>4, <1>6, <1>8
<1>11. OpenTurn(r, turn, s)
  BY <1>2, <1>3, <1>6, TurnGoesOn
<1>12. baseline = "none" => ReconstructHistoryFromRollout(rollout').baseline = "none"
  <2> SUFFICES ASSUME baseline = "none"
               PROVE  ReconstructHistoryFromRollout(rollout').baseline = "none"
    OBVIOUS
  <2>1. PICK q : QuietTurn(rollout, turn, q)
    BY <1>1, StillQuiet
  <2>2. ReconstructHistoryFromRollout(r).baseline
           = ReconstructHistoryFromRollout(rollout).baseline
    BY <1>2, <1>6, <2>1, QuietRecord
  <2>3. QuietTurn(r, turn, q)
    <3>1. OpenTurn(rollout, turn, q)
      BY <2>1 DEF QuietTurn
    <3> QED  BY <1>2, <1>6, <2>1, <3>1, TurnGoesOn
  <2> HIDE DEF r
  <2>4. ReconstructHistoryFromRollout(Append(r, x)).baseline
           = ReconstructHistoryFromRollout(r).baseline
    BY <1>2, <1>4, <1>10, <2>3, QuietRecord
  <2> QED  BY <1>1, <1>10, <2>2, <2>4, StillQuiet
<1> HIDE DEF r
<1>13. InStep(rollout', items', turn')
  <2>1. InStep(Append(r, x), items', turn)
    BY <1>2, <1>4, <1>9, <1>11, InStepMark
  <2> QED  BY <1>1, <1>10, <2>1
<1>14. TypeInv' /\ TurnInv'
  BY <1>1, <1>2, <1>10 DEF Inv, TypeInv, TurnInv
<1>15. HistoryInv' /\ ToolInv' /\ BaselineInv'
  BY <1>1, <1>12, <1>13 DEF HistoryInv, ToolInv, BaselineInv
<1> QED  BY <1>14, <1>15 DEF Inv

\* A reconstruction from paired records puts the session in step with them.
LEMMA ReconstructionInv ==
    ASSUME turn \in Nat, rollout' \in Seq(Records(turn)),
           \A p \in 1 .. Len(rollout') : PairedRecord(rollout', p),
           ApplyRolloutReconstruction(rollout'), durable' \in 0 .. Len(rollout'),
           phase' = "idle", turn' = turn
    PROVE  Inv'
<1> DEFINE z == ReconstructHistoryFromRollout(rollout')
<1>1. items' = z.items /\ baseline' = z.baseline /\ previous' = z.previous
  BY DEF ApplyRolloutReconstruction
<1>2. z.items \in Histories(turn) /\ z.previous \in Previous /\ z.baseline \in Previous
  BY RebuiltTyped
<1>3. WellPaired(z.items, Len(rollout'))
  BY RebuiltPaired
<1>4. InStep(rollout', items', turn')
  BY <1>1, <1>2, <1>3 DEF InStep
<1>5. TypeInv' /\ TurnInv'
  BY <1>1, <1>2 DEF TypeInv, TurnInv
<1>6. HistoryInv' /\ ToolInv' /\ BaselineInv'
  BY <1>1, <1>4 DEF HistoryInv, ToolInv, BaselineInv
<1> QED  BY <1>5, <1>6 DEF Inv

\* The thread is rolled back.
LEMMA RollbackInv ==
    ASSUME Inv, NEW n \in 1 .. MaxTurns, ThreadRollback(n)
    PROVE  Inv'
<1> DEFINE x == RolledBack(n)
<1>1. /\ turn \in Nat /\ rollout \in Seq(Records(turn)) /\ Len(rollout) \in Nat
      /\ \A p \in 1 .. Len(rollout) : PairedRecord(rollout, p)
  BY DEF Inv, TypeInv, HistoryInv, InStep
<1>2. x \in Records(turn) /\ x.k = "rolled_back"
  <2>1. n \in Nat
    BY BoundsAreNaturals
  <2> QED  BY <2>1 DEF Records, RolledBack
<1>3. /\ phase' = "idle" /\ turn' = turn /\ durable' = Len(rollout')
      /\ ApplyRolloutReconstruction(Append(rollout, x)) /\ rollout' = rollout \o <<x>>
  BY DEF ThreadRollback, Persist
<1> HIDE DEF x
<1>4. rollout' = Append(rollout, x)
  BY <1>1, <1>2, <1>3
<1>5. rollout' \in Seq(Records(turn)) /\ Extends(rollout', rollout, x)
  BY <1>1, <1>2, <1>4, Appended
<1>6. PairedRecord(rollout', Len(rollout) + 1)
  BY <1>2, <1>5 DEF PairedRecord, IsItem, Extends
<1>7. \A p \in 1 .. Len(rollout') : PairedRecord(rollout', p)
  BY <1>1, <1>5, <1>6, RecordsPaired
<1>8. durable' \in 0 .. Len(rollout') /\ ApplyRolloutReconstruction(rollout')
  <2>1. Len(rollout') \in Nat
    BY <1>5
  <2>2. ApplyRolloutReconstruction(rollout')
    BY <1>3, <1>4 DEF ApplyRolloutReconstruction
  <2> QED  BY <1>3, <2>1, <2>2
<1> QED  BY <1>1, <1>3, <1>5, <1>7, <1>8, ReconstructionInv

\* The process ends and the thread is resumed from what is left of the file.
LEMMA ResumeInv ==
    ASSUME Inv, NEW kept \in durable .. Len(rollout), RestartAndResume(kept)
    PROVE  Inv'
<1>1. /\ turn \in Nat /\ rollout \in Seq(Records(turn)) /\ durable \in 0 .. Len(rollout)
      /\ \A p \in 1 .. Len(rollout) : PairedRecord(rollout, p)
  BY DEF Inv, TypeInv, HistoryInv, InStep
<1>2. /\ phase' = "idle" /\ turn' = turn /\ durable' = kept
      /\ ApplyRolloutReconstruction(rollout') /\ rollout' = SubSeq(rollout, 1, kept)
  BY DEF RestartAndResume
<1>3. /\ kept \in 0 .. Len(rollout) /\ rollout' \in Seq(Records(turn)) /\ Len(rollout') = kept
      /\ \A p \in 1 .. kept : rollout'[p] = rollout[p]
  BY <1>1, <1>2
<1>4. \A p \in 1 .. Len(rollout') : PairedRecord(rollout', p)
  <2> SUFFICES ASSUME NEW p \in 1 .. kept PROVE PairedRecord(rollout', p)
    BY <1>3
  <2>1. PairedRecord(rollout, p) /\ rollout'[p] = rollout[p]
    BY <1>1, <1>3
  <2>2. p > 1 => rollout'[p - 1] = rollout[p - 1]
    BY <1>1, <1>3
  <2> QED  BY <2>1, <2>2 DEF PairedRecord
<1> QED  BY <1>1, <1>2, <1>3, <1>4, ReconstructionInv

\* The history is compacted.
LEMMA CompactInStep ==
    ASSUME Inv, phase # "idle", NEW inject \in BOOLEAN, Compact(inject)
    PROVE  /\ InStep(rollout', items', turn') /\ \E s : OpenTurn(rollout', turn', s)
           /\ Len(rollout') \in Nat /\ Len(rollout') >= Len(rollout)
           /\ baseline' = (IF inject THEN setting ELSE "none")
           /\ UNCHANGED <<previous, durable, turn, setting>>
           /\ ~inject /\ (\E s : QuietTurn(rollout, turn, s)) =>
                 /\ \E s : QuietTurn(rollout', turn', s)
                 /\ ReconstructHistoryFromRollout(rollout').baseline = "none"
<1> DEFINE i == Item("agent", turn, Len(rollout))
           j == Item("summary", turn, Len(rollout))
           c == Item("context", turn, setting)
           asked == Append(items, i)
           built == BuildCompactedHistory(asked, j)
           new == IF inject THEN InsertInitialContext(built, c) ELSE built
           y == Response(i)
           w == Compacted(new)
           x == TurnContext(turn, setting)
           r == Append(rollout, y)
           b == Append(r, w)
<1>1. /\ items' = new
      /\ baseline' = (IF inject THEN setting ELSE "none")
      /\ rollout' = rollout \o (<<Response(Last(asked)), w>> \o (IF inject THEN <<x>> ELSE <<>>))
      /\ UNCHANGED <<previous, durable, turn, setting>>
  BY DEF Compact, Persist
<1>2. /\ turn \in Nat /\ turn \in 1 .. turn /\ InStep(rollout, items, turn)
      /\ rollout \in Seq(Records(turn)) /\ Len(rollout) \in Nat /\ items \in Histories(turn)
      /\ setting \in Settings
  BY Running
<1>3. PICK s : OpenTurn(rollout, turn, s)
  BY Running
<1>4. /\ i \in TurnItems(turn) /\ i.k = "agent" /\ j \in TurnItems(turn) /\ j.k = "summary"
      /\ c \in TurnItems(turn) /\ c.k = "context"
  BY <1>2, OwnItems DEF ItemKinds
<1> HIDE DEF i, j, c
<1>5. asked \in Histories(turn) /\ Last(asked) = i
  BY <1>2, <1>4 DEF Histories, Last
<1> HIDE DEF asked
<1>6. /\ built \in Histories(turn) /\ \A p \in 1 .. Len(built) : built[p].k \in KeptKinds
      /\ built # <<>>
  BY <1>2, <1>4, <1>5, BuiltTyped
<1> HIDE DEF built
<1>8. new \in Histories(turn) /\ \A p \in 1 .. Len(new) : new[p].k \in KeptKinds
  <2>1. CASE inject
    BY <1>2, <1>4, <1>6, <2>1, InsertedTyped
  <2>2. CASE ~inject
    BY <1>6, <2>2
  <2> QED  BY <2>1, <2>2
<1> HIDE DEF new
<1>9. /\ y \in Records(turn) /\ OfTurn(y, turn) /\ Quiet(y) /\ y.k # "compacted"
      /\ w \in Records(turn) /\ OfTurn(w, turn) /\ Quiet(w) /\ w.k = "compacted"
      /\ x \in Records(turn) /\ OfTurn(x, turn) /\ x.k = "context" /\ x.t = turn
  BY <1>2, <1>4, <1>8 DEF Records, Response, Compacted, TurnContext, OfTurn, Quiet, IsUserTurnBoundary
<1>10. InStep(r, asked, turn)
  <2>1. Follows(i, items, Len(rollout)) /\ i.k # "output"
    BY <1>4 DEF Follows
  <2> QED  BY <1>2, <1>3, <1>4, <2>1, InStepItem DEF asked
<1>a. rollout' = rollout \o (<<y, w>> \o (IF inject THEN <<x>> ELSE <<>>))
  BY <1>1, <1>5
<1> HIDE DEF y
<1>11. r \in Seq(Records(turn)) /\ OpenTurn(r, turn, s)
  BY <1>2, <1>3, <1>9, TurnGoesOn
<1>12. InStep(b, new, turn)
  <2> HIDE DEF r
  <2> QED  BY <1>2, <1>8, <1>10, <1>11, InStepCompacted
<1> HIDE DEF w
<1>13. b \in Seq(Records(turn)) /\ OpenTurn(b, turn, s) /\ Len(b) = Len(rollout) + 2
       /\ b[Len(b)] = w
  <2>1. Len(r) = Len(rollout) + 1
    BY <1>2, <1>9
  <2> HIDE DEF r
  <2>2. OpenTurn(b, turn, s)
    BY <1>2, <1>9, <1>11, TurnGoesOn
  <2> QED  BY <1>2, <1>9, <1>11, <2>1, <2>2
<1> HIDE DEF x
<1>14. CASE inject
  <2>1. rollout' = Append(b, x)
    BY <1>2, <1>9, <1>a, <1>14
  <2> HIDE DEF b
  <2>2. InStep(Append(b, x), new, turn)
    BY <1>2, <1>9, <1>12, <1>13, InStepMark
  <2>3. OpenTurn(Append(b, x), turn, s)
    BY <1>2, <1>9, <1>13, TurnGoesOn
  <2>4. Len(rollout') = Len(b) + 1
    BY <1>9, <1>13, <2>1
  <2>5. InStep(rollout', items', turn') /\ OpenTurn(rollout', turn', s)
    BY <1>1, <2>1, <2>2, <2>3
  <2>6. Len(rollout') \in Nat /\ Len(rollout') >= Len(rollout)
    BY <1>2, <1>13, <2>4
  <2> QED  BY <1>1, <1>14, <2>5, <2>6
<1>15. CASE ~inject
  <2>1. rollout' = b
    BY <1>2, <1>9, <1>a, <1>15
  <2>2. ASSUME NEW q, QuietTurn(rollout, turn, q)
        PROVE  /\ QuietTurn(b, turn, q)
               /\ ReconstructHistoryFromRollout(b).baseline = "none"
    <3>1. OpenTurn(rollout, turn, q) /\ q \in 1 .. Len(rollout)
      BY <2>2 DEF QuietTurn, OpenTurn
    <3>2. QuietTurn(r, turn, q) /\ OpenTurn(r, turn, q)
      BY <1>2, <1>9, <2>2, <3>1, TurnGoesOn
    <3> HIDE DEF r
    <3>3. QuietTurn(b, turn, q)
      BY <1>2, <1>9, <1>11, <3>2, TurnGoesOn
    <3> HIDE DEF b
    <3>4. q < Len(b) /\ b[Len(b)].k = "compacted"
      BY <1>2, <1>9, <1>13, <3>1
    <3> QED  BY <1>2, <1>13, <3>3, <3>4, QuietCompacted
  <2> HIDE DEF b
  <2>3. InStep(rollout', items', turn') /\ OpenTurn(rollout', turn', s)
    BY <1>1, <1>12, <1>13, <2>1
  <2>4. Len(rollout') \in Nat /\ Len(rollout') >= Len(rollout)
    BY <1>2, <1>13, <2>1
  <2>5. ASSUME NEW q, QuietTurn(rollout, turn, q)
        PROVE  /\ QuietTurn(rollout', turn', q)
               /\ ReconstructHistoryFromRollout(rollout').baseline = "none"
    BY <1>1, <2>1, <2>2, <2>5
  <2> QED  BY <1>1, <1>15, <2>3, <2>4, <2>5
<1> QED  BY <1>14, <1>15

\* The three compactions.
LEMMA CompactInv ==
    ASSUME Inv, PreTurnCompact \/ ManualCompact \/ MidTurnCompact
    PROVE  Inv'
<1>0. /\ turn \in Nat /\ baseline \in Previous /\ previous \in Previous
      /\ durable \in 0 .. Len(rollout)
      /\ phase # "idle" => turn > 0 /\ setting \in Settings
  BY DEF Inv, TypeInv
<1>1. CASE PreTurnCompact \/ ManualCompact
  <2>1. /\ phase \in {"started", "compact_task"} /\ phase' \in {"started", "ending"}
        /\ Compact(FALSE) /\ phase # "idle" /\ FALSE \in BOOLEAN
    BY <1>1 DEF PreTurnCompact, ManualCompact
  <2>2. \E s : QuietTurn(rollout, turn, s)
    BY <2>1 DEF Inv, TurnInv
  <2>3. /\ InStep(rollout', items', turn') /\ \E s : OpenTurn(rollout', turn', s)
        /\ Len(rollout') \in Nat /\ Len(rollout') >= Len(rollout)
        /\ baseline' = "none"
        /\ UNCHANGED <<previous, durable, turn, setting>>
        /\ \E s : QuietTurn(rollout', turn', s)
        /\ ReconstructHistoryFromRollout(rollout').baseline = "none"
    BY <2>1, <2>2, CompactInStep
  <2>4. Len(rollout) \in Nat
    BY <2>1, Running
  <2>5. TypeInv' /\ TurnInv'
    BY <1>0, <2>1, <2>3, <2>4 DEF TypeInv, TurnInv, Previous
  <2>6. HistoryInv' /\ ToolInv' /\ BaselineInv'
    BY <2>1, <2>3 DEF HistoryInv, ToolInv, BaselineInv
  <2> QED  BY <2>5, <2>6 DEF Inv
<1>2. CASE MidTurnCompact
  <2>1. /\ phase = "follow_up" /\ phase' \in {"sampling", "ending"}
        /\ Compact(TRUE) /\ phase # "idle" /\ TRUE \in BOOLEAN
    BY <1>2 DEF MidTurnCompact
  <2>2. /\ InStep(rollout', items', turn') /\ \E s : OpenTurn(rollout', turn', s)
        /\ Len(rollout') \in Nat /\ Len(rollout') >= Len(rollout)
        /\ baseline' = setting
        /\ UNCHANGED <<previous, durable, turn, setting>>
    BY <2>1, CompactInStep
  <2>3. Len(rollout) \in Nat
    BY <2>1, Running
  <2> QED  BY <1>0, <2>1, <2>2, <2>3, ToldInv
<1> QED  BY <1>1, <1>2

\* Every step keeps the invariant.
LEMMA StepInv == Inv /\ [Next]_vars => Inv'
<1> SUFFICES ASSUME Inv, [Next]_vars PROVE Inv'
  OBVIOUS
<1>1. ASSUME NEW v \in Settings, StartTurn(v) \/ StartCompactTask(v) PROVE Inv'
  BY <1>1, StartInv
<1>2. CASE PreTurnCompact \/ ManualCompact \/ MidTurnCompact
  BY <1>2, CompactInv
<1>3. CASE CompactFails \/ BlockInput \/ FollowUp
  BY <1>3, SilentInv
<1>4. CASE RecordContextUpdates
  BY <1>4, ContextInv
<1>5. ASSUME NEW kind \in {"user", "mail", "goal"}, RecordInput(kind) PROVE Inv'
  <2>1. /\ phase = "inputs" /\ phase' = "sampling"
        /\ RecordConversationItems(<<Item(kind, turn, 1)>>) /\ previous' = setting
        /\ UNCHANGED <<baseline, durable, turn, setting>>
    BY <1>5 DEF RecordInput
  <2>2. kind \in ItemKinds \ {"call", "output"} /\ 1 \in Nat
    BY DEF ItemKinds
  <2> QED  BY <2>1, <2>2, PlainInv
<1>6. CASE FinalAnswer
  <2>1. /\ phase = "sampling" /\ phase' = "ending"
        /\ RecordConversationItems(<<Item("agent", turn, 0)>>) /\ previous' = previous
        /\ UNCHANGED <<baseline, durable, turn, setting>>
    BY <1>6 DEF FinalAnswer
  <2>2. "agent" \in ItemKinds \ {"call", "output"} /\ 0 \in Nat
    BY DEF ItemKinds
  <2> QED  BY <2>1, <2>2, PlainInv
<1>7. CASE Steer
  <2>1. /\ phase = "follow_up" /\ phase' = "sampling"
        /\ RecordConversationItems(<<Item("user", turn, 2)>>) /\ previous' = previous
        /\ UNCHANGED <<baseline, durable, turn, setting>>
    BY <1>7 DEF Steer
  <2>2. "user" \in ItemKinds \ {"call", "output"} /\ 2 \in Nat
    BY DEF ItemKinds
  <2> QED  BY <2>1, <2>2, PlainInv
<1>8. CASE CallTool
  BY <1>8, CallInv
<1>9. CASE ToolOutput
  BY <1>9, OutputInv
<1>10. CASE Complete
  BY <1>10, CompleteInv
<1>11. CASE Abort
  BY <1>11, AbortInv
<1>12. ASSUME NEW n \in 1 .. MaxTurns, ThreadRollback(n) PROVE Inv'
  BY <1>12, RollbackInv
<1>13. ASSUME NEW kept \in durable .. Len(rollout), RestartAndResume(kept) PROVE Inv'
  BY <1>13, ResumeInv
<1>14. CASE UNCHANGED vars
  <2>1. UNCHANGED <<items, baseline, previous, rollout, durable, phase, turn, setting>>
    BY <1>14 DEF vars
  <2> QED  BY <2>1 DEF Inv, TypeInv, TurnInv, HistoryInv, ToolInv, BaselineInv
<1> QED  BY <1>1, <1>2, <1>3, <1>4, <1>5, <1>6, <1>7, <1>8, <1>9, <1>10, <1>11, <1>12, <1>13, <1>14
         DEF Next

\* The invariant holds in every reachable state.
LEMMA Invariance == Spec => []Inv
BY InitInv, StepInv, PTL DEF Spec
-----------------------------------------------------------------------------
(* What a request sends *)

\* A suffix that does not begin with an output.
LEMMA PairedSuffix ==
    ASSUME NEW I, NEW h \in Seq(I), NEW m, WellPaired(h, m), NEW c \in 1 .. Len(h) + 1,
           c <= Len(h) => h[c].k # "output"
    PROVE  WellPaired(SubSeq(h, c, Len(h)), m)
<1> DEFINE g == SubSeq(h, c, Len(h))
           d == c - 1
<1>1. Len(g) = Len(h) - d /\ d \in 0 .. Len(h) /\ \A p \in 1 .. Len(g) : g[p] = h[p + d]
  OBVIOUS
<1>2. d + 1 <= Len(h) => h[d + 1].k # "output"
  OBVIOUS
<1> HIDE DEF g, d
<1>3. \A p \in 1 .. Len(g) : p + d \in 1 .. Len(h)
  BY <1>1
<1>4. \A p \in 1 .. Len(g) : g[p].k = "call" => g[p].v \in 0 .. m - 1
  BY <1>1, <1>3 DEF WellPaired
<1>5. \A p, q \in 1 .. Len(g) : g[p].k = "call" /\ g[q].k = "call" /\ g[p].v = g[q].v => p = q
  <2> SUFFICES ASSUME NEW p \in 1 .. Len(g), NEW q \in 1 .. Len(g),
                      g[p].k = "call", g[q].k = "call", g[p].v = g[q].v
               PROVE  p = q
    OBVIOUS
  <2>1. p + d = q + d
    BY <1>1, <1>3 DEF WellPaired
  <2> QED  BY <1>1, <2>1
<1>6. \A p \in 1 .. Len(g) : g[p].k = "output" => p > 1 /\ g[p - 1].k = "call" /\ g[p - 1].v = g[p].v
  <2> SUFFICES ASSUME NEW p \in 1 .. Len(g), g[p].k = "output"
               PROVE  p > 1 /\ g[p - 1].k = "call" /\ g[p - 1].v = g[p].v
    OBVIOUS
  <2>1. h[p + d].k = "output" /\ g[p] = h[p + d]
    BY <1>1
  <2>2. h[(p + d) - 1].k = "call" /\ h[(p + d) - 1].v = h[p + d].v
    BY <1>3, <2>1 DEF WellPaired
  <2>3. p # 1
    BY <1>1, <1>2, <1>3, <2>1
  <2>4. p - 1 \in 1 .. Len(g) /\ (p - 1) + d = (p + d) - 1 /\ p > 1
    BY <1>1, <2>3
  <2> QED  BY <1>1, <2>1, <2>2, <2>4
<1>7. WellPaired(g, m)
  BY <1>4, <1>5, <1>6 DEF WellPaired
<1> QED  BY <1>7 DEF g

\* The counterpart of a removed item.
Twin(gone, i) ==
    /\ <<gone.k, i.k>> \in {<<"call", "output">>, <<"output", "call">>}
    /\ i.v = gone.v

\* Removing the oldest item of a paired history takes the output of a call along
\* and leaves a paired history.
LEMMA OldestRemoved ==
    ASSUME NEW I, NEW h \in Seq(I), NEW m, WellPaired(h, m)
    PROVE  RemoveFirstItem(h) \in Seq(I) /\ WellPaired(RemoveFirstItem(h), m)
<1>1. CASE h = <<>>
  BY <1>1 DEF RemoveFirstItem
<1>2. CASE h # <<>>
  <2> DEFINE t == Tail(h)
             gone == Head(h)
             M == {x \in 1 .. Len(t) : Twin(gone, t[x])}
  <2>1. /\ Len(h) \in Nat /\ Len(h) >= 1 /\ gone = h[1] /\ t \in Seq(I) /\ Len(t) = Len(h) - 1
        /\ \A x \in 1 .. Len(t) : t[x] = h[x + 1]
        /\ t = SubSeq(h, 2, Len(h))
    BY <1>2
  <2>2. RemoveFirstItem(h) = IF \E x \in 1 .. Len(t) : Twin(gone, t[x])
                             THEN RemoveAt(t, IF M # {} THEN Min(M) ELSE 0) ELSE t
    BY <1>2 DEF RemoveFirstItem, RemoveFirstMatch, SelectInSeq, Twin
  <2>a. gone.k # "output"
    BY <2>1 DEF WellPaired
  <2>3. CASE \E x \in 1 .. Len(t) : Twin(gone, t[x])
    <3>1. \A x \in M : x = 1 /\ h[2].k = "output" /\ Len(h) >= 2
      <4> SUFFICES ASSUME NEW x \in 1 .. Len(t), Twin(gone, t[x])
                   PROVE  x = 1 /\ h[2].k = "output" /\ Len(h) >= 2
        OBVIOUS
      <4>1. gone.k = "call" /\ t[x].k = "output" /\ t[x].v = gone.v
        BY <2>a DEF Twin
      <4>2. x + 1 \in 1 .. Len(h) /\ h[x + 1] = t[x] /\ x \in 1 .. Len(h) /\ (x + 1) - 1 = x
            /\ 1 \in 1 .. Len(h)
        BY <2>1
      <4>3. h[x].k = "call" /\ h[x].v = h[x + 1].v
        BY <4>1, <4>2 DEF WellPaired
      <4>4. x = 1
        BY <2>1, <4>1, <4>2, <4>3 DEF WellPaired
      <4> QED  BY <2>1, <4>1, <4>2, <4>4
    <3>2. M = {1} /\ h[2].k = "output" /\ Len(h) >= 2
      <4>1. M # {}
        BY <2>3
      <4> HIDE DEF M
      <4> QED  BY <3>1, <4>1
    <3>3. Min(M) = 1
      <4>1. Min({1}) = 1
        BY DEF Min
      <4> HIDE DEF M
      <4> QED  BY <3>2, <4>1
    <3>4. RemoveFirstItem(h) = RemoveAt(t, 1)
      <4> HIDE DEF M, t, gone
      <4> QED  BY <2>2, <2>3, <3>2, <3>3
    <3>5. RemoveAt(t, 1) = SubSeq(h, 3, Len(h))
      <4>1. RemoveAt(t, 1) = SubSeq(t, 1, 0) \o SubSeq(t, 2, Len(t))
        BY DEF RemoveAt
      <4> HIDE DEF t
      <4>2. SubSeq(t, 1, 0) = <<>> /\ SubSeq(t, 2, Len(t)) \in Seq(I)
        BY <2>1
      <4>3. SubSeq(t, 2, Len(t)) = SubSeq(h, 3, Len(h))
        BY <2>1, <3>2
      <4> DEFINE u == SubSeq(t, 2, Len(t))
      <4> HIDE DEF u
      <4>4. u \in Seq(I) /\ RemoveAt(t, 1) = <<>> \o u
        BY <4>1, <4>2 DEF u
      <4>5. <<>> \o u = u
        BY <4>4
      <4> QED  BY <4>3, <4>4, <4>5 DEF u
    <3>6. 3 \in 1 .. Len(h) + 1
      BY <2>1, <3>2
    <3>7. 3 <= Len(h) => h[3].k # "output"
      <4> SUFFICES ASSUME 3 <= Len(h), h[3].k = "output" PROVE FALSE
        OBVIOUS
      <4>1. 3 \in 1 .. Len(h) /\ 3 - 1 = 2
        BY <2>1
      <4> QED  BY <3>2, <4>1 DEF WellPaired
    <3>8. WellPaired(SubSeq(h, 3, Len(h)), m)
      BY <3>6, <3>7, PairedSuffix
    <3>9. SubSeq(h, 3, Len(h)) \in Seq(I)
      BY <2>1, <3>2
    <3> QED  BY <3>4, <3>5, <3>8, <3>9
  <2>4. CASE ~\E x \in 1 .. Len(t) : Twin(gone, t[x])
    <3>1. RemoveFirstItem(h) = t
      <4> HIDE DEF t, gone, M
      <4> QED  BY <2>2, <2>4
    <3>2. 2 <= Len(h) => h[2].k # "output"
      <4> SUFFICES ASSUME 2 <= Len(h), h[2].k = "output" PROVE FALSE
        OBVIOUS
      <4>1. 2 \in 1 .. Len(h) /\ 2 - 1 = 1 /\ 1 \in 1 .. Len(t)
        BY <2>1
      <4>2. h[1].k = "call" /\ h[1].v = h[2].v /\ t[1] = h[2]
        BY <2>1, <4>1 DEF WellPaired
      <4>3. Twin(gone, t[1])
        BY <2>1, <4>2 DEF Twin
      <4> QED  BY <2>4, <4>1, <4>3
    <3>3. 2 \in 1 .. Len(h) + 1
      BY <2>1
    <3>4. WellPaired(SubSeq(h, 2, Len(h)), m)
      BY <3>2, <3>3, PairedSuffix
    <3> QED  BY <2>1, <3>1, <3>4
  <2> QED  BY <2>3, <2>4
<1> QED  BY <1>1, <1>2

\* WithoutOldest computes what its recursive definition says.
Shrinks(rest, h, n) ==
    \A m \in 0 .. n : rest[m] = IF m = 0 THEN h ELSE RemoveFirstItem(rest[m - 1])

LEMMA WithoutOldestDef ==
    ASSUME NEW h, NEW n \in Nat
    PROVE  \E rest : WithoutOldest(h, n) = rest[n] /\ Shrinks(rest, h, n)
<1> DEFINE Eq(f, p) == f[p] = IF p = 0 THEN h ELSE RemoveFirstItem(f[p - 1])
           Ok(f, m) == \A p \in 0 .. m : Eq(f, p)
           T == {m \in 0 .. n : \E f : Ok(f, m)}
<1>1. 0 \in T
  <2>1. Ok([p \in {0} |-> h], 0)
    OBVIOUS
  <2> HIDE DEF Ok
  <2>2. \E f : Ok(f, 0)
    BY <2>1
  <2> QED  BY <2>2
<1>2. ASSUME NEW m \in 0 .. n - 1, m \in T PROVE m + 1 \in T
  <2>1. PICK f : Ok(f, m)
    BY <1>2
  <2> DEFINE e == [p \in 0 .. m + 1 |-> IF p <= m THEN f[p] ELSE RemoveFirstItem(f[m])]
  <2>2. Ok(e, m + 1)
    BY <2>1
  <2> HIDE DEF Ok, e
  <2>3. \E g : Ok(g, m + 1)
    BY <2>2
  <2> QED  BY <2>3
<1>3. n \in T
  <2> HIDE DEF T
  <2> QED  BY <1>1, <1>2, Induct
<1>4. PICK f : Ok(f, n)
  BY <1>3
<1> DEFINE D(g) == [p \in 0 .. n |-> IF p = 0 THEN h ELSE RemoveFirstItem(g[p - 1])]
           f0 == [p \in 0 .. n |-> f[p]]
<1>5. f0 = D(f0)
  BY <1>4
<1> DEFINE rest == CHOOSE g : g = D(g)
<1>6. rest = D(rest)
  BY <1>5
<1>7. WithoutOldest(h, n) = rest[n]
  BY DEF WithoutOldest
<1>8. \A p \in 0 .. n : Eq(rest, p)
  <2> HIDE DEF rest
  <2> QED  BY <1>6
<1>9. Shrinks(rest, h, n)
  BY <1>8 DEF Shrinks
<1> HIDE DEF rest
<1> QED  BY <1>7, <1>9

\* What is left of a paired history is paired.
LEMMA OldestDropped ==
    ASSUME NEW I, NEW h \in Seq(I), NEW m, WellPaired(h, m), NEW n \in Nat
    PROVE  WithoutOldest(h, n) \in Seq(I) /\ WellPaired(WithoutOldest(h, n), m)
<1>1. PICK rest : WithoutOldest(h, n) = rest[n] /\ Shrinks(rest, h, n)
  BY WithoutOldestDef
<1> DEFINE Fine(g) == g \in Seq(I) /\ WellPaired(g, m)
           T == {p \in 0 .. n : Fine(rest[p])}
<1>2. 0 \in T
  <2>1. rest[0] = h
    BY <1>1 DEF Shrinks
  <2> QED  BY <2>1
<1>3. \A p \in 0 .. n - 1 : p \in T => p + 1 \in T
  <2> SUFFICES ASSUME NEW p \in 0 .. n - 1, Fine(rest[p]) PROVE Fine(rest[p + 1])
    OBVIOUS
  <2>1. rest[p + 1] = RemoveFirstItem(rest[p])
    <3>1. p + 1 \in 0 .. n /\ p + 1 # 0 /\ (p + 1) - 1 = p
      OBVIOUS
    <3> QED  BY <1>1, <3>1 DEF Shrinks
  <2> QED  BY <2>1, OldestRemoved
<1>4. n \in T
  <2> HIDE DEF T
  <2>1. \A p \in 0 .. n : p \in T
    BY <1>2, <1>3, Induct
  <2> QED  BY <2>1
<1> QED  BY <1>1, <1>4

Answered(h, i) == \E p \in DOMAIN h : h[p].k = "output" /\ h[p].v = i.v

Completed(h, i) ==
    IF i.k = "call" /\ ~Answered(h, i) THEN <<i, Item("output", i.t, i.v)>> ELSE <<i>>

Completes(up, h) ==
    \A p \in 0 .. Len(h) : up[p] = IF p = 0 THEN <<>> ELSE up[p - 1] \o Completed(h, h[p])

\* EnsureCallOutputsPresent computes what its recursive definition says.
LEMMA EnsureDef ==
    ASSUME NEW I, NEW h \in Seq(I)
    PROVE  \E up : EnsureCallOutputsPresent(h) = up[Len(h)] /\ Completes(up, h)
<1> DEFINE n == Len(h)
           C(p) == Completed(h, h[p])
           Eq(f, p) == f[p] = IF p = 0 THEN <<>> ELSE f[p - 1] \o C(p)
           Ok(f, m) == \A p \in 0 .. m : Eq(f, p)
           T == {m \in 0 .. n : \E f : Ok(f, m)}
<1>0. n \in Nat
  OBVIOUS
<1>a. EnsureCallOutputsPresent(h) =
         (CHOOSE g : g = [p \in 0 .. n |-> IF p = 0 THEN <<>> ELSE g[p - 1] \o C(p)])[n]
  BY DEF EnsureCallOutputsPresent, Completed, Answered
<1> HIDE DEF C, n
<1>1. 0 \in T
  <2>1. Ok([p \in {0} |-> <<>>], 0)
    OBVIOUS
  <2> HIDE DEF Ok
  <2>2. \E f : Ok(f, 0)
    BY <2>1
  <2> QED  BY <1>0, <2>2
<1>2. ASSUME NEW m \in 0 .. n - 1, m \in T PROVE m + 1 \in T
  <2>1. PICK f : Ok(f, m)
    BY <1>2
  <2> DEFINE e == [p \in 0 .. m + 1 |-> IF p <= m THEN f[p] ELSE f[m] \o C(m + 1)]
  <2>2. Ok(e, m + 1)
    <3> SUFFICES ASSUME NEW p \in 0 .. m + 1 PROVE Eq(e, p)
      OBVIOUS
    <3>1. CASE p <= m
      <4>1. e[p] = f[p] /\ (p # 0 => e[p - 1] = f[p - 1])
        BY <1>0, <3>1
      <4> HIDE DEF e
      <4> QED  BY <2>1, <3>1, <4>1
    <3>2. CASE p = m + 1
      <4>1. e[p] = f[m] \o C(m + 1) /\ e[p - 1] = f[m] /\ p # 0
        BY <1>0, <3>2
      <4> HIDE DEF e
      <4> QED  BY <3>2, <4>1
    <3> QED  BY <1>0, <3>1, <3>2
  <2> HIDE DEF Ok, e
  <2>3. \E g : Ok(g, m + 1)
    BY <2>2
  <2> QED  BY <1>0, <2>3
<1>3. n \in T
  <2>1. \A m \in 0 .. n - 1 : m \in T => m + 1 \in T
    BY <1>2
  <2> HIDE DEF T
  <2>2. \A m \in 0 .. n : m \in T
    BY <1>0, <1>1, <2>1, Induct
  <2> QED  BY <1>0, <2>2
<1>4. PICK f : Ok(f, n)
  BY <1>3
<1> DEFINE D(g) == [p \in 0 .. n |-> IF p = 0 THEN <<>> ELSE g[p - 1] \o C(p)]
           f0 == [p \in 0 .. n |-> f[p]]
<1>5. f0 = D(f0)
  BY <1>0, <1>4
<1> DEFINE up == CHOOSE g : g = D(g)
<1>6. up = D(up)
  BY <1>5
<1>7. EnsureCallOutputsPresent(h) = up[n]
  BY <1>a
<1>8. \A p \in 0 .. n : Eq(up, p)
  <2> HIDE DEF up
  <2> QED  BY <1>6
<1>9. Completes(up, h)
  BY <1>8 DEF Completes, C, n
<1> HIDE DEF up
<1> QED  BY <1>7, <1>9 DEF n

\* Every output stands behind its call; ids of calls are distinct.
Behind(d) ==
    /\ \A x \in 1 .. Len(d) : d[x].k = "output" =>
          x > 1 /\ d[x - 1].k = "call" /\ d[x - 1].v = d[x].v
    /\ \A x, y \in 1 .. Len(d) : d[x].k = "call" /\ d[y].k = "call" /\ d[x].v = d[y].v => x = y

\* The output of the call at x follows at once.
Followed(d, x) == x < Len(d) /\ d[x + 1].k = "output" /\ d[x + 1].v = d[x].v

AllFollowed(d, n) == \A x \in 1 .. n : d[x].k = "call" => Followed(d, x)

\* An output behind its call.
LEMMA OutputBehind ==
    ASSUME NEW I, NEW d \in Seq(I), Behind(d), Len(d) > 0, AllFollowed(d, Len(d) - 1),
           d[Len(d)].k = "call", NEW o \in I, o.k = "output", o.v = d[Len(d)].v
    PROVE  Behind(Append(d, o)) /\ AllFollowed(Append(d, o), Len(d) + 1)
<1> DEFINE L == Len(d)
           g == Append(d, o)
<1>1. /\ L \in Nat /\ L > 0 /\ Len(g) = L + 1 /\ g[L + 1] = o /\ \A x \in 1 .. L : g[x] = d[x]
  OBVIOUS
<1>2. /\ \A x \in 1 .. L : d[x].k = "output" => x > 1 /\ d[x - 1].k = "call" /\ d[x - 1].v = d[x].v
      /\ \A x, y \in 1 .. L : d[x].k = "call" /\ d[y].k = "call" /\ d[x].v = d[y].v => x = y
  BY DEF Behind
<1>3. \A x \in 1 .. L - 1 : d[x].k = "call" => d[x + 1].k = "output" /\ d[x + 1].v = d[x].v
  BY DEF AllFollowed, Followed
<1>4. d[L].k = "call" /\ o.v = d[L].v
  OBVIOUS
<1> HIDE DEF g, L
<1>5. \A x \in 1 .. L + 1 : g[x].k = "output" => x > 1 /\ g[x - 1].k = "call" /\ g[x - 1].v = g[x].v
  <2> SUFFICES ASSUME NEW x \in 1 .. L + 1, g[x].k = "output"
               PROVE  x > 1 /\ g[x - 1].k = "call" /\ g[x - 1].v = g[x].v
    OBVIOUS
  <2>1. CASE x \in 1 .. L
    <3>1. x > 1 /\ d[x - 1].k = "call" /\ d[x - 1].v = d[x].v
      BY <1>1, <1>2, <2>1
    <3>2. x - 1 \in 1 .. L
      BY <1>1, <2>1, <3>1
    <3> QED  BY <1>1, <2>1, <3>1, <3>2
  <2>2. CASE x = L + 1
    <3>1. x - 1 = L /\ L \in 1 .. L /\ x > 1
      BY <1>1, <2>2
    <3> QED  BY <1>1, <1>4, <2>2, <3>1
  <2> QED  BY <1>1, <2>1, <2>2
<1>6. \A x, y \in 1 .. L + 1 : g[x].k = "call" /\ g[y].k = "call" /\ g[x].v = g[y].v => x = y
  BY <1>1, <1>2
<1>7. \A x \in 1 .. L + 1 : g[x].k = "call" => Followed(g, x)
  <2> SUFFICES ASSUME NEW x \in 1 .. L + 1, g[x].k = "call" PROVE Followed(g, x)
    OBVIOUS
  <2>1. x \in 1 .. L
    BY <1>1
  <2>2. CASE x = L
    BY <1>1, <1>4, <2>1, <2>2 DEF Followed
  <2>3. CASE x # L
    <3>1. x \in 1 .. L - 1 /\ x + 1 \in 1 .. L
      BY <1>1, <2>1, <2>3
    <3> QED  BY <1>1, <1>3, <2>1, <3>1 DEF Followed
  <2> QED  BY <2>2, <2>3
<1>8. Behind(g) /\ AllFollowed(g, L + 1)
  BY <1>1, <1>5, <1>6, <1>7 DEF Behind, AllFollowed
<1> QED  BY <1>8 DEF g, L

\* Any other item behind calls that have their outputs.
LEMMA PlainBehind ==
    ASSUME NEW I, NEW d \in Seq(I), Behind(d), AllFollowed(d, Len(d)), NEW i \in I, i.k # "output",
           \A x \in 1 .. Len(d) : d[x].k = "call" /\ i.k = "call" => d[x].v # i.v
    PROVE  Behind(Append(d, i)) /\ AllFollowed(Append(d, i), Len(d))
<1> DEFINE L == Len(d)
           g == Append(d, i)
<1>1. /\ L \in Nat /\ Len(g) = L + 1 /\ g[L + 1] = i /\ \A x \in 1 .. L : g[x] = d[x]
  OBVIOUS
<1>2. /\ \A x \in 1 .. L : d[x].k = "output" => x > 1 /\ d[x - 1].k = "call" /\ d[x - 1].v = d[x].v
      /\ \A x, y \in 1 .. L : d[x].k = "call" /\ d[y].k = "call" /\ d[x].v = d[y].v => x = y
  BY DEF Behind
<1>3. \A x \in 1 .. L : d[x].k = "call" => x < L /\ d[x + 1].k = "output" /\ d[x + 1].v = d[x].v
  BY DEF AllFollowed, Followed
<1>4. \A x \in 1 .. L : d[x].k = "call" /\ i.k = "call" => d[x].v # i.v
  OBVIOUS
<1> HIDE DEF g, L
<1>5. \A x \in 1 .. L + 1 : g[x].k = "output" => x > 1 /\ g[x - 1].k = "call" /\ g[x - 1].v = g[x].v
  <2> SUFFICES ASSUME NEW x \in 1 .. L + 1, g[x].k = "output"
               PROVE  x > 1 /\ g[x - 1].k = "call" /\ g[x - 1].v = g[x].v
    OBVIOUS
  <2>1. x \in 1 .. L
    BY <1>1
  <2>2. x > 1 /\ d[x - 1].k = "call" /\ d[x - 1].v = d[x].v
    BY <1>1, <1>2, <2>1
  <2>3. x - 1 \in 1 .. L
    BY <1>1, <2>1, <2>2
  <2> QED  BY <1>1, <2>1, <2>2, <2>3
<1>6. \A x, y \in 1 .. L + 1 : g[x].k = "call" /\ g[y].k = "call" /\ g[x].v = g[y].v => x = y
  <2> SUFFICES ASSUME NEW x \in 1 .. L + 1, NEW y \in 1 .. L + 1,
                      g[x].k = "call", g[y].k = "call", g[x].v = g[y].v
               PROVE  x = y
    OBVIOUS
  <2>1. CASE x \in 1 .. L /\ y \in 1 .. L
    BY <1>1, <1>2, <2>1
  <2>2. CASE x \in 1 .. L /\ y = L + 1
    BY <1>1, <1>4, <2>2
  <2>3. CASE x = L + 1 /\ y \in 1 .. L
    BY <1>1, <1>4, <2>3
  <2> QED  BY <1>1, <2>1, <2>2, <2>3
<1>7. \A x \in 1 .. L : g[x].k = "call" => Followed(g, x)
  <2> SUFFICES ASSUME NEW x \in 1 .. L, g[x].k = "call" PROVE Followed(g, x)
    OBVIOUS
  <2>1. x < L /\ d[x + 1].k = "output" /\ d[x + 1].v = d[x].v
    BY <1>1, <1>3
  <2>2. x + 1 \in 1 .. L
    BY <1>1, <2>1
  <2> QED  BY <1>1, <2>1, <2>2 DEF Followed
<1>8. Behind(g) /\ AllFollowed(g, L)
  BY <1>1, <1>5, <1>6, <1>7 DEF Behind, AllFollowed
<1> QED  BY <1>8 DEF g, L

\* The completion d of the first p items of h: a call without its output can only
\* be the last item, with the output next in h.
Upto(d, h, p, I) ==
    /\ d \in Seq(I) /\ Behind(d)
    /\ \A x \in 1 .. Len(d) : d[x].k = "call" =>
          Followed(d, x) \/ (x = Len(d) /\ p > 0 /\ d[x] = h[p] /\ Answered(h, h[p]))
    /\ \A x \in 1 .. Len(d) : d[x].k = "call" =>
          \E y \in 1 .. p : h[y].k = "call" /\ h[y].v = d[x].v
    /\ p > 0 /\ h[p].k = "call" /\ Answered(h, h[p]) => Len(d) > 0 /\ d[Len(d)] = h[p]

\* An answered call is answered by the next item.
LEMMA AnsweredNext ==
    ASSUME NEW I, NEW h \in Seq(I), NEW m, WellPaired(h, m), NEW p \in 1 .. Len(h),
           h[p].k = "call", Answered(h, h[p])
    PROVE  p + 1 \in 1 .. Len(h) /\ h[p + 1].k = "output" /\ h[p + 1].v = h[p].v
<1>1. PICK q \in 1 .. Len(h) : h[q].k = "output" /\ h[q].v = h[p].v
  BY DEF Answered
<1>2. q > 1 /\ h[q - 1].k = "call" /\ h[q - 1].v = h[q].v
  BY <1>1 DEF WellPaired
<1>3. q - 1 \in 1 .. Len(h)
  BY <1>1, <1>2
<1>4. q - 1 = p
  BY <1>1, <1>2, <1>3 DEF WellPaired
<1>5. q = p + 1
  BY <1>4
<1> QED  BY <1>1, <1>5

\* The output of the last call.
LEMMA UptoOutput ==
    ASSUME NEW I, NEW h \in Seq(I), NEW m, WellPaired(h, m), NEW p \in 0 .. Len(h) - 1, NEW d,
           Upto(d, h, p, I), h[p + 1].k = "output"
    PROVE  Upto(d \o Completed(h, h[p + 1]), h, p + 1, I)
<1> DEFINE i == h[p + 1]
           L == Len(d)
           g == Append(d, i)
<1>1. p + 1 \in 1 .. Len(h) /\ i \in I
  OBVIOUS
<1>2. p > 0 /\ h[p].k = "call" /\ h[p].v = i.v
  BY <1>1 DEF WellPaired
<1>3. Answered(h, h[p])
  BY <1>1, <1>2 DEF Answered
<1>4. d \in Seq(I) /\ L \in Nat /\ L > 0 /\ d[L] = h[p] /\ Behind(d)
  BY <1>2, <1>3 DEF Upto
<1>5. d \o Completed(h, i) = g
  BY <1>1, <1>4 DEF Completed
<1>6. g \in Seq(I) /\ Len(g) = L + 1 /\ g[L + 1] = i /\ \A x \in 1 .. L : g[x] = d[x]
  BY <1>1, <1>4
<1>7. \A x \in 1 .. L : d[x].k = "call" => \E y \in 1 .. p : h[y].k = "call" /\ h[y].v = d[x].v
  BY DEF Upto
<1>8. \A x \in 1 .. L : d[x].k = "call" => Followed(d, x) \/ x = L
  BY DEF Upto
<1>9. i.k = "output"
  OBVIOUS
<1> HIDE DEF g, L, i
<1>10. Behind(g) /\ AllFollowed(g, L + 1)
  <2>1. AllFollowed(d, L - 1)
    BY <1>4, <1>8 DEF AllFollowed
  <2> QED  BY <1>1, <1>2, <1>4, <1>9, <2>1, OutputBehind DEF g, L
<1>11. \A x \in 1 .. Len(g) : g[x].k = "call" => Followed(g, x)
  BY <1>6, <1>10 DEF AllFollowed
<1>12. \A x \in 1 .. Len(g) : g[x].k = "call" =>
          \E y \in 1 .. p + 1 : h[y].k = "call" /\ h[y].v = g[x].v
  <2> SUFFICES ASSUME NEW x \in 1 .. L + 1, g[x].k = "call"
               PROVE  \E y \in 1 .. p + 1 : h[y].k = "call" /\ h[y].v = g[x].v
    BY <1>6
  <2>1. x \in 1 .. L /\ g[x] = d[x]
    BY <1>4, <1>6, <1>9
  <2>2. PICK y \in 1 .. p : h[y].k = "call" /\ h[y].v = d[x].v
    BY <1>7, <2>1
  <2> QED  BY <2>1, <2>2
<1>13. Upto(g, h, p + 1, I)
  BY <1>6, <1>9, <1>10, <1>11, <1>12 DEF Upto, i
<1> QED  BY <1>5, <1>13 DEF i

\* Where no output follows, every call so far has its output.
LEMMA UptoClosed ==
    ASSUME NEW I, NEW h \in Seq(I), NEW m, WellPaired(h, m), NEW p \in 0 .. Len(h), NEW d,
           Upto(d, h, p, I), p < Len(h) => h[p + 1].k # "output"
    PROVE  AllFollowed(d, Len(d))
<1> SUFFICES ASSUME NEW x \in 1 .. Len(d), d[x].k = "call" PROVE Followed(d, x)
  BY DEF AllFollowed
<1>1. ASSUME p > 0, d[x] = h[p], Answered(h, h[p]) PROVE FALSE
  <2>1. p \in 1 .. Len(h) /\ h[p].k = "call"
    BY <1>1
  <2>2. p + 1 \in 1 .. Len(h) /\ h[p + 1].k = "output"
    BY <1>1, <2>1, AnsweredNext
  <2> QED  BY <2>2
<1> QED  BY <1>1 DEF Upto

\* Any other item, with its output when it is a call that has none.
LEMMA UptoOther ==
    ASSUME NEW n \in Nat, NEW h \in Seq(TurnItems(n)), NEW m, WellPaired(h, m),
           NEW p \in 0 .. Len(h) - 1, NEW d, Upto(d, h, p, TurnItems(n)), h[p + 1].k # "output"
    PROVE  Upto(d \o Completed(h, h[p + 1]), h, p + 1, TurnItems(n))
<1> DEFINE I == TurnItems(n)
           i == h[p + 1]
           L == Len(d)
           g == Append(d, i)
<1>1. p + 1 \in 1 .. Len(h) /\ i \in I /\ p \in 0 .. Len(h)
  OBVIOUS
<1>2. d \in Seq(I) /\ L \in Nat /\ Behind(d)
  BY DEF Upto
<1>3. \A x \in 1 .. L : d[x].k = "call" => \E y \in 1 .. p : h[y].k = "call" /\ h[y].v = d[x].v
  BY DEF Upto
<1>a. AllFollowed(d, L)
  BY <1>1, UptoClosed
<1>b. i.k # "output"
  OBVIOUS
<1> HIDE DEF I
<1>4. \A x \in 1 .. L : d[x].k = "call" /\ i.k = "call" => d[x].v # i.v
  <2> SUFFICES ASSUME NEW x \in 1 .. L, d[x].k = "call", i.k = "call", d[x].v = i.v PROVE FALSE
    OBVIOUS
  <2>1. PICK y \in 1 .. p : h[y].k = "call" /\ h[y].v = d[x].v
    BY <1>3
  <2>2. y \in 1 .. Len(h) /\ y # p + 1
    BY <1>1
  <2> QED  BY <1>1, <2>1, <2>2 DEF WellPaired
<1>5. Behind(g) /\ AllFollowed(g, L)
  BY <1>1, <1>2, <1>4, <1>a, <1>b, PlainBehind
<1>6. g \in Seq(I) /\ Len(g) = L + 1 /\ g[L + 1] = i /\ \A x \in 1 .. L : g[x] = d[x]
  BY <1>1, <1>2
<1> HIDE DEF g, L
<1>7. \A x \in 1 .. L + 1 : g[x].k = "call" =>
         \E y \in 1 .. p + 1 : h[y].k = "call" /\ h[y].v = g[x].v
  <2> SUFFICES ASSUME NEW x \in 1 .. L + 1, g[x].k = "call"
               PROVE  \E y \in 1 .. p + 1 : h[y].k = "call" /\ h[y].v = g[x].v
    OBVIOUS
  <2>1. CASE x \in 1 .. L
    <3>1. PICK y \in 1 .. p : h[y].k = "call" /\ h[y].v = d[x].v
      BY <1>3, <1>6, <2>1
    <3> QED  BY <1>6, <2>1, <3>1
  <2>2. CASE x = L + 1
    <3>1. p + 1 \in 1 .. p + 1
      OBVIOUS
    <3> QED  BY <1>6, <2>2, <3>1
  <2> QED  BY <1>2, <2>1, <2>2
<1>8. CASE ~(i.k = "call" /\ ~Answered(h, i))
  <2>1. d \o Completed(h, i) = g
    BY <1>1, <1>2, <1>8 DEF Completed, g
  <2>2. \A x \in 1 .. L + 1 : g[x].k = "call" =>
           Followed(g, x) \/ (x = L + 1 /\ g[x] = i /\ Answered(h, i))
    BY <1>2, <1>5, <1>6, <1>8 DEF AllFollowed
  <2>3. Upto(g, h, p + 1, I)
    BY <1>1, <1>2, <1>5, <1>6, <1>7, <2>2 DEF Upto
  <2> QED  BY <2>1, <2>3 DEF I
<1>9. CASE i.k = "call" /\ ~Answered(h, i)
  <2> DEFINE o == Item("output", i.t, i.v)
             e == Append(g, o)
  <2>1. o \in I /\ o.k = "output" /\ o.v = i.v
    BY <1>1 DEF I, TurnItems, Item, ItemKinds
  <2> HIDE DEF o
  <2>2. d \o Completed(h, i) = e
    <3>1. Completed(h, i) = <<i, o>>
      BY <1>9 DEF Completed, o
    <3> QED  BY <1>1, <1>2, <2>1, <3>1 DEF g
  <2>3. Behind(e) /\ AllFollowed(e, L + 2)
    <3>1. Len(g) > 0 /\ Len(g) - 1 = L /\ g[Len(g)] = i /\ Len(g) + 1 = L + 2
      BY <1>2, <1>6
    <3>2. AllFollowed(g, Len(g) - 1)
      BY <1>5, <3>1
    <3>3. Behind(e) /\ AllFollowed(e, Len(g) + 1)
      BY <1>5, <1>6, <1>9, <2>1, <3>1, <3>2, OutputBehind
    <3> QED  BY <3>1, <3>3
  <2>4. e \in Seq(I) /\ Len(e) = L + 2 /\ e[L + 2] = o /\ \A x \in 1 .. L + 1 : e[x] = g[x]
    BY <1>2, <1>6, <2>1
  <2> HIDE DEF e
  <2>5. \A x \in 1 .. L + 2 : e[x].k = "call" =>
           \E y \in 1 .. p + 1 : h[y].k = "call" /\ h[y].v = e[x].v
    <3> SUFFICES ASSUME NEW x \in 1 .. L + 2, e[x].k = "call"
                 PROVE  \E y \in 1 .. p + 1 : h[y].k = "call" /\ h[y].v = e[x].v
      OBVIOUS
    <3>1. x \in 1 .. L + 1
      BY <1>2, <2>1, <2>4
    <3> QED  BY <1>7, <2>4, <3>1
  <2>6. \A x \in 1 .. L + 2 : e[x].k = "call" => Followed(e, x)
    BY <2>3 DEF AllFollowed
  <2>7. Upto(e, h, p + 1, I)
    BY <1>1, <1>9, <2>3, <2>4, <2>5, <2>6 DEF Upto
  <2> QED  BY <2>2, <2>7 DEF I
<1> QED  BY <1>8, <1>9

\* The completed history: every output behind its call, every call followed.
LEMMA EnsuredAdjacent ==
    ASSUME NEW n \in Nat, NEW h \in Seq(TurnItems(n)), NEW m, WellPaired(h, m)
    PROVE  LET d == EnsureCallOutputsPresent(h)
           IN d \in Seq(TurnItems(n)) /\ Behind(d) /\ AllFollowed(d, Len(d))
<1> DEFINE I == TurnItems(n)
           N == Len(h)
<1>1. PICK up : EnsureCallOutputsPresent(h) = up[N] /\ Completes(up, h)
  BY EnsureDef
<1> DEFINE T == {p \in 0 .. N : Upto(up[p], h, p, I)}
<1>0. N \in Nat
  OBVIOUS
<1>2. 0 \in T
  <2>1. up[0] = <<>>
    BY <1>0, <1>1 DEF Completes
  <2>2. Upto(<<>>, h, 0, I)
    BY DEF Upto, Behind
  <2> QED  BY <1>0, <2>1, <2>2
<1>3. \A p \in 0 .. N - 1 : p \in T => p + 1 \in T
  <2> SUFFICES ASSUME NEW p \in 0 .. N - 1, Upto(up[p], h, p, I) PROVE Upto(up[p + 1], h, p + 1, I)
    BY <1>0
  <2>1. up[p + 1] = up[p] \o Completed(h, h[p + 1])
    <3>1. p + 1 \in 0 .. N /\ p + 1 # 0 /\ (p + 1) - 1 = p
      BY <1>0
    <3> QED  BY <1>1, <3>1 DEF Completes
  <2>2. CASE h[p + 1].k = "output"
    BY <2>1, <2>2, UptoOutput
  <2>3. CASE h[p + 1].k # "output"
    BY <2>1, <2>3, UptoOther
  <2> QED  BY <2>2, <2>3
<1>4. Upto(up[N], h, N, I)
  <2> HIDE DEF T, N
  <2>1. \A p \in 0 .. N : p \in T
    BY <1>0, <1>2, <1>3, Induct
  <2>2. N \in T
    BY <1>0, <2>1
  <2> QED  BY <2>2 DEF T
<1>5. up[N] \in Seq(I) /\ Behind(up[N])
  BY <1>4 DEF Upto
<1>6. AllFollowed(up[N], Len(up[N]))
  <2>1. N \in 0 .. Len(h) /\ ~(N < Len(h))
    OBVIOUS
  <2> QED  BY <1>4, <2>1, UptoClosed
<1> QED  BY <1>1, <1>5, <1>6

\* Such a history is paired, and there is no orphan to remove from it.
LEMMA AdjacentPaired ==
    ASSUME NEW I, NEW d \in Seq(I), Behind(d), AllFollowed(d, Len(d))
    PROVE  RemoveOrphanOutputs(d) = d /\ Paired(d)
<1>0. DOMAIN d = 1 .. Len(d) /\ Len(d) \in Nat
  OBVIOUS
<1>1. \A q \in 1 .. Len(d) : d[q].k = "output" =>
         \E p \in 1 .. q - 1 : d[p].k = "call" /\ d[p].v = d[q].v
  <2> SUFFICES ASSUME NEW q \in 1 .. Len(d), d[q].k = "output"
               PROVE  \E p \in 1 .. q - 1 : d[p].k = "call" /\ d[p].v = d[q].v
    OBVIOUS
  <2>1. q > 1 /\ d[q - 1].k = "call" /\ d[q - 1].v = d[q].v
    BY DEF Behind
  <2>2. q - 1 \in 1 .. q - 1
    BY <2>1
  <2> QED  BY <2>1, <2>2
<1>2. RemoveOrphanOutputs(d) = d
  <2> DEFINE S == {p \in DOMAIN d : d[p].k = "output" =>
                      \E q \in DOMAIN d : d[q].k = "call" /\ d[q].v = d[p].v}
  <2>1. \A p \in 1 .. Len(d) : d[p].k = "output" =>
           \E q \in 1 .. Len(d) : d[q].k = "call" /\ d[q].v = d[p].v
    BY <1>0, <1>1
  <2>2. 1 .. Len(d) \subseteq S
    BY <1>0, <2>1
  <2>3. RemoveOrphanOutputs(d) = ItemsAt(d, S)
    BY DEF RemoveOrphanOutputs
  <2> HIDE DEF S
  <2> QED  BY <2>2, <2>3, ItemsAtAll
<1>3. \A p \in 1 .. Len(d) : d[p].k = "call" =>
         \E q \in p + 1 .. Len(d) :
            /\ d[q].k = "output" /\ d[q].v = d[p].v
            /\ \A x \in 1 .. Len(d) \ {q} : d[x].k = "output" => d[x].v # d[p].v
  <2> SUFFICES ASSUME NEW p \in 1 .. Len(d), d[p].k = "call"
               PROVE  \E q \in p + 1 .. Len(d) :
                         /\ d[q].k = "output" /\ d[q].v = d[p].v
                         /\ \A x \in 1 .. Len(d) \ {q} : d[x].k = "output" => d[x].v # d[p].v
    OBVIOUS
  <2>1. p + 1 \in p + 1 .. Len(d) /\ d[p + 1].k = "output" /\ d[p + 1].v = d[p].v
    BY <1>0 DEF AllFollowed, Followed
  <2>2. ASSUME NEW x \in 1 .. Len(d), d[x].k = "output", d[x].v = d[p].v PROVE x = p + 1
    <3>1. x > 1 /\ d[x - 1].k = "call" /\ d[x - 1].v = d[x].v
      BY <2>2 DEF Behind
    <3>2. x - 1 \in 1 .. Len(d)
      BY <3>1
    <3>3. x - 1 = p
      BY <2>2, <3>1, <3>2 DEF Behind
    <3> QED  BY <3>3
  <2> QED  BY <2>1, <2>2
<1> QED  BY <1>0, <1>1, <1>2, <1>3 DEF Paired
-----------------------------------------------------------------------------
(* Theorems *)

\* The history holds items of started turns only, and what reconstruction hands to
\* the session is a real baseline and real settings, for any number of turns,
\* rollbacks and restarts (reconstruct_history_from_rollout).
THEOREM ThreadHistoryTyped == Spec => []TypeOK
<1>1. Inv => TypeOK
  <2> SUFFICES ASSUME Inv PROVE TypeOK
    OBVIOUS
  <2>1. items \in Histories(turn)
    BY DEF Inv, HistoryInv, InStep
  <2>2. \A p \in DOMAIN items : items[p].k \in ItemKinds /\ items[p].t \in 1 .. turn
    <3>1. DOMAIN items = 1 .. Len(items) /\ \A p \in 1 .. Len(items) : items[p] \in TurnItems(turn)
      BY <2>1 DEF Histories
    <3> QED  BY <3>1 DEF TurnItems
  <2> QED  BY <2>2 DEF Inv, TypeInv, TypeOK, Previous
<1> QED  BY <1>1, Invariance, PTL

\* A thread resumed from its rollout at any moment has the history of the session
\* that wrote it, and injects its full context again where that session would
\* (reconstruct_history_from_rollout against the live ContextManager).
THEOREM ResumesYieldLiveHistory == Spec => []ResumeYieldsLiveHistory
<1>1. Inv => ResumeYieldsLiveHistory
  BY DEF Inv, HistoryInv, InStep, BaselineInv, ResumeYieldsLiveHistory, Rebuilt
<1> QED  BY <1>1, Invariance, PTL

\* What a request sends, and what a compaction sends after it dropped any number of
\* the oldest items, pairs calls and outputs, wherever an interrupt, a crash, a
\* rollback or a compaction has cut (for_prompt, remove_first_item).
THEOREM PromptsArePaired == Spec => []PromptIsPaired
<1>1. Inv => PromptIsPaired
  <2> SUFFICES ASSUME Inv, NEW n \in 0 .. Len(items)
               PROVE  Paired(ForPrompt(WithoutOldest(items, n)))
    BY DEF PromptIsPaired
  <2> DEFINE h == WithoutOldest(items, n)
             d == EnsureCallOutputsPresent(h)
  <2>1. turn \in Nat /\ items \in Seq(TurnItems(turn)) /\ WellPaired(items, Len(rollout))
    BY DEF Inv, TypeInv, HistoryInv, InStep, Histories
  <2>2. n \in Nat
    OBVIOUS
  <2>3. h \in Seq(TurnItems(turn)) /\ WellPaired(h, Len(rollout))
    BY <2>1, <2>2, OldestDropped
  <2> HIDE DEF h
  <2>4. d \in Seq(TurnItems(turn)) /\ Behind(d) /\ AllFollowed(d, Len(d))
    BY <2>1, <2>3, EnsuredAdjacent
  <2>5. ForPrompt(h) = RemoveOrphanOutputs(d)
    BY DEF ForPrompt
  <2> HIDE DEF d
  <2>6. RemoveOrphanOutputs(d) = d /\ Paired(d)
    BY <2>4, AdjacentPaired
  <2> QED  BY <2>5, <2>6 DEF h
<1> QED  BY <1>1, Invariance, PTL
=============================================================================
