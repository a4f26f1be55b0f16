------------------------------ MODULE GuiProofs ------------------------------
(***************************************************************************)
(* For every table of characters in which no macro overlaps another, every *)
(* room for a name and everything that is typed: what a name becomes when  *)
(* it is turned into game characters and back, and that the files hold     *)
(* what the window shows.                                                  *)
(***************************************************************************)
EXTENDS Gui, Integers, WellFoundedInduction, SequenceTheorems, TLAPS

GuiSpec == GuiInit /\ [][GuiNext]_guiVars

-----------------------------------------------------------------------------
(* Induction, for sets of numbers. *)

(* A set of numbers has a least one. *)
LEMMA Least ==
  ASSUME NEW T, T \subseteq Nat, T # {}
  PROVE  \E x \in T : \A y \in T : x <= y
<1> DEFINE R == OpToRel(<, Nat)
<1>1. IsWellFoundedOn(R, Nat)
  BY NatLessThanWellFounded
<1>2. \A x, y \in Nat : x < y => <<x, y>> \in R
  BY DEF OpToRel
<1> HIDE DEF R
<1>3. PICK x \in T : \A y \in T : <<y, x>> \notin R
  BY <1>1, WFMin
<1>4. \A y \in T : x <= y
  <2> SUFFICES ASSUME NEW y \in T PROVE x <= y
    OBVIOUS
  <2>1. x \in Nat /\ y \in Nat /\ ~(y < x)
    BY <1>2, <1>3
  <2> QED BY <2>1
<1> QED BY <1>4

(* What holds of 0, and of n + 1 when it holds of n, holds of all numbers. *)
LEMMA Counting ==
  ASSUME NEW P, 0 \in P, \A n \in Nat : n \in P => n + 1 \in P
  PROVE  \A n \in Nat : n \in P
<1> DEFINE T == {n \in Nat : n \notin P}
<1> SUFFICES ASSUME T # {} PROVE FALSE
  OBVIOUS
<1>1. PICK x \in T : \A y \in T : x <= y
  BY Least
<1>2. x # 0
  OBVIOUS
<1>3. x - 1 \in Nat /\ x - 1 \notin T
  BY <1>1, <1>2
<1> QED BY <1>3

(* Two functions that go on alike from the same start are the same, as far *)
(* as they do.                                                             *)
LEMMA SameWalk ==
  ASSUME NEW f, NEW g, NEW n \in Nat, f[0] = g[0],
         \A k \in Nat : k < n /\ f[k] = g[k] => f[k + 1] = g[k + 1]
  PROVE  \A k \in 0 .. n : f[k] = g[k]
<1> DEFINE P == {k \in Nat : k <= n => f[k] = g[k]}
<1>1. 0 \in P
  OBVIOUS
<1>2. \A k \in Nat : k \in P => k + 1 \in P
  OBVIOUS
<1> HIDE DEF P
<1>3. \A k \in Nat : k \in P
  BY <1>1, <1>2, Counting
<1> QED BY <1>3 DEF P

(* F leads from any value in V and number to a value in V, and f is the    *)
(* walk from v.                                                            *)
Steps(F, V) == \A x \in V, k \in Nat : F[k][x] \in V
IsWalk(f, F, v, V) ==
  f \in [Nat -> V] /\ f[0] = v /\ \A k \in Nat : f[k + 1] = F[k + 1][f[k]]

(* There is one. *)
LEMMA Walk ==
  ASSUME NEW V, NEW v \in V, NEW F, Steps(F, V)
  PROVE  \E f : IsWalk(f, F, v, V)
<1> USE DEF Steps
<1> DEFINE Begins(g, n) == g[0] = v /\ \A k \in 0 .. n - 1 : g[k + 1] = F[k + 1][g[k]]
           P == {n \in Nat : \E g \in [0 .. n -> V] : Begins(g, n)}
<1>1. 0 \in P
  <2>1. [k \in 0 .. 0 |-> v] \in [0 .. 0 -> V] /\ Begins([k \in 0 .. 0 |-> v], 0)
    OBVIOUS
  <2> QED BY <2>1
<1>2. ASSUME NEW n \in Nat, n \in P PROVE n + 1 \in P
  <2>1. PICK g \in [0 .. n -> V] : Begins(g, n)
    BY <1>2
  <2> DEFINE h == [k \in 0 .. n + 1 |-> IF k <= n THEN g[k] ELSE F[n + 1][g[n]]]
  <2>2. h \in [0 .. n + 1 -> V]
    <3>1. g[n] \in V /\ F[n + 1][g[n]] \in V
      BY <2>1
    <3>2. \A k \in 0 .. n + 1 : k <= n => g[k] \in V
      BY <2>1
    <3> QED BY <3>1, <3>2
  <2>3. h[0] = v
    BY <2>1
  <2>4. ASSUME NEW k \in 0 .. n PROVE h[k + 1] = F[k + 1][h[k]]
    <3>1. CASE k = n
      <4>1. h[n + 1] = F[n + 1][g[n]] /\ h[n] = g[n]
        OBVIOUS
      <4> QED BY <3>1, <4>1
    <3>2. CASE k # n
      <4>1. k \in 0 .. n - 1 /\ h[k + 1] = g[k + 1] /\ h[k] = g[k]
        BY <3>2
      <4> QED BY <2>1, <4>1
    <3> QED BY <3>1, <3>2
  <2> HIDE DEF h
  <2>5. Begins(h, n + 1)
    BY <2>3, <2>4
  <2> QED BY <2>2, <2>5
<1> HIDE DEF P
<1>3. \A n \in Nat : n \in P
  BY <1>1, <1>2, Counting
<1> DEFINE G == [n \in Nat |-> CHOOSE g \in [0 .. n -> V] : Begins(g, n)]
           f == [n \in Nat |-> G[n][n]]
<1>4. ASSUME NEW n \in Nat PROVE G[n] \in [0 .. n -> V] /\ Begins(G[n], n)
  BY <1>3 DEF P
<1> HIDE DEF G
<1>5. ASSUME NEW n \in Nat PROVE G[n + 1][n] = G[n][n]
  <2>1. PICK g, h : g = G[n] /\ h = G[n + 1]
    OBVIOUS
  <2>2. Begins(g, n) /\ Begins(h, n + 1)
    BY <1>4, <2>1
  <2>3. ASSUME NEW k \in Nat, k < n, g[k] = h[k] PROVE g[k + 1] = h[k + 1]
    <3>1. k \in 0 .. n - 1 /\ k \in 0 .. (n + 1) - 1
      BY <2>3
    <3>2. g[k + 1] = F[k + 1][g[k]] /\ h[k + 1] = F[k + 1][h[k]]
      BY <2>2, <3>1
    <3> QED BY <2>3, <3>2
  <2>4. \A k \in 0 .. n : g[k] = h[k]
    <3>1. g[0] = h[0]
      BY <2>2
    <3> QED BY <2>3, <3>1, SameWalk
  <2> QED BY <2>1, <2>4
<1>6. f \in [Nat -> V]
  <2>1. ASSUME NEW n \in Nat PROVE G[n][n] \in V
    <3>1. PICK g \in [0 .. n -> V] : g = G[n]
      BY <1>4
    <3> QED BY <3>1
  <2> QED BY <2>1
<1>7. f[0] = v
  <2>1. 0 \in Nat /\ Begins(G[0], 0)
    BY <1>4
  <2> QED BY <2>1
<1>8. ASSUME NEW k \in Nat PROVE f[k + 1] = F[k + 1][f[k]]
  <2>1. f[k + 1] = G[k + 1][k + 1] /\ f[k] = G[k][k]
    OBVIOUS
  <2>2. G[k + 1][k + 1] = F[k + 1][G[k + 1][k]]
    BY <1>4
  <2> QED BY <1>5, <2>1, <2>2
<1> HIDE DEF f
<1>9. IsWalk(f, F, v, V)
  BY <1>6, <1>7, <1>8 DEF IsWalk
<1> QED BY <1>9
-----------------------------------------------------------------------------
(* The definitions by recursion are walks. *)

Char == STRING
Text == Seq(Char)
Pieces == Seq(Text)
Joint(t, u) == t \o u

(* Joining texts. *)
LEMMA Joined ==
  /\ <<>> \in Text
  /\ \A t, u \in Text : Joint(t, u) \in Text /\ Joint(<<>>, u) = u
<1>1. \A t, u \in Seq(Char) : t \o u \in Seq(Char)
  BY ConcatProperties
<1>2. \A u \in Seq(Char) : <<>> \o u = u
  BY ConcatEmptySeq
<1> QED BY <1>1, <1>2 DEF Text, Joint

(* The text of a name grows piece by piece. *)
LEMMA FlattenWalk ==
  ASSUME NEW q \in Pieces
  PROVE  \E f \in [Nat -> Text] :
           /\ f[0] = <<>>
           /\ \A k \in 1 .. Len(q) : f[k] = Joint(f[k - 1], q[k])
           /\ MsgToAscii(q) = f[Len(q)]
<1> DEFINE F == [k \in Nat |-> [t \in Text |-> IF k \in 1 .. Len(q) THEN Joint(t, q[k]) ELSE t]]
<1>1. ASSUME NEW t \in Text, NEW k \in Nat
      PROVE  /\ F[k][t] \in Text
             /\ F[k][t] = IF k \in 1 .. Len(q) THEN Joint(t, q[k]) ELSE t
  <2>1. k \in 1 .. Len(q) => q[k] \in Text
    BY DEF Pieces
  <2>2. F[k][t] = IF k \in 1 .. Len(q) THEN Joint(t, q[k]) ELSE t
    OBVIOUS
  <2>3. F[k][t] \in Text
    BY <2>1, <2>2, Joined
  <2> QED BY <2>2, <2>3
<1> HIDE DEF F
<1>2. Steps(F, Text)
  BY <1>1 DEF Steps
<1>3. PICK f \in [Nat -> Text] : f[0] = <<>> /\ \A k \in Nat : f[k + 1] = F[k + 1][f[k]]
  <2>1. PICK e \in Text : e = <<>>
    BY Joined
  <2>2. PICK f : IsWalk(f, F, e, Text)
    BY <1>2, Walk
  <2> QED BY <2>1, <2>2 DEF IsWalk
<1>4. Len(q) \in Nat
  BY DEF Pieces
<1>5. ASSUME NEW k \in 1 .. Len(q) PROVE f[k] = Joint(f[k - 1], q[k])
  <2>1. k - 1 \in Nat /\ (k - 1) + 1 = k /\ k \in Nat
    BY <1>4
  <2>2. f[k] = F[k][f[k - 1]]
    BY <1>3, <2>1
  <2> QED BY <1>1, <2>1, <2>2
<1>6. MsgToAscii(q) = f[Len(q)]
  <2>1. CASE Len(q) = 0
    <3>1. q = <<>>
      BY <2>1 DEF Pieces
    <3> QED BY <1>3, <2>1, <3>1 DEF MsgToAscii, FlattenSeq
  <2>2. CASE Len(q) # 0
    <3> DEFINE flatten[i \in 1 .. Len(q)] == IF i = 1 THEN q[i] ELSE Joint(flatten[i - 1], q[i])
    <3>1. MsgToAscii(q) = flatten[Len(q)]
      BY <2>2 DEF MsgToAscii, FlattenSeq, Joint
    <3>2. flatten = [i \in 1 .. Len(q) |-> IF i = 1 THEN q[i] ELSE Joint(flatten[i - 1], q[i])]
      <4> DEFINE g == [i \in 1 .. Len(q) |-> f[i]]
      <4>1. ASSUME NEW i \in 1 .. Len(q)
            PROVE  f[i] = IF i = 1 THEN q[i] ELSE Joint(g[i - 1], q[i])
        <5>1. CASE i = 1
          <6>1. q[1] \in Text /\ f[1] = Joint(<<>>, q[1])
            <7>1. q[1] \in Text
              BY <5>1 DEF Pieces
            <7>2. f[1] = Joint(f[1 - 1], q[1]) /\ 1 - 1 = 0
              BY <1>4, <1>5, <5>1
            <7> QED BY <1>3, <7>1, <7>2
          <6> QED BY <5>1, <6>1, Joined
        <5>2. CASE i # 1
          <6>1. i - 1 \in 1 .. Len(q)
            BY <1>4, <5>2
          <6> QED BY <1>5, <5>2, <6>1
        <5> QED BY <5>1, <5>2
      <4>2. g = [i \in 1 .. Len(q) |-> IF i = 1 THEN q[i] ELSE Joint(g[i - 1], q[i])]
        BY <4>1
      <4> HIDE DEF g
      <4>3. \E h : h = [i \in 1 .. Len(q) |-> IF i = 1 THEN q[i] ELSE Joint(h[i - 1], q[i])]
        BY <4>2
      <4> QED BY <4>3
    <3> HIDE DEF flatten
    <3> DEFINE P == {k \in Nat : k \in 1 .. Len(q) => flatten[k] = f[k]}
    <3>3. 0 \in P
      OBVIOUS
    <3>4. ASSUME NEW k \in Nat, k \in P PROVE k + 1 \in P
      <4> SUFFICES ASSUME k + 1 \in 1 .. Len(q) PROVE flatten[k + 1] = f[k + 1]
        OBVIOUS
      <4>1. f[k + 1] = Joint(f[k], q[k + 1])
        <5>1. f[k + 1] = Joint(f[(k + 1) - 1], q[k + 1]) /\ (k + 1) - 1 = k
          BY <1>4, <1>5
        <5> QED BY <5>1
      <4>2. CASE k = 0
        <5>1. flatten[1] = q[1] /\ q[1] \in Text /\ 1 \in 1 .. Len(q)
          BY <1>4, <3>2, <4>2 DEF Pieces
        <5>2. f[1] = Joint(<<>>, q[1])
          <6>1. f[0] = <<>>
            BY <1>3
          <6>2. f[0 + 1] = Joint(f[0], q[0 + 1])
            BY <4>1, <4>2
          <6> QED BY <6>1, <6>2
        <5> QED BY <4>2, <5>1, <5>2, Joined
      <4>3. CASE k # 0
        <5>1. k \in 1 .. Len(q) /\ (k + 1) - 1 = k /\ k + 1 # 1
          BY <1>4, <4>3
        <5>2. flatten[k + 1] = Joint(flatten[k], q[k + 1])
          BY <3>2, <5>1
        <5> QED BY <3>4, <4>1, <5>1, <5>2
      <4> QED BY <4>2, <4>3
    <3> HIDE DEF P
    <3>5. Len(q) \in P
      BY <1>4, <3>3, <3>4, Counting
    <3> QED BY <1>4, <2>2, <3>1, <3>5 DEF P
  <2> QED BY <2>1, <2>2
<1> QED BY <1>3, <1>5, <1>6
-----------------------------------------------------------------------------
(* The loop of ascii_to_msg. *)

State == [at : Nat \ {0}, out : Pieces]
Start == [at |-> 1, out |-> <<>>]
Takes(s, at, size, m) == m \in Macro /\ Len(m) <= size /\ Stands(m, s, at)

(* Adding a piece to a name. *)
LEMMA Added ==
  ASSUME NEW q \in Pieces, NEW p \in Text
  PROVE  /\ Append(q, p) \in Pieces /\ Len(Append(q, p)) = Len(q) + 1 /\ Len(q) \in Nat
         /\ Append(q, p)[Len(q) + 1] = p
         /\ \A k \in 1 .. Len(q) : Append(q, p)[k] = q[k]
BY DEF Pieces

(* A macro is a text of two or more. *)
LEMMA MacroText ==
  ASSUME NEW m \in Macro
  PROVE  m \in Text /\ Len(m) \in Nat /\ Len(m) > 1
BY GuiAssumption DEF Text, Char

(* A round stays, takes a macro, or goes on by a character. *)
LEMMA RoundIs ==
  ASSUME NEW s \in Text, NEW r \in State, NEW size \in Int
  PROVE  /\ Round(s, r, size) \in State
         /\ \/ r.at > Len(s) /\ Round(s, r, size) = r
            \/ /\ r.at <= Len(s)
               /\ \E m : /\ Takes(s, r.at, size, m)
                         /\ Round(s, r, size) = [at |-> r.at + Len(m), out |-> Append(r.out, m)]
            \/ /\ r.at <= Len(s)
               /\ \A m : ~Takes(s, r.at, size, m)
               /\ Round(s, r, size) =
                    [at |-> r.at + 1,
                     out |-> IF s[r.at] \in Known THEN Append(r.out, <<s[r.at]>>) ELSE r.out]
<1> DEFINE Fits(m) == Len(m) <= size /\ Stands(m, s, r.at)
<1>1. r.at \in Nat \ {0} /\ r.out \in Pieces /\ Len(s) \in Nat
  BY DEF State, Text
<1>2. CASE r.at > Len(s)
  <2>1. Round(s, r, size) = r
    BY <1>2 DEF Round
  <2> QED BY <1>2, <2>1
<1>3. CASE r.at <= Len(s) /\ \E m \in Macro : Fits(m)
  <2> DEFINE x == CHOOSE m \in Macro : Fits(m)
  <2>1. x \in Macro /\ Fits(x)
    BY <1>3
  <2>2. Round(s, r, size) = [at |-> r.at + Len(x), out |-> Append(r.out, x)]
    <3>1. ~(r.at > Len(s))
      BY <1>1, <1>3
    <3> QED BY <1>3, <3>1 DEF Round
  <2> HIDE DEF x
  <2>3. Append(r.out, x) \in Pieces /\ r.at + Len(x) \in Nat \ {0}
    <3>1. x \in Text /\ Len(x) \in Nat
      BY <2>1, MacroText
    <3>2. Append(r.out, x) \in Pieces
      BY <1>1, <3>1, Added
    <3> QED BY <1>1, <3>1, <3>2
  <2>4. Round(s, r, size) \in State
    BY <2>2, <2>3 DEF State
  <2>5. Takes(s, r.at, size, x)
    BY <2>1 DEF Takes
  <2> QED BY <1>3, <2>2, <2>4, <2>5
<1>4. CASE r.at <= Len(s) /\ ~\E m \in Macro : Fits(m)
  <2>1. Round(s, r, size) =
          [at |-> r.at + 1,
           out |-> IF s[r.at] \in Known THEN Append(r.out, <<s[r.at]>>) ELSE r.out]
    <3>1. ~(r.at > Len(s))
      BY <1>1, <1>4
    <3> QED BY <1>4, <3>1 DEF Round
  <2>2. <<s[r.at]>> \in Text
    BY <1>1, <1>4 DEF Text
  <2>3. Append(r.out, <<s[r.at]>>) \in Pieces
    BY <1>1, <2>2, Added
  <2>4. Round(s, r, size) \in State
    BY <1>1, <2>1, <2>3 DEF State
  <2>5. \A m : ~Takes(s, r.at, size, m)
    BY <1>4 DEF Takes
  <2> QED BY <1>4, <2>1, <2>4, <2>5
<1> QED BY <1>1, <1>2, <1>3, <1>4

(* What the loop has after each of its rounds. *)
IsLoop(s, f) ==
  /\ f \in [Nat -> State] /\ f[0] = Start
  /\ \A k \in Nat : k < Room => f[k + 1] = Round(s, f[k], Room - k)
  /\ AsciiToMsg(s) = f[Room].out

(* There is such a walk. *)
LEMMA LoopWalk ==
  ASSUME NEW s \in Text
  PROVE  \E f : IsLoop(s, f)
<1> DEFINE F == [k \in Nat |-> [r \in State |-> Round(s, r, Room - k + 1)]]
<1>1. Room \in Nat
  BY GuiAssumption
<1>2. ASSUME NEW r \in State, NEW k \in Nat
      PROVE  F[k][r] \in State /\ F[k][r] = Round(s, r, Room - k + 1)
  <2>1. Room - k + 1 \in Int
    BY <1>1
  <2> QED BY <2>1, RoundIs
<1> HIDE DEF F
<1>3. Start \in State
  BY DEF Start, State, Pieces
<1>4. Steps(F, State)
  BY <1>2 DEF Steps
<1>5. PICK f : IsWalk(f, F, Start, State)
  BY <1>3, <1>4, Walk
<1>6. f \in [Nat -> State] /\ f[0] = Start
  BY <1>5 DEF IsWalk
<1>7. ASSUME NEW k \in Nat PROVE f[k + 1] = Round(s, f[k], Room - k)
  <2>1. f[k + 1] = F[k + 1][f[k]] /\ f[k] \in State /\ k + 1 \in Nat
    BY <1>5, <1>6 DEF IsWalk
  <2>2. f[k + 1] = Round(s, f[k], Room - (k + 1) + 1)
    BY <1>2, <2>1
  <2>3. Room - (k + 1) + 1 = Room - k
    BY <1>1
  <2> QED BY <2>2, <2>3
<1>8. AsciiToMsg(s) = f[Room].out
  <2> DEFINE loop[k \in 0 .. Room] ==
               IF k = 0 THEN Start ELSE Round(s, loop[k - 1], Room - k + 1)
  <2>1. AsciiToMsg(s) = loop[Room].out
    BY DEF AsciiToMsg, Start
  <2>2. loop = [k \in 0 .. Room |-> IF k = 0 THEN Start
                                    ELSE Round(s, loop[k - 1], Room - k + 1)]
    <3> DEFINE g == [k \in 0 .. Room |-> f[k]]
    <3>1. ASSUME NEW k \in 0 .. Room
          PROVE  f[k] = IF k = 0 THEN Start ELSE Round(s, g[k - 1], Room - k + 1)
      <4>1. CASE k = 0
        BY <1>6, <4>1
      <4>2. CASE k # 0
        <5>1. k - 1 \in Nat /\ (k - 1) + 1 = k /\ Room - (k - 1) = Room - k + 1
              /\ k - 1 \in 0 .. Room
          BY <1>1, <4>2
        <5>2. f[k] = Round(s, f[k - 1], Room - k + 1)
          BY <1>7, <5>1
        <5>3. g[k - 1] = f[k - 1]
          BY <5>1
        <5> QED BY <4>2, <5>2, <5>3
      <4> QED BY <4>1, <4>2
    <3>2. g = [k \in 0 .. Room |-> IF k = 0 THEN Start ELSE Round(s, g[k - 1], Room - k + 1)]
      BY <3>1
    <3> HIDE DEF g
    <3>3. \E h : h = [k \in 0 .. Room |-> IF k = 0 THEN Start
                                          ELSE Round(s, h[k - 1], Room - k + 1)]
      BY <3>2
    <3> QED BY <3>3
  <2> HIDE DEF loop
  <2>3. loop[0] = f[0]
    BY <1>1, <1>6, <2>2
  <2>4. ASSUME NEW k \in Nat, k < Room, loop[k] = f[k] PROVE loop[k + 1] = f[k + 1]
    <3>1. /\ k + 1 \in 0 .. Room /\ k + 1 # 0 /\ (k + 1) - 1 = k
          /\ Room - (k + 1) + 1 = Room - k
      BY <1>1, <2>4
    <3>2. loop[k + 1] = Round(s, loop[k], Room - k)
      BY <2>2, <3>1
    <3> QED BY <1>7, <2>4, <3>2
  <2>5. \A k \in 0 .. Room : loop[k] = f[k]
    BY <1>1, <2>3, <2>4, SameWalk
  <2>6. loop[Room] = f[Room]
    BY <1>1, <2>5
  <2> QED BY <2>1, <2>6
<1> QED BY <1>6, <1>7, <1>8 DEF IsLoop

-----------------------------------------------------------------------------
(* The meaning of a text. *)

(* The characters of s at the places in W, up to each place. *)
IsFilter(s, W, f) ==
  /\ f \in [Nat -> Text] /\ f[0] = <<>>
  /\ \A k \in Nat : k < Len(s) =>
       f[k + 1] = IF k + 1 \in W THEN Append(f[k], s[k + 1]) ELSE f[k]

(* There is such a walk. *)
LEMMA FilterWalk ==
  ASSUME NEW s \in Text, NEW W
  PROVE  \E f : IsFilter(s, W, f)
<1> DEFINE F == [k \in Nat |-> [t \in Text |-> IF k <= Len(s) /\ k \in W /\ k > 0
                                               THEN Append(t, s[k]) ELSE t]]
<1>1. ASSUME NEW t \in Text, NEW k \in Nat
      PROVE  /\ F[k][t] \in Text
             /\ F[k][t] = IF k <= Len(s) /\ k \in W /\ k > 0 THEN Append(t, s[k]) ELSE t
  <2>1. k <= Len(s) /\ k > 0 => s[k] \in Char
    BY DEF Text
  <2>2. F[k][t] = IF k <= Len(s) /\ k \in W /\ k > 0 THEN Append(t, s[k]) ELSE t
    OBVIOUS
  <2>3. k <= Len(s) /\ k > 0 => Append(t, s[k]) \in Text
    BY <2>1 DEF Text
  <2> QED BY <2>2, <2>3
<1> HIDE DEF F
<1>2. Steps(F, Text)
  BY <1>1 DEF Steps
<1>3. PICK e \in Text : e = <<>>
  BY Joined
<1>4. PICK f : IsWalk(f, F, e, Text)
  BY <1>2, Walk
<1>5. f \in [Nat -> Text] /\ f[0] = <<>>
  BY <1>3, <1>4 DEF IsWalk
<1>6. ASSUME NEW k \in Nat, k < Len(s)
      PROVE  f[k + 1] = IF k + 1 \in W THEN Append(f[k], s[k + 1]) ELSE f[k]
  <2>1. f[k + 1] = F[k + 1][f[k]] /\ f[k] \in Text /\ k + 1 \in Nat
    BY <1>4, <1>5 DEF IsWalk
  <2>2. k + 1 <= Len(s) /\ k + 1 > 0
    BY <1>6 DEF Text
  <2> QED BY <1>1, <2>1, <2>2
<1> QED BY <1>5, <1>6 DEF IsFilter

(* The meaning of the first n characters is such a walk to n. *)
Meant(s, n) == {i \in 1 .. n : Means(s, n, i)}

(* What Meaning computes. *)
LEMMA MeaningIs ==
  ASSUME NEW s \in Text, NEW n \in 0 .. Len(s), NEW f, IsFilter(s, Meant(s, n), f)
  PROVE  Meaning(s, n) = f[n]
<1>1. Len(s) \in Nat /\ n \in Nat /\ n <= Len(s)
  BY DEF Text
<1> DEFINE kept[i \in 0 .. n] ==
             IF i = 0 THEN <<>>
             ELSE IF Means(s, n, i) THEN Append(kept[i - 1], s[i]) ELSE kept[i - 1]
<1>2. Meaning(s, n) = kept[n]
  BY DEF Meaning
<1>3. kept = [i \in 0 .. n |->
                IF i = 0 THEN <<>>
                ELSE IF Means(s, n, i) THEN Append(kept[i - 1], s[i]) ELSE kept[i - 1]]
  <2> DEFINE g == [i \in 0 .. n |-> f[i]]
  <2>1. ASSUME NEW i \in 0 .. n
        PROVE  f[i] = IF i = 0 THEN <<>>
                      ELSE IF Means(s, n, i) THEN Append(g[i - 1], s[i]) ELSE g[i - 1]
    <3>1. CASE i = 0
      BY <3>1 DEF IsFilter
    <3>2. CASE i # 0
      <4>1. i - 1 \in Nat /\ (i - 1) + 1 = i /\ i - 1 < Len(s) /\ i - 1 \in 0 .. n
        BY <1>1, <3>2
      <4>2. f[i] = IF i \in Meant(s, n) THEN Append(f[i - 1], s[i]) ELSE f[i - 1]
        BY <4>1 DEF IsFilter
      <4>3. i \in Meant(s, n) <=> Means(s, n, i)
        BY <1>1, <3>2 DEF Meant
      <4>4. g[i - 1] = f[i - 1]
        BY <4>1
      <4> QED BY <3>2, <4>2, <4>3, <4>4
    <3> QED BY <3>1, <3>2
  <2>2. g = [i \in 0 .. n |->
               IF i = 0 THEN <<>>
               ELSE IF Means(s, n, i) THEN Append(g[i - 1], s[i]) ELSE g[i - 1]]
    BY <2>1
  <2> HIDE DEF g
  <2>3. \E h : h = [i \in 0 .. n |->
                     IF i = 0 THEN <<>>
                     ELSE IF Means(s, n, i) THEN Append(h[i - 1], s[i]) ELSE h[i - 1]]
    BY <2>2
  <2> QED BY <2>3
<1> HIDE DEF kept
<1>4. kept[0] = f[0]
  BY <1>1, <1>3 DEF IsFilter
<1>5. ASSUME NEW k \in Nat, k < n, kept[k] = f[k] PROVE kept[k + 1] = f[k + 1]
  <2>1. k + 1 \in 0 .. n /\ k + 1 # 0 /\ (k + 1) - 1 = k /\ k < Len(s) /\ k + 1 \in 1 .. n
    BY <1>1, <1>5
  <2>2. kept[k + 1] = IF Means(s, n, k + 1) THEN Append(kept[k], s[k + 1]) ELSE kept[k]
    BY <1>3, <2>1
  <2>3. f[k + 1] = IF k + 1 \in Meant(s, n) THEN Append(f[k], s[k + 1]) ELSE f[k]
    BY <2>1 DEF IsFilter
  <2>4. k + 1 \in Meant(s, n) <=> Means(s, n, k + 1)
    BY <2>1 DEF Meant
  <2> QED BY <1>5, <2>2, <2>3, <2>4
<1>6. \A k \in 0 .. n : kept[k] = f[k]
  BY <1>1, <1>4, <1>5, SameWalk
<1> QED BY <1>1, <1>2, <1>6

(* Two that keep the same of the first n give the same of them. *)
LEMMA SameFilter ==
  ASSUME NEW s \in Text, NEW n \in 0 .. Len(s), NEW W, NEW V, NEW f, NEW g,
         IsFilter(s, W, f), IsFilter(s, V, g), \A i \in 1 .. n : i \in W <=> i \in V
  PROVE  f[n] = g[n]
<1>1. Len(s) \in Nat /\ n \in Nat /\ n <= Len(s)
  BY DEF Text
<1>2. ASSUME NEW k \in Nat, k < n, f[k] = g[k] PROVE f[k + 1] = g[k + 1]
  <2>1. k + 1 \in 1 .. n /\ k < Len(s)
    BY <1>1, <1>2
  <2>2. f[k + 1] = IF k + 1 \in W THEN Append(f[k], s[k + 1]) ELSE f[k]
    BY <2>1 DEF IsFilter
  <2>3. g[k + 1] = IF k + 1 \in V THEN Append(g[k], s[k + 1]) ELSE g[k]
    BY <2>1 DEF IsFilter
  <2> QED BY <1>2, <2>1, <2>2, <2>3
<1>3. f[0] = g[0]
  BY DEF IsFilter
<1>4. \A k \in 0 .. n : f[k] = g[k]
  BY <1>1, <1>2, <1>3, SameWalk
<1> QED BY <1>1, <1>4
-----------------------------------------------------------------------------
(* The pieces of a name. *)

(* Piece j of a name is a macro that there was room for, or a character    *)
(* that stands for itself.                                                 *)
IsPiece(p, j) ==
  \/ p \in Macro /\ Len(p) <= Room - j + 1
  \/ \E c \in Known : p = <<c>>
GoodName(q) ==
  q \in Pieces /\ Len(q) <= Room /\ \A j \in 1 .. Len(q) : IsPiece(q[j], j)

(* After k rounds of the loop a name has k pieces at most, and k places of *)
(* the text are behind it, or all.                                         *)
RoundsMade(s, r, k) ==
  /\ r \in State
  /\ Len(r.out) <= k
  /\ r.at - 1 <= Len(s)
  /\ r.at - 1 >= k \/ r.at - 1 = Len(s)
  /\ \A j \in 1 .. Len(r.out) : IsPiece(r.out[j], j)

(* A good name with a piece more. *)
LEMMA OneMore ==
  ASSUME NEW q \in Pieces, NEW p \in Text, NEW k \in Nat, Len(q) <= k,
         \A j \in 1 .. Len(q) : IsPiece(q[j], j), IsPiece(p, Len(q) + 1)
  PROVE  /\ Len(Append(q, p)) <= k + 1
         /\ \A j \in 1 .. Len(Append(q, p)) : IsPiece(Append(q, p)[j], j)
<1>1. /\ Len(Append(q, p)) = Len(q) + 1 /\ Len(q) \in Nat
      /\ Append(q, p)[Len(q) + 1] = p
      /\ \A j \in 1 .. Len(q) : Append(q, p)[j] = q[j]
  BY Added
<1>2. ASSUME NEW j \in 1 .. Len(q) + 1 PROVE IsPiece(Append(q, p)[j], j)
  <2>1. CASE j = Len(q) + 1
    BY <1>1, <2>1
  <2>2. CASE j # Len(q) + 1
    <3>1. j \in 1 .. Len(q)
      BY <1>1, <2>2
    <3> QED BY <1>1, <3>1
  <2> QED BY <2>1, <2>2
<1> QED BY <1>1, <1>2

(* Every round keeps this. *)
LEMMA RoundsGoOn ==
  ASSUME NEW s \in Text, NEW r, NEW k \in Nat, k < Room, RoundsMade(s, r, k)
  PROVE  RoundsMade(s, Round(s, r, Room - k), k + 1)
<1>1. /\ r \in State /\ r.at \in Nat \ {0} /\ r.out \in Pieces /\ Len(s) \in Nat /\ Room \in Nat
      /\ Len(r.out) \in Nat
  BY GuiAssumption DEF RoundsMade, State, Text, Pieces
<1>2. Room - k \in Int
  BY <1>1
<1> DEFINE n == Round(s, r, Room - k)
<1>3. /\ Len(r.out) <= k /\ r.at - 1 <= Len(s)
      /\ r.at - 1 >= k \/ r.at - 1 = Len(s)
      /\ \A j \in 1 .. Len(r.out) : IsPiece(r.out[j], j)
  BY DEF RoundsMade
<1>4. n \in State
  BY <1>1, <1>2, RoundIs
<1>5. CASE r.at > Len(s) /\ n = r
  <2>1. r.at - 1 = Len(s) /\ Len(r.out) <= k + 1
    BY <1>1, <1>3, <1>5
  <2> QED BY <1>1, <1>3, <1>5, <2>1 DEF RoundsMade
<1>6. ASSUME r.at <= Len(s), NEW m, Takes(s, r.at, Room - k, m),
             n = [at |-> r.at + Len(m), out |-> Append(r.out, m)]
      PROVE  RoundsMade(s, n, k + 1)
  <2>1. m \in Macro /\ m \in Text /\ Len(m) \in Nat /\ Len(m) > 1 /\ Len(m) <= Room - k
    BY <1>6, MacroText DEF Takes
  <2>2. r.at + Len(m) <= Len(s) + 1
    BY <1>6 DEF Takes, Stands
  <2>3. IsPiece(m, Len(r.out) + 1)
    <3>1. Len(m) <= Room - (Len(r.out) + 1) + 1
      BY <1>1, <1>3, <2>1
    <3> QED BY <2>1, <3>1 DEF IsPiece
  <2>4. /\ Len(Append(r.out, m)) <= k + 1
        /\ \A j \in 1 .. Len(Append(r.out, m)) : IsPiece(Append(r.out, m)[j], j)
    BY <1>1, <1>3, <2>1, <2>3, OneMore
  <2>5. n.at = r.at + Len(m) /\ n.out = Append(r.out, m)
    BY <1>6
  <2>6. n.at - 1 <= Len(s) /\ n.at - 1 >= k + 1
    BY <1>1, <1>3, <1>6, <2>1, <2>2, <2>5
  <2> HIDE DEF n
  <2> QED BY <1>4, <2>4, <2>5, <2>6 DEF RoundsMade
<1>7. ASSUME r.at <= Len(s),
             n = [at |-> r.at + 1,
                  out |-> IF s[r.at] \in Known THEN Append(r.out, <<s[r.at]>>) ELSE r.out]
      PROVE  RoundsMade(s, n, k + 1)
  <2>1. n.at = r.at + 1 /\ n.at - 1 <= Len(s) /\ n.at - 1 >= k + 1
    BY <1>1, <1>3, <1>7
  <2>2. /\ Len(n.out) <= k + 1
        /\ \A j \in 1 .. Len(n.out) : IsPiece(n.out[j], j)
    <3>1. CASE s[r.at] \in Known
      <4>1. n.out = Append(r.out, <<s[r.at]>>)
        BY <1>7, <3>1
      <4>2. <<s[r.at]>> \in Text
        BY <1>1, <1>7 DEF Text
      <4>3. IsPiece(<<s[r.at]>>, Len(r.out) + 1)
        BY <3>1 DEF IsPiece
      <4> HIDE DEF n
      <4>4. /\ Len(Append(r.out, <<s[r.at]>>)) <= k + 1
            /\ \A j \in 1 .. Len(Append(r.out, <<s[r.at]>>)) :
                 IsPiece(Append(r.out, <<s[r.at]>>)[j], j)
        BY <1>1, <1>3, <4>2, <4>3, OneMore
      <4> QED BY <4>1, <4>4
    <3>2. CASE s[r.at] \notin Known
      <4>1. n.out = r.out
        BY <1>7, <3>2
      <4> HIDE DEF n
      <4> QED BY <1>1, <1>3, <4>1
    <3> QED BY <3>1, <3>2
  <2> HIDE DEF n
  <2> QED BY <1>4, <2>1, <2>2 DEF RoundsMade
<1> QED BY <1>1, <1>2, <1>5, <1>6, <1>7, RoundIs

(* What the loop has after k rounds. *)
LEMMA RoundsOf ==
  ASSUME NEW s \in Text, NEW f, IsLoop(s, f)
  PROVE  \A k \in 0 .. Room : RoundsMade(s, f[k], k)
<1>1. Room \in Nat /\ Len(s) \in Nat
  BY GuiAssumption DEF Text
<1> DEFINE P == {k \in Nat : k <= Room => RoundsMade(s, f[k], k)}
<1>2. 0 \in P
  <2>1. f[0] = Start /\ Start \in State
    BY DEF IsLoop, Start, State, Pieces
  <2>2. Start.at = 1 /\ Start.out = <<>> /\ Len(Start.out) = 0
    BY DEF Start
  <2>3. RoundsMade(s, Start, 0)
    BY <1>1, <2>1, <2>2 DEF RoundsMade
  <2> QED BY <2>1, <2>3
<1>3. ASSUME NEW k \in Nat, k \in P PROVE k + 1 \in P
  <2> SUFFICES ASSUME k + 1 <= Room PROVE RoundsMade(s, f[k + 1], k + 1)
    BY <1>1
  <2>1. k < Room /\ RoundsMade(s, f[k], k)
    BY <1>1, <1>3
  <2>2. RoundsMade(s, Round(s, f[k], Room - k), k + 1)
    BY <2>1, RoundsGoOn
  <2> QED BY <2>1, <2>2 DEF IsLoop
<1> HIDE DEF P
<1>4. \A k \in Nat : k \in P
  BY <1>2, <1>3, Counting
<1> QED BY <1>1, <1>4 DEF P

(* What the launcher makes of a text is a good name. *)
LEMMA NamesAreGood ==
  ASSUME NEW s \in Text
  PROVE  GoodName(AsciiToMsg(s))
<1>1. PICK f : IsLoop(s, f)
  BY LoopWalk
<1>2. Room \in Nat /\ Room \in 0 .. Room
  BY GuiAssumption
<1>3. RoundsMade(s, f[Room], Room)
  BY <1>1, <1>2, RoundsOf
<1>4. AsciiToMsg(s) = f[Room].out
  BY <1>1 DEF IsLoop
<1> QED BY <1>3, <1>4 DEF GoodName, RoundsMade, State
-----------------------------------------------------------------------------
(* What the text of a name means. *)

AllKnown(m) == \A k \in 1 .. Len(m) : m[k] \in Known

(* Macros that share a place of a text. *)
LEMMA Overlap ==
  ASSUME NEW s \in Text, NEW m \in Macro, NEW x \in Macro, NEW i \in Nat \ {0}, NEW j \in Nat \ {0},
         Stands(m, s, i), Stands(x, s, j), i <= j, j < i + Len(m)
  PROVE  m = x /\ (i < j => AllKnown(m))
<1>1. Len(m) \in Nat /\ Len(x) \in Nat
  BY MacroText
<1> DEFINE o == j - i
<1>2. o \in 0 .. Len(m) - 1
  BY <1>1
<1>3. ASSUME NEW k \in 1 .. Len(x), o + k <= Len(m) PROVE m[o + k] = x[k]
  <2>1. s[j + k - 1] = x[k]
    BY <1>3 DEF Stands
  <2>2. o + k \in 1 .. Len(m)
    BY <1>1, <1>2, <1>3
  <2>3. s[i + (o + k) - 1] = m[o + k]
    BY <2>2 DEF Stands
  <2>4. i + (o + k) - 1 = j + k - 1
    BY <1>1, <1>3
  <2> QED BY <2>1, <2>3, <2>4
<1>4. i < j => o > 0
  OBVIOUS
<1> HIDE DEF o
<1>5. m = x /\ (o > 0 => \A k \in 1 .. Len(m) : m[k] \in Known)
  BY <1>2, <1>3, GuiAssumption
<1> QED BY <1>4, <1>5 DEF AllKnown

(* A text with a character more. *)
LEMMA Character ==
  ASSUME NEW u \in Text, NEW c \in Char
  PROVE  /\ Append(u, c) \in Text /\ Len(Append(u, c)) = Len(u) + 1
         /\ Append(u, c)[Len(u) + 1] = c
         /\ \A x \in 1 .. Len(u) : Append(u, c)[x] = u[x]
BY DEF Text

(* A text that grows character by character. *)
LEMMA Grown ==
  ASSUME NEW t \in Text, NEW g, g[0] \in Text,
         \A k \in Nat : k < Len(t) => g[k + 1] = Append(g[k], t[k + 1])
  PROVE  g[Len(t)] = Joint(g[0], t)
<1>1. Len(t) \in Nat /\ Len(g[0]) \in Nat
  BY DEF Text
<1> DEFINE Is(k) == /\ g[k] \in Text /\ Len(g[k]) = Len(g[0]) + k
                    /\ \A x \in 1 .. Len(g[0]) : g[k][x] = g[0][x]
                    /\ \A x \in 1 .. k : g[k][Len(g[0]) + x] = t[x]
           P == {k \in Nat : k <= Len(t) => Is(k)}
<1>2. 0 \in P
  BY <1>1
<1>3. ASSUME NEW k \in Nat, k < Len(t), Is(k) PROVE Is(k + 1)
  <2>1. k < Len(t) /\ Is(k)
    BY <1>3
  <2>2. PICK u \in Text : u = g[k]
    BY <2>1
  <2>3. g[k + 1] = Append(u, t[k + 1])
    BY <2>1, <2>2
  <2>4. t[k + 1] \in Char /\ Len(u) \in Nat /\ Len(u) = Len(g[0]) + k
    <3>1. k + 1 \in 1 .. Len(t)
      BY <1>1, <1>3
    <3>2. t \in Seq(Char) /\ u \in Seq(Char)
      BY DEF Text
    <3> QED BY <2>1, <2>2, <3>1, <3>2
  <2>5. /\ Append(u, t[k + 1]) \in Text /\ Len(Append(u, t[k + 1])) = Len(u) + 1
        /\ Append(u, t[k + 1])[Len(u) + 1] = t[k + 1]
        /\ \A x \in 1 .. Len(u) : Append(u, t[k + 1])[x] = u[x]
    BY <2>4, Character
  <2>6. PICK w : w = g[k + 1]
    OBVIOUS
  <2>7. /\ w \in Text /\ Len(w) = Len(g[0]) + (k + 1) /\ w[Len(g[0]) + (k + 1)] = t[k + 1]
        /\ \A x \in 1 .. Len(u) : w[x] = u[x]
    <3>1. \A z \in Nat : Len(u) = z + k => Len(u) + 1 = z + (k + 1)
      OBVIOUS
    <3>2. Len(u) + 1 = Len(g[0]) + (k + 1)
      BY <1>1, <2>4, <3>1
    <3> QED BY <2>3, <2>5, <2>6, <3>2
  <2>8. ASSUME NEW x \in 1 .. Len(g[0]) PROVE w[x] = g[0][x]
    <3>1. x \in 1 .. Len(u)
      BY <1>1, <2>4
    <3> QED BY <2>1, <2>2, <2>7, <3>1
  <2>9. ASSUME NEW x \in 1 .. k + 1 PROVE w[Len(g[0]) + x] = t[x]
    <3>1. CASE x = k + 1
      BY <2>7, <3>1
    <3>2. CASE x # k + 1
      <4>1. x \in 1 .. k /\ Len(g[0]) + x \in 1 .. Len(u)
        BY <1>1, <2>4, <3>2
      <4> QED BY <2>1, <2>2, <2>7, <4>1
    <3> QED BY <3>1, <3>2
  <2> QED BY <1>1, <2>6, <2>7, <2>8, <2>9
<1> HIDE DEF Is
<1>4. ASSUME NEW k \in Nat, k \in P PROVE k + 1 \in P
  <2>1. k + 1 <= Len(t) => k < Len(t) /\ k <= Len(t)
    BY <1>1
  <2> QED BY <1>3, <1>4, <2>1
<1> HIDE DEF P
<1>5. Len(t) \in P
  BY <1>1, <1>2, <1>4, Counting
<1>6. Is(Len(t))
  BY <1>1, <1>5 DEF P
<1>7. PICK u, w : u = g[0] /\ w = g[Len(t)]
  OBVIOUS
<1> USE DEF Is
<1>8. /\ u \in Seq(Char) /\ w \in Seq(Char) /\ Len(w) = Len(u) + Len(t)
      /\ \A x \in 1 .. Len(u) : w[x] = u[x]
      /\ \A x \in 1 .. Len(t) : w[Len(u) + x] = t[x]
  BY <1>6, <1>7 DEF Text
<1>9. t \in Seq(Char)
  BY DEF Text
<1>10. /\ u \o t \in Seq(Char) /\ Len(u \o t) = Len(u) + Len(t)
      /\ \A x \in 1 .. Len(u) + Len(t) : (u \o t)[x] = IF x <= Len(u) THEN u[x] ELSE t[x - Len(u)]
  BY <1>8, <1>9, ConcatProperties
<1>11. ASSUME NEW x \in 1 .. Len(w) PROVE w[x] = (u \o t)[x]
  <2>1. Len(u) \in Nat /\ Len(w) = Len(u) + Len(t) /\ x \in 1 .. Len(u) + Len(t)
    BY <1>1, <1>7, <1>8
  <2>2. CASE x <= Len(u)
    <3>1. x \in 1 .. Len(u)
      BY <2>1, <2>2
    <3> QED BY <1>8, <1>10, <2>1, <2>2, <3>1
  <2>3. CASE ~(x <= Len(u))
    <3>1. x - Len(u) \in 1 .. Len(t) /\ Len(u) + (x - Len(u)) = x
      BY <1>1, <2>1, <2>3
    <3>2. w[Len(u) + (x - Len(u))] = t[x - Len(u)]
      BY <1>8, <3>1
    <3> QED BY <1>10, <2>1, <2>3, <3>1, <3>2
  <2> QED BY <2>2, <2>3
<1>12. w = u \o t
  BY <1>8, <1>10, <1>11, SeqEqual
<1> QED BY <1>7, <1>12 DEF Joint

(* The text of a name with a piece more. *)
LEMMA FlattenAppend ==
  ASSUME NEW q \in Pieces, NEW p \in Text
  PROVE  MsgToAscii(q) \in Text /\ MsgToAscii(Append(q, p)) = Joint(MsgToAscii(q), p)
<1>1. /\ Append(q, p) \in Pieces /\ Len(Append(q, p)) = Len(q) + 1 /\ Len(q) \in Nat
      /\ Append(q, p)[Len(q) + 1] = p
      /\ \A k \in 1 .. Len(q) : Append(q, p)[k] = q[k]
  BY Added
<1>2. PICK f \in [Nat -> Text] : /\ f[0] = <<>>
                                 /\ \A k \in 1 .. Len(q) : f[k] = Joint(f[k - 1], q[k])
                                 /\ MsgToAscii(q) = f[Len(q)]
  BY FlattenWalk
<1>3. PICK v \in Pieces : v = Append(q, p)
  BY <1>1
<1>4. PICK g \in [Nat -> Text] : /\ g[0] = <<>>
                                 /\ \A k \in 1 .. Len(v) : g[k] = Joint(g[k - 1], v[k])
                                 /\ MsgToAscii(v) = g[Len(v)]
  BY FlattenWalk
<1>5. ASSUME NEW k \in Nat, k < Len(q), f[k] = g[k] PROVE f[k + 1] = g[k + 1]
  <2>1. k + 1 \in 1 .. Len(q) /\ k + 1 \in 1 .. Len(v) /\ (k + 1) - 1 = k
    BY <1>1, <1>3, <1>5
  <2>2. f[k + 1] = Joint(f[(k + 1) - 1], q[k + 1])
    BY <1>2, <2>1
  <2>3. g[k + 1] = Joint(g[(k + 1) - 1], v[k + 1])
    BY <1>4, <2>1
  <2>4. q[k + 1] = v[k + 1]
    BY <1>1, <1>3, <2>1
  <2> QED BY <1>5, <2>1, <2>2, <2>3, <2>4
<1>6. f[Len(q)] = g[Len(q)]
  <2>1. f[0] = g[0]
    BY <1>2, <1>4
  <2>2. \A k \in 0 .. Len(q) : f[k] = g[k]
    BY <1>1, <1>5, <2>1, SameWalk
  <2> QED BY <1>1, <2>2
<1>7. g[Len(q) + 1] = Joint(g[Len(q)], p)
  <2>1. Len(q) + 1 \in 1 .. Len(v) /\ (Len(q) + 1) - 1 = Len(q) /\ v[Len(q) + 1] = p
    BY <1>1, <1>3
  <2>2. g[Len(q) + 1] = Joint(g[(Len(q) + 1) - 1], v[Len(q) + 1])
    BY <1>4, <2>1
  <2> QED BY <2>1, <2>2
<1>8. MsgToAscii(v) = g[Len(q) + 1]
  BY <1>1, <1>3, <1>4
<1> QED BY <1>1, <1>2, <1>3, <1>6, <1>7, <1>8

(* The text of no pieces. *)
LEMMA FlattenNone == MsgToAscii(<<>>) = <<>>
BY DEF MsgToAscii, FlattenSeq

(* Adding a text of one character. *)
LEMMA Single ==
  ASSUME NEW u \in Text, NEW c \in Char
  PROVE  Joint(u, <<c>>) = Append(u, c)
BY AppendIsConcat DEF Text, Joint

(* A character that a macro is written with, and the macro that is written *)
(* where the character is.                                                 *)
LEMMA Written ==
  ASSUME NEW s \in Text, NEW m \in Macro, NEW j \in Nat \ {0}, NEW i \in Nat,
         Stands(m, s, j), j <= i, i < j + Len(m)
  PROVE  /\ i \in 1 .. Len(s) /\ j + Len(m) - 1 <= Len(s)
         /\ s[i] = m[i - j + 1]
         /\ AllKnown(m) => s[i] \in Known
         /\ \A n \in Nat : j + Len(m) <= n + 1 => Means(s, n, i)
<1>1. Len(m) \in Nat /\ Len(s) \in Nat
  BY MacroText DEF Text
<1>2. i - j + 1 \in 1 .. Len(m) /\ j + (i - j + 1) - 1 = i
  BY <1>1
<1>3. s[i] = m[i - j + 1]
  <2>1. s[j + (i - j + 1) - 1] = m[i - j + 1]
    BY <1>2 DEF Stands
  <2> QED BY <1>2, <2>1
<1>4. i \in 1 .. Len(s) /\ j + Len(m) - 1 <= Len(s)
  BY <1>1 DEF Stands
<1>5. AllKnown(m) => s[i] \in Known
  BY <1>2, <1>3 DEF AllKnown
<1>6. j \in 1 .. i
  BY <1>1
<1>7. ASSUME NEW n \in Nat, j + Len(m) <= n + 1 PROVE Means(s, n, i)
  BY <1>6, <1>7 DEF Means
<1> QED BY <1>3, <1>4, <1>5, <1>7

(* What means something among the first n does so among more. *)
LEMMA MoreMeans ==
  ASSUME NEW s \in Text, NEW n \in Nat, NEW o \in Nat, n <= o,
         NEW i \in 1 .. n, Means(s, n, i)
  PROVE  Means(s, o, i)
<1>1. CASE s[i] \in Known
  BY <1>1 DEF Means
<1>2. ASSUME NEW m \in Macro, NEW j \in 1 .. i,
             Stands(m, s, j), i < j + Len(m), j + Len(m) <= n + 1
      PROVE  Means(s, o, i)
  <2>1. j + Len(m) <= o + 1
    BY <1>2, MacroText
  <2> QED BY <1>2, <2>1 DEF Means
<1> QED BY <1>1, <1>2 DEF Means

(* Characters behind the first n that give none of these a meaning leave   *)
(* the meaning of the first n as it was.                                   *)
LEMMA MeaningGrows ==
  ASSUME NEW s \in Text, NEW n \in 0 .. Len(s), NEW o \in 0 .. Len(s), n <= o,
         \A i \in 1 .. n : Means(s, o, i) => Means(s, n, i),
         NEW f, IsFilter(s, Meant(s, o), f)
  PROVE  Meaning(s, n) = f[n] /\ Meaning(s, o) = f[o] /\ f[n] \in Text
<1>1. Len(s) \in Nat /\ n \in Nat /\ o \in Nat
  BY DEF Text
<1>2. PICK g : IsFilter(s, Meant(s, n), g)
  BY FilterWalk
<1>3. ASSUME NEW i \in 1 .. n PROVE i \in Meant(s, o) <=> i \in Meant(s, n)
  <2>1. Means(s, n, i) => Means(s, o, i)
    BY <1>1, MoreMeans
  <2>2. i \in 1 .. o
    BY <1>1
  <2> QED BY <2>1, <2>2 DEF Meant
<1>4. f[n] = g[n]
  BY <1>2, <1>3, SameFilter
<1>5. Meaning(s, n) = g[n]
  BY <1>2, MeaningIs
<1>6. Meaning(s, o) = f[o]
  BY MeaningIs
<1>7. f[n] \in Text
  BY <1>1 DEF IsFilter
<1> QED BY <1>4, <1>5, <1>6, <1>7

(* A macro after the first n is added to their meaning. *)
LEMMA MacroMeans ==
  ASSUME NEW s \in Text, NEW n \in 0 .. Len(s), NEW x \in Macro, Stands(x, s, n + 1)
  PROVE  /\ n + Len(x) \in 0 .. Len(s)
         /\ Meaning(s, n) \in Text
         /\ Meaning(s, n + Len(x)) = Joint(Meaning(s, n), x)
<1>1. Len(s) \in Nat /\ n \in Nat /\ x \in Text /\ Len(x) \in Nat /\ Len(x) > 1
  BY MacroText DEF Text
<1>2. n + Len(x) \in 0 .. Len(s)
  BY <1>1 DEF Stands
<1>3. PICK o : o = n + Len(x)
  OBVIOUS
<1>4. o \in 0 .. Len(s) /\ n <= o
  BY <1>1, <1>2, <1>3
<1>5. ASSUME NEW i \in 1 .. n, Means(s, o, i) PROVE Means(s, n, i)
  <2>1. CASE s[i] \in Known
    BY <2>1 DEF Means
  <2>2. ASSUME NEW m \in Macro, NEW j \in 1 .. i,
               Stands(m, s, j), i < j + Len(m), j + Len(m) <= o + 1
        PROVE  Means(s, n, i)
    <3>1. Len(m) \in Nat /\ j \in Nat \ {0} /\ i \in Nat /\ j <= i /\ n + 1 \in Nat \ {0}
      BY <1>1, MacroText
    <3>2. CASE j + Len(m) <= n + 1
      BY <1>1, <2>2, <3>1, <3>2, Written
    <3>3. CASE ~(j + Len(m) <= n + 1)
      <4>1. j <= n + 1 /\ n + 1 < j + Len(m) /\ j < n + 1
        BY <1>1, <3>1, <3>3
      <4>2. AllKnown(m)
        BY <2>2, <3>1, <4>1, Overlap
      <4>3. s[i] \in Known
        BY <2>2, <3>1, <4>2, Written
      <4> QED BY <4>3 DEF Means
    <3> QED BY <3>2, <3>3
  <2> QED BY <1>5, <2>1, <2>2 DEF Means
<1>6. PICK f : IsFilter(s, Meant(s, o), f)
  BY FilterWalk
<1>7. Meaning(s, n) = f[n] /\ Meaning(s, o) = f[o] /\ f[n] \in Text
  BY <1>4, <1>5, <1>6, MeaningGrows
<1>8. PICK g : g = [i \in Nat |-> f[n + i]]
  OBVIOUS
<1>9. g[0] = f[n] /\ g[Len(x)] = f[o]
  BY <1>1, <1>3, <1>8
<1>10. ASSUME NEW i \in Nat, i < Len(x) PROVE g[i + 1] = Append(g[i], x[i + 1])
  <2>1. n + i \in Nat /\ n + i < Len(s) /\ (n + i) + 1 = n + (i + 1) /\ i + 1 \in Nat
    BY <1>1, <1>2, <1>10
  <2>2. g[i] = f[n + i] /\ g[i + 1] = f[(n + i) + 1]
    BY <1>8, <2>1
  <2>3. n + 1 \in Nat \ {0} /\ n + 1 <= (n + i) + 1 /\ (n + i) + 1 < n + 1 + Len(x)
        /\ (n + i) + 1 \in Nat
    BY <1>1, <1>10
  <2>4. s[(n + i) + 1] = x[((n + i) + 1) - (n + 1) + 1]
    BY <2>3, Written
  <2>5. ((n + i) + 1) - (n + 1) + 1 = i + 1
    BY <1>1
  <2>6. o \in Nat /\ n + 1 + Len(x) <= o + 1
    BY <1>1, <1>3
  <2>7. Means(s, o, (n + i) + 1)
    BY <2>3, <2>6, Written
  <2>8. (n + i) + 1 \in Meant(s, o)
    BY <1>1, <1>3, <2>3, <2>7 DEF Meant
  <2>9. f[(n + i) + 1] = Append(f[n + i], s[(n + i) + 1])
    BY <1>6, <2>1, <2>8 DEF IsFilter
  <2> QED BY <2>2, <2>4, <2>5, <2>9
<1>11. g[Len(x)] = Joint(g[0], x)
  BY <1>1, <1>7, <1>9, <1>10, Grown
<1> QED BY <1>2, <1>3, <1>7, <1>9, <1>11

(* A character after the first n is added to their meaning if it stands    *)
(* for itself and ends no macro that means more than its characters.       *)
LEMMA CharacterMeans ==
  ASSUME NEW s \in Text, NEW n \in 0 .. Len(s), n < Len(s),
         \A m \in Macro, j \in 1 .. n :
           Stands(m, s, j) /\ j + Len(m) = n + 2 => AllKnown(m)
  PROVE  /\ Meaning(s, n) \in Text
         /\ Meaning(s, n + 1) = IF s[n + 1] \in Known THEN Append(Meaning(s, n), s[n + 1])
                                ELSE Meaning(s, n)
<1>1. Len(s) \in Nat /\ n \in Nat /\ n + 1 \in 0 .. Len(s)
  BY DEF Text
<1>2. PICK o : o = n + 1
  OBVIOUS
<1>3. ASSUME NEW i \in 1 .. o, Means(s, o, i)
      PROVE  s[i] \in Known \/ (i \in 1 .. n /\ Means(s, n, i))
  <2>1. ASSUME NEW m \in Macro, NEW j \in 1 .. i,
               Stands(m, s, j), i < j + Len(m), j + Len(m) <= o + 1
        PROVE  s[i] \in Known \/ (i \in 1 .. n /\ Means(s, n, i))
    <3>1. Len(m) \in Nat /\ Len(m) > 1 /\ j \in Nat \ {0} /\ i \in Nat /\ j <= i /\ i <= n + 1
      BY <1>1, <1>2, MacroText
    <3>2. CASE j + Len(m) <= n + 1
      <4>1. Means(s, n, i)
        BY <1>1, <2>1, <3>1, <3>2, Written
      <4>2. i \in 1 .. n
        BY <1>1, <2>1, <3>1, <3>2
      <4> QED BY <4>1, <4>2
    <3>3. CASE ~(j + Len(m) <= n + 1)
      <4>1. j + Len(m) = n + 2 /\ j \in 1 .. n
        BY <1>1, <1>2, <2>1, <3>1, <3>3
      <4>2. AllKnown(m)
        BY <2>1, <4>1
      <4>3. s[i] \in Known
        BY <2>1, <3>1, <4>2, Written
      <4> QED BY <4>3
    <3> QED BY <3>2, <3>3
  <2> QED BY <1>3, <2>1 DEF Means
<1>4. ASSUME NEW i \in 1 .. n, Means(s, o, i) PROVE Means(s, n, i)
  <2>1. i \in 1 .. o
    BY <1>1, <1>2
  <2>2. s[i] \in Known => Means(s, n, i)
    BY DEF Means
  <2> QED BY <1>3, <1>4, <2>1, <2>2
<1>5. n + 1 \in Meant(s, o) <=> s[n + 1] \in Known
  <2>1. n + 1 \in 1 .. o /\ ~(n + 1 \in 1 .. n)
    BY <1>1, <1>2
  <2>2. Means(s, o, n + 1) => s[n + 1] \in Known
    BY <1>3, <2>1
  <2>3. s[n + 1] \in Known => Means(s, o, n + 1)
    BY DEF Means
  <2> QED BY <2>1, <2>2, <2>3 DEF Meant
<1>6. PICK f : IsFilter(s, Meant(s, o), f)
  BY FilterWalk
<1>7. Meaning(s, n) = f[n] /\ Meaning(s, o) = f[o] /\ f[n] \in Text
  <2>1. o \in 0 .. Len(s) /\ n <= o
    BY <1>1, <1>2
  <2> QED BY <1>4, <1>6, <2>1, MeaningGrows
<1>8. f[n + 1] = IF n + 1 \in Meant(s, o) THEN Append(f[n], s[n + 1]) ELSE f[n]
  BY <1>1, <1>6 DEF IsFilter
<1> QED BY <1>2, <1>5, <1>7, <1>8

(* The pieces mean what the text behind them means, and a macro that was   *)
(* begun without room for it ends where there is room for no more.         *)
MeantSoFar(s, r, k) ==
  /\ MsgToAscii(r.out) = Meaning(s, r.at - 1)
  /\ \A m \in Macro, j \in 1 .. r.at - 1 :
       Stands(m, s, j) /\ ~AllKnown(m) /\ r.at < j + Len(m) => Room - k < j + Len(m) - r.at

(* The text of a name with a character more. *)
LEMMA FlattenCharacter ==
  ASSUME NEW q \in Pieces, NEW c \in Char
  PROVE  MsgToAscii(Append(q, <<c>>)) = Append(MsgToAscii(q), c)
<1>1. <<c>> \in Text
  BY DEF Text
<1>2. PICK p \in Text : p = <<c>>
  BY <1>1
<1>3. MsgToAscii(q) \in Text /\ MsgToAscii(Append(q, p)) = Joint(MsgToAscii(q), p)
  BY FlattenAppend
<1>4. Joint(MsgToAscii(q), <<c>>) = Append(MsgToAscii(q), c)
  BY <1>3, Single
<1> QED BY <1>2, <1>3, <1>4

(* Every round keeps this. *)
LEMMA MeantGoesOn ==
  ASSUME NEW s \in Text, NEW r, NEW k \in Nat, k < Room,
         RoundsMade(s, r, k), MeantSoFar(s, r, k)
  PROVE  MeantSoFar(s, Round(s, r, Room - k), k + 1)
<1>1. /\ r \in State /\ r.at \in Nat \ {0} /\ r.out \in Pieces /\ Len(s) \in Nat /\ Room \in Nat
      /\ r.at - 1 <= Len(s)
  BY GuiAssumption DEF RoundsMade, State, Text
<1>2. Room - k \in Int
  BY <1>1
<1> DEFINE n == Round(s, r, Room - k)
<1>3. MsgToAscii(r.out) = Meaning(s, r.at - 1)
  BY DEF MeantSoFar
<1>4. ASSUME NEW m \in Macro, NEW j \in 1 .. r.at - 1,
             Stands(m, s, j), ~AllKnown(m), r.at < j + Len(m)
      PROVE  Room - k < j + Len(m) - r.at
  BY <1>4 DEF MeantSoFar
<1>5. ASSUME r.at > Len(s), n = r PROVE MeantSoFar(s, n, k + 1)
  <2>1. ASSUME NEW m \in Macro, NEW j \in 1 .. r.at - 1, Stands(m, s, j), r.at < j + Len(m)
        PROVE  FALSE
    <3>1. Len(m) \in Nat /\ j + Len(m) <= Len(s) + 1
      BY <2>1, MacroText DEF Stands
    <3> QED BY <1>1, <1>5, <2>1, <3>1
  <2>2. ASSUME NEW m \in Macro, NEW j \in 1 .. r.at - 1,
               Stands(m, s, j), ~AllKnown(m), r.at < j + Len(m)
        PROVE  Room - (k + 1) < j + Len(m) - r.at
    BY <2>1, <2>2
  <2>3. MeantSoFar(s, r, k + 1)
    BY <1>3, <2>2 DEF MeantSoFar
  <2> HIDE DEF n
  <2> QED BY <1>5, <2>3
<1>6. ASSUME r.at <= Len(s), NEW x, Takes(s, r.at, Room - k, x),
             n = [at |-> r.at + Len(x), out |-> Append(r.out, x)]
      PROVE  MeantSoFar(s, n, k + 1)
  <2>1. x \in Macro /\ x \in Text /\ Len(x) \in Nat /\ Len(x) > 1 /\ Stands(x, s, r.at)
    BY <1>6, MacroText DEF Takes
  <2>2. n.at = r.at + Len(x) /\ n.out = Append(r.out, x)
    BY <1>6
  <2> HIDE DEF n
  <2>3. MsgToAscii(n.out) = Meaning(s, n.at - 1)
    <3>1. PICK o : o = r.at - 1
      OBVIOUS
    <3>2. o \in 0 .. Len(s) /\ o + 1 = r.at /\ o + Len(x) = n.at - 1
      BY <1>1, <2>1, <2>2, <3>1
    <3>3. Stands(x, s, o + 1)
      BY <2>1, <3>2
    <3>4. Meaning(s, o + Len(x)) = Joint(Meaning(s, o), x)
      BY <2>1, <3>2, <3>3, MacroMeans
    <3>5. MsgToAscii(Append(r.out, x)) = Joint(MsgToAscii(r.out), x)
      BY <1>1, <2>1, FlattenAppend
    <3> QED BY <1>3, <2>2, <3>1, <3>2, <3>4, <3>5
  <2>4. ASSUME NEW m \in Macro, NEW j \in 1 .. n.at - 1,
               Stands(m, s, j), ~AllKnown(m), n.at < j + Len(m)
        PROVE  FALSE
    <3>1. Len(m) \in Nat /\ j \in Nat \ {0} /\ j < r.at + Len(x) /\ r.at + Len(x) < j + Len(m)
      BY <1>1, <2>1, <2>2, <2>4, MacroText
    <3>2. CASE j < r.at
      <4>1. j <= r.at /\ r.at < j + Len(m)
        BY <1>1, <2>1, <3>1, <3>2
      <4>2. m = x /\ (j < r.at => AllKnown(m))
        BY <1>1, <2>1, <2>4, <3>1, <4>1, Overlap
      <4> QED BY <2>4, <3>2, <4>2
    <3>3. CASE ~(j < r.at)
      <4>1. r.at <= j /\ j < r.at + Len(x)
        BY <1>1, <3>1, <3>3
      <4>2. x = m /\ (r.at < j => AllKnown(x))
        BY <1>1, <2>1, <2>4, <3>1, <4>1, Overlap
      <4>3. j = r.at
        BY <1>1, <2>4, <3>1, <4>1, <4>2
      <4> QED BY <3>1, <4>2, <4>3
    <3> QED BY <3>2, <3>3
  <2> QED BY <2>3, <2>4 DEF MeantSoFar
<1>7. ASSUME r.at <= Len(s), \A m : ~Takes(s, r.at, Room - k, m),
             n = [at |-> r.at + 1,
                  out |-> IF s[r.at] \in Known THEN Append(r.out, <<s[r.at]>>) ELSE r.out]
      PROVE  MeantSoFar(s, n, k + 1)
  <2> HIDE DEF n
  <2>1. /\ n.at = r.at + 1
        /\ n.out = IF s[r.at] \in Known THEN Append(r.out, <<s[r.at]>>) ELSE r.out
    BY <1>7
  <2>2. PICK o : o = r.at - 1
    OBVIOUS
  <2>3. o \in 0 .. Len(s) /\ o < Len(s) /\ o + 1 = r.at /\ n.at - 1 = o + 1
    BY <1>1, <1>7, <2>1, <2>2
  <2>4. ASSUME NEW m \in Macro, NEW j \in 1 .. o, Stands(m, s, j), j + Len(m) = o + 2
        PROVE  AllKnown(m)
    <3>1. j \in 1 .. r.at - 1 /\ r.at < j + Len(m) /\ j + Len(m) - r.at = 1
      BY <1>1, <2>2, <2>4, MacroText
    <3>2. AllKnown(m) \/ Room - k < 1
      BY <1>4, <2>4, <3>1
    <3> QED BY <1>1, <3>2
  <2>5. Meaning(s, o + 1) = IF s[o + 1] \in Known THEN Append(Meaning(s, o), s[o + 1])
                            ELSE Meaning(s, o)
    BY <2>3, <2>4, CharacterMeans
  <2>6. MsgToAscii(n.out) = Meaning(s, n.at - 1)
    <3>1. CASE s[r.at] \in Known
      <4>1. s[r.at] \in Char
        BY <1>1, <1>7 DEF Text
      <4>2. MsgToAscii(n.out) = Append(MsgToAscii(r.out), s[r.at])
        BY <1>1, <2>1, <3>1, <4>1, FlattenCharacter
      <4> QED BY <1>3, <2>2, <2>3, <2>5, <3>1, <4>2
    <3>2. CASE s[r.at] \notin Known
      BY <1>3, <2>1, <2>2, <2>3, <2>5, <3>2
    <3> QED BY <3>1, <3>2
  <2>7. ASSUME NEW m \in Macro, NEW j \in 1 .. n.at - 1,
               Stands(m, s, j), ~AllKnown(m), n.at < j + Len(m)
        PROVE  Room - (k + 1) < j + Len(m) - n.at
    <3>1. Len(m) \in Nat /\ j \in Nat
      BY MacroText
    <3>2. CASE j < r.at
      <4>1. j \in 1 .. r.at - 1 /\ r.at < j + Len(m)
        BY <1>1, <2>1, <2>7, <3>1, <3>2
      <4>2. Room - k < j + Len(m) - r.at
        BY <1>4, <2>7, <4>1
      <4> QED BY <1>1, <2>1, <3>1, <4>2
    <3>3. CASE ~(j < r.at)
      <4>1. j = r.at
        BY <1>1, <2>1, <3>1, <3>3
      <4>2. ~(Len(m) <= Room - k)
        BY <1>7, <2>7, <4>1 DEF Takes
      <4> QED BY <1>1, <2>1, <3>1, <4>1, <4>2
    <3> QED BY <3>2, <3>3
  <2> QED BY <2>6, <2>7 DEF MeantSoFar
<1> HIDE DEF n
<1>8. /\ n \in State
      /\ \/ r.at > Len(s) /\ n = r
         \/ /\ r.at <= Len(s)
            /\ \E m : /\ Takes(s, r.at, Room - k, m)
                      /\ n = [at |-> r.at + Len(m), out |-> Append(r.out, m)]
         \/ /\ r.at <= Len(s)
            /\ \A m : ~Takes(s, r.at, Room - k, m)
            /\ n = [at |-> r.at + 1,
                    out |-> IF s[r.at] \in Known THEN Append(r.out, <<s[r.at]>>) ELSE r.out]
  BY <1>1, <1>2, RoundIs DEF n
<1>9. MeantSoFar(s, n, k + 1)
  <2>1. CASE r.at > Len(s) /\ n = r
    BY <1>5, <2>1
  <2>2. CASE /\ r.at <= Len(s)
             /\ \E m : /\ Takes(s, r.at, Room - k, m)
                       /\ n = [at |-> r.at + Len(m), out |-> Append(r.out, m)]
    <3>1. PICK m : /\ Takes(s, r.at, Room - k, m)
                   /\ n = [at |-> r.at + Len(m), out |-> Append(r.out, m)]
      BY <2>2
    <3> QED BY <1>6, <2>2, <3>1
  <2>3. CASE /\ r.at <= Len(s)
             /\ \A m : ~Takes(s, r.at, Room - k, m)
             /\ n = [at |-> r.at + 1,
                     out |-> IF s[r.at] \in Known THEN Append(r.out, <<s[r.at]>>) ELSE r.out]
    BY <1>7, <2>3
  <2> QED BY <1>8, <2>1, <2>2, <2>3
<1> QED BY <1>9 DEF n

(* So the pieces mean what is behind them after all the rounds. *)
LEMMA LoopMeans ==
  ASSUME NEW s \in Text, NEW f, IsLoop(s, f)
  PROVE  MeantSoFar(s, f[Room], Room)
<1>1. Room \in Nat /\ Len(s) \in Nat
  BY GuiAssumption DEF Text
<1> DEFINE P == {k \in Nat : k <= Room => MeantSoFar(s, f[k], k)}
<1>2. 0 \in P
  <2>1. f[0] = Start /\ Start.at = 1 /\ Start.out = <<>> /\ Start.at - 1 = 0
    BY DEF IsLoop, Start
  <2>2. Meaning(s, 0) = <<>>
    <3>1. PICK g : IsFilter(s, Meant(s, 0), g)
      BY FilterWalk
    <3>2. 0 \in 0 .. Len(s)
      BY <1>1
    <3>3. Meaning(s, 0) = g[0]
      BY <3>1, <3>2, MeaningIs
    <3> QED BY <3>1, <3>3 DEF IsFilter
  <2>3. MeantSoFar(s, Start, 0)
    BY <2>1, <2>2, FlattenNone DEF MeantSoFar
  <2> QED BY <2>1, <2>3
<1>3. ASSUME NEW k \in Nat, k < Room, MeantSoFar(s, f[k], k)
      PROVE  MeantSoFar(s, f[k + 1], k + 1)
  <2>1. k \in 0 .. Room
    BY <1>1, <1>3
  <2>2. RoundsMade(s, f[k], k)
    BY <2>1, RoundsOf
  <2>3. MeantSoFar(s, Round(s, f[k], Room - k), k + 1)
    BY <1>3, <2>2, MeantGoesOn
  <2> QED BY <1>3, <2>3 DEF IsLoop
<1>4. ASSUME NEW k \in Nat, k \in P PROVE k + 1 \in P
  <2>1. k + 1 <= Room => k < Room /\ k <= Room
    BY <1>1
  <2> QED BY <1>3, <1>4, <2>1
<1> HIDE DEF P
<1>5. Room \in P
  BY <1>1, <1>2, <1>4, Counting
<1> QED BY <1>1, <1>5 DEF P

(* What is shown of a text is what a beginning of it means, the whole if   *)
(* it is short enough.                                                     *)
LEMMA ShownIsMeant ==
  ASSUME NEW s \in Text
  PROVE  \E n \in 0 .. Len(s) :
           Shown(s) = Meaning(s, n) /\ (Len(s) <= Room => n = Len(s))
<1>1. PICK f : IsLoop(s, f)
  BY LoopWalk
<1>2. Room \in Nat /\ Len(s) \in Nat
  BY GuiAssumption DEF Text
<1>3. MeantSoFar(s, f[Room], Room)
  BY <1>1, LoopMeans
<1>4. RoundsMade(s, f[Room], Room)
  <2>1. Room \in 0 .. Room
    BY <1>2
  <2> QED BY <1>1, <2>1, RoundsOf
<1>5. PICK n : n = f[Room].at - 1
  OBVIOUS
<1>6. n \in 0 .. Len(s) /\ (n >= Room \/ n = Len(s))
  BY <1>2, <1>4, <1>5 DEF RoundsMade, State
<1>7. Shown(s) = Meaning(s, n)
  BY <1>1, <1>3, <1>5 DEF Shown, IsLoop, MeantSoFar
<1>8. Len(s) <= Room => n = Len(s)
  BY <1>2, <1>6
<1> QED BY <1>6, <1>7, <1>8
-----------------------------------------------------------------------------
(* A name that is read again from its text. *)

(* Where the characters of a joint come from. *)
LEMMA JointPlaces ==
  ASSUME NEW t \in Text, NEW u \in Text
  PROVE  /\ Len(Joint(t, u)) = Len(t) + Len(u)
         /\ \A x \in 1 .. Len(t) : Joint(t, u)[x] = t[x]
         /\ \A x \in 1 .. Len(u) : Joint(t, u)[Len(t) + x] = u[x]
<1>1. t \in Seq(Char) /\ u \in Seq(Char) /\ Len(t) \in Nat /\ Len(u) \in Nat
  BY DEF Text
<1>2. /\ Len(t \o u) = Len(t) + Len(u)
      /\ \A x \in 1 .. Len(t) + Len(u) : (t \o u)[x] = IF x <= Len(t) THEN t[x] ELSE u[x - Len(t)]
  BY <1>1, ConcatProperties
<1>3. ASSUME NEW x \in 1 .. Len(t) PROVE (t \o u)[x] = t[x]
  <2>1. x \in 1 .. Len(t) + Len(u) /\ x <= Len(t)
    BY <1>1
  <2> QED BY <1>2, <2>1
<1>4. ASSUME NEW x \in 1 .. Len(u) PROVE (t \o u)[Len(t) + x] = u[x]
  <2>1. Len(t) + x \in 1 .. Len(t) + Len(u) /\ ~(Len(t) + x <= Len(t)) /\ (Len(t) + x) - Len(t) = x
    BY <1>1
  <2>2. (t \o u)[Len(t) + x] = u[(Len(t) + x) - Len(t)]
    BY <1>2, <2>1
  <2> QED BY <2>1, <2>2
<1> QED BY <1>2, <1>3, <1>4 DEF Joint

(* The first j pieces of q take the first b[j] characters of its text. *)
IsPlaces(q, b) ==
  /\ b \in [Nat -> Nat] /\ b[0] = 0
  /\ MsgToAscii(q) \in Text /\ Len(MsgToAscii(q)) = b[Len(q)]
  /\ \A j \in 1 .. Len(q) : b[j] = b[j - 1] + Len(q[j])
  /\ \A j \in 1 .. Len(q) : \A x \in 1 .. Len(q[j]) :
       b[j - 1] + x <= b[Len(q)] /\ MsgToAscii(q)[b[j - 1] + x] = q[j][x]

(* There are such places. *)
LEMMA Places ==
  ASSUME NEW q \in Pieces
  PROVE  \E b : IsPlaces(q, b)
<1>1. PICK f \in [Nat -> Text] : /\ f[0] = <<>>
                                 /\ \A k \in 1 .. Len(q) : f[k] = Joint(f[k - 1], q[k])
                                 /\ MsgToAscii(q) = f[Len(q)]
  BY FlattenWalk
<1>2. Len(q) \in Nat /\ \A k \in 1 .. Len(q) : q[k] \in Text /\ Len(q[k]) \in Nat
  BY DEF Pieces, Text
<1>3. PICK b : b = [k \in Nat |-> Len(f[k])]
  OBVIOUS
<1>4. b \in [Nat -> Nat]
  <2>1. ASSUME NEW k \in Nat PROVE Len(f[k]) \in Nat
    <3>1. f[k] \in Text
      BY <1>1
    <3> QED BY <3>1 DEF Text
  <2> QED BY <1>3, <2>1
<1>5. b[0] = 0
  BY <1>1, <1>3
<1>6. ASSUME NEW k \in Nat, k < Len(q)
      PROVE  /\ b[k + 1] = b[k] + Len(q[k + 1]) /\ b[k] \in Nat /\ b[k + 1] \in Nat
             /\ \A x \in 1 .. b[k] : f[k + 1][x] = f[k][x]
             /\ \A x \in 1 .. Len(q[k + 1]) : f[k + 1][b[k] + x] = q[k + 1][x]
  <2>1. k + 1 \in 1 .. Len(q) /\ (k + 1) - 1 = k /\ q[k + 1] \in Text /\ f[k] \in Text
    BY <1>1, <1>2, <1>6
  <2>2. f[k + 1] = Joint(f[(k + 1) - 1], q[k + 1])
    BY <1>1, <2>1
  <2>3. b[k] = Len(f[k]) /\ b[k + 1] = Len(f[k + 1]) /\ b[k] \in Nat /\ b[k + 1] \in Nat
    BY <1>3, <1>4
  <2>4. PICK t, u, v : t = f[k] /\ u = q[k + 1] /\ v = f[k + 1] /\ t \in Text /\ u \in Text
    BY <2>1
  <2>5. v = Joint(t, u)
    BY <2>1, <2>2, <2>4
  <2>6. /\ Len(v) = Len(t) + Len(u)
        /\ \A x \in 1 .. Len(t) : v[x] = t[x]
        /\ \A x \in 1 .. Len(u) : v[Len(t) + x] = u[x]
    <3>1. /\ Len(Joint(t, u)) = Len(t) + Len(u)
          /\ \A x \in 1 .. Len(t) : Joint(t, u)[x] = t[x]
          /\ \A x \in 1 .. Len(u) : Joint(t, u)[Len(t) + x] = u[x]
      BY <2>4, JointPlaces
    <3> QED BY <2>5, <3>1
  <2>7. b[k] = Len(t) /\ b[k + 1] = Len(v)
    BY <2>3, <2>4
  <2>8. b[k + 1] = b[k] + Len(q[k + 1])
    BY <2>4, <2>6, <2>7
  <2>9. \A x \in 1 .. b[k] : f[k + 1][x] = f[k][x]
    BY <2>4, <2>6, <2>7
  <2>10. ASSUME NEW x \in 1 .. Len(q[k + 1]) PROVE f[k + 1][b[k] + x] = q[k + 1][x]
    BY <2>4, <2>6, <2>7
  <2> QED BY <2>3, <2>8, <2>9, <2>10
<1> DEFINE Is(k) == \A j \in 1 .. k : \A x \in 1 .. Len(q[j]) :
                      b[j - 1] + x <= b[k] /\ f[k][b[j - 1] + x] = q[j][x]
           P == {k \in Nat : k <= Len(q) => Is(k)}
<1>7. ASSUME NEW k \in Nat, k < Len(q), Is(k) PROVE Is(k + 1)
  <2> SUFFICES ASSUME NEW j \in 1 .. k + 1, NEW x \in 1 .. Len(q[j])
               PROVE  b[j - 1] + x <= b[k + 1] /\ f[k + 1][b[j - 1] + x] = q[j][x]
    OBVIOUS
  <2>1. j \in 1 .. Len(q) /\ Len(q[j]) \in Nat /\ x \in Nat /\ Len(q[k + 1]) \in Nat
    BY <1>2, <1>7
  <2>2. b[k] \in Nat /\ b[k + 1] \in Nat /\ b[k + 1] = b[k] + Len(q[k + 1])
    BY <1>6, <1>7
  <2>3. CASE j = k + 1
    <3>1. j - 1 = k
      BY <2>3
    <3>2. f[k + 1][b[k] + x] = q[k + 1][x]
      BY <1>6, <1>7, <2>3
    <3>3. b[k] + x <= b[k + 1]
      BY <2>1, <2>2, <2>3
    <3> QED BY <2>3, <3>1, <3>2, <3>3
  <2>4. CASE j # k + 1
    <3>1. j \in 1 .. k
      BY <2>4
    <3>2. b[j - 1] + x <= b[k] /\ f[k][b[j - 1] + x] = q[j][x]
      BY <1>7, <3>1
    <3>3. PICK y : y = b[j - 1]
      OBVIOUS
    <3>4. y \in Nat /\ y + x \in 1 .. b[k] /\ y + x <= b[k + 1]
      <4>1. j - 1 \in Nat
        OBVIOUS
      <4>2. y \in Nat
        BY <1>4, <3>3, <4>1
      <4>3. y + x <= b[k]
        BY <3>2, <3>3
      <4>4. b[k] <= b[k + 1]
        BY <2>1, <2>2
      <4>5. x \in Nat /\ x >= 1
        BY <2>1
      <4> QED BY <2>2, <4>2, <4>3, <4>4, <4>5
    <3>5. f[k + 1][y + x] = f[k][y + x]
      BY <1>6, <1>7, <3>4
    <3> QED BY <3>2, <3>3, <3>4, <3>5
  <2> QED BY <2>3, <2>4
<1>8. Is(0)
  OBVIOUS
<1> HIDE DEF Is
<1>9. ASSUME NEW k \in Nat, k \in P PROVE k + 1 \in P
  <2>1. k + 1 <= Len(q) => k < Len(q) /\ k <= Len(q)
    BY <1>2
  <2> QED BY <1>7, <1>9, <2>1
<1>10. 0 \in P
  BY <1>8
<1> HIDE DEF P
<1>11. Len(q) \in P
  BY <1>2, <1>9, <1>10, Counting
<1>12. Is(Len(q))
  BY <1>2, <1>11 DEF P
<1>13. ASSUME NEW j \in 1 .. Len(q) PROVE b[j] = b[j - 1] + Len(q[j])
  <2>1. j - 1 \in Nat /\ j - 1 < Len(q) /\ (j - 1) + 1 = j
    BY <1>2
  <2>2. b[(j - 1) + 1] = b[j - 1] + Len(q[(j - 1) + 1])
    BY <1>6, <2>1
  <2> QED BY <2>1, <2>2
<1>14. MsgToAscii(q) \in Text /\ Len(MsgToAscii(q)) = b[Len(q)]
  BY <1>1, <1>2, <1>3
<1> USE DEF Is
<1>15. \A j \in 1 .. Len(q) : \A x \in 1 .. Len(q[j]) :
         b[j - 1] + x <= b[Len(q)] /\ MsgToAscii(q)[b[j - 1] + x] = q[j][x]
  BY <1>1, <1>12
<1> HIDE DEF Is
<1>16. IsPlaces(q, b)
  BY <1>4, <1>5, <1>13, <1>14, <1>15 DEF IsPlaces
<1> QED BY <1>16

(* The piece at a place of the text of a good name: a character that       *)
(* stands for itself, or a macro for which there was room.                 *)
PieceAt(t, b, d) ==
  \/ b[d + 1] = b[d] + 1 /\ t[b[d] + 1] \in Known
  \/ \E p \in Macro : /\ Len(p) <= Room - d
                      /\ Stands(p, t, b[d] + 1)
                      /\ b[d + 1] = b[d] + Len(p)

(* The text of a good name, piece by piece. *)
LEMMA PiecesOfGood ==
  ASSUME NEW q, GoodName(q), NEW b, IsPlaces(q, b), NEW d \in Nat, d < Len(q)
  PROVE  /\ b[d] \in Nat /\ b[d + 1] \in Nat /\ b[d] < b[d + 1] /\ b[d + 1] <= b[Len(q)]
         /\ PieceAt(MsgToAscii(q), b, d)
<1>1. q \in Pieces /\ Len(q) \in Nat /\ Len(q) <= Room /\ Room \in Nat
  BY GuiAssumption DEF GoodName, Pieces
<1>2. d + 1 \in 1 .. Len(q) /\ (d + 1) - 1 = d
  BY <1>1
<1>3. PICK p \in Text : p = q[d + 1]
  BY <1>1, <1>2 DEF Pieces
<1>4. IsPiece(p, d + 1)
  BY <1>2, <1>3 DEF GoodName
<1>5. b[d] \in Nat /\ b[d + 1] \in Nat
  BY <1>1 DEF IsPlaces
<1>6. b[d + 1] = b[d] + Len(p)
  <2>1. b[d + 1] = b[(d + 1) - 1] + Len(q[d + 1])
    BY <1>2 DEF IsPlaces
  <2> QED BY <1>2, <1>3, <2>1
<1>7. ASSUME NEW x \in 1 .. Len(p)
      PROVE  b[d] + x <= b[Len(q)] /\ MsgToAscii(q)[b[d] + x] = p[x]
  <2>1. x \in 1 .. Len(q[d + 1])
    BY <1>3
  <2>2. b[(d + 1) - 1] + x <= b[Len(q)] /\ MsgToAscii(q)[b[(d + 1) - 1] + x] = q[d + 1][x]
    BY <1>2, <2>1 DEF IsPlaces
  <2> QED BY <1>2, <1>3, <2>2
<1>8. CASE \E c \in Known : p = <<c>>
  <2>1. PICK c \in Known : p = <<c>>
    BY <1>8
  <2>2. Len(p) = 1 /\ p[1] = c /\ 1 \in 1 .. Len(p)
    BY <2>1
  <2>3. b[d] + 1 <= b[Len(q)] /\ MsgToAscii(q)[b[d] + 1] = c
    BY <1>7, <2>2
  <2> QED BY <1>5, <1>6, <2>2, <2>3 DEF PieceAt
<1>9. CASE p \in Macro /\ Len(p) <= Room - (d + 1) + 1
  <2>1. Len(p) \in Nat /\ Len(p) > 1 /\ Len(p) <= Room - d
    BY <1>1, <1>9, MacroText
  <2>2. b[d] + Len(p) <= b[Len(q)]
    BY <1>7, <2>1
  <2>3. Stands(p, MsgToAscii(q), b[d] + 1)
    <3>1. Len(MsgToAscii(q)) = b[Len(q)] /\ b[Len(q)] \in Nat
      BY <1>1 DEF IsPlaces
    <3>2. b[d] + 1 + Len(p) <= Len(MsgToAscii(q)) + 1
      BY <1>5, <2>1, <2>2, <3>1
    <3>3. ASSUME NEW k \in 1 .. Len(p) PROVE MsgToAscii(q)[b[d] + 1 + k - 1] = p[k]
      <4>1. b[d] + 1 + k - 1 = b[d] + k
        BY <1>5, <2>1
      <4> QED BY <1>7, <4>1
    <3> QED BY <3>2, <3>3 DEF Stands
  <2>4. b[d] < b[d + 1] /\ b[d + 1] <= b[Len(q)]
    BY <1>5, <1>6, <2>1, <2>2
  <2> QED BY <1>5, <1>6, <1>9, <2>1, <2>3, <2>4 DEF PieceAt
<1> QED BY <1>4, <1>8, <1>9 DEF IsPiece

(* Every place of the text, up to its end, lies in a piece. *)
LEMMA PlaceInPiece ==
  ASSUME NEW q, GoodName(q), NEW b, IsPlaces(q, b), NEW c \in Nat, c <= Len(q),
         NEW i \in Nat, b[c] < i, i <= b[Len(q)]
  PROVE  \E d \in Nat : c <= d /\ d < Len(q) /\ b[d] < i /\ i <= b[d + 1]
<1>1. q \in Pieces /\ Len(q) \in Nat
  BY DEF GoodName, Pieces
<1>2. \A x \in Nat : b[x] \in Nat
  BY DEF IsPlaces
<1> DEFINE T == {x \in Nat : c <= x /\ x <= Len(q) /\ i <= b[x]}
<1>3. Len(q) \in T
  BY <1>1
<1>4. PICK x \in T : \A y \in T : x <= y
  BY <1>3, Least
<1>5. x # c /\ x \in Nat /\ c <= x /\ x <= Len(q) /\ i <= b[x]
  <2>1. x \in Nat /\ c <= x /\ x <= Len(q) /\ i <= b[x]
    OBVIOUS
  <2>2. b[c] \in Nat
    BY <1>2
  <2> QED BY <2>1, <2>2
<1>6. PICK d : d = x - 1
  OBVIOUS
<1>7. d \in Nat /\ c <= d /\ d < Len(q) /\ d + 1 = x /\ d < x
  BY <1>1, <1>5, <1>6
<1>8. d \notin T
  BY <1>4, <1>7
<1>9. ~(i <= b[d])
  BY <1>1, <1>7, <1>8
<1>10. b[d] < i
  BY <1>2, <1>7, <1>9
<1> QED BY <1>5, <1>7, <1>10

(* All the characters of the text of a good name mean something. *)
LEMMA GoodMeans ==
  ASSUME NEW q, GoodName(q)
  PROVE  LET t == MsgToAscii(q) IN t \in Text /\ Meaning(t, Len(t)) = t
<1>1. q \in Pieces /\ Len(q) \in Nat
  BY DEF GoodName, Pieces
<1>2. PICK b : IsPlaces(q, b)
  BY <1>1, Places
<1>3. PICK t \in Text : t = MsgToAscii(q)
  BY <1>2 DEF IsPlaces
<1>4. Len(t) \in Nat /\ Len(t) = b[Len(q)] /\ b[0] = 0
  BY <1>2, <1>3 DEF IsPlaces, Text
<1>5. ASSUME NEW i \in 1 .. Len(t) PROVE Means(t, Len(t), i)
  <2>1. i \in Nat /\ b[0] < i /\ i <= b[Len(q)] /\ 0 <= Len(q)
    BY <1>1, <1>4
  <2>2. PICK d \in Nat : d < Len(q) /\ b[d] < i /\ i <= b[d + 1]
    BY <1>2, <2>1, PlaceInPiece
  <2>3. /\ b[d] \in Nat /\ b[d + 1] \in Nat /\ b[d + 1] <= b[Len(q)]
        /\ PieceAt(t, b, d)
    BY <1>2, <1>3, <2>2, PiecesOfGood
  <2>4. CASE b[d + 1] = b[d] + 1 /\ t[b[d] + 1] \in Known
    <3>1. i = b[d] + 1
      BY <2>2, <2>3, <2>4
    <3> QED BY <2>4, <3>1 DEF Means
  <2>5. ASSUME NEW p \in Macro, Stands(p, t, b[d] + 1), b[d + 1] = b[d] + Len(p)
        PROVE  Means(t, Len(t), i)
    <3>1. Len(p) \in Nat
      BY MacroText
    <3>2. PICK j : j = b[d] + 1
      OBVIOUS
    <3>3. /\ j \in Nat \ {0} /\ j <= i /\ i < j + Len(p) /\ j + Len(p) <= Len(t) + 1
          /\ Stands(p, t, j)
      BY <1>4, <2>2, <2>3, <2>5, <3>1, <3>2
    <3> QED BY <1>4, <3>3, Written
  <2> QED BY <2>3, <2>4, <2>5 DEF PieceAt
<1>6. PICK f : IsFilter(t, Meant(t, Len(t)), f)
  BY FilterWalk
<1>7. ASSUME NEW k \in Nat, k < Len(t) PROVE f[k + 1] = Append(f[k], t[k + 1])
  <2>1. k + 1 \in 1 .. Len(t)
    BY <1>4, <1>7
  <2>2. k + 1 \in Meant(t, Len(t))
    BY <1>5, <2>1 DEF Meant
  <2> QED BY <1>6, <1>7, <2>2 DEF IsFilter
<1>8. f[0] = <<>>
  BY <1>6 DEF IsFilter
<1>9. f[0] \in Text
  BY <1>8, Joined
<1>10. f[Len(t)] = Joint(f[0], t)
  BY <1>7, <1>9, Grown
<1>11. f[Len(t)] = t
  BY <1>8, <1>10, Joined
<1>12. Len(t) \in 0 .. Len(t)
  BY <1>4
<1>13. Meaning(t, Len(t)) = f[Len(t)]
  BY <1>6, <1>12, MeaningIs
<1> QED BY <1>3, <1>11, <1>13

(* Reading the text of q again, the loop is at its end, or has made no     *)
(* more rounds than there are pieces up to the next end of a piece, less   *)
(* the characters that are left of that one.                               *)
InStep(q, b, n, k) ==
  \/ n = b[Len(q)]
  \/ \E c \in Nat : c <= Len(q) /\ n <= b[c] /\ k + b[c] - n <= c

(* A character goes on by no less than a piece does. *)
LEMMA CharacterInStep ==
  ASSUME NEW q, GoodName(q), NEW b, IsPlaces(q, b), NEW n \in Nat, n < b[Len(q)],
         NEW k \in Nat, k < Room, InStep(q, b, n, k),
         \A m : ~Takes(MsgToAscii(q), n + 1, Room - k, m)
  PROVE  InStep(q, b, n + 1, k + 1)
<1>1. q \in Pieces /\ Len(q) \in Nat /\ Room \in Nat
  BY GuiAssumption DEF GoodName, Pieces
<1>2. \A x \in Nat : b[x] \in Nat
  BY DEF IsPlaces
<1>3. PICK c \in Nat : c <= Len(q) /\ n <= b[c] /\ k + b[c] - n <= c
  BY <1>1, <1>2 DEF InStep
<1>4. b[c] \in Nat
  BY <1>2
<1>5. CASE n < b[c]
  <2>1. n + 1 <= b[c] /\ (k + 1) + b[c] - (n + 1) <= c
    BY <1>3, <1>4, <1>5
  <2> QED BY <1>3, <2>1 DEF InStep
<1>6. CASE n = b[c]
  <2>1. k <= c /\ c # Len(q) /\ c < Len(q)
    BY <1>1, <1>3, <1>4, <1>6
  <2>2. b[c + 1] \in Nat /\ PieceAt(MsgToAscii(q), b, c)
    BY <2>1, PiecesOfGood
  <2>3. CASE b[c + 1] = b[c] + 1
    <3>1. c + 1 \in Nat /\ c + 1 <= Len(q) /\ n + 1 <= b[c + 1]
          /\ (k + 1) + b[c + 1] - (n + 1) <= c + 1
      BY <1>1, <1>4, <1>6, <2>1, <2>2, <2>3
    <3> QED BY <3>1 DEF InStep
  <2>4. ASSUME NEW p \in Macro, Len(p) <= Room - c, Stands(p, MsgToAscii(q), b[c] + 1)
        PROVE  FALSE
    <3>1. Len(p) <= Room - k
      BY <1>1, <2>1, <2>4, MacroText
    <3>2. Takes(MsgToAscii(q), n + 1, Room - k, p)
      BY <1>6, <2>4, <3>1 DEF Takes
    <3> QED BY <3>2
  <2> QED BY <2>2, <2>3, <2>4 DEF PieceAt
<1> QED BY <1>3, <1>4, <1>5, <1>6

(* So does a macro: one that begins within it is the same. *)
LEMMA MacroInStep ==
  ASSUME NEW q, GoodName(q), NEW b, IsPlaces(q, b), NEW n \in Nat, n < b[Len(q)],
         NEW k \in Nat, k < Room, InStep(q, b, n, k),
         NEW m \in Macro, Stands(m, MsgToAscii(q), n + 1)
  PROVE  InStep(q, b, n + Len(m), k + 1)
<1>1. q \in Pieces /\ Len(q) \in Nat /\ Room \in Nat
  BY GuiAssumption DEF GoodName, Pieces
<1>2. \A x \in Nat : b[x] \in Nat
  BY DEF IsPlaces
<1>3. PICK c \in Nat : c <= Len(q) /\ n <= b[c] /\ k + b[c] - n <= c
  BY <1>1, <1>2 DEF InStep
<1>4. b[c] \in Nat /\ Len(m) \in Nat /\ Len(m) > 1
  BY <1>2, MacroText
<1>5. PICK o : o = n + Len(m)
  OBVIOUS
<1>6. PICK t \in Text : t = MsgToAscii(q)
  BY DEF IsPlaces
<1>7. o \in Nat /\ n < o /\ o <= b[Len(q)]
  <2>1. Len(t) = b[Len(q)] /\ b[Len(q)] \in Nat
    BY <1>1, <1>2, <1>6 DEF IsPlaces
  <2>2. n + 1 + Len(m) <= Len(t) + 1
    BY <1>6 DEF Stands
  <2> QED BY <1>4, <1>5, <2>1, <2>2
<1>8. CASE o <= b[c]
  <2>1. (k + 1) + b[c] - o <= c
    BY <1>3, <1>4, <1>5, <1>8
  <2> QED BY <1>3, <1>5, <1>8, <2>1 DEF InStep
<1>9. CASE ~(o <= b[c])
  (* A piece that begins within the macro. *)
  <2>1. ASSUME NEW d \in Nat, d < Len(q), n <= b[d], b[d] < o
        PROVE  /\ b[d] \in Nat /\ b[d + 1] \in Nat /\ b[d] < b[d + 1]
               /\ b[d + 1] = b[d] + 1 \/ b[d + 1] = b[d] + Len(m)
    <3>1. /\ b[d] \in Nat /\ b[d + 1] \in Nat /\ b[d] < b[d + 1]
          /\ PieceAt(t, b, d)
      BY <1>6, <2>1, PiecesOfGood
    <3>2. ASSUME NEW p \in Macro, Stands(p, t, b[d] + 1) PROVE m = p
      <4>1. PICK i, j : i = n + 1 /\ j = b[d] + 1
        OBVIOUS
      <4>2. i \in Nat \ {0} /\ j \in Nat \ {0} /\ i <= j /\ j < i + Len(m)
        BY <1>4, <1>5, <2>1, <3>1, <4>1
      <4>3. Stands(m, t, i) /\ Stands(p, t, j)
        BY <1>6, <3>2, <4>1
      <4> QED BY <4>2, <4>3, Overlap
    <3> QED BY <3>1, <3>2 DEF PieceAt
  <2>2. b[c] < o
    BY <1>4, <1>7, <1>9
  (* The ends of pieces within the macro are one character apart. *)
  <2> DEFINE P == {x \in Nat : c + x <= Len(q) /\ b[c + x] < o => b[c + x] = b[c] + x}
  <2>3. 0 \in P
    BY <1>4
  <2>4. ASSUME NEW x \in Nat, x \in P PROVE x + 1 \in P
    <3> SUFFICES ASSUME c + (x + 1) <= Len(q), b[c + (x + 1)] < o
                 PROVE  b[c + (x + 1)] = b[c] + (x + 1)
      OBVIOUS
    <3>1. PICK d : d = c + x
      OBVIOUS
    <3>2. d \in Nat /\ d < Len(q) /\ c + (x + 1) = d + 1
      BY <1>1, <3>1
    <3>3. b[d] < b[d + 1] /\ b[d] \in Nat /\ b[d + 1] \in Nat
      BY <3>2, PiecesOfGood
    <3>4. b[d + 1] < o /\ b[d] < o
      BY <1>7, <3>2, <3>3
    <3>5. b[d] = b[c] + x
      BY <1>1, <2>4, <3>1, <3>2, <3>4
    <3>6. n <= b[d]
      BY <1>3, <1>4, <3>5
    <3>7. b[d + 1] = b[d] + 1 \/ b[d + 1] = b[d] + Len(m)
      BY <2>1, <3>2, <3>4, <3>6
    <3>8. b[d + 1] # b[d] + Len(m)
      <4>1. \A y, l \in Nat : n <= y => n + l <= y + l
        OBVIOUS
      <4>2. o <= b[d] + Len(m)
        BY <1>4, <1>5, <3>3, <3>6, <4>1
      <4>3. \A y \in Nat : y < o => ~(o <= y)
        BY <1>7
      <4> QED BY <3>3, <3>4, <4>2, <4>3
    <3>9. b[d + 1] = (b[c] + x) + 1
      BY <3>5, <3>7, <3>8
    <3>10. (b[c] + x) + 1 = b[c] + (x + 1)
      BY <1>4
    <3> QED BY <3>2, <3>9, <3>10
  <2> HIDE DEF P
  <2>5. PICK d \in Nat : c <= d /\ d < Len(q) /\ b[d] < o /\ o <= b[d + 1]
    BY <1>3, <1>7, <2>2, PlaceInPiece
  <2>6. b[d] = b[c] + (d - c)
    <3>1. d - c \in Nat /\ c + (d - c) = d
      BY <2>5
    <3>2. d - c \in P
      BY <2>3, <2>4, <3>1, Counting
    <3> QED BY <1>1, <2>5, <3>1, <3>2 DEF P
  <2>7. n <= b[d]
    BY <1>3, <1>4, <2>5, <2>6
  <2>8. /\ b[d] \in Nat /\ b[d + 1] \in Nat
        /\ b[d + 1] = b[d] + 1 \/ b[d + 1] = b[d] + Len(m)
    BY <2>1, <2>5, <2>7
  <2>9. (k + 1) + b[d + 1] - o <= d + 1
    <3>1. CASE b[d + 1] = b[d] + 1
      <4>1. b[d + 1] = o
        BY <1>7, <2>5, <2>8, <3>1
      <4>2. k <= d
        BY <1>3, <1>4, <2>5
      <4> QED BY <1>7, <4>1, <4>2
    <3>2. CASE b[d + 1] = b[d] + Len(m)
      <4>1. \A y, l \in Nat : k + y - n <= c => (k + 1) + ((y + (d - c)) + l) - (n + l) <= d + 1
        OBVIOUS
      <4>2. (k + 1) + ((b[c] + (d - c)) + Len(m)) - (n + Len(m)) <= d + 1
        BY <1>3, <1>4, <4>1
      <4>3. b[d + 1] = (b[c] + (d - c)) + Len(m)
        BY <2>6, <3>2
      <4> QED BY <1>5, <4>2, <4>3
    <3> QED BY <2>8, <3>1, <3>2
  <2>10. d + 1 \in Nat /\ d + 1 <= Len(q)
    BY <1>1, <2>5
  <2> QED BY <1>5, <2>5, <2>9, <2>10 DEF InStep
<1> QED BY <1>8, <1>9

(* A good name shows the text that it is read from again. *)
LEMMA GoodStays ==
  ASSUME NEW q, GoodName(q)
  PROVE  Shown(MsgToAscii(q)) = MsgToAscii(q)
<1>1. q \in Pieces /\ Len(q) \in Nat /\ Room \in Nat /\ Len(q) <= Room
  BY GuiAssumption DEF GoodName, Pieces
<1>2. PICK b : IsPlaces(q, b)
  BY <1>1, Places
<1>3. PICK t \in Text : t = MsgToAscii(q)
  BY <1>2 DEF IsPlaces
<1>4. Len(t) \in Nat /\ Len(t) = b[Len(q)] /\ b[0] = 0 /\ \A x \in Nat : b[x] \in Nat
  BY <1>2, <1>3 DEF IsPlaces, Text
<1>5. PICK f : IsLoop(t, f)
  BY LoopWalk
<1> DEFINE P == {k \in Nat : k <= Room => InStep(q, b, f[k].at - 1, k)}
<1>6. 0 \in P
  <2>1. f[0].at - 1 = 0
    BY <1>5 DEF IsLoop, Start
  <2>2. 0 <= Len(q) /\ 0 <= b[0] /\ 0 + b[0] - 0 <= 0
    BY <1>1, <1>4
  <2>3. InStep(q, b, 0, 0)
    BY <2>2 DEF InStep
  <2> QED BY <2>1, <2>3
<1>7. ASSUME NEW k \in Nat, k < Room, InStep(q, b, f[k].at - 1, k)
      PROVE  InStep(q, b, f[k + 1].at - 1, k + 1)
  <2>1. RoundsMade(t, f[k], k)
    <3>1. k \in 0 .. Room
      BY <1>1, <1>7
    <3> QED BY <1>5, <3>1, RoundsOf
  <2>2. PICK r \in State : r = f[k]
    BY <2>1 DEF RoundsMade
  <2>3. PICK z : z = f[k + 1]
    OBVIOUS
  <2>4. z = Round(t, r, Room - k)
    BY <1>5, <1>7, <2>2, <2>3 DEF IsLoop
  <2>5. PICK n : n = r.at - 1
    OBVIOUS
  <2>6. n \in Nat /\ n <= Len(t) /\ r.at = n + 1 /\ InStep(q, b, n, k)
    BY <1>4, <1>7, <2>1, <2>2, <2>5 DEF RoundsMade, State
  <2>7. Room - k \in Int
    BY <1>1
  <2>8. CASE r.at > Len(t) /\ z = r
    <3>1. n = b[Len(q)]
      BY <1>4, <2>6, <2>8
    <3>2. z.at - 1 = n
      BY <2>5, <2>8
    <3> QED BY <2>3, <3>1, <3>2 DEF InStep
  <2>9. ASSUME r.at <= Len(t), NEW m, Takes(t, r.at, Room - k, m), z.at = r.at + Len(m)
        PROVE  InStep(q, b, z.at - 1, k + 1)
    <3>1. m \in Macro /\ Stands(m, t, n + 1) /\ n < b[Len(q)] /\ Len(m) \in Nat
      BY <1>4, <2>6, <2>9, MacroText DEF Takes
    <3>2. InStep(q, b, n + Len(m), k + 1)
      BY <1>2, <1>3, <1>7, <2>6, <3>1, MacroInStep
    <3>3. z.at - 1 = n + Len(m)
      BY <2>6, <2>9, <3>1
    <3> QED BY <3>2, <3>3
  <2>10. ASSUME r.at <= Len(t), \A m : ~Takes(t, r.at, Room - k, m), z.at = r.at + 1
         PROVE  InStep(q, b, z.at - 1, k + 1)
    <3>1. n < b[Len(q)] /\ z.at - 1 = n + 1 /\ \A m : ~Takes(t, n + 1, Room - k, m)
      BY <1>4, <2>6, <2>10
    <3>2. InStep(q, b, n + 1, k + 1)
      BY <1>2, <1>3, <1>7, <2>6, <3>1, CharacterInStep
    <3> QED BY <3>1, <3>2
  <2> DEFINE y == Round(t, r, Room - k)
  <2>11. \/ r.at > Len(t) /\ z = r
         \/ /\ r.at <= Len(t)
            /\ \E m : Takes(t, r.at, Room - k, m) /\ z.at = r.at + Len(m)
         \/ /\ r.at <= Len(t)
            /\ \A m : ~Takes(t, r.at, Room - k, m)
            /\ z.at = r.at + 1
    <3>1. \/ r.at > Len(t) /\ y = r
          \/ /\ r.at <= Len(t)
             /\ \E m : /\ Takes(t, r.at, Room - k, m)
                       /\ y = [at |-> r.at + Len(m), out |-> Append(r.out, m)]
          \/ /\ r.at <= Len(t)
             /\ \A m : ~Takes(t, r.at, Room - k, m)
             /\ y = [at |-> r.at + 1,
                     out |-> IF t[r.at] \in Known THEN Append(r.out, <<t[r.at]>>) ELSE r.out]
      BY <2>7, RoundIs
    <3>2. y = z
      BY <2>4
    <3> HIDE DEF y
    <3> QED BY <3>1, <3>2
  <2> QED BY <2>3, <2>8, <2>9, <2>10, <2>11
<1>8. ASSUME NEW k \in Nat, k \in P PROVE k + 1 \in P
  <2>1. k + 1 <= Room => k < Room /\ k <= Room
    BY <1>1
  <2> QED BY <1>7, <1>8, <2>1
<1> HIDE DEF P
<1>9. Room \in P
  BY <1>1, <1>6, <1>8, Counting
<1>10. PICK n : n = f[Room].at - 1
  OBVIOUS
<1>11. InStep(q, b, n, Room)
  BY <1>1, <1>9, <1>10 DEF P
<1>12. MeantSoFar(t, f[Room], Room) /\ RoundsMade(t, f[Room], Room)
  BY <1>1, <1>5, LoopMeans, RoundsOf
<1>13. n = Len(t)
  <2>1. n \in Nat /\ n <= Len(t)
    BY <1>10, <1>12 DEF RoundsMade, State
  <2>2. ASSUME NEW c \in Nat, c <= Len(q), n <= b[c], Room + b[c] - n <= c
        PROVE  n = Len(t)
    <3>1. b[c] \in Nat
      BY <1>4
    <3>2. c = Len(q) /\ n = b[c]
      BY <1>1, <2>1, <2>2, <3>1
    <3> QED BY <1>4, <3>2
  <2> QED BY <1>4, <1>11, <2>2 DEF InStep
<1>14. Shown(t) = Meaning(t, n)
  BY <1>5, <1>10, <1>12 DEF Shown, IsLoop, MeantSoFar
<1>15. Meaning(t, Len(t)) = t
  BY <1>3, GoodMeans
<1> QED BY <1>3, <1>13, <1>14, <1>15
-----------------------------------------------------------------------------
(* The window and its files. *)

(* A name that is kept for the text of the window.                         *)
Fitting(q) == GoodName(q) /\ MsgToAscii(q) = Shown(text)
Matches(file) == file.is = "whole" /\ file.colour = colour /\ Fitting(file.name)

(* A whole config.bin has a name that can be read.  While no save was cut  *)
(* short or has failed, both files have what the window shows, but for     *)
(* those that are about to be written; while the window is closed they     *)
(* have the same.                                                          *)
LaunchInv ==
  /\ win \in {"closed", "idle", "bin", "nff"}
  /\ text \in Text
  /\ win # "closed" => Fitting(name)
  /\ bin.is = "whole" => GoodName(bin.name)
  /\ win = "nff" => Matches(bin)
  /\ ~stale =>
       /\ win = "closed" /\ bin.is # "absent" =>
            /\ bin.is = "whole" /\ nff.is = "whole" /\ nff.colour = bin.colour
            /\ GoodName(nff.name) /\ MsgToAscii(nff.name) = MsgToAscii(bin.name)
       /\ win = "idle" => Matches(bin) /\ Matches(nff)
       /\ win = "bin" /\ ~toNff => Matches(nff)

(* What is typed is text, and so is what a name is shown as. *)
LEMMA Typed ==
  /\ \A t \in Texts : t \in Text
  /\ <<>> \in Text
  /\ \A s \in Text : GoodName(AsciiToMsg(s)) /\ MsgToAscii(AsciiToMsg(s)) = Shown(s)
  /\ \A q : GoodName(q) => MsgToAscii(q) \in Text /\ Shown(MsgToAscii(q)) = MsgToAscii(q)
<1>1. \A t \in Texts : t \in Text
  BY GuiAssumption DEF Text, Char
<1>2. <<>> \in Text
  BY Joined
<1>3. \A s \in Text : GoodName(AsciiToMsg(s)) /\ MsgToAscii(AsciiToMsg(s)) = Shown(s)
  BY NamesAreGood DEF Shown
<1>4. ASSUME NEW q, GoodName(q)
      PROVE  MsgToAscii(q) \in Text /\ Shown(MsgToAscii(q)) = MsgToAscii(q)
  <2>1. Shown(MsgToAscii(q)) = MsgToAscii(q)
    BY <1>4, GoodStays
  <2>2. MsgToAscii(q) \in Text
    BY <1>4, GoodMeans
  <2> QED BY <2>1, <2>2
<1> QED BY <1>1, <1>2, <1>3, <1>4

(* The name of a file that was emptied, all bytes 0. *)
LEMMA ZeroName == GoodName([i \in 1 .. Room |-> <<"0">>])
<1>1. Room \in Nat /\ "0" \in Known /\ Known \subseteq STRING
  BY GuiAssumption
<1>2. PICK c : c = "0"
  OBVIOUS
<1>3. c \in Known /\ c \in Char
  BY <1>1, <1>2 DEF Char
<1>4. <<c>> \in Text
  BY <1>3 DEF Text
<1>5. PICK p \in Text : p = <<c>>
  BY <1>4
<1> DEFINE q == [i \in 1 .. Room |-> p]
<1>6. q \in Seq(Text) /\ Len(q) = Room
  BY <1>1
<1>7. \A j \in 1 .. Len(q) : IsPiece(q[j], j)
  BY <1>3, <1>5, <1>6 DEF IsPiece
<1>8. GoodName(q)
  BY <1>1, <1>6, <1>7 DEF GoodName, Pieces
<1> QED BY <1>2, <1>5, <1>8

(* Saving starts with a name made of the text. *)
LEMMA SaveStarts ==
  ASSUME text' \in Text, NEW toGame, WndSave(toGame)
  PROVE  /\ Fitting(name)' /\ toNff' = toGame /\ nff' = nff
         /\ \/ win' = "bin" /\ bin' = Cut /\ stale' = stale
            \/ win' = "idle" /\ stale' = (stale \/ toGame) /\ bin' = bin
<1>1. name' = AsciiToMsg(text')
  BY DEF WndSave
<1>2. PICK s \in Text : s = text'
  OBVIOUS
<1>3. GoodName(AsciiToMsg(s)) /\ MsgToAscii(AsciiToMsg(s)) = Shown(s)
  BY Typed
<1>4. Fitting(name)'
  BY <1>1, <1>2, <1>3 DEF Fitting
<1> QED BY <1>4 DEF WndSave

(* The start. *)
LEMMA LaunchBegins == GuiInit => LaunchInv
<1>1. GuiInit => /\ win = "closed" /\ text = <<>> /\ bin.is = "absent"
  BY DEF GuiInit, NoFile
<1> QED BY <1>1, Typed DEF LaunchInv

(* A step of the launcher. *)
LEMMA LaunchGoesOn == LaunchInv /\ [GuiNext]_guiVars => LaunchInv'
<1> SUFFICES ASSUME LaunchInv, [GuiNext]_guiVars PROVE LaunchInv'
  OBVIOUS
<1>1. CASE CfgLoad
  <2>1. /\ win = "closed" /\ bin.is # "absent" /\ win' = "idle"
        /\ name' = IF bin.is = "whole" THEN bin.name ELSE [i \in 1 .. Room |-> <<"0">>]
        /\ colour' = bin.colour /\ text' = MsgToAscii(name')
        /\ bin' = bin /\ nff' = nff /\ toNff' = toNff /\ stale' = stale
    BY <1>1 DEF CfgLoad
  <2>2. PICK q : q = name'
    OBVIOUS
  <2>3. GoodName(q)
    <3>1. CASE bin.is = "whole"
      BY <2>1, <2>2, <3>1 DEF LaunchInv
    <3>2. CASE bin.is # "whole"
      BY <2>1, <2>2, <3>2, ZeroName
    <3> QED BY <3>1, <3>2
  <2>4. text' = MsgToAscii(q) /\ text' \in Text /\ Shown(text') = MsgToAscii(q)
    <3>1. MsgToAscii(q) \in Text /\ Shown(MsgToAscii(q)) = MsgToAscii(q)
      BY <2>3, Typed
    <3>2. PICK s : s = text'
      OBVIOUS
    <3>3. s = MsgToAscii(q)
      BY <2>1, <2>2, <3>2
    <3> QED BY <3>1, <3>2, <3>3
  <2>5. Fitting(name)'
    BY <2>2, <2>3, <2>4 DEF Fitting
  <2>6. ASSUME ~stale PROVE Matches(bin)' /\ Matches(nff)'
    <3>1. /\ bin.is = "whole" /\ nff.is = "whole" /\ nff.colour = bin.colour
          /\ GoodName(nff.name) /\ MsgToAscii(nff.name) = MsgToAscii(bin.name)
      BY <2>1, <2>6 DEF LaunchInv
    <3>2. q = bin.name
      BY <2>1, <2>2, <3>1
    <3> QED BY <2>1, <2>3, <2>4, <3>1, <3>2 DEF Matches, Fitting
  <2> QED BY <2>1, <2>4, <2>5, <2>6 DEF LaunchInv
<1>2. CASE CfgDefault
  <2>1. win = "closed" /\ bin.is = "absent" /\ text' = <<>> /\ WndSave(TRUE)
    BY <1>2 DEF CfgDefault
  <2>2. text' \in Text
    BY <2>1, Typed
  <2>3. /\ Fitting(name)' /\ toNff' = TRUE /\ nff' = nff
        /\ \/ win' = "bin" /\ bin' = Cut /\ stale' = stale
           \/ win' = "idle" /\ stale' = (stale \/ TRUE) /\ bin' = bin
    BY <2>1, <2>2, SaveStarts
  <2>4. bin'.is # "whole"
    BY <2>1, <2>3 DEF Cut
  <2> QED BY <2>2, <2>3, <2>4 DEF LaunchInv
<1>3. ASSUME NEW t \in Texts, EditName(t) PROVE LaunchInv'
  <2>1. win = "idle" /\ text' = t /\ WndSave(TRUE)
    BY <1>3 DEF EditName
  <2>2. text' \in Text
    BY <2>1, Typed
  <2>3. /\ Fitting(name)' /\ toNff' = TRUE /\ nff' = nff
        /\ \/ win' = "bin" /\ bin' = Cut /\ stale' = stale
           \/ win' = "idle" /\ stale' = (stale \/ TRUE) /\ bin' = bin
    BY <2>1, <2>2, SaveStarts
  <2>4. bin'.is = "whole" => bin' = bin
    BY <2>3 DEF Cut
  <2>5. bin'.is = "whole" => GoodName(bin'.name)
    BY <2>4 DEF LaunchInv
  <2> QED BY <2>2, <2>3, <2>5 DEF LaunchInv
<1>4. CASE EditOther
  <2>1. win = "idle" /\ text' = text /\ colour' = colour /\ WndSave(FALSE)
    BY <1>4 DEF EditOther
  <2>2. text' \in Text /\ text \in Text
    BY <2>1 DEF LaunchInv
  <2>3. /\ Fitting(name)' /\ toNff' = FALSE /\ nff' = nff
        /\ \/ win' = "bin" /\ bin' = Cut /\ stale' = stale
           \/ win' = "idle" /\ stale' = (stale \/ FALSE) /\ bin' = bin
    BY <2>1, <2>2, SaveStarts
  <2>4. bin'.is = "whole" => bin' = bin
    BY <2>3 DEF Cut
  <2>5. bin'.is = "whole" => GoodName(bin'.name)
    BY <2>4 DEF LaunchInv
  <2>6. ~stale' => ~stale
    BY <2>3
  <2>7. ~stale => Matches(bin) /\ Matches(nff)
    BY <2>1 DEF LaunchInv
  <2>8. Matches(nff) => Matches(nff)'
    BY <2>1, <2>3 DEF Matches, Fitting
  <2>9. win' = "idle" => (Matches(bin) => Matches(bin)')
    BY <2>1, <2>3 DEF Matches, Fitting
  <2> QED BY <2>2, <2>3, <2>5, <2>6, <2>7, <2>8, <2>9 DEF LaunchInv
<1>5. ASSUME NEW c \in 0 .. 1, WndColour(c) PROVE LaunchInv'
  <2>1. win = "idle" /\ text' = text /\ WndSave(TRUE)
    BY <1>5 DEF WndColour
  <2>2. text' \in Text
    BY <2>1 DEF LaunchInv
  <2>3. /\ Fitting(name)' /\ toNff' = TRUE /\ nff' = nff
        /\ \/ win' = "bin" /\ bin' = Cut /\ stale' = stale
           \/ win' = "idle" /\ stale' = (stale \/ TRUE) /\ bin' = bin
    BY <2>1, <2>2, SaveStarts
  <2>4. bin'.is = "whole" => bin' = bin
    BY <2>3 DEF Cut
  <2>5. bin'.is = "whole" => GoodName(bin'.name)
    BY <2>4 DEF LaunchInv
  <2> QED BY <2>2, <2>3, <2>5 DEF LaunchInv
<1>6. CASE BinWritten
  <2>1. /\ win = "bin" /\ bin' = Config
        /\ text' = text /\ name' = name /\ colour' = colour /\ toNff' = toNff
    BY <1>6 DEF BinWritten
  <2>2. \/ toNff /\ win' = "nff" /\ nff' = Cut /\ stale' = stale
        \/ toNff /\ win' = "idle" /\ stale' = TRUE /\ nff' = nff
        \/ ~toNff /\ win' = "idle" /\ stale' = stale /\ nff' = nff
    BY <1>6 DEF BinWritten
  <2>3. text \in Text /\ Fitting(name)
    BY <2>1 DEF LaunchInv
  <2>4. bin'.is = "whole" /\ bin'.name = name /\ bin'.colour = colour
    BY <2>1 DEF Config
  <2>5. Fitting(name)' /\ Matches(bin)' /\ GoodName(bin'.name)
    BY <2>1, <2>3, <2>4 DEF Matches, Fitting
  <2>6. ~stale /\ ~toNff => Matches(nff)
    BY <2>1 DEF LaunchInv
  <2>7. Matches(nff) /\ nff' = nff => Matches(nff)'
    BY <2>1 DEF Matches, Fitting
  <2> QED BY <2>1, <2>2, <2>3, <2>5, <2>6, <2>7 DEF LaunchInv
<1>7. CASE NffWritten
  <2>1. /\ win = "nff" /\ win' = "idle" /\ nff' = Config /\ stale' = FALSE
        /\ text' = text /\ name' = name /\ colour' = colour /\ bin' = bin
    BY <1>7 DEF NffWritten
  <2>2. text \in Text /\ Fitting(name) /\ Matches(bin) /\ (bin.is = "whole" => GoodName(bin.name))
    BY <2>1 DEF LaunchInv
  <2>3. nff'.is = "whole" /\ nff'.name = name /\ nff'.colour = colour
    BY <2>1 DEF Config
  <2>4. Fitting(name)' /\ Matches(nff)' /\ Matches(bin)'
    BY <2>1, <2>2, <2>3 DEF Matches, Fitting
  <2> QED BY <2>1, <2>2, <2>4 DEF LaunchInv
<1>8. CASE Close
  <2>1. /\ win # "closed" /\ win' = "closed" /\ stale' = (stale \/ win \in {"bin", "nff"})
        /\ text' = text /\ bin' = bin /\ nff' = nff
    BY <1>8 DEF Close
  <2>2. text \in Text /\ (bin.is = "whole" => GoodName(bin.name))
        /\ win \in {"idle", "bin", "nff"}
    BY <2>1 DEF LaunchInv
  <2>3. ~stale' => ~stale /\ win = "idle"
    BY <2>1, <2>2
  <2>4. ~stale' => Matches(bin) /\ Matches(nff)
    BY <2>3 DEF LaunchInv
  <2>5. ~stale' => /\ bin.is = "whole" /\ nff.is = "whole" /\ nff.colour = bin.colour
                   /\ GoodName(nff.name) /\ MsgToAscii(nff.name) = MsgToAscii(bin.name)
    BY <2>4 DEF Matches, Fitting
  <2> QED BY <2>1, <2>2, <2>5 DEF LaunchInv
<1>9. CASE UNCHANGED guiVars
  BY <1>9 DEF LaunchInv, Matches, Fitting, guiVars
<1> QED BY <1>1, <1>2, <1>3, <1>4, <1>5, <1>6, <1>7, <1>8, <1>9 DEF GuiNext

(* Whatever is typed, saved, loaded and closed, however saves fail, the    *)
(* files keep what the window shows (main.c:272-360).                      *)
THEOREM LaunchInvariant == GuiSpec => []LaunchInv
BY LaunchBegins, LaunchGoesOn, PTL DEF GuiSpec

(* A name that is typed fits a record, keeps what was typed but for what   *)
(* means nothing and for an end that does not fit, and shows the same      *)
(* however often it is loaded and saved (main.c:205-258).                  *)
THEOREM NameIsKept == GuiSpec => []NameKept
<1>1. LaunchInv => NameKept
  <2> SUFFICES ASSUME text \in Text PROVE NameKept
    BY DEF LaunchInv
  <2>1. PICK s \in Text : s = text
    OBVIOUS
  <2>2. GoodName(AsciiToMsg(s))
    BY NamesAreGood
  <2>3. Len(AsciiToMsg(s)) <= Room
    BY <2>2 DEF GoodName
  <2>4. Shown(Shown(s)) = Shown(s)
    BY <2>2, Typed DEF Shown
  <2>5. \E n \in 0 .. Len(s) : Shown(s) = Meaning(s, n) /\ (Len(s) <= Room => n = Len(s))
    BY ShownIsMeant
  <2>6. MsgToAscii(AsciiToMsg(s)) = Shown(s)
    BY DEF Shown
  <2> QED BY <2>1, <2>3, <2>4, <2>5, <2>6 DEF NameKept
<1> QED BY <1>1, LaunchInvariant, PTL

(* A name with pieces is shown as some text. *)
LEMMA SomeText ==
  ASSUME NEW q, GoodName(q), MsgToAscii(q) = <<>>
  PROVE  q = <<>>
<1>1. q \in Pieces /\ Len(q) \in Nat
  BY DEF GoodName, Pieces
<1>2. PICK b : IsPlaces(q, b)
  BY <1>1, Places
<1>3. b[0] = 0 /\ b[Len(q)] = 0
  BY <1>2 DEF IsPlaces
<1>4. CASE 0 < Len(q)
  <2>1. b[0] < b[0 + 1] /\ b[0 + 1] <= b[Len(q)] /\ b[0 + 1] \in Nat
    BY <1>2, <1>4, PiecesOfGood
  <2> QED BY <1>3, <2>1
<1>5. CASE ~(0 < Len(q))
  BY <1>1, <1>5 DEF Pieces
<1> QED BY <1>4, <1>5

(* Who launches plays under the name and in the colour that the window     *)
(* shows, unless a save failed or was cut short (main.c:272-360, 410-437). *)
THEOREM LaunchesAsShown == GuiSpec => []LaunchShown
<1>1. LaunchInv => LaunchShown
  <2> SUFFICES ASSUME LaunchInv, win = "idle", name # <<>>, ~stale
               PROVE  /\ nff.is = "whole" /\ nff.name # <<>>
                      /\ nff.colour = colour
                      /\ MsgToAscii(nff.name) = Shown(text)
    BY DEF LaunchShown, CanLaunch
  <2>1. Matches(nff) /\ Fitting(name)
    BY DEF LaunchInv
  <2>2. nff.is = "whole" /\ nff.colour = colour /\ MsgToAscii(nff.name) = Shown(text)
    BY <2>1 DEF Matches, Fitting
  <2>3. GoodName(name) /\ MsgToAscii(name) = Shown(text)
    BY <2>1 DEF Fitting
  <2>4. MsgToAscii(name) # <<>>
    BY <2>3, SomeText
  <2>5. nff.name # <<>>
    BY <2>2, <2>3, <2>4, FlattenNone
  <2> QED BY <2>2, <2>5
<1> QED BY <1>1, LaunchInvariant, PTL
=============================================================================
