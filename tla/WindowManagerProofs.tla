------------------------ MODULE WindowManagerProofs ------------------------
(* Every mapped window is stacked, drawn, somewhere on the screen and      *)
(* within reach of Tab, for any number of windows and any sequence of      *)
(* commands.                                                               *)
EXTENDS WindowManager, WellFoundedInduction, FiniteSetTheorems, TLAPS

(***************************************************************************)
(* Sequences without repetition.  What Kept computes is shown by an        *)
(* induction over the length of what it has looked at.                     *)
(***************************************************************************)
\* A set of numbers that holds 0, and with a number the next one, holds all.
LEMMA Induction ==
  ASSUME NEW T \in SUBSET Nat, 0 \in T, \A n \in T : n + 1 \in T
  PROVE  T = Nat
<1> SUFFICES ASSUME T # Nat PROVE FALSE
  OBVIOUS
<1>1. PICK m \in Nat \ T : \A n \in Nat \ T : <<n, m>> \notin OpToRel(<, Nat)
  BY NatLessThanWellFounded, WFMin
<1>2. \A n \in Nat \ T : ~(n < m)
  BY <1>1 DEF OpToRel
<1>3. m - 1 \in Nat /\ m - 1 < m /\ (m - 1) + 1 = m
  BY m # 0
<1>4. m - 1 \in T
  BY <1>2, <1>3
<1> QED BY <1>1, <1>3, <1>4

\* A sequence over D without repetitions, and what is in it.
Listed(s, D) == s \in Seq(D) /\ IsInjective(s)
Members(s) == {s[i] : i \in 1..Len(s)}

LEMMA MembersRange == ASSUME NEW D, NEW s \in Seq(D) PROVE Range(s) = Members(s) /\ Members(s) \subseteq D
BY DEF Range, Members

LEMMA ListedAppend ==
  ASSUME NEW D, NEW s, Listed(s, D), NEW x \in D, x \notin Members(s)
  PROVE  Listed(Append(s, x), D) /\ Members(Append(s, x)) = Members(s) \cup {x}
<1> DEFINE r == Append(s, x)
<1>1. /\ r \in Seq(D) /\ Len(r) = Len(s) + 1 /\ r[Len(s) + 1] = x /\ Len(s) \in Nat
      /\ \A i \in 1..Len(s) : r[i] = s[i]
  BY DEF Listed
<1>2. \A i \in 1..Len(r) : i \in 1..Len(s) \/ i = Len(s) + 1
  BY <1>1
<1> HIDE DEF r
<1>3. ASSUME NEW i \in 1..Len(r), NEW j \in 1..Len(r), r[i] = r[j] PROVE i = j
  BY <1>1, <1>2, <1>3 DEF Listed, IsInjective, Members
<1>4. IsInjective(r)
  BY <1>1, <1>3 DEF IsInjective
<1>5. Members(r) = Members(s) \cup {x}
  BY <1>1, <1>2 DEF Members
<1> QED BY <1>1, <1>4, <1>5 DEF Listed, r

LEMMA ListedJoined ==
  ASSUME NEW D, NEW s, Listed(s, D), NEW t, Listed(t, D), Members(s) \cap Members(t) = {}
  PROVE  Listed(s \o t, D) /\ Members(s \o t) = Members(s) \cup Members(t)
<1> DEFINE r == s \o t
<1>1. /\ r \in Seq(D) /\ Len(r) = Len(s) + Len(t) /\ Len(s) \in Nat /\ Len(t) \in Nat
      /\ \A i \in 1..Len(s) : i \in 1..Len(r) /\ r[i] = s[i]
      /\ \A i \in 1..Len(r) : i \notin 1..Len(s) => i - Len(s) \in 1..Len(t) /\ r[i] = t[i - Len(s)]
      /\ \A i \in 1..Len(t) : Len(s) + i \in 1..Len(r) /\ r[Len(s) + i] = t[i]
  BY DEF Listed
<1>2. /\ \A i, j \in 1..Len(s) : s[i] = s[j] => i = j
      /\ \A i, j \in 1..Len(t) : t[i] = t[j] => i = j
      /\ \A i \in 1..Len(s), j \in 1..Len(t) : s[i] # t[j]
  <2>1. ASSUME NEW i \in 1..Len(s), NEW j \in 1..Len(t) PROVE s[i] # t[j]
    BY DEF Members
  <2> QED BY <2>1 DEF Listed, IsInjective
<1> HIDE DEF r
<1>3. ASSUME NEW i \in 1..Len(r), NEW j \in 1..Len(r), r[i] = r[j] PROVE i = j
  <2>1. CASE i \in 1..Len(s) /\ j \in 1..Len(s)
    BY <1>1, <1>2, <1>3, <2>1
  <2>2. CASE i \notin 1..Len(s) /\ j \notin 1..Len(s)
    <3>1. i - Len(s) = j - Len(s)
      BY <1>1, <1>2, <1>3, <2>2
    <3> QED BY <1>1, <3>1
  <2>3. CASE i \in 1..Len(s) /\ j \notin 1..Len(s)
    BY <1>1, <1>2, <1>3, <2>3
  <2>4. CASE i \notin 1..Len(s) /\ j \in 1..Len(s)
    BY <1>1, <1>2, <1>3, <2>4
  <2> QED BY <2>1, <2>2, <2>3, <2>4
<1>4. IsInjective(r)
  BY <1>1, <1>3 DEF IsInjective
<1>5. Members(r) \subseteq Members(s) \cup Members(t)
  BY <1>1 DEF Members
<1>6. Members(s) \cup Members(t) \subseteq Members(r)
  <2>1. \A i \in 1..Len(s) : s[i] \in Members(r)
    BY <1>1 DEF Members
  <2>2. \A i \in 1..Len(t) : t[i] \in Members(r)
    BY <1>1 DEF Members
  <2> QED BY <2>1, <2>2 DEF Members
<1> QED BY <1>1, <1>4, <1>5, <1>6 DEF Listed, r

LEMMA KeptIs ==
  ASSUME NEW D, NEW s, Listed(s, D), NEW A
  PROVE  Listed(Kept(s, A), D) /\ Members(Kept(s, A)) = Members(s) \cap A
<1> DEFINE Step(f, i) == IF i = 0 THEN <<>>
                         ELSE IF s[i] \in A THEN Append(f[i - 1], s[i]) ELSE f[i - 1]
           Upto(n) == \E f : f = [i \in 0..n |-> Step(f, i)]
           F == CHOOSE f : f = [i \in 0..Len(s) |-> Step(f, i)]
<1>1. Len(s) \in Nat /\ s \in Seq(D)
  BY DEF Listed
<1>2. Upto(Len(s))
  <2> DEFINE T == {n \in Nat : Upto(n)}
  <2>1. Upto(0)
    <3> DEFINE f == [i \in 0..0 |-> <<>>]
    <3>1. f = [i \in 0..0 |-> Step(f, i)]
      OBVIOUS
    <3> QED BY <3>1
  <2>2. ASSUME NEW n \in Nat, Upto(n) PROVE Upto(n + 1)
    <3>1. PICK f : f = [i \in 0..n |-> Step(f, i)]
      BY <2>2
    <3> DEFINE g == [i \in 0..(n + 1) |-> IF i = n + 1 THEN Step(f, i) ELSE f[i]]
    <3>2. ASSUME NEW i \in 0..(n + 1) PROVE g[i] = Step(g, i)
      <4>1. CASE i = n + 1
        <5>1. i - 1 \in 0..n /\ i \in 0..(n + 1) /\ i - 1 \in 0..(n + 1) /\ i - 1 # n + 1
          BY <4>1
        <5>2. g[i - 1] = f[i - 1]
          BY <5>1
        <5> QED BY <4>1, <5>1, <5>2
      <4>2. CASE i = 0
        BY <3>1, <4>2
      <4>3. CASE i # n + 1 /\ i # 0
        <5>1. i \in 0..n /\ i - 1 \in 0..n /\ i - 1 \in 0..(n + 1) /\ i - 1 # n + 1
          BY <4>3
        <5>2. g[i - 1] = f[i - 1] /\ g[i] = f[i]
          BY <4>3, <5>1
        <5>3. f[i] = Step(f, i)
          BY <3>1, <5>1
        <5> QED BY <5>2, <5>3
      <4> QED BY <4>1, <4>2, <4>3
    <3>3. g = [i \in 0..(n + 1) |-> Step(g, i)]
      BY <3>2
    <3> QED BY <3>3
  <2> HIDE DEF Upto
  <2>3. 0 \in T /\ \A n \in T : n + 1 \in T
    BY <2>1, <2>2
  <2>4. T \in SUBSET Nat
    OBVIOUS
  <2> HIDE DEF T
  <2>5. T = Nat
    BY <2>3, <2>4, Induction
  <2> QED BY <1>1, <2>5 DEF T
<1>3. F = [i \in 0..Len(s) |-> Step(F, i)]
  BY <1>2
<1>4. Kept(s, A) = F[Len(s)]
  BY DEF Kept
<1> HIDE DEF F
<1>5. /\ F[0] = <<>>
      /\ \A n \in 0..(Len(s) - 1) :
           F[n + 1] = IF s[n + 1] \in A THEN Append(F[n], s[n + 1]) ELSE F[n]
  <2>1. F[0] = <<>>
    BY <1>1, <1>3
  <2>2. ASSUME NEW n \in 0..(Len(s) - 1)
        PROVE  F[n + 1] = IF s[n + 1] \in A THEN Append(F[n], s[n + 1]) ELSE F[n]
    <3>1. n + 1 \in 0..Len(s) /\ n + 1 # 0 /\ (n + 1) - 1 = n
      BY <1>1
    <3>2. F[n + 1] = Step(F, n + 1)
      BY <1>3, <3>1
    <3> QED BY <3>1, <3>2
  <2> QED BY <2>1, <2>2
<1> DEFINE Sofar(n) == Listed(F[n], D) /\ Members(F[n]) = {s[i] : i \in 1..n} \cap A
<1>6. ASSUME NEW n \in 0..(Len(s) - 1), Sofar(n) PROVE Sofar(n + 1)
  <2>1. n + 1 \in 1..Len(s) /\ n \in Nat /\ \A i \in 1..(n + 1) : i \in 1..n \/ i = n + 1
    BY <1>1
  <2>2. s[n + 1] \in D
    BY <1>1, <2>1
  <2>3. {s[i] : i \in 1..(n + 1)} = {s[i] : i \in 1..n} \cup {s[n + 1]}
    <3>1. \A i \in 1..n : i \in 1..(n + 1)
      BY <2>1
    <3>2. n + 1 \in 1..(n + 1)
      BY <2>1
    <3> QED BY <2>1, <3>1, <3>2
  <2>4. \A i \in 1..n : s[i] # s[n + 1]
    <3>1. \A i \in 1..n : i \in 1..Len(s) /\ i # n + 1
      BY <1>1, <2>1
    <3> QED BY <1>1, <2>1, <3>1 DEF Listed, IsInjective
  <2>5. s[n + 1] \notin Members(F[n])
    BY <1>6, <2>4
  <2>6. CASE s[n + 1] \in A
    <3>1. F[n + 1] = Append(F[n], s[n + 1])
      BY <1>5, <2>6
    <3>2. Listed(F[n + 1], D) /\ Members(F[n + 1]) = Members(F[n]) \cup {s[n + 1]}
      BY <1>6, <2>2, <2>5, <3>1, ListedAppend
    <3> QED BY <1>6, <2>3, <2>6, <3>2
  <2>7. CASE s[n + 1] \notin A
    <3>1. F[n + 1] = F[n]
      BY <1>5, <2>7
    <3> QED BY <1>6, <2>3, <2>7, <3>1
  <2> QED BY <2>6, <2>7
<1>7. \A n \in Nat : n <= Len(s) => Sofar(n)
  <2> DEFINE T == {n \in Nat : n <= Len(s) => Sofar(n)}
  <2>1. 0 \in T
    <3>1. Listed(<<>>, D) /\ Members(<<>>) = {} /\ {s[i] : i \in 1..0} = {}
      BY DEF Listed, IsInjective, Members
    <3> QED BY <1>5, <3>1
  <2>2. ASSUME NEW n \in T PROVE n + 1 \in T
    <3> SUFFICES ASSUME n + 1 <= Len(s) PROVE Sofar(n + 1)
      OBVIOUS
    <3>1. n \in 0..(Len(s) - 1) /\ Sofar(n)
      BY <1>1
    <3> QED BY <1>6, <3>1
  <2> HIDE DEF T
  <2>3. T = Nat
    BY <2>1, <2>2, Induction DEF T
  <2> QED BY <2>3 DEF T
<1>8. Sofar(Len(s))
  <2> HIDE DEF Sofar
  <2> QED BY <1>1, <1>7
<1> QED BY <1>4, <1>8 DEF Members

LEMMA WithoutIs ==
  ASSUME NEW s, Listed(s, Window), NEW k
  PROVE  Listed(Without(s, k), Window) /\ Members(Without(s, k)) = Members(s) \ {k}
<1>1. Members(s) \subseteq Window
  BY MembersRange DEF Listed
<1> QED BY <1>1, KeptIs DEF Without

LEMMA PushedIs ==
  ASSUME NEW s, Listed(s, Window), NEW k \in Window
  PROVE  Listed(Pushed(s, k), Window) /\ Members(Pushed(s, k)) = Members(s) \cup {k}
<1>1. Contains(s, k) <=> k \in Members(s)
  BY DEF Contains, Members
<1> QED BY <1>1, ListedAppend DEF Pushed

(***************************************************************************)
(* What holds of the manager between any two commands.  Until the screen   *)
(* is measured there is no tree, and nothing is maximized.                 *)
(***************************************************************************)
WinRec == [st : States, float : BOOLEAN, max : BOOLEAN, prev : BOOLEAN,
           void : VoidId \cup {NoVoid}]
TreeSet == [leaves : SUBSET Window, voids : SUBSET VoidId, bare : BOOLEAN]

Manager == [win : [Window -> WinRec], tree : TreeSet \cup {NoTree},
            z : Seq(Window), draw : Seq(Window), ring : Seq(Window),
            cur : Window \cup {NoWindow}, regions : SUBSET Window, measured : BOOLEAN]

Shown(S) == {k \in Window : S.win[k].st \in {"Mapped", "Iconic"}}

Lists(S) ==
  /\ Listed(S.z, Window) /\ Listed(S.draw, Window) /\ Listed(S.ring, Window)
  /\ Mapped(S) \subseteq Members(S.draw) /\ Members(S.draw) \subseteq Members(S.z)
  /\ Members(S.z) \subseteq Shown(S) /\ Members(S.ring) \subseteq Shown(S)

Apart(S) ==
  \A j, k \in Window : j # k => S.win[j].void # S.win[k].void \/ S.win[j].void = NoVoid

Early(S) == ~S.measured => S.tree = NoTree /\ \A k \in Window : ~S.win[k].max

\* A panel is created with the manager.
Born(S) == \A k \in Panels : S.win[k].st # "unborn"

Good(S) == S \in Manager /\ Lists(S) /\ Apart(S) /\ Early(S) /\ Born(S)

\* A step from S to T loses no mapped window: none leaves its place but those of K,
\* and none leaves the ring.
Keeps(S, T, K) ==
  /\ Good(T) /\ T.measured = S.measured
  /\ \A k \in Mapped(T) : /\ Placed(T, k) \/ k \in K \/ (k \in Mapped(S) /\ ~Placed(S, k))
                          /\ k \in Members(T.ring) \/ (k \in Mapped(S) /\ k \notin Members(S.ring))

LEMMA KeepsChain ==
  ASSUME NEW S, NEW T, NEW U, NEW K, Keeps(S, T, K), Keeps(T, U, {})
  PROVE  Keeps(S, U, K)
BY DEF Keeps

\* States, lists and phase are as before; what changes is where windows are.
Restyled(S, T) ==
  /\ T \in Manager /\ T.z = S.z /\ T.draw = S.draw /\ T.ring = S.ring
  /\ T.measured = S.measured /\ \A k \in Window : T.win[k].st = S.win[k].st

KeepsPlaces(S, T, K) ==
  \A k \in Mapped(S) \ K : Placed(S, k) => Placed(T, k)

VoidsForgotten(S, T) ==
  \A k \in Window : T.win[k].void \in {NoVoid, S.win[k].void}

Settled(S, T, K) == Restyled(S, T) /\ KeepsPlaces(S, T, K) /\ VoidsForgotten(S, T)

LEMMA RestyledKeeps ==
  ASSUME NEW S, NEW T, NEW K, Good(S), Restyled(S, T), KeepsPlaces(S, T, K), Apart(T), Early(T)
  PROVE  Keeps(S, T, K)
<1>1. Mapped(T) = Mapped(S) /\ Shown(T) = Shown(S)
  BY DEF Restyled, Mapped, Shown
<1>2. Good(T)
  BY <1>1, WindowAssumption DEF Good, Lists, Restyled, Born
<1> QED BY <1>1, <1>2 DEF Keeps, Restyled, KeepsPlaces

LEMMA SettledKeeps ==
  ASSUME NEW S, NEW T, NEW K, Good(S), S.measured, Settled(S, T, K)
  PROVE  Keeps(S, T, K)
<1>1. Apart(T)
  BY DEF Settled, VoidsForgotten, Apart, Good
<1>2. Early(T)
  BY DEF Settled, Restyled, Early
<1> QED BY <1>1, <1>2, RestyledKeeps DEF Settled

LEMMA SettledChain ==
  ASSUME NEW S, NEW T, NEW U, NEW K, Settled(S, T, K), Settled(T, U, K) PROVE Settled(S, U, K)
<1>1. Mapped(T) = Mapped(S)
  BY DEF Settled, Restyled, Mapped
<1> QED BY <1>1 DEF Settled, Restyled, KeepsPlaces, VoidsForgotten

LEMMA SettledSame ==
  ASSUME NEW S \in Manager, NEW K PROVE Settled(S, S, K)
BY DEF Settled, Restyled, KeepsPlaces, VoidsForgotten

\* The fields of an updated manager.
LEMMA SetTree ==
  ASSUME NEW S \in Manager, NEW t \in TreeSet \cup {NoTree}
  PROVE  LET T == [S EXCEPT !.tree = t] IN
         /\ Restyled(S, T) /\ T.tree = t
         /\ T.win = S.win /\ T.cur = S.cur /\ T.regions = S.regions
BY DEF Manager, Restyled

LEMMA SetWin ==
  ASSUME NEW S \in Manager, NEW w \in [Window -> WinRec], \A k \in Window : w[k].st = S.win[k].st
  PROVE  LET T == [S EXCEPT !.win = w] IN
         /\ Restyled(S, T) /\ T.win = w
         /\ T.tree = S.tree /\ T.cur = S.cur /\ T.regions = S.regions
BY DEF Manager, Restyled

LEMMA SetOne ==
  ASSUME NEW S \in Manager, NEW k \in Window, NEW r \in WinRec, r.st = S.win[k].st
  PROVE  LET T == [S EXCEPT !.win[k] = r] IN
         /\ Restyled(S, T) /\ T.win[k] = r /\ \A j \in Window \ {k} : T.win[j] = S.win[j]
         /\ T.tree = S.tree /\ T.cur = S.cur /\ T.regions = S.regions
<1> DEFINE w == [S.win EXCEPT ![k] = r]
<1>1. w \in [Window -> WinRec] /\ w[k] = r /\ \A j \in Window \ {k} : w[j] = S.win[j]
  BY DEF Manager
<1>2. PICK U : U = [S EXCEPT !.win = w]
  OBVIOUS
<1>3. [S EXCEPT !.win[k] = r] = U
  BY <1>2
<1> HIDE DEF w
<1>4. \A j \in Window : w[j].st = S.win[j].st
  BY <1>1
<1>5. Restyled(S, U) /\ U.win = w /\ U.tree = S.tree /\ U.cur = S.cur /\ U.regions = S.regions
  BY <1>1, <1>2, <1>4, SetWin
<1> QED BY <1>1, <1>3, <1>5

LEMMA SetDraw ==
  ASSUME NEW S \in Manager, NEW d \in Seq(Window)
  PROVE  LET T == [S EXCEPT !.draw = d] IN
         /\ T \in Manager /\ T.draw = d /\ T.z = S.z /\ T.ring = S.ring /\ T.win = S.win
         /\ T.tree = S.tree /\ T.cur = S.cur /\ T.regions = S.regions /\ T.measured = S.measured
BY DEF Manager

LEMMA SetZ ==
  ASSUME NEW S \in Manager, NEW z \in Seq(Window)
  PROVE  LET T == [S EXCEPT !.z = z] IN
         /\ T \in Manager /\ T.z = z /\ T.draw = S.draw /\ T.ring = S.ring /\ T.win = S.win
         /\ T.tree = S.tree /\ T.cur = S.cur /\ T.regions = S.regions /\ T.measured = S.measured
BY DEF Manager

LEMMA SetRing ==
  ASSUME NEW S \in Manager, NEW r \in Seq(Window)
  PROVE  LET T == [S EXCEPT !.ring = r] IN
         /\ T \in Manager /\ T.ring = r /\ T.z = S.z /\ T.draw = S.draw /\ T.win = S.win
         /\ T.tree = S.tree /\ T.cur = S.cur /\ T.regions = S.regions /\ T.measured = S.measured
BY DEF Manager

LEMMA SetCur ==
  ASSUME NEW S \in Manager, NEW c \in Window \cup {NoWindow}
  PROVE  LET T == [S EXCEPT !.cur = c] IN
         /\ T \in Manager /\ T.cur = c /\ T.z = S.z /\ T.draw = S.draw /\ T.ring = S.ring
         /\ T.win = S.win /\ T.tree = S.tree /\ T.regions = S.regions /\ T.measured = S.measured
BY DEF Manager

-----------------------------------------------------------------------------
\* The same windows in the same places, otherwise drawn.
Redrawn(S, T) ==
  /\ T.win = S.win /\ T.tree = S.tree /\ T.ring = S.ring /\ T.cur = S.cur
  /\ T.regions = S.regions /\ T.measured = S.measured

LEMMA RedrawnKeeps ==
  ASSUME NEW S, NEW T, T \in Manager, Good(S), Redrawn(S, T), Listed(T.z, Window), Listed(T.draw, Window),
         Members(T.z) = Members(S.z), Members(S.draw) \subseteq Members(T.draw),
         Members(T.draw) \subseteq Members(T.z)
  PROVE  Keeps(S, T, {})
<1>1. Mapped(T) = Mapped(S) /\ Shown(T) = Shown(S) /\ \A k : Placed(T, k) <=> Placed(S, k)
  BY DEF Redrawn, Mapped, Shown, Placed
<1>2. Good(T)
  BY <1>1 DEF Good, Lists, Redrawn, Apart, Early, Born
<1> QED BY <1>1, <1>2 DEF Keeps, Redrawn

\* Drawing in the order of the stack shows what is stacked.
LEMMA BifurcateDraws ==
  ASSUME NEW S \in Manager, Listed(S.z, Window)
  PROVE  LET T == Bifurcate(S) IN
         /\ T \in Manager /\ Redrawn(S, T) /\ T.z = S.z
         /\ Listed(T.draw, Window) /\ Members(T.draw) = Members(S.z)
<1> DEFINE F == {k \in Window : IsFloating(S, k)}
           low == Kept(S.z, Window \ F)
           high == Kept(S.z, F)
<1>1. Bifurcate(S) = [S EXCEPT !.draw = low \o high]
  BY DEF Bifurcate
<1>2. /\ Listed(low, Window) /\ Members(low) = Members(S.z) \cap (Window \ F)
      /\ Listed(high, Window) /\ Members(high) = Members(S.z) \cap F
  BY KeptIs
<1>3. Members(S.z) \subseteq Window
  BY MembersRange DEF Listed
<1> HIDE DEF low, high
<1>4. Members(low) \cap Members(high) = {} /\ Members(low) \cup Members(high) = Members(S.z)
  BY <1>2, <1>3
<1>5. PICK d : d = low \o high
  OBVIOUS
<1>6. Listed(d, Window) /\ Members(d) = Members(S.z) /\ d \in Seq(Window)
  BY <1>2, <1>4, <1>5, ListedJoined DEF Listed
<1>7. Bifurcate(S) = [S EXCEPT !.draw = d]
  BY <1>1, <1>5
<1> QED BY <1>6, <1>7, SetDraw DEF Redrawn

LEMMA BifurcateKeeps ==
  ASSUME NEW S, Good(S)
  PROVE  Keeps(S, Bifurcate(S), {}) /\ Redrawn(S, Bifurcate(S))
<1>1. Listed(S.z, Window) /\ S \in Manager /\ Members(S.draw) \subseteq Members(S.z)
  BY DEF Good, Lists
<1> QED BY <1>1, BifurcateDraws, RedrawnKeeps

LEMMA FrontKeeps ==
  ASSUME NEW S, Good(S), NEW k
  PROVE  Keeps(S, BringToFront(S, k), {}) /\ Redrawn(S, BringToFront(S, k))
<1>1. CASE ~IsFloating(S, k)
  BY <1>1 DEF BringToFront, Keeps, Redrawn
<1>2. CASE IsFloating(S, k)
  <2> DEFINE z == IF Contains(S.z, k) THEN Append(Without(S.z, k), k) ELSE S.z
             T == [S EXCEPT !.z = z]
  <2>1. BringToFront(S, k) = Bifurcate(T)
    BY <1>2 DEF BringToFront
  <2>2. Listed(S.z, Window) /\ S \in Manager /\ Members(S.draw) \subseteq Members(S.z)
    BY DEF Good, Lists
  <2>3. Contains(S.z, k) <=> k \in Members(S.z)
    BY DEF Contains, Members
  <2>4. k \in Window
    BY <1>2 DEF IsFloating, Live, State
  <2>5. Listed(z, Window) /\ Members(z) = Members(S.z)
    <3>1. Listed(Without(S.z, k), Window) /\ Members(Without(S.z, k)) = Members(S.z) \ {k}
      BY <2>2, WithoutIs
    <3> QED BY <2>2, <2>3, <2>4, <3>1, ListedAppend
  <2>6. z \in Seq(Window)
    BY <2>5 DEF Listed
  <2> HIDE DEF z
  <2>7. T \in Manager /\ Redrawn(S, T) /\ T.z = z
    BY <2>2, <2>6, SetZ DEF Redrawn
  <2> HIDE DEF T
  <2>8. /\ Bifurcate(T) \in Manager /\ Redrawn(S, Bifurcate(T)) /\ Bifurcate(T).z = z
        /\ Listed(Bifurcate(T).draw, Window) /\ Members(Bifurcate(T).draw) = Members(z)
    BY <2>5, <2>7, BifurcateDraws DEF Redrawn
  <2> QED BY <2>1, <2>2, <2>5, <2>8, RedrawnKeeps
<1> QED BY <1>1, <1>2

-----------------------------------------------------------------------------
(* What the operations of the tree do to its leaves.                       *)
LEMMA TreeIs ==
  ASSUME NEW L \in SUBSET Window, NEW V \in SUBSET VoidId, NEW b \in BOOLEAN
  PROVE  /\ Tree(L, V, b) \in TreeSet
         /\ Tree(L, V, b).leaves = L /\ Tree(L, V, b).voids = V /\ Tree(L, V, b).bare = b
BY DEF Tree, TreeSet

LEMMA TreeIsSome == ASSUME NEW t \in TreeSet PROVE t # NoTree
<1>1. VoidId \subseteq Nat
  BY WindowAssumption DEF VoidId
<1> QED BY <1>1, NoTreeAssumption DEF TreeSet

LEMMA SimpleTrees ==
  /\ \A k \in Window : Leaf(k) \in TreeSet /\ Leaf(k).leaves = {k}
  /\ \A v \in VoidId : Void(v) \in TreeSet /\ Void(v).leaves = {} /\ Void(v).bare /\ Void(v).voids = {v}
  /\ \A K \in SUBSET Window : AllOf(K) \in TreeSet /\ AllOf(K).leaves = K /\ AllOf(K).voids = {}
<1>1. ASSUME NEW k \in Window PROVE Leaf(k) \in TreeSet /\ Leaf(k).leaves = {k}
  <2>1. {k} \in SUBSET Window /\ {} \in SUBSET VoidId /\ TRUE \in BOOLEAN
    OBVIOUS
  <2> QED BY <2>1, TreeIs DEF Leaf
<1>2. ASSUME NEW v \in VoidId
      PROVE  Void(v) \in TreeSet /\ Void(v).leaves = {} /\ Void(v).bare /\ Void(v).voids = {v}
  <2>1. {} \in SUBSET Window /\ {v} \in SUBSET VoidId /\ TRUE \in BOOLEAN
    OBVIOUS
  <2> QED BY <2>1, TreeIs DEF Void
<1>3. ASSUME NEW K \in SUBSET Window
      PROVE  AllOf(K) \in TreeSet /\ AllOf(K).leaves = K /\ AllOf(K).voids = {}
  <2>1. PICK b \in BOOLEAN : b = (Cardinality(K) = 1)
    OBVIOUS
  <2>2. {} \in SUBSET VoidId /\ AllOf(K) = Tree(K, {}, b)
    BY <2>1 DEF AllOf
  <2> QED BY <2>2, TreeIs
<1> QED BY <1>1, <1>2, <1>3

LEMMA WithLeafIs ==
  ASSUME NEW t \in TreeSet, NEW k \in Window
  PROVE  WithLeaf(t, k) \in TreeSet /\ WithLeaf(t, k).leaves = t.leaves \cup {k}
<1>1. t.leaves \cup {k} \in SUBSET Window /\ t.voids \in SUBSET VoidId
  BY DEF TreeSet
<1> QED BY <1>1, TreeIs DEF WithLeaf

LEMMA FilledIs ==
  ASSUME NEW t \in TreeSet, NEW v, NEW k \in Window
  PROVE  /\ Filled(t, v, k) \in TreeSet /\ t.leaves \subseteq Filled(t, v, k).leaves
         /\ (v \in t.voids => Filled(t, v, k).leaves = t.leaves \cup {k})
<1>1. /\ t.leaves \cup {k} \in SUBSET Window /\ t.voids \ {v} \in SUBSET VoidId
      /\ t.bare \in BOOLEAN
  BY DEF TreeSet
<1> QED BY <1>1, TreeIs DEF Filled

LEMMA BalancedIs ==
  ASSUME NEW t \in TreeSet, NEW k \in Window, NEW u \in Balanced(t, k)
  PROVE  u \in TreeSet /\ u.leaves = t.leaves \cup {k}
<1>1. CASE t.voids # {}
  <2>1. PICK v \in t.voids : u = Filled(t, v, k)
    BY <1>1 DEF Balanced
  <2> QED BY <2>1, FilledIs
<1>2. CASE t.voids = {}
  BY <1>2, WithLeafIs DEF Balanced
<1> QED BY <1>1, <1>2

LEMMA EmptiedIs ==
  ASSUME NEW t \in TreeSet, NEW k, NEW v \in VoidId
  PROVE  Emptied(t, k, v) \in TreeSet /\ Emptied(t, k, v).leaves = t.leaves \ {k}
<1>1. /\ t.leaves \ {k} \in SUBSET Window /\ t.voids \cup {v} \in SUBSET VoidId
      /\ t.bare \in BOOLEAN
  BY DEF TreeSet
<1> QED BY <1>1, TreeIs DEF Emptied

LEMMA RemovedIs ==
  ASSUME NEW t \in TreeSet, NEW k, NEW v \in VoidId, NEW u \in Removed(t, k, v)
  PROVE  /\ u \in TreeSet /\ t.leaves \ {k} \subseteq u.leaves
         /\ (k \in t.leaves => u.leaves = t.leaves \ {k} /\ ((u.bare /\ u.leaves = {}) \/ u.voids = {}))
<1>1. t.leaves \ {k} \in SUBSET Window /\ t.voids \in SUBSET VoidId
  BY DEF TreeSet
<1>2. CASE t.bare /\ k \notin t.leaves
  BY <1>2 DEF Removed
<1>3. CASE ~(t.bare /\ k \notin t.leaves) /\ t.leaves \ {k} # {}
  BY <1>1, <1>3, SimpleTrees DEF Removed
<1>4. CASE ~(t.bare /\ k \notin t.leaves) /\ t.leaves \ {k} = {}
  <2>1. PICK w \in VoidId : u = Void(w)
    BY <1>1, <1>4 DEF Removed
  <2> QED BY <1>4, <2>1, SimpleTrees
<1> QED BY <1>2, <1>3, <1>4

LEMMA VoidRemovedIs ==
  ASSUME NEW t \in TreeSet, NEW w, NEW v \in VoidId
  PROVE  VoidRemoved(t, w, v) \in TreeSet /\ VoidRemoved(t, w, v).leaves = t.leaves
<1>1. CASE t = Void(w)
  <2>1. Void(w).leaves = {}
    BY DEF Void, Tree
  <2> QED BY <1>1, <2>1, SimpleTrees DEF VoidRemoved
<1>2. CASE t # Void(w)
  BY <1>2 DEF VoidRemoved, TreeSet
<1> QED BY <1>1, <1>2

LEMMA SplitIs ==
  ASSUME NEW t \in TreeSet, NEW k \in Window, NEW v, v \in VoidId \/ (t.bare /\ t.leaves = {}),
         NEW u \in Split(t, k, v)
  PROVE  u \in TreeSet /\ u.leaves = t.leaves \cup {k}
<1>1. CASE u = WithLeaf(t, k)
  BY <1>1, WithLeafIs
<1>2. CASE u = SplitAtCorner(t, k, v)
  <2> DEFINE others == t.leaves \ {k}
  <2>1. others \cup {k} \in SUBSET Window /\ others \cup {k} = t.leaves \cup {k}
    BY DEF TreeSet
  <2>2. CASE t.bare /\ t.leaves = {}
    BY <1>2, <2>2, WithLeafIs DEF SplitAtCorner
  <2>3. CASE ~(t.bare /\ t.leaves = {}) /\ others = {}
    BY <1>2, <2>1, <2>3, SimpleTrees DEF SplitAtCorner
  <2>4. CASE ~(t.bare /\ t.leaves = {}) /\ others # {}
    <3>1. u = Tree(others \cup {k}, IF Cardinality(others) = 1 THEN {v} ELSE {}, FALSE)
      BY <1>2, <2>4 DEF SplitAtCorner
    <3>2. (IF Cardinality(others) = 1 THEN {v} ELSE {}) \in SUBSET VoidId
      BY <2>4
    <3>3. PICK V : V = IF Cardinality(others) = 1 THEN {v} ELSE {}
      OBVIOUS
    <3>4. PICK K : K = others \cup {k}
      OBVIOUS
    <3> HIDE DEF others
    <3>5. K \in SUBSET Window /\ V \in SUBSET VoidId /\ K = t.leaves \cup {k} /\ u = Tree(K, V, FALSE)
      BY <2>1, <3>1, <3>2, <3>3, <3>4
    <3>6. Tree(K, V, FALSE) \in TreeSet /\ Tree(K, V, FALSE).leaves = K
      BY <3>5, TreeIs
    <3> QED BY <3>5, <3>6
  <2> QED BY <2>2, <2>3, <2>4
<1> QED BY <1>1, <1>2 DEF Split

LEMMA FreshIs ==
  ASSUME NEW S, CanDraw(S)
  PROVE  /\ Fresh(S) \in VoidId /\ Fresh(S) # NoVoid
         /\ \A k \in Window : S.win[k].void # Fresh(S)
<1>1. Fresh(S) \in VoidId /\ Fresh(S) \notin InUse(S)
  BY DEF CanDraw, Fresh
<1> QED BY <1>1, WindowAssumption DEF InUse, VoidId, NoVoid

-----------------------------------------------------------------------------
(* Steps that change the tree, or one window.                              *)
LEMMA Treed ==
  ASSUME NEW S \in Manager, NEW t \in TreeSet \cup {NoTree}, NEW K,
         \A j \in Window \ K : Has(S.tree, j) => Has(t, j)
  PROVE  LET T == [S EXCEPT !.tree = t] IN
         Settled(S, T, K) /\ T.tree = t /\ T.win = S.win /\ T.cur = S.cur /\ T.regions = S.regions
<1>1. PICK T : T = [S EXCEPT !.tree = t]
  OBVIOUS
<1>2. /\ Restyled(S, T) /\ T.tree = t
      /\ T.win = S.win /\ T.cur = S.cur /\ T.regions = S.regions
  BY <1>1, SetTree
<1>3. Settled(S, T, K)
  BY <1>2 DEF Settled, KeepsPlaces, VoidsForgotten, Placed, Mapped
<1> QED BY <1>1, <1>2, <1>3

LEMMA Styled ==
  ASSUME NEW S \in Manager, NEW k \in Window, NEW r \in WinRec, r.st = S.win[k].st,
         r.void \in {NoVoid, S.win[k].void}, NEW K,
         r.float \/ ~S.win[k].float \/ k \in K \/ S.win[k].st # "Mapped"
  PROVE  LET T == [S EXCEPT !.win[k] = r] IN
         /\ Settled(S, T, K) /\ T.win[k] = r /\ \A j \in Window \ {k} : T.win[j] = S.win[j]
         /\ T.tree = S.tree /\ T.cur = S.cur /\ T.regions = S.regions
<1>1. PICK T : T = [S EXCEPT !.win[k] = r]
  OBVIOUS
<1>2. /\ Restyled(S, T) /\ T.win[k] = r /\ \A j \in Window \ {k} : T.win[j] = S.win[j]
      /\ T.tree = S.tree /\ T.cur = S.cur /\ T.regions = S.regions
  BY <1>1, SetOne
<1>3. Settled(S, T, K)
  BY <1>2 DEF Settled, KeepsPlaces, VoidsForgotten, Placed, Mapped
<1> QED BY <1>1, <1>2, <1>3

LEMMA HasAll ==
  ASSUME NEW t, NEW u \in TreeSet, NEW K, \A j \in Window \ K : Has(t, j) => j \in u.leaves
  PROVE  \A j \in Window \ K : Has(t, j) => Has(u, j)
BY TreeIsSome DEF Has

LEMMA ReattachSettles ==
  ASSUME NEW S \in Manager, NEW k \in Window, NEW T \in Reattach(S, k)
  PROVE  Settled(S, T, {}) /\ Has(T.tree, k) /\ T.win = S.win /\ T.cur = S.cur /\ T.regions = S.regions
<1>1. CASE Has(S.tree, k)
  BY <1>1, SettledSame DEF Reattach
<1>2. CASE ~Has(S.tree, k)
  <2>1. PICK t \in IF S.tree = NoTree THEN {Leaf(k)} ELSE Balanced(S.tree, k) : T = [S EXCEPT !.tree = t]
    BY <1>2 DEF Reattach, Trees
  <2>2. t \in TreeSet /\ k \in t.leaves /\ \A j \in Window \ {} : Has(S.tree, j) => j \in t.leaves
    <3>1. CASE S.tree = NoTree
      BY <2>1, <3>1, SimpleTrees DEF Has
    <3>2. CASE S.tree # NoTree
      <4>1. S.tree \in TreeSet
        BY <3>2 DEF Manager
      <4> QED BY <2>1, <3>2, <4>1, BalancedIs DEF Has
    <3> QED BY <3>1, <3>2
  <2>3. \A j \in Window \ {} : Has(S.tree, j) => Has(t, j)
    BY <2>2, HasAll
  <2>4. Has(t, k)
    BY <2>2, TreeIsSome DEF Has
  <2> QED BY <2>1, <2>2, <2>3, <2>4, Treed
<1> QED BY <1>1, <1>2

LEMMA UnmaximizeKeeps ==
  ASSUME NEW S, Good(S), S.measured, NEW k \in Window, NEW U \in Unmaximize(S, k)
  PROVE  Keeps(S, U, {})
<1> DEFINE R == [S.win[k] EXCEPT !.float = FALSE, !.max = FALSE]
           back == [S EXCEPT !.win[k].float = FALSE, !.win[k].max = FALSE]
           void == S.win[k].void
           there == S.tree # NoTree /\ void # NoVoid /\ void \in S.tree.voids
           after == IF S.win[k].prev THEN {[S EXCEPT !.win[k].prev = FALSE]}
                    ELSE IF there THEN Trees(back, {Filled(S.tree, void, k)})
                    ELSE IF S.win[k].st = "Mapped" THEN Reattach(back, k) ELSE {back}
<1>1. PICK T \in after : U = BringToFront([T EXCEPT !.win[k].max = FALSE, !.win[k].void = NoVoid], k)
  BY DEF Unmaximize
<1>2. S \in Manager /\ S.win[k] \in WinRec
  BY DEF Good, Manager
<1>3. Settled(S, T, {})
  <2>1. CASE S.win[k].prev
    <3> DEFINE P == [S.win[k] EXCEPT !.prev = FALSE]
    <3>1. P \in WinRec /\ P.st = S.win[k].st /\ P.void = S.win[k].void /\ P.float = S.win[k].float
      BY <1>2 DEF WinRec
    <3>2. T = [S EXCEPT !.win[k] = P]
      BY <1>1, <2>1
    <3> HIDE DEF P
    <3> QED BY <1>2, <3>1, <3>2, Styled, SettledSame DEF WinRec
  <2>2. CASE ~S.win[k].prev
    <3>1. R \in WinRec /\ R.st = S.win[k].st /\ R.void = S.win[k].void
      BY <1>2 DEF WinRec
    <3>2. PICK B : B = back
      OBVIOUS
    <3>3. B = [S EXCEPT !.win[k] = R]
      BY <1>2, <3>2 DEF Manager, WinRec
    <3> HIDE DEF R
    <3>4. /\ Settled(S, B, {k}) /\ B.tree = S.tree /\ B.win[k] = R
      BY <1>2, <3>1, <3>3, Styled
    <3>5. B \in Manager
      BY <3>4 DEF Settled, Restyled
    <3>6. CASE there
      <4>1. S.tree \in TreeSet
        BY <1>2, <3>6 DEF Manager
      <4>2. PICK t : t = Filled(S.tree, void, k)
        OBVIOUS
      <4>3. t \in TreeSet /\ t.leaves = S.tree.leaves \cup {k}
        BY <3>6, <4>1, <4>2, FilledIs
      <4>4. \A j \in Window \ {} : Has(B.tree, j) => Has(t, j)
        BY <3>4, <4>3, TreeIsSome DEF Has
      <4>5. T = [B EXCEPT !.tree = t]
        BY <1>1, <2>2, <3>2, <3>6, <4>2 DEF Trees
      <4>6. Settled(B, T, {}) /\ T.tree = t
        BY <3>5, <4>3, <4>4, <4>5, Treed
      <4>7. Has(T.tree, k)
        BY <4>3, <4>6, TreeIsSome DEF Has
      <4> QED BY <3>4, <4>6, <4>7 DEF Settled, Restyled, KeepsPlaces, VoidsForgotten, Mapped, Placed
    <3>7. CASE ~there /\ S.win[k].st = "Mapped"
      <4>1. T \in Reattach(B, k)
        BY <1>1, <2>2, <3>2, <3>7
      <4>2. Settled(B, T, {}) /\ Has(T.tree, k)
        BY <3>5, <4>1, ReattachSettles
      <4> QED BY <3>4, <4>2 DEF Settled, Restyled, KeepsPlaces, VoidsForgotten, Mapped, Placed
    <3>8. CASE ~there /\ S.win[k].st # "Mapped"
      <4>1. T = B
        BY <1>1, <2>2, <3>2, <3>8
      <4> QED BY <3>4, <3>8, <4>1 DEF Settled, KeepsPlaces, Mapped
    <3> QED BY <3>6, <3>7, <3>8
  <2> QED BY <2>1, <2>2
<1> HIDE DEF R, back, void, there, after
<1>4. PICK V : V = [T EXCEPT !.win[k].max = FALSE, !.win[k].void = NoVoid]
  OBVIOUS
<1>5. Settled(S, V, {})
  <2> DEFINE P == [T.win[k] EXCEPT !.max = FALSE, !.void = NoVoid]
  <2>1. T \in Manager /\ T.win[k] \in WinRec
    BY <1>3 DEF Settled, Restyled, Manager
  <2>2. P \in WinRec /\ P.st = T.win[k].st /\ P.void = NoVoid /\ P.float = T.win[k].float
    BY <2>1 DEF WinRec
  <2>3. V = [T EXCEPT !.win[k] = P]
    BY <1>4
  <2> HIDE DEF P
  <2>4. Settled(T, V, {})
    BY <2>1, <2>2, <2>3, Styled DEF WinRec
  <2> QED BY <1>3, <2>4, SettledChain
<1>6. Keeps(S, V, {})
  BY <1>5, SettledKeeps
<1>7. Keeps(V, U, {})
  BY <1>1, <1>4, <1>6, FrontKeeps DEF Keeps
<1> QED BY <1>6, <1>7, KeepsChain

LEMMA MaximizeKeeps ==
  ASSUME NEW S, Good(S), S.measured, CanDraw(S), NEW k \in Window, NEW U \in Maximize(S, k)
  PROVE  Keeps(S, U, {})
<1> DEFINE tiled == ~S.win[k].float /\ Has(S.tree, k)
           T == IF tiled THEN [S EXCEPT !.tree = Emptied(@, k, Fresh(S)), !.win[k].void = Fresh(S)]
                ELSE S
<1>1. U = BringToFront([T EXCEPT !.win[k].prev = S.win[k].float,
                                 !.win[k].float = TRUE, !.win[k].max = TRUE], k)
  BY DEF Maximize
<1>2. S \in Manager /\ S.win[k] \in WinRec
  BY DEF Good, Manager
<1>3. PICK B : B = T
  OBVIOUS
<1>4. /\ Restyled(S, B) /\ \A j \in Window \ {k} : B.win[j] = S.win[j]
      /\ B.win[k].void \in {Fresh(S), S.win[k].void}
      /\ \A j \in Window \ {k} : Has(S.tree, j) => Has(B.tree, j)
  <2>1. CASE tiled
    <3>1. S.tree \in TreeSet
      BY <1>2, <2>1 DEF Manager, Has
    <3>2. PICK t : t = Emptied(S.tree, k, Fresh(S))
      OBVIOUS
    <3>3. t \in TreeSet /\ t.leaves = S.tree.leaves \ {k}
      BY <3>1, <3>2, FreshIs, EmptiedIs
    <3>4. \A j \in Window \ {k} : Has(S.tree, j) => Has(t, j)
      BY <3>3, TreeIsSome DEF Has
    <3>5. PICK W : W = [S EXCEPT !.tree = t]
      OBVIOUS
    <3>6. Restyled(S, W) /\ W.tree = t /\ W.win = S.win
      BY <1>2, <3>3, <3>5, SetTree
    <3> DEFINE Q == [W.win[k] EXCEPT !.void = Fresh(S)]
    <3>7. Q \in WinRec /\ Q.st = W.win[k].st /\ Q.void = Fresh(S)
      BY <1>2, <3>6, FreshIs DEF WinRec
    <3>8. B = [W EXCEPT !.win[k] = Q]
      BY <1>2, <1>3, <2>1, <3>2, <3>5 DEF Manager
    <3> HIDE DEF Q
    <3>9. /\ Restyled(W, B) /\ B.win[k] = Q /\ \A j \in Window \ {k} : B.win[j] = W.win[j]
          /\ B.tree = W.tree
      <4>1. W \in Manager
        BY <3>6 DEF Restyled
      <4> QED BY <3>7, <3>8, <4>1, SetOne
    <3> QED BY <3>4, <3>6, <3>7, <3>9 DEF Restyled
  <2>2. CASE ~tiled
    BY <1>2, <1>3, <2>2 DEF Restyled
  <2> QED BY <2>1, <2>2
<1> HIDE DEF T
<1>5. PICK V : V = [B EXCEPT !.win[k].prev = S.win[k].float,
                             !.win[k].float = TRUE, !.win[k].max = TRUE]
  OBVIOUS
<1> DEFINE R == [B.win[k] EXCEPT !.prev = S.win[k].float, !.float = TRUE, !.max = TRUE]
<1>6. B \in Manager /\ B.win[k] \in WinRec
  BY <1>4 DEF Restyled, Manager
<1>7. R \in WinRec /\ R.st = B.win[k].st /\ R.void = B.win[k].void /\ R.float
  BY <1>2, <1>6 DEF WinRec
<1>8. V = [B EXCEPT !.win[k] = R]
  BY <1>5, <1>6 DEF Manager, WinRec
<1> HIDE DEF R
<1>9. /\ Restyled(B, V) /\ V.win[k] = R /\ \A j \in Window \ {k} : V.win[j] = B.win[j]
      /\ V.tree = B.tree
  BY <1>6, <1>7, <1>8, SetOne
<1>10. Restyled(S, V)
  BY <1>4, <1>9 DEF Restyled
<1>11. KeepsPlaces(S, V, {})
  BY <1>4, <1>7, <1>9 DEF KeepsPlaces, Placed, Mapped
<1>12. Apart(V)
  BY <1>4, <1>7, <1>9, FreshIs DEF Good, Apart
<1>13. Keeps(S, V, {})
  BY <1>10, <1>11, <1>12, RestyledKeeps DEF Early, Restyled
<1>14. Keeps(V, U, {})
  <2>1. U = BringToFront(V, k)
    BY <1>1, <1>3, <1>5
  <2> QED BY <1>13, <2>1, FrontKeeps DEF Keeps
<1> QED BY <1>13, <1>14, KeepsChain

LEMMA ToggleKeeps ==
  ASSUME NEW S, Good(S), S.measured, NEW k \in Window, CanDraw(S) \/ IsMaximized(S, k),
         NEW U \in ToggleMaximize(S, k)
  PROVE  Keeps(S, U, {})
<1>1. S \in Manager
  BY DEF Good
<1>2. CASE ~Live(S, k)
  <2> DEFINE t == IF Has(S.tree, k) THEN Emptied(S.tree, k, Fresh(S)) ELSE S.tree
  <2>1. U = [S EXCEPT !.tree = t]
    BY <1>2 DEF ToggleMaximize, Trees
  <2>2. t \in TreeSet \cup {NoTree} /\ \A j \in Window \ {k} : Has(S.tree, j) => Has(t, j)
    <3>1. CASE Has(S.tree, k)
      <4>1. S.tree \in TreeSet
        BY <1>1, <3>1 DEF Manager, Has
      <4>2. t \in TreeSet /\ t.leaves = S.tree.leaves \ {k}
        BY <1>2, <3>1, <4>1, FreshIs, EmptiedIs DEF IsMaximized
      <4> HIDE DEF t
      <4> QED BY <4>2, TreeIsSome DEF Has
    <3>2. CASE ~Has(S.tree, k)
      BY <1>1, <3>2 DEF Manager
    <3> QED BY <3>1, <3>2
  <2> HIDE DEF t
  <2>3. Settled(S, U, {k})
    BY <1>1, <2>1, <2>2, Treed
  <2>4. k \notin Mapped(S)
    BY <1>2 DEF Live, State, Mapped
  <2>5. Settled(S, U, {})
    BY <2>3, <2>4 DEF Settled, KeepsPlaces
  <2> QED BY <2>5, SettledKeeps
<1>3. CASE Live(S, k)
  BY <1>3, UnmaximizeKeeps, MaximizeKeeps DEF ToggleMaximize, IsMaximized
<1> QED BY <1>2, <1>3

LEMMA CurKeeps ==
  ASSUME NEW S, Good(S), NEW c \in Window \cup {NoWindow}
  PROVE  Keeps(S, [S EXCEPT !.cur = c], {})
<1>1. PICK T : T = [S EXCEPT !.cur = c]
  OBVIOUS
<1>2. /\ T \in Manager /\ T.z = S.z /\ T.draw = S.draw /\ T.ring = S.ring
      /\ T.win = S.win /\ T.tree = S.tree /\ T.measured = S.measured
  BY <1>1, SetCur DEF Good
<1>3. Restyled(S, T) /\ KeepsPlaces(S, T, {}) /\ Apart(T) /\ Early(T)
  BY <1>2 DEF Restyled, KeepsPlaces, Placed, Good, Apart, Early
<1> QED BY <1>1, <1>3, RestyledKeeps

LEMMA FocusKeeps ==
  ASSUME NEW S, Good(S), NEW k \in Window \cup {NoWindow}, NEW U \in FocusWindowKey(S, k)
  PROVE  Keeps(S, U, {})
<1>1. PICK T \in IF S.cur # k /\ IsMaximized(S, S.cur) THEN ToggleMaximize(S, S.cur) ELSE {S} :
        U = BringToFront([T EXCEPT !.cur = k], k)
  BY DEF FocusWindowKey
<1>2. Keeps(S, T, {})
  <2>1. CASE S.cur # k /\ IsMaximized(S, S.cur)
    <3>1. S.cur \in Window /\ S.win[S.cur].max
      BY <2>1 DEF IsMaximized, Live, State
    <3>2. S.measured
      BY <3>1 DEF Good, Early
    <3> QED BY <1>1, <2>1, <3>1, <3>2, ToggleKeeps
  <2>2. CASE ~(S.cur # k /\ IsMaximized(S, S.cur))
    BY <1>1, <2>2 DEF Keeps
  <2> QED BY <2>1, <2>2
<1>3. PICK V : V = [T EXCEPT !.cur = k]
  OBVIOUS
<1>4. Keeps(T, V, {})
  BY <1>2, <1>3, CurKeeps DEF Keeps
<1>5. Keeps(V, U, {})
  BY <1>1, <1>3, <1>4, FrontKeeps DEF Keeps
<1> QED BY <1>2, <1>4, <1>5, KeepsChain

-----------------------------------------------------------------------------
(* Changes of state: what is hidden gives up its place, what is mapped is  *)
(* put into the ring.                                                      *)
LEMMA SameVoids ==
  ASSUME NEW S, NEW T, CanDraw(S), T.tree = S.tree, \A k \in Window : T.win[k].void = S.win[k].void
  PROVE  CanDraw(T)
<1>1. InUse(T) = InUse(S)
  BY DEF InUse
<1> QED BY <1>1 DEF CanDraw

LEMMA DetachSettles ==
  ASSUME NEW S \in Manager, CanDraw(S), NEW k \in Window, NEW T \in Detach(S, k)
  PROVE  Settled(S, T, {k}) /\ T.cur = S.cur /\ T.regions = S.regions
<1>1. CASE S.tree = NoTree
  BY <1>1, SettledSame DEF Detach
<1>2. CASE S.tree # NoTree /\ Live(S, k) /\ S.win[k].void # NoVoid
  <2>1. S.tree \in TreeSet
    BY <1>2 DEF Manager
  <2>2. PICK t : t = VoidRemoved(S.tree, S.win[k].void, Fresh(S))
    OBVIOUS
  <2>3. t \in TreeSet /\ t.leaves = S.tree.leaves
    BY <2>1, <2>2, FreshIs, VoidRemovedIs
  <2>4. PICK W : W = [S EXCEPT !.tree = t]
    OBVIOUS
  <2>5. \A j \in Window \ {k} : Has(S.tree, j) => Has(t, j)
    BY <2>3, TreeIsSome DEF Has
  <2>6. Settled(S, W, {k}) /\ W.win = S.win /\ W.cur = S.cur /\ W.regions = S.regions
    BY <2>3, <2>4, <2>5, Treed
  <2>7. W \in Manager /\ W.win[k] \in WinRec
    BY <2>6 DEF Settled, Restyled, Manager
  <2> DEFINE R == [W.win[k] EXCEPT !.void = NoVoid]
  <2>8. R \in WinRec /\ R.st = W.win[k].st /\ R.void = NoVoid
    BY <2>7 DEF WinRec
  <2>9. T = [W EXCEPT !.win[k] = R]
    BY <1>2, <2>2, <2>4, <2>6 DEF Detach, Manager
  <2> HIDE DEF R
  <2>10. Settled(W, T, {k}) /\ T.cur = W.cur /\ T.regions = W.regions
    BY <2>7, <2>8, <2>9, Styled
  <2> QED BY <2>6, <2>10, SettledChain
<1>3. CASE S.tree # NoTree /\ ~(Live(S, k) /\ S.win[k].void # NoVoid)
  <2>1. S.tree \in TreeSet
    BY <1>3 DEF Manager
  <2>2. PICK t \in Detached(S.tree, k, Fresh(S)) : T = [S EXCEPT !.tree = t]
    BY <1>3 DEF Detach, Trees
  <2>3. t \in TreeSet \cup {NoTree} /\ \A j \in Window \ {k} : Has(S.tree, j) => Has(t, j)
    <3>1. CASE S.tree = Leaf(k)
      BY <2>2, <3>1, SimpleTrees DEF Detached, Has
    <3>2. CASE S.tree # Leaf(k)
      <4>1. t \in TreeSet /\ S.tree.leaves \ {k} \subseteq t.leaves
        BY <2>1, <2>2, <3>2, FreshIs, RemovedIs DEF Detached
      <4> QED BY <4>1, TreeIsSome DEF Has
    <3> QED BY <3>1, <3>2
  <2> QED BY <2>2, <2>3, Treed
<1> QED BY <1>1, <1>2, <1>3

LEMMA FallbackKeeps ==
  ASSUME NEW S, Good(S), NEW k
  PROVE  LET T == SelectFallbackFocus(S, k) IN
         Keeps(S, T, {}) /\ T.win = S.win /\ T.tree = S.tree
<1>1. CASE S.cur = k /\ S.ring # <<>>
  <2>1. S.ring \in Seq(Window) /\ S \in Manager
    BY DEF Good, Lists, Listed
  <2>2. PICK c : c = Head(S.ring)
    OBVIOUS
  <2>3. c \in Window
    BY <1>1, <2>1, <2>2
  <2>4. SelectFallbackFocus(S, k) = [S EXCEPT !.cur = c]
    BY <1>1, <2>2 DEF SelectFallbackFocus
  <2> QED BY <2>1, <2>3, <2>4, CurKeeps, SetCur
<1>2. CASE ~(S.cur = k /\ S.ring # <<>>)
  <2>1. SelectFallbackFocus(S, k) = S
    BY <1>2 DEF SelectFallbackFocus
  <2> QED BY <2>1 DEF Keeps
<1> QED BY <1>1, <1>2

\* What is left when k is hidden: P is the manager with the lists already adapted.
LEMMA HiddenKeeps ==
  ASSUME NEW S, NEW P, Keeps(S, P, {}), S.measured, CanDraw(P), NEW k \in Window,
         P.win[k].st # "Mapped", NEW U \in Detach(SelectFallbackFocus(P, k), k)
  PROVE  Keeps(S, U, {}) /\ U.win[k].st = P.win[k].st
<1>1. PICK T : T = SelectFallbackFocus(P, k)
  OBVIOUS
<1>2. Keeps(P, T, {}) /\ T.win = P.win /\ T.tree = P.tree
  BY <1>1, FallbackKeeps DEF Keeps
<1>3. CanDraw(T)
  BY <1>2, SameVoids
<1>4. T \in Manager /\ Good(T) /\ T.measured
  BY <1>2 DEF Keeps, Good
<1>5. Settled(T, U, {k})
  BY <1>1, <1>3, <1>4, DetachSettles
<1>6. k \notin Mapped(T)
  BY <1>2 DEF Mapped
<1>7. Settled(T, U, {})
  BY <1>5, <1>6 DEF Settled, KeepsPlaces
<1>8. Keeps(T, U, {})
  BY <1>4, <1>7, SettledKeeps
<1>9. U.win[k].st = P.win[k].st
  BY <1>2, <1>5 DEF Settled, Restyled
<1> QED BY <1>2, <1>8, <1>9, KeepsChain

LEMMA IconicKeeps ==
  ASSUME NEW S, Good(S), S.measured, CanDraw(S), NEW k \in Window, NEW U \in ToIconic(S, k)
  PROVE  Keeps(S, U, {})
<1>1. S \in Manager /\ S.win[k] \in WinRec /\ Listed(S.draw, Window)
  BY DEF Good, Manager, Lists
<1>2. PICK d : d = Without(S.draw, k)
  OBVIOUS
<1>3. Listed(d, Window) /\ Members(d) = Members(S.draw) \ {k} /\ d \in Seq(Window)
  BY <1>1, <1>2, WithoutIs DEF Listed
<1> DEFINE R == [S.win[k] EXCEPT !.st = "Iconic"]
           w == [S.win EXCEPT ![k] = R]
<1>4. /\ R \in WinRec /\ R.st = "Iconic"
      /\ R.void = S.win[k].void /\ R.float = S.win[k].float /\ R.max = S.win[k].max
  BY <1>1 DEF WinRec, States
<1> HIDE DEF R
<1>5. w \in [Window -> WinRec] /\ w[k] = R /\ \A j \in Window \ {k} : w[j] = S.win[j]
  BY <1>1, <1>4 DEF Manager
<1>6. PICK P : P = [S EXCEPT !.win[k].st = "Iconic", !.draw = Without(@, k)]
  OBVIOUS
<1>7. P = [[S EXCEPT !.win = w] EXCEPT !.draw = d]
  BY <1>1, <1>2, <1>6 DEF R, Manager
<1> HIDE DEF w
<1>8. /\ P \in Manager /\ P.win = w /\ P.draw = d /\ P.z = S.z /\ P.ring = S.ring
      /\ P.tree = S.tree /\ P.measured = S.measured
  BY <1>1, <1>3, <1>5, <1>7 DEF Manager
<1>9. Mapped(P) = Mapped(S) \ {k} /\ Shown(S) \subseteq Shown(P)
  BY <1>4, <1>5, <1>8 DEF Mapped, Shown
<1>10. /\ Members(S.z) \subseteq Shown(S) /\ Members(S.ring) \subseteq Shown(S)
       /\ Mapped(S) \subseteq Members(S.draw) /\ Members(S.draw) \subseteq Members(S.z)
       /\ Listed(S.z, Window) /\ Listed(S.ring, Window)
  BY DEF Good, Lists
<1>11. Lists(P)
  BY <1>3, <1>8, <1>9, <1>10 DEF Lists
<1>12. \A j \in Window : P.win[j].void = S.win[j].void /\ P.win[j].float = S.win[j].float
  BY <1>4, <1>5, <1>8
<1>13. Apart(P) /\ Born(P)
  BY <1>4, <1>5, <1>8, <1>12, WindowAssumption DEF Good, Apart, Born
<1>14. Keeps(S, P, {})
  BY <1>8, <1>9, <1>11, <1>12, <1>13 DEF Keeps, Good, Early, Placed, Mapped
<1>15. CanDraw(P)
  BY <1>8, <1>12, SameVoids
<1> QED BY <1>4, <1>5, <1>6, <1>8, <1>14, <1>15, HiddenKeeps DEF ToIconic

LEMMA UnmappedKeeps ==
  ASSUME NEW S, Good(S), S.measured, CanDraw(S), NEW k \in Window, NEW U \in ToUnmapped(S, k)
  PROVE  Keeps(S, U, {}) /\ U.win[k].st = "Unmapped"
<1>1. /\ S \in Manager /\ S.win[k] \in WinRec
      /\ Listed(S.draw, Window) /\ Listed(S.z, Window) /\ Listed(S.ring, Window)
  BY DEF Good, Manager, Lists
<1>2. PICK d : d = Without(S.draw, k)
  OBVIOUS
<1>3. PICK z : z = Without(S.z, k)
  OBVIOUS
<1>4. PICK r : r = Without(S.ring, k)
  OBVIOUS
<1>5. /\ Listed(d, Window) /\ Members(d) = Members(S.draw) \ {k} /\ d \in Seq(Window)
      /\ Listed(z, Window) /\ Members(z) = Members(S.z) \ {k} /\ z \in Seq(Window)
      /\ Listed(r, Window) /\ Members(r) = Members(S.ring) \ {k} /\ r \in Seq(Window)
  BY <1>1, <1>2, <1>3, <1>4, WithoutIs DEF Listed
<1> DEFINE R == [S.win[k] EXCEPT !.st = "Unmapped"]
           w == [S.win EXCEPT ![k] = R]
<1>6. /\ R \in WinRec /\ R.st = "Unmapped"
      /\ R.void = S.win[k].void /\ R.float = S.win[k].float /\ R.max = S.win[k].max
  BY <1>1 DEF WinRec, States
<1> HIDE DEF R
<1>7. w \in [Window -> WinRec] /\ w[k] = R /\ \A j \in Window \ {k} : w[j] = S.win[j]
  BY <1>1, <1>6 DEF Manager
<1>8. PICK P : P = [S EXCEPT !.win[k].st = "Unmapped", !.z = Without(@, k), !.draw = Without(@, k),
                             !.regions = @ \ {k}, !.ring = Without(@, k)]
  OBVIOUS
<1>9. PICK g : g = S.regions \ {k}
  OBVIOUS
<1>10. P = [S EXCEPT !.win = w, !.z = z, !.draw = d, !.regions = g, !.ring = r]
  BY <1>1, <1>2, <1>3, <1>4, <1>8, <1>9 DEF R, Manager
<1> HIDE DEF w
<1>11. /\ P \in Manager /\ P.win = w /\ P.draw = d /\ P.z = z /\ P.ring = r
       /\ P.tree = S.tree /\ P.measured = S.measured
  <2>1. g \in SUBSET Window
    BY <1>1, <1>9 DEF Manager
  <2> QED BY <1>1, <1>5, <1>7, <1>10, <2>1 DEF Manager
<1>12. Mapped(P) = Mapped(S) \ {k} /\ Shown(P) = Shown(S) \ {k}
  BY <1>6, <1>7, <1>11 DEF Mapped, Shown
<1>13. /\ Members(S.z) \subseteq Shown(S) /\ Members(S.ring) \subseteq Shown(S)
       /\ Mapped(S) \subseteq Members(S.draw) /\ Members(S.draw) \subseteq Members(S.z)
  BY DEF Good, Lists
<1>14. Lists(P)
  BY <1>5, <1>11, <1>12, <1>13 DEF Lists
<1>15. \A j \in Window : P.win[j].void = S.win[j].void /\ P.win[j].float = S.win[j].float
  BY <1>6, <1>7, <1>11
<1>16. Apart(P) /\ Born(P)
  BY <1>6, <1>7, <1>11, <1>15, WindowAssumption DEF Good, Apart, Born
<1>17. Keeps(S, P, {})
  BY <1>5, <1>11, <1>12, <1>14, <1>15, <1>16 DEF Keeps, Good, Early, Placed, Mapped
<1>18. CanDraw(P)
  BY <1>11, <1>15, SameVoids
<1>19. U \in Detach(SelectFallbackFocus(P, k), k)
  BY <1>8 DEF ToUnmapped
<1>20. P.win[k].st = "Unmapped"
  BY <1>6, <1>7, <1>11
<1> QED BY <1>17, <1>18, <1>19, <1>20, HiddenKeeps

\* S with k mapped: stacked, drawn and in the ring; the others keep what they had.
Joins(S, T, k) ==
  /\ T \in Manager /\ T.measured = S.measured /\ T.win[k].st = "Mapped"
  /\ \A j \in Window \ {k} : T.win[j].st = S.win[j].st
  /\ Listed(T.z, Window) /\ Members(T.z) = Members(S.z) \cup {k}
  /\ Listed(T.draw, Window) /\ Members(T.draw) = Members(S.draw) \cup {k}
  /\ Listed(T.ring, Window) /\ Members(T.ring) = Members(S.ring) \cup {k}

LEMMA JoinsKeeps ==
  ASSUME NEW S, Good(S), NEW k \in Window, NEW T, NEW K, Joins(S, T, k), Apart(T), Early(T),
         KeepsPlaces(S, T, {k}), Placed(T, k) \/ k \in K
  PROVE  Keeps(S, T, K)
<1>1. Mapped(T) = Mapped(S) \cup {k} /\ Shown(T) = Shown(S) \cup {k}
  BY DEF Joins, Mapped, Shown
<1>2. Lists(T)
  BY <1>1 DEF Joins, Lists, Good
<1>3. Born(T)
  BY WindowAssumption DEF Joins, Good, Born
<1>4. Good(T)
  BY <1>2, <1>3 DEF Good, Joins
<1> QED BY <1>1, <1>4 DEF Keeps, Joins, KeepsPlaces

LEMMA FocusAddIs ==
  ASSUME NEW S \in Manager, Listed(S.ring, Window), NEW k \in Window
  PROVE  LET T == FocusAdd(S, k) IN
         /\ T \in Manager /\ T.win = S.win /\ T.tree = S.tree /\ T.z = S.z /\ T.draw = S.draw
         /\ T.measured = S.measured /\ T.regions = S.regions
         /\ Listed(T.ring, Window) /\ Members(T.ring) = Members(S.ring) \cup {k}
<1>1. PICK r : r = Pushed(S.ring, k)
  OBVIOUS
<1>2. Listed(r, Window) /\ Members(r) = Members(S.ring) \cup {k} /\ r \in Seq(Window)
  BY <1>1, PushedIs DEF Listed
<1>3. PICK c : c = IF Live(S, S.cur) THEN S.cur ELSE k
  OBVIOUS
<1>4. c \in Window \cup {NoWindow}
  BY <1>3 DEF Manager
<1>5. PICK T : T = FocusAdd(S, k)
  OBVIOUS
<1>6. T = [S EXCEPT !.ring = r, !.cur = c]
  BY <1>1, <1>3, <1>5 DEF FocusAdd, Manager
<1>7. /\ T \in Manager /\ T.win = S.win /\ T.tree = S.tree /\ T.z = S.z /\ T.draw = S.draw
      /\ T.measured = S.measured /\ T.regions = S.regions /\ T.ring = r
  BY <1>2, <1>4, <1>6 DEF Manager
<1> QED BY <1>2, <1>5, <1>7

LEMMA FirstMappedKeeps ==
  ASSUME NEW S, Good(S), NEW k \in Window, S.win[k].st = "unborn", NEW U \in FirstMapped(S, k)
  PROVE  Keeps(S, U, {k}) /\ U.win[k].st = "Mapped" /\ U.tree = S.tree
<1>1. /\ S \in Manager /\ Listed(S.draw, Window) /\ Listed(S.z, Window) /\ Listed(S.ring, Window)
      /\ k \notin Members(S.draw) /\ k \notin Members(S.z)
  BY DEF Good, Lists, Shown
<1>2. PICK d : d = Append(S.draw, k)
  OBVIOUS
<1>3. PICK z : z = Append(S.z, k)
  OBVIOUS
<1>4. /\ Listed(d, Window) /\ Members(d) = Members(S.draw) \cup {k} /\ d \in Seq(Window)
      /\ Listed(z, Window) /\ Members(z) = Members(S.z) \cup {k} /\ z \in Seq(Window)
  BY <1>1, <1>2, <1>3, ListedAppend DEF Listed
<1> DEFINE w == [S.win EXCEPT ![k] = Entry("Mapped")]
<1>5. /\ Entry("Mapped") \in WinRec /\ Entry("Mapped").st = "Mapped"
      /\ Entry("Mapped").void = NoVoid /\ ~Entry("Mapped").max
  BY DEF Entry, WinRec, States
<1>6. w \in [Window -> WinRec] /\ w[k] = Entry("Mapped") /\ \A j \in Window \ {k} : w[j] = S.win[j]
  BY <1>1, <1>5 DEF Manager
<1>7. PICK P : P = [S EXCEPT !.win[k] = Entry("Mapped"), !.z = Append(@, k), !.draw = Append(@, k)]
  OBVIOUS
<1>8. P = [S EXCEPT !.win = w, !.z = z, !.draw = d]
  BY <1>1, <1>2, <1>3, <1>7 DEF Manager
<1> HIDE DEF w
<1>9. /\ P \in Manager /\ P.win = w /\ P.draw = d /\ P.z = z /\ P.ring = S.ring
      /\ P.tree = S.tree /\ P.measured = S.measured
  BY <1>1, <1>4, <1>6, <1>8 DEF Manager
<1>10. U = FocusAdd(P, k)
  BY <1>7 DEF FirstMapped
<1>11. /\ U \in Manager /\ U.win = w /\ U.tree = S.tree /\ U.z = z /\ U.draw = d
       /\ U.measured = S.measured
       /\ Listed(U.ring, Window) /\ Members(U.ring) = Members(S.ring) \cup {k}
  BY <1>1, <1>9, <1>10, FocusAddIs
<1>12. Joins(S, U, k)
  BY <1>4, <1>5, <1>6, <1>11 DEF Joins
<1>13. Apart(U) /\ Early(U) /\ KeepsPlaces(S, U, {k})
  BY <1>5, <1>6, <1>11 DEF Apart, Early, Good, KeepsPlaces, Placed, Mapped
<1>14. Keeps(S, U, {k})
  BY <1>12, <1>13, JoinsKeeps
<1> QED BY <1>5, <1>6, <1>11, <1>14

LEMMA RemappedKeeps ==
  ASSUME NEW S, Good(S), S.measured, NEW k \in Window, NEW U \in Remapped(S, k)
  PROVE  Keeps(S, U, {})
<1> DEFINE T == [S EXCEPT !.win[k].st = "Mapped", !.z = Pushed(@, k), !.draw = Pushed(@, k)]
           othersFloat == \E j \in Mapped(T) : T.win[j].float
           placed == IF T.win[k].float THEN {T}
                     ELSE IF othersFloat THEN {[T EXCEPT !.win[k].float = TRUE]}
                     ELSE Reattach(T, k)
<1>1. PICK P \in placed : U = BringToFront(FocusAdd(P, k), k)
  BY DEF Remapped
<1>2. /\ S \in Manager /\ S.win[k] \in WinRec
      /\ Listed(S.draw, Window) /\ Listed(S.z, Window) /\ Listed(S.ring, Window)
  BY DEF Good, Manager, Lists
<1>3. PICK d : d = Pushed(S.draw, k)
  OBVIOUS
<1>4. PICK z : z = Pushed(S.z, k)
  OBVIOUS
<1>5. /\ Listed(d, Window) /\ Members(d) = Members(S.draw) \cup {k} /\ d \in Seq(Window)
      /\ Listed(z, Window) /\ Members(z) = Members(S.z) \cup {k} /\ z \in Seq(Window)
  BY <1>2, <1>3, <1>4, PushedIs DEF Listed
<1> DEFINE R == [S.win[k] EXCEPT !.st = "Mapped"]
           w == [S.win EXCEPT ![k] = R]
<1>6. /\ R \in WinRec /\ R.st = "Mapped" /\ R.void = S.win[k].void /\ R.float = S.win[k].float
  BY <1>2 DEF WinRec, States
<1> HIDE DEF R
<1>7. w \in [Window -> WinRec] /\ w[k] = R /\ \A j \in Window \ {k} : w[j] = S.win[j]
  BY <1>2, <1>6 DEF Manager
<1>8. PICK B : B = T
  OBVIOUS
<1>9. B = [S EXCEPT !.win = w, !.z = z, !.draw = d]
  BY <1>2, <1>3, <1>4, <1>8 DEF R, Manager
<1> HIDE DEF w
<1>10. /\ B \in Manager /\ B.win = w /\ B.draw = d /\ B.z = z /\ B.ring = S.ring
       /\ B.tree = S.tree /\ B.measured = S.measured
  BY <1>2, <1>5, <1>7, <1>9 DEF Manager
<1>11. Settled(B, P, {}) /\ Placed(P, k)
  <2>1. CASE B.win[k].float
    <3>1. P = B
      BY <1>1, <1>8, <2>1
    <3> QED BY <1>10, <2>1, <3>1, SettledSame DEF Placed
  <2>2. CASE ~B.win[k].float /\ othersFloat
    <3> DEFINE Q == [B.win[k] EXCEPT !.float = TRUE]
    <3>1. Q \in WinRec /\ Q.st = B.win[k].st /\ Q.void = B.win[k].void /\ Q.float
      BY <1>6, <1>7, <1>10 DEF WinRec
    <3>2. P = [B EXCEPT !.win[k] = Q]
      BY <1>1, <1>8, <2>2
    <3> HIDE DEF Q
    <3>3. Settled(B, P, {}) /\ P.win[k] = Q
      BY <1>10, <3>1, <3>2, Styled
    <3> QED BY <3>1, <3>3 DEF Placed
  <2>3. CASE ~B.win[k].float /\ ~othersFloat
    <3>1. P \in Reattach(B, k)
      BY <1>1, <1>8, <2>3
    <3> QED BY <1>10, <3>1, ReattachSettles DEF Placed
  <2> QED BY <2>1, <2>2, <2>3
<1> HIDE DEF T, othersFloat, placed
<1>12. PICK V : V = FocusAdd(P, k)
  OBVIOUS
<1>13. /\ P \in Manager /\ P.z = z /\ P.draw = d /\ P.ring = S.ring /\ P.measured = S.measured
       /\ \A j \in Window : P.win[j].st = w[j].st
  BY <1>10, <1>11 DEF Settled, Restyled
<1>14. /\ V \in Manager /\ V.win = P.win /\ V.tree = P.tree /\ V.z = z /\ V.draw = d
       /\ V.measured = S.measured
       /\ Listed(V.ring, Window) /\ Members(V.ring) = Members(S.ring) \cup {k}
  BY <1>2, <1>12, <1>13, FocusAddIs
<1>15. Joins(S, V, k)
  BY <1>5, <1>6, <1>7, <1>13, <1>14 DEF Joins
<1>16. \A j \in Window : S.win[j].void = w[j].void
  BY <1>6, <1>7
<1>17. Apart(V)
  BY <1>10, <1>11, <1>14, <1>16 DEF Apart, Good, Settled, VoidsForgotten
<1>18. Early(V)
  BY <1>14 DEF Early
<1>19. KeepsPlaces(S, V, {k})
  <2> SUFFICES ASSUME NEW j \in Mapped(S) \ {k}, Placed(S, j) PROVE Placed(V, j)
    BY DEF KeepsPlaces
  <2>1. j \in Window \ {k} /\ w[j] = S.win[j] /\ S.win[j].st = "Mapped"
    BY <1>7 DEF Mapped
  <2>2. j \in Mapped(B) /\ Placed(B, j)
    BY <1>10, <2>1 DEF Mapped, Placed
  <2>3. Placed(P, j)
    BY <1>11, <2>2 DEF Settled, KeepsPlaces
  <2> QED BY <1>14, <2>3 DEF Placed
<1>20. Placed(V, k)
  BY <1>11, <1>14 DEF Placed
<1>21. Keeps(S, V, {})
  BY <1>15, <1>17, <1>18, <1>19, <1>20, JoinsKeeps
<1>22. Keeps(V, U, {})
  BY <1>1, <1>12, <1>21, FrontKeeps DEF Keeps
<1> QED BY <1>21, <1>22, KeepsChain

\* What transition_window may be asked for.
LEMMA TransitionKeeps ==
  ASSUME NEW S, Good(S), S.measured, CanDraw(S), NEW k \in Window,
         NEW new \in {"Mapped", "Unmapped", "Iconic"}, new = "Iconic" \/ S.win[k].st # "unborn",
         NEW U \in TransitionWindow(S, k, new)
  PROVE  Keeps(S, U, {}) /\ (new = "Unmapped" => U.win[k].st \in {"Unmapped", "dead"})
<1>1. S \in Manager /\ S.win[k] \in WinRec /\ State(S, k) = S.win[k].st
  BY DEF Good, Manager, State
<1>2. CASE S.win[k].st \in {new, "dead"}
  BY <1>1, <1>2 DEF TransitionWindow, Keeps
<1>3. CASE S.win[k].st \notin {new, "dead"} /\ new = "Mapped"
  BY <1>1, <1>3, RemappedKeeps DEF TransitionWindow
<1>4. CASE S.win[k].st \notin {new, "dead"} /\ new = "Unmapped"
  BY <1>1, <1>4, UnmappedKeeps DEF TransitionWindow
<1>5. CASE S.win[k].st \notin {new, "dead"} /\ new = "Iconic" /\ S.win[k].st = "Mapped"
  BY <1>1, <1>5, IconicKeeps DEF TransitionWindow
<1>6. CASE S.win[k].st \notin {new, "dead"} /\ new = "Iconic" /\ S.win[k].st # "Mapped"
  <2> DEFINE R == [S.win[k] EXCEPT !.st = "Iconic"]
             w == [S.win EXCEPT ![k] = R]
  <2>1. /\ R \in WinRec /\ R.st = "Iconic"
        /\ R.void = S.win[k].void /\ R.float = S.win[k].float /\ R.max = S.win[k].max
    BY <1>1 DEF WinRec, States
  <2>2. U = [S EXCEPT !.win[k].st = "Iconic"]
    BY <1>1, <1>6 DEF TransitionWindow
  <2>3. U = [S EXCEPT !.win = w]
    BY <1>1, <2>2 DEF Manager
  <2> HIDE DEF R
  <2>4. w \in [Window -> WinRec] /\ w[k] = R /\ \A j \in Window \ {k} : w[j] = S.win[j]
    BY <1>1, <2>1 DEF Manager
  <2> HIDE DEF w
  <2>5. /\ U \in Manager /\ U.win = w /\ U.draw = S.draw /\ U.z = S.z /\ U.ring = S.ring
        /\ U.tree = S.tree /\ U.measured = S.measured
    BY <1>1, <2>3, <2>4 DEF Manager
  <2>6. Mapped(U) = Mapped(S) /\ Shown(S) \subseteq Shown(U)
    BY <1>6, <2>1, <2>4, <2>5 DEF Mapped, Shown
  <2>7. Lists(U)
    BY <2>5, <2>6 DEF Good, Lists
  <2>8. \A j \in Window : U.win[j].void = S.win[j].void /\ U.win[j].float = S.win[j].float
    BY <2>1, <2>4, <2>5
  <2>9. Apart(U) /\ Born(U)
    BY <2>1, <2>4, <2>5, <2>8, WindowAssumption DEF Good, Apart, Born
  <2> QED BY <1>6, <2>5, <2>6, <2>7, <2>8, <2>9 DEF Keeps, Good, Early, Placed, Mapped
<1> QED BY <1>2, <1>3, <1>4, <1>5, <1>6

LEMMA KeepsPlaced ==
  ASSUME NEW S, NEW T, NEW k, Keeps(S, T, {k}), Placed(T, k)
  PROVE  Keeps(S, T, {})
BY DEF Keeps

\* Once k is placed it needs no exception, whatever follows.
LEMMA TileKeeps ==
  ASSUME NEW S, NEW k \in Window, Good(S), NEW U \in TileWindowKey(S, k)
  PROVE  Keeps(S, U, {}) /\ (S.measured /\ k \in Mapped(U) => Placed(U, k))
<1>1. S \in Manager /\ (S.tree # NoTree => S.tree \in TreeSet)
  BY DEF Good, Manager
<1>2. CASE ~S.measured
  BY <1>2, FocusKeeps DEF TileWindowKey
<1>3. CASE S.measured
  <2>1. PICK t \in IF S.tree = NoTree THEN {Leaf(k)} ELSE Balanced(S.tree, k) :
          \E T : T = [S EXCEPT !.tree = t] /\ U \in FocusWindowKey(T, k)
    BY <1>3 DEF TileWindowKey, Trees
  <2>2. PICK T : T = [S EXCEPT !.tree = t] /\ U \in FocusWindowKey(T, k)
    BY <2>1
  <2>3. t \in TreeSet /\ k \in t.leaves /\ \A j \in Window \ {} : Has(S.tree, j) => j \in t.leaves
    BY <1>1, <2>1, SimpleTrees, BalancedIs DEF Has
  <2>4. \A j \in Window \ {} : Has(S.tree, j) => Has(t, j)
    BY <2>3, HasAll
  <2>5. Settled(S, T, {}) /\ T.tree = t /\ T.win = S.win
    BY <1>1, <2>2, <2>3, <2>4, Treed
  <2>6. Keeps(S, T, {})
    BY <1>3, <2>5, SettledKeeps
  <2>7. Placed(T, k)
    BY <2>3, <2>5, TreeIsSome DEF Placed, Has
  <2>8. Keeps(T, U, {})
    BY <2>2, <2>6, FocusKeeps DEF Keeps
  <2>9. k \in Mapped(U) => Placed(U, k)
    BY <2>7, <2>8 DEF Keeps
  <2> QED BY <2>6, <2>8, <2>9, KeepsChain
<1> QED BY <1>2, <1>3

\* A window that is opened finds a place, except before the screen is measured.
LEMMA PlaceKeeps ==
  ASSUME NEW S, NEW k \in Window, Good(S), S.win[k].st = "Mapped", NEW U \in Place(S, k)
  PROVE  Keeps(S, U, {}) /\ (S.measured /\ k \in Mapped(U) => Placed(U, k))
<1> DEFINE others == Mapped(S) \ {k}
           floats == S.tree = NoTree /\ others # {} /\ \A j \in others : S.win[j].float
<1>1. S \in Manager /\ S.win[k] \in WinRec
  BY DEF Good, Manager
<1>2. CASE floats
  <2> DEFINE Q == [S.win[k] EXCEPT !.float = TRUE]
  <2>1. /\ Q \in WinRec /\ Q.st = S.win[k].st /\ Q.void = S.win[k].void
        /\ Q.max = S.win[k].max /\ Q.float
    BY <1>1 DEF WinRec
  <2>2. PICK T : T = [S EXCEPT !.win[k].float = TRUE]
    OBVIOUS
  <2>3. T = [S EXCEPT !.win[k] = Q]
    BY <2>2
  <2> HIDE DEF Q
  <2>4. /\ Settled(S, T, {}) /\ T.win[k] = Q /\ \A j \in Window \ {k} : T.win[j] = S.win[j]
        /\ T.tree = S.tree
    BY <1>1, <2>1, <2>3, Styled
  <2>5. Apart(T) /\ Early(T)
    BY <2>1, <2>4 DEF Apart, Early, Good, Settled, Restyled
  <2>6. Keeps(S, T, {}) /\ Placed(T, k)
    BY <2>1, <2>4, <2>5, RestyledKeeps DEF Settled, Placed
  <2>7. U = Bifurcate(T)
    BY <1>2, <2>2 DEF Place
  <2>8. Keeps(T, U, {})
    BY <2>6, <2>7, BifurcateKeeps DEF Keeps
  <2> QED BY <2>6, <2>8, KeepsChain DEF Keeps
<1>3. CASE ~floats
  <2>1. PICK T \in TileWindowKey(S, k) : U = IF S.measured THEN Bifurcate(T) ELSE T
    BY <1>3 DEF Place
  <2>2. Keeps(S, T, {}) /\ (S.measured /\ k \in Mapped(T) => Placed(T, k))
    BY <2>1, TileKeeps
  <2>3. Keeps(T, U, {})
    <3>1. CASE S.measured
      BY <2>1, <2>2, <3>1, BifurcateKeeps DEF Keeps
    <3>2. CASE ~S.measured
      BY <2>1, <2>2, <3>2 DEF Keeps
    <3> QED BY <3>1, <3>2
  <2>4. S.measured /\ k \in Mapped(U) => Placed(U, k)
    BY <2>2, <2>3 DEF Keeps
  <2> QED BY <2>2, <2>3, <2>4, KeepsChain
<1> QED BY <1>2, <1>3

LEMMA OpenKeeps ==
  ASSUME NEW S, NEW k \in Window, Good(S), S.win[k].st = "unborn", NEW U \in OpenWindow(S, k)
  PROVE  Keeps(S, U, IF S.measured THEN {} ELSE {k})
<1>1. State(S, k) = "unborn"
  BY DEF State
<1>2. PICK T \in FirstMapped(S, k) : \E P \in Place(T, k) : U \in FocusWindowKey(P, k)
  BY <1>1 DEF OpenWindow, TransitionWindow
<1> PICK P \in Place(T, k) : U \in FocusWindowKey(P, k)
  BY <1>2
<1>3. Keeps(S, T, {k}) /\ T.win[k].st = "Mapped"
  BY <1>2, FirstMappedKeeps
<1>4. Keeps(T, P, {}) /\ (T.measured /\ k \in Mapped(P) => Placed(P, k))
  BY <1>2, <1>3, PlaceKeeps DEF Keeps
<1>5. Keeps(P, U, {})
  BY <1>2, <1>4, FocusKeeps DEF Keeps
<1>6. Keeps(S, P, {k})
  BY <1>3, <1>4, KeepsChain
<1>7. Keeps(S, U, {k})
  BY <1>5, <1>6, KeepsChain
<1>8. CASE S.measured
  <2>1. k \in Mapped(U) => Placed(U, k)
    BY <1>3, <1>4, <1>5, <1>8 DEF Keeps
  <2> QED BY <1>7, <1>8, <2>1 DEF Keeps
<1>9. CASE ~S.measured
  BY <1>7, <1>9
<1> QED BY <1>8, <1>9

LEMMA CloseKeeps ==
  ASSUME NEW S, Good(S), S.measured, CanDraw(S), NEW k \in Window, NEW U \in CloseWindow(S, k)
  PROVE  Keeps(S, U, {})
<1>1. CASE ~Live(S, k)
  BY <1>1 DEF CloseWindow, Keeps
<1>2. CASE Live(S, k)
  <2>1. PICK T \in TransitionWindow(S, k, "Unmapped") :
          U = [T EXCEPT !.win[k] = IF k \in Panels THEN @ ELSE Entry("dead")]
    BY <1>2 DEF CloseWindow
  <2>2. Keeps(S, T, {}) /\ T.win[k].st \in {"Unmapped", "dead"}
    BY <1>2, <2>1, TransitionKeeps DEF Live, State
  <2>3. T \in Manager /\ T.win[k] \in WinRec /\ Good(T)
    BY <2>2 DEF Keeps, Good, Manager
  <2> DEFINE E == IF k \in Panels THEN T.win[k] ELSE Entry("dead")
             w == [T.win EXCEPT ![k] = E]
  <2>4. /\ E \in WinRec /\ E.st \in {"Unmapped", "dead"} /\ E.void \in {NoVoid, T.win[k].void}
        /\ (E.max => T.win[k].max)
    BY <2>2, <2>3 DEF Entry, WinRec, States
  <2>5. U = [T EXCEPT !.win = w]
    BY <2>1, <2>3 DEF Manager
  <2> HIDE DEF E
  <2>6. w \in [Window -> WinRec] /\ w[k] = E /\ \A j \in Window \ {k} : w[j] = T.win[j]
    BY <2>3, <2>4 DEF Manager
  <2> HIDE DEF w
  <2>7. /\ U \in Manager /\ U.win = w /\ U.draw = T.draw /\ U.z = T.z /\ U.ring = T.ring
        /\ U.tree = T.tree /\ U.measured = T.measured
    BY <2>3, <2>5, <2>6 DEF Manager
  <2>8. Mapped(U) = Mapped(T) /\ Shown(U) = Shown(T)
    BY <2>2, <2>4, <2>6, <2>7 DEF Mapped, Shown
  <2>9. Lists(U)
    BY <2>3, <2>7, <2>8 DEF Good, Lists
  <2>10. Apart(U) /\ Early(U) /\ Born(U)
    BY <2>3, <2>4, <2>6, <2>7, WindowAssumption DEF Good, Apart, Early, Born
  <2>11. Keeps(T, U, {})
    BY <2>2, <2>3, <2>6, <2>7, <2>8, <2>9, <2>10 DEF Keeps, Good, Placed, Mapped
  <2> QED BY <2>2, <2>11, KeepsChain
<1> QED BY <1>1, <1>2

LEMMA FocusWindowKeeps ==
  ASSUME NEW S, Good(S), S.measured, CanDraw(S), NEW k \in Window, NEW U \in FocusWindow(S, k)
  PROVE  Keeps(S, U, {})
<1>1. PICK T \in IF State(S, k) = "Iconic" THEN TransitionWindow(S, k, "Mapped") ELSE {S} :
        U \in FocusWindowKey(T, k)
  BY DEF FocusWindow
<1>2. Keeps(S, T, {})
  BY <1>1, TransitionKeeps DEF State, Keeps
<1>3. Keeps(T, U, {})
  BY <1>1, <1>2, FocusKeeps DEF Keeps
<1> QED BY <1>2, <1>3, KeepsChain

LEMMA PanelKeeps ==
  ASSUME NEW S, Good(S), S.measured, CanDraw(S), NEW p \in Panels, NEW U \in TogglePanel(S, p)
  PROVE  Keeps(S, U, {})
<1>1. p \in Window /\ S.win[p].st # "unborn"
  BY WindowAssumption DEF Good, Born
<1>2. CASE State(S, p) = "Mapped"
  BY <1>1, <1>2, TransitionKeeps DEF TogglePanel
<1>3. CASE State(S, p) # "Mapped"
  <2>1. PICK T \in TransitionWindow(S, p, "Mapped") : U \in FocusWindowKey(T, p)
    BY <1>3 DEF TogglePanel
  <2>2. Keeps(S, T, {})
    BY <1>1, <2>1, TransitionKeeps
  <2>3. Keeps(T, U, {})
    BY <1>1, <2>1, <2>2, FocusKeeps DEF Keeps
  <2> QED BY <2>2, <2>3, KeepsChain
<1> QED BY <1>2, <1>3

LEMMA AdvanceKeeps ==
  ASSUME NEW S, Good(S), NEW step \in {-1, 1}, NEW U \in AdvanceFocus(S, step)
  PROVE  Keeps(S, U, {})
<1>1. CASE S.ring = <<>>
  BY <1>1 DEF AdvanceFocus, Keeps
<1>2. CASE S.ring # <<>>
  <2> DEFINE n == Len(S.ring)
             at == IF Contains(S.ring, S.cur) THEN CHOOSE i \in 1..n : S.ring[i] = S.cur ELSE 1
  <2>1. S.ring \in Seq(Window) /\ S \in Manager
    BY DEF Good, Manager
  <2>2. n \in Nat /\ n > 0
    BY <1>2, <2>1
  <2>3. at \in 1..n
    BY <2>2 DEF Contains
  <2> HIDE DEF n, at
  <2>4. PICK i : i = ((at - 1 + step) % n) + 1
    OBVIOUS
  <2>5. i \in 1..n
    <3>1. at - 1 + step \in Int
      BY <2>2, <2>3
    <3>2. (at - 1 + step) % n \in 0..(n - 1)
      BY <2>2, <3>1
    <3> QED BY <2>2, <2>4, <3>2
  <2>6. PICK to : to = S.ring[i]
    OBVIOUS
  <2>7. to \in Window
    BY <2>1, <2>5, <2>6 DEF n
  <2>8. PICK T : T = [S EXCEPT !.cur = to]
    OBVIOUS
  <2>9. PICK P \in IF S.cur # to /\ IsMaximized(S, S.cur) THEN ToggleMaximize(T, S.cur) ELSE {T} :
          U \in FocusWindowKey(P, to)
    <3>1. AdvanceFocus(S, step) =
            UNION {FocusWindowKey(P, to) :
                     P \in IF S.cur # to /\ IsMaximized(S, S.cur) THEN ToggleMaximize(T, S.cur) ELSE {T}}
      <4>1. AdvanceFocus(S, step) =
              LET go == S.ring[((at - 1 + step) % n) + 1]
                  R  == [S EXCEPT !.cur = go]
              IN  UNION {FocusWindowKey(P, go) :
                           P \in IF S.cur # go /\ IsMaximized(S, S.cur)
                                 THEN ToggleMaximize(R, S.cur) ELSE {R}}
        BY <1>2, Zenon DEF AdvanceFocus, n, at
      <4>2. S.ring[((at - 1 + step) % n) + 1] = to
        BY <2>4, <2>6
      <4> QED BY <2>8, <4>1, <4>2
    <3> QED BY <3>1
  <2>10. Keeps(S, T, {}) /\ T.win = S.win
    BY <2>1, <2>7, <2>8, CurKeeps, SetCur
  <2>11. Keeps(T, P, {})
    <3>1. CASE S.cur # to /\ IsMaximized(S, S.cur)
      <4>1. S.cur \in Window /\ S.win[S.cur].max /\ IsMaximized(T, S.cur)
        BY <2>10, <3>1 DEF IsMaximized, Live, State
      <4>2. T.measured
        BY <2>10, <4>1 DEF Good, Early, Keeps
      <4> QED BY <2>9, <2>10, <3>1, <4>1, <4>2, ToggleKeeps DEF Keeps
    <3>2. CASE ~(S.cur # to /\ IsMaximized(S, S.cur))
      BY <2>9, <2>10, <3>2 DEF Keeps
    <3> QED BY <3>1, <3>2
  <2>12. Keeps(P, U, {})
    BY <2>7, <2>9, <2>11, FocusKeeps DEF Keeps
  <2> QED BY <2>10, <2>11, <2>12, KeepsChain
<1> QED BY <1>1, <1>2

-----------------------------------------------------------------------------
(* Changes of mode: what loses its leaf gets a rectangle, what loses its   *)
(* rectangle gets a leaf.                                                  *)
LEMMA FloatAllSettles ==
  ASSUME NEW S \in Manager PROVE Settled(S, FloatAll(S), {})
<1> DEFINE tiled == {k \in S.regions \cup (IF S.tree = NoTree THEN {} ELSE S.tree.leaves) :
                       ~IsFloating(S, k)}
           w == [k \in Window |-> IF k \in tiled /\ Live(S, k)
                   THEN [S.win[k] EXCEPT !.float = TRUE] ELSE S.win[k]]
<1>1. CASE tiled = {}
  BY <1>1, SettledSame DEF FloatAll
<1>2. CASE tiled # {}
  <2>1. PICK T : T = FloatAll(S)
    OBVIOUS
  <2>2. T = [S EXCEPT !.tree = NoTree, !.win = w]
    BY <1>2, <2>1 DEF FloatAll
  <2>3. w \in [Window -> WinRec] /\ \A k \in Window :
          /\ w[k].st = S.win[k].st /\ w[k].void = S.win[k].void
          /\ (S.win[k].float => w[k].float) /\ (k \in tiled /\ Live(S, k) => w[k].float)
    <3>1. \A k \in Window : S.win[k] \in WinRec
      BY DEF Manager
    <3>2. \A k \in Window : [S.win[k] EXCEPT !.float = TRUE] \in WinRec
      BY <3>1 DEF WinRec
    <3> HIDE DEF tiled
    <3> QED BY <3>1, <3>2 DEF WinRec
  <2>4. \A k \in Mapped(S) : Live(S, k) /\ (Has(S.tree, k) => S.win[k].float \/ k \in tiled)
    BY DEF Mapped, Live, State, Has, IsFloating
  <2> HIDE DEF tiled, w
  <2>5. /\ T \in Manager /\ T.win = w /\ T.tree = NoTree /\ T.draw = S.draw /\ T.z = S.z
        /\ T.ring = S.ring /\ T.measured = S.measured
    BY <2>2, <2>3 DEF Manager
  <2>6. \A k \in Mapped(S) : Placed(S, k) => Placed(T, k)
    BY <2>3, <2>4, <2>5 DEF Placed, Mapped
  <2> QED BY <2>1, <2>3, <2>5, <2>6 DEF Settled, Restyled, KeepsPlaces, VoidsForgotten
<1> QED BY <1>1, <1>2

LEMMA UnfloatSettles ==
  ASSUME NEW S \in Manager, NEW K
  PROVE  LET T == Unfloat(S, K) IN Settled(S, T, K) /\ T.tree = S.tree
<1> DEFINE w == [k \in Window |-> IF k \in K /\ Live(S, k)
                   THEN [S.win[k] EXCEPT !.float = FALSE, !.max = FALSE] ELSE S.win[k]]
<1>1. PICK T : T = Unfloat(S, K)
  OBVIOUS
<1>2. T = [S EXCEPT !.win = w]
  BY <1>1 DEF Unfloat
<1>3. w \in [Window -> WinRec] /\ \A k \in Window :
        w[k].st = S.win[k].st /\ w[k].void = S.win[k].void /\ (k \notin K => w[k] = S.win[k])
  BY DEF Manager, WinRec
<1> HIDE DEF w
<1>4. Restyled(S, T) /\ T.win = w /\ T.tree = S.tree
  BY <1>2, <1>3, SetWin
<1>5. KeepsPlaces(S, T, K)
  BY <1>3, <1>4 DEF KeepsPlaces, Placed, Mapped
<1> QED BY <1>1, <1>3, <1>4, <1>5 DEF Settled, VoidsForgotten

\* A new tree that has a leaf for each window that loses its rectangle.
LEMMA RetiledSettles ==
  ASSUME NEW S \in Manager, NEW K, NEW t \in TreeSet,
         \A j \in Mapped(S) : j \in K \/ Has(S.tree, j) => j \in t.leaves,
         NEW U, U = [Unfloat(S, K) EXCEPT !.tree = t]
  PROVE  Settled(S, U, {})
<1>1. PICK T : T = Unfloat(S, K)
  OBVIOUS
<1>2. Settled(S, T, K) /\ T.tree = S.tree /\ T \in Manager
  BY <1>1, UnfloatSettles DEF Settled, Restyled
<1>3. U = [T EXCEPT !.tree = t]
  BY <1>1
<1>4. Restyled(T, U) /\ U.tree = t /\ U.win = T.win
  <2>1. t \in TreeSet \cup {NoTree}
    OBVIOUS
  <2>2. LET V == [T EXCEPT !.tree = t] IN Restyled(T, V) /\ V.tree = t /\ V.win = T.win
    BY <1>2, <2>1, SetTree
  <2> QED BY <1>3, <2>2
<1>5. Restyled(S, U) /\ VoidsForgotten(S, U)
  BY <1>2, <1>4 DEF Settled, Restyled, VoidsForgotten
<1>6. ASSUME NEW j \in Mapped(S), Placed(S, j) PROVE Placed(U, j)
  <2>1. CASE j \in K \/ Has(S.tree, j)
    BY <1>4, <2>1, TreeIsSome DEF Placed, Has
  <2>2. CASE ~(j \in K \/ Has(S.tree, j))
    <3>1. Placed(T, j)
      BY <1>2, <1>6, <2>2 DEF Settled, KeepsPlaces
    <3> QED BY <1>2, <1>4, <2>2, <3>1 DEF Placed
  <2> QED BY <2>1, <2>2
<1> QED BY <1>5, <1>6 DEF Settled, KeepsPlaces

LEMMA TilingKeeps ==
  ASSUME NEW S, Good(S), S.measured PROVE Keeps(S, ToggleTiling(S), {})
<1> DEFINE keys == {k \in Mapped(S) : Contains(S.z, k)}
<1>1. S \in Manager /\ Mapped(S) \subseteq Members(S.z)
  BY DEF Good, Lists
<1>2. keys = Mapped(S) /\ keys \in SUBSET Window
  BY <1>1 DEF Contains, Members, Mapped
<1>3. CASE S.tree # NoTree
  BY <1>1, <1>3, FloatAllSettles, SettledKeeps DEF ToggleTiling
<1>4. CASE S.tree = NoTree /\ keys = {}
  BY <1>4 DEF ToggleTiling, Keeps
<1>5. CASE S.tree = NoTree /\ keys # {}
  <2>1. PICK T : T = [Unfloat(S, keys) EXCEPT !.tree = AllOf(keys)]
    OBVIOUS
  <2>2. AllOf(keys) \in TreeSet /\ AllOf(keys).leaves = keys
    BY <1>2, SimpleTrees
  <2>3. PICK t : t = AllOf(keys)
    OBVIOUS
  <2> HIDE DEF keys
  <2>4. \A j \in Mapped(S) : j \in keys \/ Has(S.tree, j) => j \in t.leaves
    BY <1>2, <2>2, <2>3
  <2>5. Settled(S, T, {})
    BY <1>1, <2>1, <2>2, <2>3, <2>4, RetiledSettles
  <2>6. Keeps(S, T, {})
    BY <2>5, SettledKeeps
  <2>7. ToggleTiling(S) = Bifurcate(T)
    BY <1>5, <2>1 DEF ToggleTiling, keys
  <2>8. Good(T)
    BY <2>6 DEF Keeps
  <2>9. Keeps(T, Bifurcate(T), {})
    BY <2>8, BifurcateKeeps
  <2> QED BY <2>6, <2>7, <2>9, KeepsChain
<1> QED BY <1>3, <1>4, <1>5

LEMMA PositionSettles ==
  ASSUME NEW S \in Manager, S.tree = NoTree, CanDraw(S), NEW k \in Window,
         NEW U \in PositionBased(S, k)
  PROVE  Settled(S, U, {}) /\ Placed(U, k)
<1> DEFINE all == {j \in Mapped(S) : S.win[j].float} \cup S.regions \cup {k}
           old == IF all = {k} THEN Void(Fresh(S)) ELSE AllOf(all \ {k})
<1>1. PICK t \in Split(old, k, Fresh(S)) : U = [Unfloat(S, all) EXCEPT !.tree = t]
  BY DEF PositionBased, Trees
<1>2. k \in all /\ all \in SUBSET Window /\ \A j \in Mapped(S) : Placed(S, j) => j \in all
  BY DEF Manager, Mapped, Placed, Has
<1> HIDE DEF all
<1>3. old \in TreeSet /\ old.leaves = all \ {k}
  BY <1>2, FreshIs, SimpleTrees
<1> HIDE DEF old
<1>4. t \in TreeSet /\ t.leaves = all
  <2>1. t \in TreeSet /\ t.leaves = old.leaves \cup {k}
    BY <1>1, <1>3, FreshIs, SplitIs
  <2> QED BY <1>2, <1>3, <2>1
<1>5. Settled(S, U, {})
  BY <1>1, <1>4, RetiledSettles DEF Has
<1>6. PICK T : T = Unfloat(S, all)
  OBVIOUS
<1>7. T \in Manager
  BY <1>6, UnfloatSettles DEF Settled, Restyled
<1>8. U.tree = t
  BY <1>1, <1>4, <1>6, <1>7, SetTree
<1>9. Placed(U, k)
  BY <1>2, <1>4, <1>8, TreeIsSome DEF Placed, Has
<1> QED BY <1>5, <1>9

LEMMA SettledPlaced ==
  ASSUME NEW S, NEW T, NEW U, NEW k, Settled(S, T, {k}), Settled(T, U, {}), Placed(U, k)
  PROVE  Settled(S, U, {})
<1>1. Mapped(T) = Mapped(S)
  BY DEF Settled, Restyled, Mapped
<1> QED BY <1>1 DEF Settled, Restyled, KeepsPlaces, VoidsForgotten

LEMMA SnapSettles ==
  ASSUME NEW S \in Manager, CanDraw(S), NEW k \in Window, NEW U \in ApplySnap(S, k)
  PROVE  Settled(S, U, {})
<1> DEFINE removed == IF ~Has(S.tree, k) THEN {S.tree}
                      ELSE IF S.tree.leaves = {k} THEN {NoTree} ELSE Removed(S.tree, k, Fresh(S))
<1>1. PICK r \in removed : \E T : T = [S EXCEPT !.tree = r] /\
        U \in IF T.tree = NoTree THEN PositionBased(T, k)
              ELSE Trees(Unfloat(T, {k}), Split(T.tree, k, Fresh(T)))
  BY DEF ApplySnap, Trees
<1>2. PICK T : T = [S EXCEPT !.tree = r] /\
        U \in IF T.tree = NoTree THEN PositionBased(T, k)
              ELSE Trees(Unfloat(T, {k}), Split(T.tree, k, Fresh(T)))
  BY <1>1
<1>3. /\ r \in TreeSet \cup {NoTree} /\ \A j \in Window \ {k} : Has(S.tree, j) => Has(r, j)
      /\ r \in {S.tree, NoTree} \/ r.voids = {} \/ (r.bare /\ r.leaves = {})
  <2>1. CASE ~Has(S.tree, k)
    BY <1>1, <2>1 DEF Manager
  <2>2. CASE Has(S.tree, k)
    <3>1. S.tree \in TreeSet /\ k \in S.tree.leaves
      BY <2>2 DEF Manager, Has
    <3>2. CASE S.tree.leaves = {k}
      BY <1>1, <2>2, <3>2 DEF Has
    <3>3. CASE S.tree.leaves # {k}
      <4>1. r \in Removed(S.tree, k, Fresh(S))
        BY <1>1, <2>2, <3>3
      <4>2. /\ r \in TreeSet /\ r.leaves = S.tree.leaves \ {k}
            /\ (r.bare /\ r.leaves = {}) \/ r.voids = {}
        BY <3>1, <4>1, FreshIs, RemovedIs
      <4> QED BY <4>2, TreeIsSome DEF Has
    <3> QED BY <3>2, <3>3
  <2> QED BY <2>1, <2>2
<1> HIDE DEF removed
<1>4. Settled(S, T, {k}) /\ T.tree = r /\ T.win = S.win /\ T.regions = S.regions
  BY <1>2, <1>3, Treed
<1>5. T \in Manager
  BY <1>4 DEF Settled, Restyled
<1>6. CanDraw(T) \/ (r # NoTree /\ r.bare /\ r.leaves = {})
  <2>1. CASE r = S.tree
    BY <1>4, <2>1, SameVoids
  <2>2. CASE r # S.tree /\ (r = NoTree \/ r.voids = {})
    <3>1. InUse(T) \subseteq InUse(S)
      BY <1>4, <2>2 DEF InUse
    <3> QED BY <3>1 DEF CanDraw
  <2> QED BY <1>3, <2>1, <2>2
<1>7. CASE r = NoTree
  <2>1. U \in PositionBased(T, k)
    BY <1>2, <1>4, <1>7
  <2>2. Settled(T, U, {}) /\ Placed(U, k)
    BY <1>4, <1>5, <1>6, <1>7, <2>1, PositionSettles
  <2> QED BY <1>4, <2>2, SettledPlaced
<1>8. CASE r # NoTree
  <2>1. PICK t \in Split(r, k, Fresh(T)) : U = [Unfloat(T, {k}) EXCEPT !.tree = t]
    BY <1>2, <1>4, <1>8 DEF Trees
  <2>2. t \in TreeSet /\ t.leaves = r.leaves \cup {k}
    BY <1>3, <1>6, <1>8, <2>1, FreshIs, SplitIs
  <2>3. Settled(T, U, {})
    <3>1. \A j \in Mapped(T) : j \in {k} \/ Has(T.tree, j) => j \in t.leaves
      BY <1>4, <2>2 DEF Has
    <3> QED BY <1>5, <2>1, <2>2, <3>1, RetiledSettles
  <2>4. PICK V : V = Unfloat(T, {k})
    OBVIOUS
  <2>5. V \in Manager
    BY <1>5, <2>4, UnfloatSettles DEF Settled, Restyled
  <2>6. U.tree = t
    BY <2>1, <2>2, <2>4, <2>5, SetTree
  <2>7. Placed(U, k)
    BY <2>2, <2>6, TreeIsSome DEF Placed, Has
  <2> QED BY <1>4, <2>3, <2>7, SettledPlaced
<1> QED BY <1>7, <1>8

LEMMA DropKeeps ==
  ASSUME NEW S, Good(S), S.measured, CanDraw(S), NEW k \in Window, NEW U \in DropSnap(S, k)
  PROVE  Keeps(S, U, {})
<1>1. CASE U \in ToggleMaximize(S, k)
  BY <1>1, ToggleKeeps
<1>2. CASE U \in ApplySnap(S, k)
  BY <1>2, SnapSettles, SettledKeeps DEF Good
<1>3. CASE U = S
  BY <1>3 DEF Keeps
<1> QED BY <1>1, <1>2, <1>3 DEF DropSnap

LEMMA DragKeeps ==
  ASSUME NEW S, Good(S), S.measured, NEW k \in Window, NEW U \in DragWindow(S, k)
  PROVE  Keeps(S, U, {})
<1>1. PICK T \in IF IsMaximized(S, k) THEN ToggleMaximize(S, k) ELSE {S} :
        U = IF Live(T, k) /\ ~IsFloating(T, k)
              THEN BringToFront([T EXCEPT !.win[k].float = TRUE], k) ELSE T
  BY DEF DragWindow
<1>2. Keeps(S, T, {}) /\ Good(T) /\ T.measured
  BY <1>1, ToggleKeeps DEF Keeps
<1>3. CASE ~(Live(T, k) /\ ~IsFloating(T, k))
  BY <1>1, <1>2, <1>3
<1>4. CASE Live(T, k) /\ ~IsFloating(T, k)
  <2> DEFINE Q == [T.win[k] EXCEPT !.float = TRUE]
  <2>1. T \in Manager /\ T.win[k] \in WinRec
    BY <1>2 DEF Good, Manager
  <2>2. Q \in WinRec /\ Q.st = T.win[k].st /\ Q.void = T.win[k].void /\ Q.float
    BY <2>1 DEF WinRec
  <2>3. PICK V : V = [T EXCEPT !.win[k].float = TRUE]
    OBVIOUS
  <2>4. V = [T EXCEPT !.win[k] = Q]
    BY <2>3
  <2> HIDE DEF Q
  <2>5. Settled(T, V, {})
    BY <2>1, <2>2, <2>4, Styled
  <2>6. Keeps(T, V, {})
    BY <1>2, <2>5, SettledKeeps
  <2>7. Keeps(V, U, {})
    BY <1>1, <1>4, <2>3, <2>6, FrontKeeps DEF Keeps
  <2> QED BY <1>2, <2>6, <2>7, KeepsChain
<1> QED BY <1>3, <1>4

\* The window whose header is let go may be left without a place.
LEMMA LetGoKeeps ==
  ASSUME NEW S, Good(S), S.measured, CanDraw(S), NEW k \in Window, NEW T \in Detach(S, k)
  PROVE  Keeps(S, FloatAll(T), {k})
<1>1. S \in Manager
  BY DEF Good
<1>2. Settled(S, T, {k})
  BY <1>1, DetachSettles
<1>3. Settled(T, FloatAll(T), {k})
  <2>1. Settled(T, FloatAll(T), {})
    BY <1>2, FloatAllSettles DEF Settled, Restyled
  <2> QED BY <2>1 DEF Settled, KeepsPlaces
<1> QED BY <1>2, <1>3, SettledChain, SettledKeeps

-----------------------------------------------------------------------------
(* A frame.  What it shows is stacked already, hence finite, and can be    *)
(* put into a sequence.                                                    *)
LEMMA InSomeOrder ==
  ASSUME NEW s, Listed(s, Window), NEW K, K \subseteq Members(s), NEW t \in SetToSeqs(K)
  PROVE  Listed(t, Window) /\ Members(t) = K
<1>1. s \in Seq(Window) /\ Len(s) \in Nat /\ Members(s) \subseteq Window
  BY MembersRange DEF Listed
<1>2. IsFiniteSet(Members(s))
  <2>1. s \in [1..Len(s) -> Members(s)]
    BY <1>1 DEF Members
  <2>2. s \in Surjection(1..Len(s), Members(s))
    BY <2>1 DEF Surjection, Members
  <2>3. ExistsSurjection(1..Len(s), Members(s))
    BY <2>2 DEF ExistsSurjection
  <2> QED BY <1>1, <2>3, FS_NatSurjection
<1>3. IsFiniteSet(K)
  BY <1>2, FS_Subset
<1>4. PICK n \in Nat : n = Cardinality(K)
  BY <1>3, FS_CardinalityType
<1>5. t \in [1..n -> K] /\ \A i, j \in 1..n : i # j => t[i] # t[j]
  BY <1>4 DEF SetToSeqs
<1>6. IsFiniteSet(1..n) /\ Cardinality(1..n) = n
  <2>1. Cardinality(1..n) = IF 1 > n THEN 0 ELSE n - 1 + 1
    BY FS_Interval
  <2> QED BY <2>1, FS_Interval
<1>7. t \in Injection(1..n, K)
  BY <1>5 DEF Injection, IsInjective
<1>8. t \in Surjection(1..n, K)
  BY <1>3, <1>4, <1>6, <1>7, FS_Injection
<1>9. t \in Seq(Window) /\ Len(t) = n
  BY <1>1, <1>5
<1>10. IsInjective(t)
  BY <1>5, <1>9 DEF IsInjective
<1>11. Members(t) = K
  BY <1>5, <1>8, <1>9 DEF Surjection, Members
<1> QED BY <1>9, <1>10, <1>11 DEF Listed

LEMMA OrdersIs ==
  ASSUME NEW S, Good(S), NEW o \in Orders(S)
  PROVE  Listed(o, Window) /\ Members(o) = Active(S)
<1> DEFINE F == {k \in Active(S) : S.win[k].float}
<1>1. PICK raised : raised = Kept(S.z, F)
  OBVIOUS
<1>2. PICK t \in SetToSeqs(Active(S) \ Range(raised)) : o = t \o raised
  BY <1>1 DEF Orders
<1>3. Listed(S.z, Window) /\ Active(S) \subseteq Members(S.z)
  BY DEF Good, Lists, Active, Mapped
<1> HIDE DEF F
<1>4. Listed(raised, Window) /\ Members(raised) = Members(S.z) \cap F
  BY <1>1, <1>3, KeptIs
<1>5. Range(raised) = Members(raised) /\ Members(raised) \subseteq Active(S)
  BY <1>4, MembersRange DEF Listed, F
<1>6. Listed(t, Window) /\ Members(t) = Active(S) \ Members(raised)
  BY <1>2, <1>3, <1>5, InSomeOrder
<1>7. Members(t) \cap Members(raised) = {} /\ Members(t) \cup Members(raised) = Active(S)
  BY <1>5, <1>6
<1>8. Listed(t \o raised, Window) /\ Members(t \o raised) = Members(t) \cup Members(raised)
  BY <1>4, <1>6, <1>7, ListedJoined
<1> QED BY <1>2, <1>7, <1>8

LEMMA JoinedIs ==
  ASSUME NEW s, Listed(s, Window), NEW o, Listed(o, Window), NEW A
  PROVE  Listed(Joined(s, A, o), Window) /\ Members(Joined(s, A, o)) = (Members(s) \cap A) \cup Members(o)
<1>1. PICK kept : kept = Kept(s, A)
  OBVIOUS
<1>2. Listed(kept, Window) /\ Members(kept) = Members(s) \cap A
  BY <1>1, KeptIs
<1>3. PICK rest : rest = Kept(o, Window \ Range(kept))
  OBVIOUS
<1>4. /\ Listed(rest, Window) /\ Members(rest) = Members(o) \cap (Window \ Range(kept))
      /\ Members(o) \subseteq Window
  BY <1>3, KeptIs, MembersRange DEF Listed
<1>5. Range(kept) = Members(kept)
  BY <1>2, MembersRange DEF Listed
<1>6. Members(kept) \cap Members(rest) = {}
  BY <1>4, <1>5
<1>7. Joined(s, A, o) = kept \o rest
  BY <1>1, <1>3 DEF Joined
<1>8. Members(kept) \cup Members(rest) = (Members(s) \cap A) \cup Members(o)
  BY <1>2, <1>4, <1>5
<1> QED BY <1>2, <1>4, <1>6, <1>7, <1>8, ListedJoined

\* The tree of a frame; the first one finds a place for everything.
LEMMA BuiltKeeps ==
  ASSUME NEW S, Good(S), NEW B, B = [BuildTree(S) EXCEPT !.measured = TRUE]
  PROVE  /\ Good(B) /\ B.measured /\ B.win = S.win /\ B.ring = S.ring
         /\ \A k \in Mapped(S) : ~S.measured \/ Placed(S, k) => Placed(B, k)
<1> DEFINE tiled == {k \in Mapped(S) : ~S.win[k].float}
           t == IF S.tree = NoTree /\ tiled # {} THEN AllOf(tiled) ELSE S.tree
<1>1. S \in Manager /\ Early(S)
  BY DEF Good
<1>2. AllOf(tiled) \in TreeSet /\ AllOf(tiled).leaves = tiled
  BY SimpleTrees DEF Mapped
<1>3. B = [S EXCEPT !.tree = t, !.measured = TRUE]
  BY <1>1 DEF BuildTree, Manager
<1>4. t \in TreeSet \cup {NoTree} /\ (S.tree = NoTree => \A k \in tiled : Has(t, k))
      /\ (S.tree # NoTree => t = S.tree)
  BY <1>1, <1>2, TreeIsSome DEF Manager, Has
<1> HIDE DEF t
<1>5. /\ B \in Manager /\ B.win = S.win /\ B.tree = t /\ B.z = S.z /\ B.draw = S.draw
      /\ B.ring = S.ring /\ B.measured
  BY <1>1, <1>3, <1>4 DEF Manager
<1>6. Mapped(B) = Mapped(S) /\ Shown(B) = Shown(S)
  BY <1>5 DEF Mapped, Shown
<1>7. Lists(B)
  BY <1>5, <1>6 DEF Good, Lists
<1>8. Good(B)
  BY <1>5, <1>7 DEF Good, Apart, Early, Born
<1>9. ASSUME NEW k \in Mapped(S), ~S.measured \/ Placed(S, k) PROVE Placed(B, k)
  <2>1. CASE S.tree = NoTree
    BY <1>4, <1>5, <2>1 DEF Placed
  <2>2. CASE S.tree # NoTree
    BY <1>1, <1>4, <1>5, <1>9, <2>2 DEF Placed, Early
  <2> QED BY <2>1, <2>2
<1> QED BY <1>5, <1>8, <1>9

LEMMA DrawnKeeps ==
  ASSUME NEW S, Good(S), S.measured, NEW o \in Orders(S)
  PROVE  LET D == Drawn(S, o) IN
         Good(D) /\ D.measured /\ D.win = S.win /\ D.tree = S.tree /\ Members(D.ring) = Active(S)
<1> DEFINE L == {k \in Window : Live(S, k) /\ S.win[k].st # "Unmapped"}
<1>1. /\ S \in Manager /\ Listed(S.z, Window) /\ Listed(S.ring, Window)
      /\ Mapped(S) \subseteq Members(S.z) /\ Members(S.z) \subseteq Shown(S)
  BY DEF Good, Lists
<1>2. Listed(o, Window) /\ Members(o) = Active(S)
  BY OrdersIs
<1>3. PICK r : r = Joined(S.ring, Active(S), o)
  OBVIOUS
<1>4. PICK z : z = Joined(S.z, L, o)
  OBVIOUS
<1>5. Active(S) \subseteq Mapped(S) /\ Active(S) \in SUBSET Window /\ Shown(S) \subseteq L
  BY DEF Active, Mapped, Shown, Live, State
<1> HIDE DEF L
<1>6. Listed(r, Window) /\ Members(r) = Active(S) /\ r \in Seq(Window)
  <2>1. Listed(r, Window) /\ Members(r) = (Members(S.ring) \cap Active(S)) \cup Members(o)
    BY <1>1, <1>2, <1>3, JoinedIs
  <2> QED BY <1>2, <2>1 DEF Listed
<1>7. Listed(z, Window) /\ Members(z) = Members(S.z) /\ z \in Seq(Window)
  <2>1. Listed(z, Window) /\ Members(z) = (Members(S.z) \cap L) \cup Members(o)
    BY <1>1, <1>2, <1>4, JoinedIs
  <2> QED BY <1>1, <1>2, <1>5, <2>1 DEF Listed
<1>8. PICK P : P = [S EXCEPT !.regions = Active(S), !.ring = r, !.z = z]
  OBVIOUS
<1>9. /\ P \in Manager /\ P.win = S.win /\ P.tree = S.tree /\ P.ring = r /\ P.z = z
      /\ P.measured = S.measured
  BY <1>1, <1>5, <1>6, <1>7, <1>8 DEF Manager
<1>10. PICK D : D = Bifurcate(P)
  OBVIOUS
<1>11. /\ D \in Manager /\ D.win = S.win /\ D.tree = S.tree /\ D.ring = r /\ D.z = z
       /\ D.measured = S.measured /\ Listed(D.draw, Window) /\ Members(D.draw) = Members(z)
  BY <1>7, <1>9, <1>10, BifurcateDraws DEF Redrawn
<1>12. Mapped(D) = Mapped(S) /\ Shown(D) = Shown(S) /\ Mapped(S) \subseteq Shown(S)
  BY <1>11 DEF Mapped, Shown
<1>13. Lists(D)
  BY <1>1, <1>5, <1>6, <1>7, <1>11, <1>12 DEF Lists
<1>14. Good(D)
  BY <1>11, <1>13 DEF Good, Apart, Early, Born
<1>15. D = Drawn(S, o)
  BY <1>3, <1>4, <1>8, <1>10 DEF Drawn, L
<1> QED BY <1>6, <1>11, <1>14, <1>15

-----------------------------------------------------------------------------
(* The steps.  T serves S when no mapped window has lost its place but     *)
(* those of K, or the focus ring while it had a place.                     *)
Serves(S, T, K) ==
  /\ Good(T) /\ (S.measured => T.measured)
  /\ \A k \in Mapped(T) :
       /\ T.measured => Placed(T, k) \/ k \in K \/ (k \in Mapped(S) /\ S.measured /\ ~Placed(S, k))
       /\ k \in Members(T.ring)
            \/ (k \in Mapped(S) /\ (~Placed(S, k) \/ k \notin Members(S.ring)))

LEMMA KeepsServes ==
  ASSUME NEW S, NEW T, NEW K, NEW H, Keeps(S, T, H), ~S.measured \/ H \subseteq K
  PROVE  Serves(S, T, K)
BY DEF Keeps, Serves

LEMMA FrameServes ==
  ASSUME NEW S, Good(S), NEW U \in Frame(S)
  PROVE  Serves(S, U, {}) /\ U.measured
<1>1. PICK B : B = [BuildTree(S) EXCEPT !.measured = TRUE]
  OBVIOUS
<1>2. PICK o \in Orders(B) : U \in IF Drawn(B, o).z # <<>> /\ Last(Drawn(B, o).z) = Drawn(B, o).cur
                                     THEN {Drawn(B, o)} ELSE FocusWindowKey(Drawn(B, o), Drawn(B, o).cur)
  BY <1>1 DEF Frame
<1>3. /\ Good(B) /\ B.measured /\ B.win = S.win /\ B.ring = S.ring
      /\ \A k \in Mapped(S) : ~S.measured \/ Placed(S, k) => Placed(B, k)
  BY <1>1, BuiltKeeps
<1>4. PICK D : D = Drawn(B, o)
  OBVIOUS
<1>5. /\ Good(D) /\ D.measured /\ D.win = B.win /\ D.tree = B.tree /\ Members(D.ring) = Active(B)
  BY <1>3, <1>4, DrawnKeeps
<1>6. Keeps(D, U, {})
  <2>1. CASE D.z # <<>> /\ Last(D.z) = D.cur
    BY <1>2, <1>4, <1>5, <2>1 DEF Keeps
  <2>2. CASE ~(D.z # <<>> /\ Last(D.z) = D.cur)
    <3>1. D.cur \in Window \cup {NoWindow}
      BY <1>5 DEF Good, Manager
    <3> QED BY <1>2, <1>4, <1>5, <2>2, <3>1, FocusKeeps
  <2> QED BY <2>1, <2>2
<1>7. ASSUME NEW k \in Mapped(U)
      PROVE  /\ Placed(U, k) \/ (k \in Mapped(D) /\ ~Placed(D, k))
             /\ k \in Members(U.ring) \/ (k \in Mapped(D) /\ k \notin Members(D.ring))
  BY <1>6 DEF Keeps
<1>8. Mapped(D) = Mapped(S) /\ \A k : Placed(D, k) <=> Placed(B, k)
  BY <1>3, <1>5 DEF Mapped, Placed
<1>9. \A k \in Mapped(S) : k \in Members(D.ring) <=> Placed(B, k)
  BY <1>3, <1>5 DEF Active, Mapped, Placed
<1>10. Good(U) /\ U.measured
  BY <1>5, <1>6 DEF Keeps
<1> QED BY <1>3, <1>7, <1>8, <1>9, <1>10 DEF Serves

-----------------------------------------------------------------------------
\* A drag is of a window of a measured screen.
Drags == [key : Window \cup {NoWindow}, applied : BOOLEAN,
          snap : BOOLEAN, top : BOOLEAN, armed : BOOLEAN]
DragInv == /\ drag \in Drags /\ chrome \subseteq Window
           /\ Dragging => wm.measured

Inv == Good(wm) /\ DragInv

LetGo == {k \in Window : drag.key = k /\ drag' = NoDrag /\ Unaimed}

LEMMA InitInv == Init => Inv
<1> SUFFICES ASSUME Init PROVE Inv
  OBVIOUS
<1> DEFINE w == [k \in Window |-> Entry(IF k \in Panels THEN "Unmapped" ELSE "unborn")]
<1>1. /\ Entry("Unmapped") \in WinRec /\ Entry("unborn") \in WinRec
      /\ Entry("Unmapped").st = "Unmapped" /\ Entry("unborn").st = "unborn"
      /\ Entry("Unmapped").void = NoVoid /\ Entry("unborn").void = NoVoid
      /\ ~Entry("Unmapped").max /\ ~Entry("unborn").max
  BY DEF Entry, WinRec, States
<1>2. /\ w \in [Window -> WinRec]
      /\ \A k \in Window : w[k].st \in {"Unmapped", "unborn"} /\ w[k].void = NoVoid /\ ~w[k].max
      /\ \A k \in Panels : w[k].st = "Unmapped"
  BY <1>1, WindowAssumption
<1> HIDE DEF w
<1>3. /\ wm = [win |-> w, tree |-> NoTree, z |-> <<>>, draw |-> <<>>, ring |-> <<>>,
               cur |-> NoWindow, regions |-> {}, measured |-> FALSE]
      /\ drag = NoDrag /\ chrome = {}
  BY DEF Init, w
<1>4. wm \in Manager
  BY <1>2, <1>3 DEF Manager
<1>5. Listed(<<>>, Window) /\ Members(<<>>) = {}
  BY DEF Listed, IsInjective, Members
<1>6. Mapped(wm) = {}
  BY <1>2, <1>3 DEF Mapped
<1>7. Lists(wm)
  BY <1>3, <1>5, <1>6 DEF Lists
<1>8. Apart(wm) /\ Early(wm) /\ Born(wm)
  BY <1>2, <1>3 DEF Apart, Early, Born
<1>9. DragInv
  BY <1>3 DEF DragInv, NoDrag, Drags, Dragging
<1> QED BY <1>4, <1>7, <1>8, <1>9 DEF Inv, Good

LEMMA StepServes ==
  ASSUME Inv, Next
  PROVE  Serves(wm, wm', LetGo) /\ DragInv'
<1> DEFINE Done(K) == Keeps(wm, wm', K) /\ DragInv'
<1>1. /\ Good(wm) /\ drag \in Drags /\ chrome \subseteq Window
      /\ Dragging => drag.key \in Window /\ wm.measured
  BY DEF Inv, DragInv, Drags, Dragging
<1>2. ASSUME NEW K, Keeps(wm, wm', K), chrome' = chrome, drag' \in {drag, Captured, NoDrag}
      PROVE  Done(K)
  <2>1. wm'.measured = wm.measured
    BY <1>2 DEF Keeps
  <2>2. CASE drag' = drag
    BY <1>1, <1>2, <2>1, <2>2 DEF DragInv, Dragging
  <2>3. CASE drag' \in {Captured, NoDrag}
    <3>1. NoDrag \in Drags /\ Captured \in Drags /\ NoDrag.key = NoWindow /\ Captured.key = NoWindow
      BY <1>1 DEF NoDrag, Captured, Drags
    <3> QED BY <1>1, <1>2, <2>3, <3>1 DEF DragInv, Dragging
  <2> QED BY <1>2, <2>2, <2>3
<1>3. ASSUME Done({}) PROVE Serves(wm, wm', LetGo) /\ DragInv'
  BY <1>3, KeepsServes
<1>4. ASSUME NEW k \in Terms, OpenTerminal(k) PROVE Serves(wm, wm', LetGo) /\ DragInv'
  <2>1. k \in Window /\ wm.win[k].st = "unborn" /\ drag' = drag /\ chrome' = chrome /\ wm' \in OpenWindow(wm, k)
    BY <1>4, WindowAssumption DEF OpenTerminal, State
  <2>2. Keeps(wm, wm', IF wm.measured THEN {} ELSE {k})
    BY <1>1, <2>1, OpenKeeps
  <2> QED BY <1>2, <2>1, <2>2, KeepsServes
<1>5. ASSUME NEW k \in Terms, AppExited(k) PROVE Done({})
  <2>1. Keeps(wm, wm', {})
    BY <1>1, <1>5, WindowAssumption, CloseKeeps DEF AppExited, Command, After
  <2> QED BY <1>2, <1>5, <2>1 DEF AppExited, Command, After
<1>6. ASSUME NEW k \in Window, Close(k) PROVE Done({})
  <2>1. Keeps(wm, wm', {})
    BY <1>1, <1>6, CloseKeeps DEF Close, Command, After
  <2> QED BY <1>2, <1>6, <2>1 DEF Close, Command, After
<1>7. ASSUME NEW k \in Window, Minimize(k) PROVE Done({})
  <2>1. Keeps(wm, wm', {})
    BY <1>1, <1>7, TransitionKeeps DEF Minimize, Command, After
  <2> QED BY <1>2, <1>7, <2>1 DEF Minimize, Command, After
<1>8. ASSUME NEW k \in Window, FlipMaximize(k) PROVE Done({})
  <2>1. Keeps(wm, wm', {})
    BY <1>1, <1>8, ToggleKeeps DEF FlipMaximize, Command, After
  <2> QED BY <1>2, <1>8, <2>1 DEF FlipMaximize, Command, After
<1>9. ASSUME NEW k \in Window, SwitchTo(k) PROVE Done({})
  <2>1. Keeps(wm, wm', {})
    BY <1>1, <1>9, FocusWindowKeeps DEF SwitchTo, Command, After
  <2> QED BY <1>2, <1>9, <2>1 DEF SwitchTo, Command, After
<1>10. ASSUME NEW k \in Window, Click(k) PROVE Done({})
  <2>1. Keeps(wm, wm', {})
    BY <1>1, <1>10, FocusKeeps DEF Click, Press, After
  <2> QED BY <1>2, <1>10, <2>1 DEF Click, Press, After
<1>11. ASSUME NEW k \in Window, Raise(k) PROVE Done({})
  <2>1. Keeps(wm, wm', {})
    BY <1>1, <1>11, FrontKeeps DEF Raise, Press, After
  <2> QED BY <1>2, <1>11, <2>1 DEF Raise, Press, After
<1>12. ASSUME NEW k \in Window, PressHeader(k) PROVE Done({})
  <2>1. /\ wm' = BringToFront(wm, k) /\ wm.measured /\ chrome' = chrome
        /\ drag' = [drag EXCEPT !.key = k, !.applied = FALSE, !.armed = TRUE]
    BY <1>12 DEF PressHeader
  <2>2. Keeps(wm, wm', {})
    BY <1>1, <2>1, FrontKeeps
  <2>3. wm'.measured
    BY <2>1, <2>2 DEF Keeps
  <2>4. drag' \in Drags
    BY <1>1, <2>1 DEF Drags
  <2> QED BY <1>1, <2>1, <2>2, <2>3, <2>4 DEF DragInv
<1>13. ASSUME NEW step \in {-1, 1}, Tab(step) PROVE Done({})
  <2>1. Keeps(wm, wm', {})
    BY <1>1, <1>13, AdvanceKeeps DEF Tab, Command, After
  <2> QED BY <1>2, <1>13, <2>1 DEF Tab, Command, After
<1>14. ASSUME NEW p \in Panels, Panel(p) PROVE Done({})
  <2>1. Keeps(wm, wm', {})
    BY <1>1, <1>14, PanelKeeps DEF Panel, Command, After
  <2> QED BY <1>2, <1>14, <2>1 DEF Panel, Command, After
<1>15. ASSUME DragMove PROVE Done({})
  <2>1. /\ Dragging /\ wm' \in DragWindow(wm, drag.key) /\ chrome' = chrome
        /\ \E h \in Hints(IsMaximized(wm, drag.key) /\ wm.win[drag.key].prev) :
             drag' = [drag EXCEPT !.snap = h[1], !.top = h[2], !.armed = TRUE]
    BY <1>15 DEF DragMove
  <2>2. Keeps(wm, wm', {})
    BY <1>1, <2>1, DragKeeps
  <2>3. wm'.measured
    BY <1>1, <2>1, <2>2 DEF Keeps
  <2>4. PICK h \in Hints(IsMaximized(wm, drag.key) /\ wm.win[drag.key].prev) :
               drag' = [drag EXCEPT !.snap = h[1], !.top = h[2], !.armed = TRUE]
    BY <2>1
  <2>5. h[1] \in BOOLEAN /\ h[2] \in BOOLEAN
    <3>1. drag.snap \in BOOLEAN /\ drag.top \in BOOLEAN
      BY <1>1 DEF Drags
    <3>2. h \in {<<drag.snap, drag.top>>, <<FALSE, drag.top>>, <<TRUE, TRUE>>,
                 <<TRUE, FALSE>>, <<FALSE, FALSE>>}
      BY <2>4 DEF Hints
    <3>3. PICK snap \in BOOLEAN, top \in BOOLEAN : h = <<snap, top>>
      BY <3>1, <3>2
    <3> QED BY <3>3
  <2>6. drag' \in Drags
    BY <1>1, <2>4, <2>5 DEF Drags
  <2> QED BY <1>1, <2>1, <2>2, <2>3, <2>6 DEF DragInv
<1>16. ASSUME Tile PROVE Done({})
  <2>1. Keeps(wm, wm', {})
    BY <1>1, <1>16, TilingKeeps DEF Tile, Command, After
  <2> QED BY <1>2, <1>16, <2>1 DEF Tile, Command, After
<1>17. ASSUME Draw PROVE Serves(wm, wm', LetGo) /\ DragInv'
  <2>1. wm' \in Frame(wm) /\ drag' = drag /\ chrome' = wm'.regions
    BY <1>17 DEF Draw
  <2>2. Serves(wm, wm', {})
    BY <1>1, <2>1, FrameServes
  <2>3. wm'.measured
    BY <1>1, <2>1, FrameServes
  <2>4. chrome' \subseteq Window
    BY <2>1, <2>2 DEF Serves, Good, Manager
  <2> QED BY <1>1, <2>1, <2>2, <2>3, <2>4 DEF Serves, DragInv
<1>18. ASSUME Dragging, wm' \in DropSnap(wm, drag.key), CanDraw(wm) PROVE Keeps(wm, wm', {})
  BY <1>1, <1>18, DropKeeps
<1>19. ASSUME DragRelease PROVE Serves(wm, wm', LetGo) /\ DragInv'
  <2>1. Dragging /\ CanDraw(wm) /\ drag' = NoDrag /\ chrome' = chrome
    BY <1>19 DEF DragRelease
  <2>2. CASE wm' \in DropSnap(wm, drag.key)
    BY <1>2, <1>3, <1>18, <2>1, <2>2
  <2>3. CASE wm' = wm
    <3>1. Keeps(wm, wm', {})
      BY <1>1, <2>3 DEF Keeps
    <3> QED BY <1>2, <1>3, <2>1, <3>1
  <2>4. ASSUME Unaimed, NEW T \in Detach(wm, drag.key), wm' = FloatAll(T)
        PROVE  Serves(wm, wm', LetGo) /\ DragInv'
    <3>1. Keeps(wm, wm', {drag.key})
      BY <1>1, <2>1, <2>4, LetGoKeeps
    <3>2. {drag.key} \subseteq LetGo
      BY <1>1, <2>1, <2>4 DEF LetGo
    <3> QED BY <1>2, <2>1, <3>1, <3>2, KeepsServes
  <2> QED BY <1>19, <2>2, <2>3, <2>4 DEF DragRelease, Unaimed
<1>20. ASSUME DragTimer PROVE Done({})
  <2>1. /\ drag' = NoDrag /\ chrome' = chrome
        /\ (Dragging /\ wm' \in DropSnap(wm, drag.key) /\ CanDraw(wm)) \/ wm' = wm
    BY <1>20 DEF DragTimer
  <2>2. Keeps(wm, wm', {})
    BY <1>1, <1>18, <2>1 DEF Keeps
  <2> QED BY <1>2, <2>1, <2>2
<1>21. ASSUME DragMoved PROVE Done({})
  <2>1. /\ Dragging /\ CanDraw(wm) /\ wm' \in ApplySnap(wm, drag.key) /\ chrome' = chrome
        /\ drag' = [drag EXCEPT !.snap = FALSE, !.top = FALSE, !.applied = TRUE, !.armed = FALSE]
    BY <1>21 DEF DragMoved
  <2>2. drag.key \in Window /\ wm.measured
    BY <1>1, <2>1
  <2>3. Keeps(wm, wm', {})
    BY <1>1, <2>1, <2>2, SnapSettles, SettledKeeps DEF Good
  <2>4. wm'.measured
    BY <2>2, <2>3 DEF Keeps
  <2>5. drag' \in Drags
    BY <1>1, <2>1 DEF Drags
  <2> QED BY <1>1, <2>1, <2>3, <2>4, <2>5 DEF DragInv
<1> HIDE DEF Done
<1> QED BY <1>3, <1>4, <1>5, <1>6, <1>7, <1>8, <1>9, <1>10, <1>11, <1>12, <1>13, <1>14, <1>15, <1>16,
           <1>17, <1>19, <1>20, <1>21 DEF Next

LEMMA NextServes ==
  ASSUME Inv, [Next]_vars
  PROVE  Serves(wm, wm', LetGo) /\ Inv'
<1>1. CASE Next
  <2>1. Serves(wm, wm', LetGo) /\ DragInv'
    BY <1>1, StepServes
  <2> QED BY <2>1 DEF Serves, Inv
<1>2. CASE UNCHANGED vars
  <2>1. wm' = wm /\ drag' = drag /\ chrome' = chrome
    BY <1>2 DEF vars
  <2> QED BY <2>1 DEF Serves, Inv, DragInv, Dragging
<1> QED BY <1>1, <1>2

LEMMA Invariance == Spec => []Inv
<1>1. Inv /\ [Next]_vars => Inv'
  BY NextServes
<1> QED BY <1>1, InitInv, PTL DEF Spec

\* The manager, its lists and its tree are always of their types, and no two
\* windows remember the same Void (toggle_maximize gives each a new one).
THEOREM WindowsTyped == Spec => []WindowTypeOK
<1>1. Inv => WindowTypeOK
  <2> SUFFICES ASSUME Inv PROVE WindowTypeOK
    OBVIOUS
  <2>1. wm \in Manager /\ Lists(wm) /\ Apart(wm)
    BY DEF Inv, Good
  <2>2. \A s \in {wm.z, wm.draw, wm.ring} : IsInjective(s) /\ Range(s) \subseteq Window
    BY <2>1, MembersRange DEF Lists, Listed
  <2>3. /\ wm.win \in [Window -> WinRec] /\ wm.tree \in TreeSet \cup {NoTree}
        /\ wm.cur \in Window \cup {NoWindow} /\ wm.regions \subseteq Window
    BY <2>1 DEF Manager
  <2>4. PlaceholdersDistinct
    BY <2>1 DEF PlaceholdersDistinct, Apart
  <2> QED BY <2>2, <2>3, <2>4 DEF WindowTypeOK, WinRec, TreeSet, Inv, DragInv, Drags
<1> QED BY <1>1, Invariance, PTL

\* Every mapped window is drawn and stacked, and what is closed or hidden is in
\* no list that the mouse or Tab goes through.
THEOREM Stacked == Spec => []StackingOrder
<1>1. Inv => StackingOrder
  <2> SUFFICES ASSUME Inv PROVE StackingOrder
    OBVIOUS
  <2>1. Lists(wm)
    BY DEF Inv, Good
  <2>2. /\ Range(wm.z) = Members(wm.z) /\ Range(wm.draw) = Members(wm.draw)
        /\ Range(wm.ring) = Members(wm.ring)
    BY <2>1, MembersRange DEF Lists, Listed
  <2> QED BY <2>1, <2>2 DEF Lists, StackingOrder, Shown
<1> QED BY <1>1, Invariance, PTL

\* No command, exit, frame or timer takes a mapped window off the measured
\* screen, for any number of windows: only letting go of its header does.
THEOREM PlacesKept == Spec => PlaceKept
<1>1. ASSUME Inv, [Next]_vars
      PROVE  [\A k \in Mapped(wm') : wm'.measured =>
                \/ Placed(wm', k)
                \/ k \in Mapped(wm) /\ wm.measured /\ ~Placed(wm, k)
                \/ drag.key = k /\ drag' = NoDrag /\ Unaimed]_vars
  <2>1. Serves(wm, wm', LetGo)
    BY <1>1, NextServes
  <2> QED BY <2>1 DEF Serves, LetGo
<1> QED BY <1>1, Invariance, PTL DEF Spec, PlaceKept

\* A mapped window is within reach of Tab, and stays so while it has a place.
THEOREM TabReaches == Spec => RingKept
<1>1. ASSUME Inv, Inv', [Next]_vars
      PROVE  [\A k \in Mapped(wm') \ Range(wm'.ring) :
                k \in Mapped(wm) /\ (~Placed(wm, k) \/ k \notin Range(wm.ring))]_vars
  <2>1. Serves(wm, wm', LetGo)
    BY <1>1, NextServes
  <2>2. Good(wm) /\ Good(wm')
    BY <1>1, <2>1 DEF Inv, Serves
  <2>3. Range(wm.ring) = Members(wm.ring) /\ Range(wm'.ring) = Members(wm'.ring)
    BY <2>2, MembersRange DEF Good, Lists, Listed
  <2> QED BY <2>1, <2>3 DEF Serves
<1> QED BY <1>1, Invariance, PTL DEF Spec, RingKept
=============================================================================
