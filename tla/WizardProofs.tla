---------------------------- MODULE WizardProofs ----------------------------
(***************************************************************************)
(* The safety properties of the wizard, for every manifest, every registry   *)
(* and every operation of the popup.                                         *)
(***************************************************************************)
EXTENDS Wizard, FiniteSetTheorems, SequenceTheorems, WellFoundedInduction, TLAPS

(* The three lists are read as the set of their names throughout.               *)
USE DEF Lists

(* The tables of keys, as the provers read them.                              *)
LEMMA GlobalKeys ==
    ASSUME NEW k
    PROVE  GlobalKey(k) = IF k = "Ctrl-C" THEN "closeWindow"
                     ELSE IF k = "Ctrl-F" THEN "switchToSources"
                     ELSE IF k = "Ctrl-T" THEN "switchToTargets"
                     ELSE IF k = "Ctrl-E" THEN "switchToTransformation"
                     ELSE IF k = "Ctrl-S" THEN "popTransformationNameView" ELSE ""
BY DEF GlobalKey

LEMMA ViewKeys ==
    ASSUME NEW v, NEW k
    PROVE  ViewKey(v, k) =
             IF v = "sources" THEN IF k = "up" THEN "cursorUp" ELSE IF k = "down" THEN "cursorDown"
                              ELSE IF k = "right" THEN "sourceCursorRight" ELSE ""
        ELSE IF v = "sourceEvent" THEN IF k = "Ctrl-W" THEN "wipeData"
                              ELSE IF k = "Ctrl-R" THEN "resetTransformation"
                              ELSE IF k = "left" THEN "sourceEventCursorLeft"
                              ELSE IF k = "up" THEN "cursorUpEventSample"
                              ELSE IF k = "down" THEN "cursorDownEventSample"
                              ELSE IF k = "enter" THEN "popOperationsView" ELSE ""
        ELSE IF v = "targets" THEN IF k = "up" THEN "cursorUp" ELSE IF k = "down" THEN "cursorDown" ELSE ""
        ELSE ""
BY DEF ViewKey

LEMMA PopupKeys ==
    ASSUME NEW v, NEW k
    PROVE  PopupKey(v, k) = IF v = "transformationOperation" /\ k = "enter" THEN "selectOperation"
                       ELSE IF v = "transformationName" /\ k = "enter" THEN "saveAndExit"
                       ELSE IF v = "operationValue" /\ k = "enter" THEN "inputEnter"
                       ELSE IF v = "operationValue" /\ k = "Ctrl-C" THEN "inputClose"
                       ELSE IF v = "targetWarning" /\ k = "enter" THEN "closeWindow" ELSE ""
BY DEF PopupKey

(* The calls that a key of a view makes.                                      *)
LEMMA RepeatedCall ==
    ASSUME NEW S, NEW h \in S, NEW n \in Nat
    PROVE  /\ Times(h, n) \in Seq(S)
           /\ \A i \in DOMAIN Times(h, n) : Times(h, n)[i] = h /\ h # "" /\ n > 0
           /\ h = "" \/ n = 0 => Times(h, n) = <<>>
           /\ h # "" /\ n = 1 => Times(h, n) = <<h>>
<1>1. CASE h = ""
  <2>1. Times(h, n) = <<>>
    BY <1>1 DEF Times
  <2>2. <<>> \in Seq(S) /\ DOMAIN <<>> = {}
    OBVIOUS
  <2> QED BY <1>1, <2>1, <2>2, Zenon
<1>2. CASE h # ""
  <2>1. Times(h, n) = [i \in 1 .. n |-> h]
    BY <1>2 DEF Times
  <2>2. Times(h, n) \in Seq(S)
    BY <2>1
  <2>3. \A i \in DOMAIN Times(h, n) : Times(h, n)[i] = h /\ n > 0
    BY <2>1
  <2>4. n = 0 => Times(h, n) = <<>>
    BY <2>1
  <2>5. n = 1 => Times(h, n) = <<h>>
    BY <2>1
  <2> QED BY <1>2, <2>2, <2>3, <2>4, <2>5
<1> QED BY <1>1, <1>2

LEMMA Joined ==
    ASSUME NEW S, NEW s \in Seq(S), NEW t \in Seq(S)
    PROVE  /\ s \o t \in Seq(S)
           /\ \A i \in DOMAIN (s \o t) : (\E j \in DOMAIN s : (s \o t)[i] = s[j]) \/ (\E j \in DOMAIN t : (s \o t)[i] = t[j])
<1>1. s \o t \in Seq(S)
  OBVIOUS
<1>2. ASSUME NEW i \in DOMAIN (s \o t)
      PROVE  (\E j \in DOMAIN s : (s \o t)[i] = s[j]) \/ (\E j \in DOMAIN t : (s \o t)[i] = t[j])
  <2>1. i \in 1 .. Len(s) + Len(t)
    OBVIOUS
  <2>2. CASE i \in 1 .. Len(s)
    <3>1. (s \o t)[i] = s[i] /\ i \in DOMAIN s
      BY <2>2
    <3> QED BY <3>1
  <2>3. CASE i \notin 1 .. Len(s)
    <3>1. (s \o t)[i] = t[i - Len(s)] /\ i - Len(s) \in DOMAIN t
      BY <2>1, <2>3
    <3> QED BY <3>1
  <2> QED BY <2>2, <2>3
<1> QED BY <1>1, <1>2

Names == {"closeWindow", "switchToSources", "switchToTargets", "switchToTransformation",
          "popTransformationNameView", "cursorUp", "cursorDown", "sourceCursorRight",
          "sourceEventCursorLeft", "cursorUpEventSample", "cursorDownEventSample",
          "wipeData", "resetTransformation", "popOperationsView", "selectOperation",
          "saveAndExit", "closeName", "inputEnter", "closeInput", "inputClose", ""}

LEMMA BoundCalls ==
    ASSUME NEW k \in Keys, NEW v \in Views, binds \in [Popups -> Nat]
    PROVE  /\ Bound(k, v) \in Seq(Names)
           /\ \A i \in DOMAIN Bound(k, v) :
                 \/ Bound(k, v)[i] = GlobalKey(k) /\ GlobalKey(k) # ""
                 \/ Bound(k, v)[i] = ViewKey(v, k) /\ ViewKey(v, k) # ""
                 \/ Bound(k, v)[i] = PopupKey(v, k) /\ PopupKey(v, k) # "" /\ v \in Popups /\ binds[v] > 0
<1> DEFINE n == IF v \in Popups THEN binds[v] ELSE 0
           g == Times(GlobalKey(k), 1)
           w == Times(ViewKey(v, k), 1)
           p == Times(PopupKey(v, k), n)
<1>1. GlobalKey(k) \in Names /\ ViewKey(v, k) \in Names /\ PopupKey(v, k) \in Names
  BY GlobalKeys, ViewKeys, PopupKeys DEF Names
<1>2. n \in Nat /\ (n > 0 => v \in Popups /\ binds[v] > 0)
  OBVIOUS
<1>3. Bound(k, v) = (g \o w) \o p
  BY DEF Bound
<1> HIDE DEF n
<1>4. g \in Seq(Names) /\ \A i \in DOMAIN g : g[i] = GlobalKey(k) /\ GlobalKey(k) # ""
  BY <1>1, RepeatedCall
<1>5. w \in Seq(Names) /\ \A i \in DOMAIN w : w[i] = ViewKey(v, k) /\ ViewKey(v, k) # ""
  BY <1>1, RepeatedCall
<1>6. p \in Seq(Names) /\ \A i \in DOMAIN p : p[i] = PopupKey(v, k) /\ PopupKey(v, k) # "" /\ v \in Popups /\ binds[v] > 0
  BY <1>1, <1>2, RepeatedCall
<1> HIDE DEF g, w, p
<1>7. /\ g \o w \in Seq(Names)
      /\ \A i \in DOMAIN (g \o w) : (\E j \in DOMAIN g : (g \o w)[i] = g[j]) \/ (\E j \in DOMAIN w : (g \o w)[i] = w[j])
  BY <1>4, <1>5, Joined, ZenonT(60)
<1> DEFINE both == g \o w
<1>8. /\ both \in Seq(Names)
      /\ \A i \in DOMAIN both : \/ both[i] = GlobalKey(k) /\ GlobalKey(k) # ""
                                \/ both[i] = ViewKey(v, k) /\ ViewKey(v, k) # ""
  BY <1>4, <1>5, <1>7, Zenon
<1> HIDE DEF both
<1>9. /\ both \o p \in Seq(Names)
      /\ \A i \in DOMAIN (both \o p) : (\E j \in DOMAIN both : (both \o p)[i] = both[j]) \/ (\E j \in DOMAIN p : (both \o p)[i] = p[j])
  BY <1>6, <1>8, Joined, ZenonT(60)
<1>10. Bound(k, v) = both \o p
  BY <1>3 DEF both
<1> QED BY <1>6, <1>8, <1>9, <1>10, Zenon

LEMMA SmallJoins ==
    /\ (<<>> \o <<>>) \o <<>> = <<>>
    /\ \A a : /\ (<<a>> \o <<>>) \o <<>> = <<a>>
             /\ (<<>> \o <<a>>) \o <<>> = <<a>>
             /\ (<<>> \o <<>>) \o <<a>> = <<a>>
    /\ \A a, b : (<<a>> \o <<>>) \o <<b>> = <<a, b>>
<1>1. ASSUME NEW a
      PROVE  <<a>> \o <<>> = <<a>> /\ <<>> \o <<a>> = <<a>> /\ <<>> \o <<>> = <<>>
  OBVIOUS
<1>2. ASSUME NEW a, NEW b
      PROVE  <<a>> \o <<b>> = <<a, b>>
  <2> DEFINE s == <<a>> \o <<b>>
  <2>1. s \in Seq({a, b}) /\ Len(s) = 2 /\ s[1] = a /\ s[2] = b
    OBVIOUS
  <2>2. <<a, b>> \in Seq({a, b}) /\ Len(<<a, b>>) = 2 /\ <<a, b>>[1] = a /\ <<a, b>>[2] = b
    OBVIOUS
  <2> HIDE DEF s
  <2>3. \A i \in 1 .. Len(s) : s[i] = <<a, b>>[i]
    <3>1. \A i \in 1 .. 2 : i = 1 \/ i = 2
      OBVIOUS
    <3> QED BY <2>1, <2>2, <3>1
  <2>4. s = <<a, b>>
    BY <2>1, <2>2, <2>3, SeqEqual, Zenon
  <2> QED BY <2>4 DEF s
<1> QED BY <1>1, <1>2, Zenon

(* A key whose handlers are bound once calls one of them, but for Ctrl-C in the   *)
(* popup for a value.                                                         *)
LEMMA CallsOnce ==
    ASSUME NEW k \in Keys, NEW v \in Views, v \in Popups => binds[v] = 1
    PROVE  Bound(k, v) = IF v = "operationValue" /\ k = "Ctrl-C" THEN <<"closeWindow", "inputClose">>
                    ELSE IF GlobalKey(k) # "" THEN <<GlobalKey(k)>>
                    ELSE IF ViewKey(v, k) # "" THEN <<ViewKey(v, k)>>
                    ELSE IF v \in Popups /\ PopupKey(v, k) # "" THEN <<PopupKey(v, k)>> ELSE <<>>
<1> DEFINE n == IF v \in Popups THEN binds[v] ELSE 0
           g == Times(GlobalKey(k), 1)
           w == Times(ViewKey(v, k), 1)
           p == Times(PopupKey(v, k), n)
<1>1. GlobalKey(k) \in Names /\ ViewKey(v, k) \in Names /\ PopupKey(v, k) \in Names
  BY GlobalKeys, ViewKeys, PopupKeys DEF Names
<1>2. n \in Nat /\ n = IF v \in Popups THEN 1 ELSE 0
  OBVIOUS
<1>3. Bound(k, v) = (g \o w) \o p
  BY DEF Bound
<1> HIDE DEF n
<1>4. g = IF GlobalKey(k) = "" THEN <<>> ELSE <<GlobalKey(k)>>
  BY <1>1, RepeatedCall
<1>5. w = IF ViewKey(v, k) = "" THEN <<>> ELSE <<ViewKey(v, k)>>
  BY <1>1, RepeatedCall
<1>6. p = IF v \in Popups /\ PopupKey(v, k) # "" THEN <<PopupKey(v, k)>> ELSE <<>>
  BY <1>1, <1>2, RepeatedCall
<1> HIDE DEF g, w, p
<1>7. /\ GlobalKey(k) # "" => ViewKey(v, k) = ""
      /\ GlobalKey(k) # "" \/ ViewKey(v, k) # "" => v \notin Popups \/ PopupKey(v, k) = "" \/ (v = "operationValue" /\ k = "Ctrl-C")
      /\ v = "operationValue" /\ k = "Ctrl-C" => /\ GlobalKey(k) = "closeWindow" /\ ViewKey(v, k) = ""
                                                 /\ PopupKey(v, k) = "inputClose" /\ v \in Popups
  BY GlobalKeys, ViewKeys, PopupKeys DEF Popups
<1>8. CASE v = "operationValue" /\ k = "Ctrl-C"
  <2>1. g = <<"closeWindow">> /\ w = <<>> /\ p = <<"inputClose">>
    BY <1>4, <1>5, <1>6, <1>7, <1>8
  <2>2. Bound(k, v) = <<"closeWindow", "inputClose">>
    BY <1>3, <2>1, SmallJoins, Zenon
  <2> QED BY <1>8, <2>2
<1>9. CASE ~(v = "operationValue" /\ k = "Ctrl-C") /\ GlobalKey(k) # ""
  <2>1. g = <<GlobalKey(k)>> /\ w = <<>> /\ p = <<>>
    BY <1>4, <1>5, <1>6, <1>7, <1>9
  <2>2. Bound(k, v) = <<GlobalKey(k)>>
    BY <1>3, <2>1, SmallJoins, Zenon
  <2> QED BY <1>9, <2>2
<1>10. CASE GlobalKey(k) = "" /\ ViewKey(v, k) # ""
  <2>1. g = <<>> /\ w = <<ViewKey(v, k)>> /\ p = <<>> /\ ~(v = "operationValue" /\ k = "Ctrl-C")
    BY <1>4, <1>5, <1>6, <1>7, <1>10
  <2>2. Bound(k, v) = <<ViewKey(v, k)>>
    BY <1>3, <2>1, SmallJoins, Zenon
  <2> QED BY <1>10, <2>1, <2>2
<1>11. CASE GlobalKey(k) = "" /\ ViewKey(v, k) = ""
  <2>1. g = <<>> /\ w = <<>> /\ ~(v = "operationValue" /\ k = "Ctrl-C")
    BY <1>4, <1>5, <1>7, <1>11
  <2>2. Bound(k, v) = p
    <3>1. CASE p = <<>>
      BY <1>3, <2>1, <3>1, SmallJoins, Zenon
    <3>2. CASE p = <<PopupKey(v, k)>>
      BY <1>3, <2>1, <3>2, SmallJoins, Zenon
    <3> QED BY <1>6, <3>1, <3>2
  <2> QED BY <1>6, <1>11, <2>1, <2>2
<1> QED BY <1>8, <1>9, <1>10, <1>11
-----------------------------------------------------------------------------
(* The least and the greatest of a set of places.                             *)
LEMMA Least ==
    ASSUME NEW S \in SUBSET Nat, S # {}
    PROVE  Min(S) \in S /\ \A x \in S : Min(S) <= x
<1>1. PICK m \in S : \A y \in S : <<y, m>> \notin OpToRel(<, Nat)
  BY WFMin, NatLessThanWellFounded
<1>2. ASSUME NEW y \in S
      PROVE  m <= y
  <2>1. CASE y < m
    <3>1. <<y, m>> \in {p \in Nat \X Nat : p[1] < p[2]}
      BY <2>1
    <3> QED BY <1>1, <3>1 DEF OpToRel
  <2> QED BY <2>1
<1> QED BY <1>2 DEF Min

LEMMA Greatest ==
    ASSUME NEW n \in Nat, NEW S \in SUBSET (0 .. n), S # {}
    PROVE  Max(S) \in S /\ \A x \in S : x <= Max(S)
<1> DEFINE R == {n - x : x \in S}
<1>1. R \in SUBSET Nat /\ R # {}
  <2>1. \A x \in S : n - x \in Nat /\ n - x \in R
    OBVIOUS
  <2> QED BY <2>1
<1>2. PICK m \in R : \A y \in R : m <= y
  BY <1>1, Least
<1>3. PICK x \in S : m = n - x
  OBVIOUS
<1>4. \A y \in S : n - y \in R
  OBVIOUS
<1>5. \A y \in S : y <= x
  BY <1>2, <1>3, <1>4
<1> QED BY <1>5 DEF Max
-----------------------------------------------------------------------------
(* `Chosen' takes the elements of a sequence at finitely many places in their   *)
(* order: each place has a rank of its own, and every rank is taken.           *)
Below(D, d) == {e \in D : e <= d}

LEMMA Ranks ==
    ASSUME NEW D \in SUBSET Nat, IsFiniteSet(D)
    PROVE  /\ Cardinality(D) \in Nat
           /\ \A d \in D : Cardinality(Below(D, d)) \in 1 .. Cardinality(D)
           /\ \A d, e \in D : d < e => Cardinality(Below(D, d)) < Cardinality(Below(D, e))
           /\ \A n \in 1 .. Cardinality(D) : \E d \in D : Cardinality(Below(D, d)) = n
<1> DEFINE N == Cardinality(D)
           rank(d) == Cardinality(Below(D, d))
<1>0. \A d \in D : d \in Nat
  OBVIOUS
<1>1. N \in Nat
  BY FS_CardinalityType
<1>2. ASSUME NEW d \in D
      PROVE  IsFiniteSet(Below(D, d)) /\ rank(d) \in 1 .. N
  <2>1. Below(D, d) \subseteq D /\ d \in Below(D, d)
    BY <1>0 DEF Below
  <2>2. IsFiniteSet(Below(D, d)) /\ rank(d) <= N /\ rank(d) \in Nat
    BY <2>1, FS_Subset, FS_CardinalityType
  <2>3. rank(d) # 0
    BY <2>1, <2>2, FS_EmptySet
  <2> QED BY <1>1, <2>2, <2>3
<1>3. ASSUME NEW d \in D, NEW e \in D, d < e
      PROVE  rank(d) < rank(e)
  <2>0. e <= e /\ ~(e <= d) /\ \A x \in D : x <= d => x <= e
    BY <1>0, <1>3
  <2>1. Below(D, d) \subseteq Below(D, e) /\ e \in Below(D, e) /\ e \notin Below(D, d)
    BY <2>0, Zenon DEF Below
  <2>2. rank(d) # rank(e) /\ rank(d) <= rank(e)
    BY <1>2, <2>1, FS_Subset
  <2> QED BY <1>2, <2>2
<1>4. ASSUME NEW n \in 1 .. N, \A d \in D : rank(d) # n
      PROVE  FALSE
  <2> DEFINE missing == {m \in 1 .. N : \A d \in D : rank(d) # m}
  <2>1. missing \in SUBSET Nat /\ missing # {}
    BY <1>1, <1>4
  <2> HIDE DEF missing
  <2>2. PICK m \in missing : \A x \in missing : m <= x
    BY <2>1, Least, Zenon
  <2>3. m \in 1 .. N /\ \A d \in D : rank(d) # m
    BY <2>2 DEF missing
  <2>4. CASE m = 1
    <3>1. D # {}
      BY <2>3, FS_EmptySet
    <3>2. PICK d \in D : \A x \in D : d <= x
      BY <3>1, Least
    <3>3. Below(D, d) = {d}
      <4>1. \A x \in D : x <= d <=> x = d
        BY <1>0, <3>2
      <4> QED BY <4>1, Zenon DEF Below
    <3>4. rank(d) = 1
      BY <3>3, FS_Singleton
    <3> QED BY <2>3, <2>4, <3>4
  <2>5. CASE m # 1
    <3>1. m - 1 \in 1 .. N /\ m - 1 \notin missing
      BY <1>1, <2>2, <2>3, <2>5
    <3>2. PICK d \in D : rank(d) = m - 1
      BY <3>1 DEF missing
    <3> DEFINE above == {e \in D : e > d}
    <3>3. above # {}
      <4>1. (\A x \in D : x <= d) => Below(D, d) = D
        BY Zenon DEF Below
      <4>2. \A x \in D : x <= d \/ x > d
        BY <1>0
      <4> QED BY <1>1, <2>3, <3>2, <4>1, <4>2
    <3>4. Min(above) \in above /\ \A x \in above : Min(above) <= x
      <4>1. above \in SUBSET Nat
        OBVIOUS
      <4> HIDE DEF above
      <4> QED BY <3>3, <4>1, Least, Zenon
    <3> DEFINE e == Min(above)
    <3>5. e \in D /\ e > d /\ \A x \in D : x > d => e <= x
      BY <3>4
    <3> HIDE DEF e
    <3>6. Below(D, e) = Below(D, d) \cup {e} /\ e \notin Below(D, d)
      <4>1. ~(e <= d) /\ \A x \in D : x <= e <=> x <= d \/ x = e
        BY <1>0, <3>5
      <4> QED BY <3>5, <4>1, Zenon DEF Below
    <3>7. rank(e) = rank(d) + 1
      BY <1>2, <3>6, FS_AddElement
    <3> QED BY <2>3, <3>2, <3>5, <3>7
  <2> QED BY <2>4, <2>5
<1> QED BY <1>1, <1>2, <1>3, <1>4

LEMMA ChosenElements ==
    ASSUME NEW s, NEW D \in SUBSET Nat, IsFiniteSet(D)
    PROVE  /\ Cardinality(D) \in Nat /\ DOMAIN Chosen(s, D) = 1 .. Cardinality(D)
           /\ \A S : (\A d \in D : s[d] \in S) => Chosen(s, D) \in Seq(S)
           /\ \A n \in DOMAIN Chosen(s, D) : \E d \in D : Chosen(s, D)[n] = s[d]
<1> DEFINE at_(n) == CHOOSE d \in D : Cardinality({e \in D : e <= d}) = n
<1>1. ASSUME NEW n \in 1 .. Cardinality(D)
      PROVE  at_(n) \in D
  BY Ranks DEF Below
<1>2. Chosen(s, D) = [n \in 1 .. Cardinality(D) |-> s[at_(n)]]
  BY DEF Chosen
<1>3. Cardinality(D) \in Nat
  BY Ranks
<1> HIDE DEF at_
<1>4. ASSUME NEW S, \A d \in D : s[d] \in S
      PROVE  Chosen(s, D) \in Seq(S)
  <2> DEFINE f == Chosen(s, D)
             n == Cardinality(D)
  <2>1. f = [i \in 1 .. n |-> s[at_(i)]] /\ \A i \in 1 .. n : s[at_(i)] \in S
    BY <1>1, <1>2, <1>4
  <2> HIDE DEF f
  <2>2. f \in [1 .. n -> S]
    BY <2>1
  <2>3. f \in Seq(S)
    BY <1>3, <2>2, SeqDef
  <2> QED BY <2>3 DEF f
<1>5. \A n \in DOMAIN Chosen(s, D) : \E d \in D : Chosen(s, D)[n] = s[d]
  BY <1>1, <1>2
<1> QED BY <1>2, <1>3, <1>4, <1>5
-----------------------------------------------------------------------------
(* Arithmetic that the provers find only on its own.                            *)
LEMMA Successor == ASSUME NEW a \in Nat PROVE a + 1 \in Nat \ {0} /\ 1 + a >= 1
OBVIOUS

LEMMA Product == ASSUME NEW a \in Nat, NEW b \in Nat PROVE a * (b + 1) \in Nat
OBVIOUS

LEMMA Remainder == ASSUME NEW a \in Nat, NEW b \in Nat \ {0} PROVE a % b \in Nat
OBVIOUS

LEMMA Within == ASSUME NEW a \in Nat, NEW b \in Nat, a # 0, a <= b PROVE a \in 1 .. b
OBVIOUS

LEMMA Inhabited == ASSUME NEW n \in Nat, NEW i \in 1 .. n - 2 PROVE n - 2 \in Nat \ {0}
OBVIOUS

LEMMA FirstPlaces == ASSUME NEW n \in Nat PROVE IsFiniteSet(1 .. n) /\ 1 .. n \subseteq Nat /\ 1 .. n \subseteq 0 .. n
BY FS_Interval

LEMMA Elements ==
    ASSUME NEW S, NEW s \in Seq(S)
    PROVE  /\ Len(s) \in Nat /\ DOMAIN s = 1 .. Len(s)
           /\ \A i \in DOMAIN s : s[i] \in S
OBVIOUS

LEMMA Headed ==
    ASSUME NEW S, NEW x \in S, NEW r \in Seq(S)
    PROVE  /\ <<x>> \o r \in Seq(S)
           /\ Len(<<x>> \o r) = 1 + Len(r) /\ (<<x>> \o r)[1] = x
           /\ \A i \in 2 .. Len(<<x>> \o r) : (<<x>> \o r)[i] = r[i - 1] /\ i - 1 \in DOMAIN r
<1>1. <<x>> \in Seq(S) /\ Len(<<x>>) = 1 /\ <<x>>[1] = x
  OBVIOUS
<1> DEFINE s == <<x>> \o r
<1>2. s \in Seq(S) /\ Len(s) = 1 + Len(r) /\ s[1] = x
  BY <1>1
<1>3. \A i \in 2 .. 1 + Len(r) : s[i] = r[i - 1] /\ i - 1 \in DOMAIN r
  BY <1>1
<1> QED BY <1>2, <1>3

(* The lists of the wizard: the line for any component is the first and the only    *)
(* one of its kind, and the lines of event types have names.                   *)
LEMMA Enumerated ==
    ASSUME NEW S, IsFiniteSet(S)
    PROVE  /\ Cardinality(S) \in Nat
           /\ SetToSeq(S) \in Seq(S)
           /\ DOMAIN SetToSeq(S) = 1 .. Cardinality(S) /\ Len(SetToSeq(S)) = Cardinality(S)
<1> DEFINE n == Cardinality(S)
<1>1. n \in Nat /\ ExistsBijection(1 .. n, S)
  BY FS_CardinalityType
<1>2. PICK f \in Bijection(1 .. n, S) : TRUE
  BY <1>1 DEF ExistsBijection
<1>3. f \in [1 .. n -> S] /\ IsInjective(f)
  BY <1>2 DEF Bijection, Injection, IsInjective
<1>4. SetToSeq(S) \in [1 .. n -> S]
  BY <1>3 DEF SetToSeq
<1> QED BY <1>1, <1>4, SeqDef

LineType  == [kind : {"any", "type", "component", "header"}, name : STRING \cup {"*"}]
OtherLine == {l \in LineType : l.kind # "any" /\ (l.kind = "type" => l.name # "")}

IsList(lines) ==
    /\ lines \in Seq(LineType)
    /\ Len(lines) >= 1 /\ lines[1] = [kind |-> "any", name |-> "*"]
    /\ \A i \in 2 .. Len(lines) : lines[i].kind # "any" /\ (lines[i].kind = "type" => lines[i].name # "")

LEMMA LinesOfComponents ==
    ASSUME NEW C, IsFiniteSet(C),
           \A c \in C : c.name \in STRING /\ c.types \subseteq STRING \ {""} /\ IsFiniteSet(c.types)
    PROVE  IsList(Lines(C))
<1> DEFINE cs    == SetToSeq(C)
           types == [k \in DOMAIN cs |-> SetToSeq(cs[k].types)]
           width == Cardinality(Types(C)) + 1
           cells == {p \in 1 .. width * (Len(cs) + 1) :
                       p \div width \in DOMAIN cs /\ p % width <= Len(types[p \div width])}
           table == [p \in cells |->
                       LET k == p \div width
                       IN IF p % width # 0 THEN [kind |-> "type", name |-> types[k][p % width]]
                          ELSE [kind |-> IF types[k] = <<>> THEN "component" ELSE "header",
                                name |-> cs[k].name]]
<1>1. width \in Nat \ {0}
  <2>1. IsFiniteSet({c.types : c \in C})
    <3> DEFINE f == [c \in C |-> c.types]
    <3>1. f \in Surjection(C, {c.types : c \in C})
      BY DEF Surjection
    <3> QED BY <3>1, FS_Surjection
  <2>2. IsFiniteSet(Types(C))
    BY <2>1, FS_UNION DEF Types
  <2>3. Cardinality(Types(C)) \in Nat
    BY <2>2, FS_CardinalityType
  <2> QED BY <2>3, Successor, Zenon
<1>2. cs \in Seq(C) /\ Len(cs) \in Nat /\ \A k \in DOMAIN cs : cs[k] \in C
  <2>1. cs \in Seq(C)
    BY Enumerated
  <2> HIDE DEF cs
  <2> QED BY <2>1, Elements
<1>3. ASSUME NEW k \in DOMAIN cs
      PROVE  types[k] \in Seq(STRING \ {""}) /\ cs[k].name \in STRING
  <2>1. SetToSeq(cs[k].types) \in Seq(cs[k].types) /\ cs[k].types \subseteq STRING \ {""}
    BY <1>2, Enumerated
  <2> QED BY <1>2, <2>1, SeqMonotonic
<1>4. Lines(C) = <<[kind |-> "any", name |-> "*"]>> \o Chosen(table, cells)
  BY DEF Lines
<1> HIDE DEF cs, types, width
<1>5. cells \in SUBSET Nat /\ IsFiniteSet(cells)
  <2>1. width \in Nat
    BY <1>1
  <2>2. width * (Len(cs) + 1) \in Nat
    BY <1>2, <2>1, Product, Zenon
  <2>3. IsFiniteSet(1 .. width * (Len(cs) + 1))
    BY <2>2, FirstPlaces, Zenon
  <2>4. cells \subseteq 1 .. width * (Len(cs) + 1)
    BY Zenon
  <2>5. \A n \in Nat : 1 .. n \subseteq Nat
    BY FirstPlaces
  <2> QED BY <2>2, <2>3, <2>4, <2>5, FS_Subset, Zenon
<1>6. ASSUME NEW p \in cells
      PROVE  table[p] \in OtherLine
  <2> DEFINE k == p \div width
             j == p % width
  <2>1. k \in DOMAIN cs /\ j <= Len(types[k]) /\ j \in Nat
    <3>1. p \in Nat
      BY <1>5, Zenon
    <3>2. k \in DOMAIN cs /\ j <= Len(types[k])
      BY Zenon
    <3>3. j \in Nat
      BY <1>1, <3>1, Remainder, Zenon
    <3> QED BY <3>2, <3>3
  <2>2. types[k] \in Seq(STRING \ {""}) /\ cs[k].name \in STRING
    BY <1>3, <2>1
  <2> HIDE DEF j
  <2>3. CASE j # 0
    <3>1. types[k][j] \in STRING \ {""}
      <4>1. DOMAIN types[k] = 1 .. Len(types[k]) /\ \A i \in DOMAIN types[k] : types[k][i] \in STRING \ {""}
        BY <2>2, Elements, Zenon
      <4>2. Len(types[k]) \in Nat
        BY <2>2, Elements, Zenon
      <4>3. j \in 1 .. Len(types[k])
        BY <2>1, <2>3, <4>2, Within, Zenon
      <4> QED BY <4>1, <4>3
    <3>2. table[p] = [kind |-> "type", name |-> types[k][j]]
      BY <2>3 DEF j
    <3> QED BY <3>1, <3>2 DEF OtherLine, LineType
  <2>4. CASE j = 0
    <3>1. table[p] = [kind |-> IF types[k] = <<>> THEN "component" ELSE "header", name |-> cs[k].name]
      BY <2>4 DEF j
    <3> QED BY <2>2, <3>1 DEF OtherLine, LineType
  <2> QED BY <2>3, <2>4
<1> HIDE DEF cells, table
<1> DEFINE rest == Chosen(table, cells)
<1>7. rest \in Seq(OtherLine)
  BY <1>5, <1>6, ChosenElements
<1> HIDE DEF rest
<1>8. Lines(C) = <<[kind |-> "any", name |-> "*"]>> \o rest
  BY <1>4 DEF rest
<1>9. rest \in Seq(LineType)
  BY <1>7, SeqMonotonic, Zenon DEF OtherLine
<1> DEFINE any == [kind |-> "any", name |-> "*"]
<1>10. any \in LineType
  BY DEF LineType
<1> HIDE DEF any
<1>11. /\ <<any>> \o rest \in Seq(LineType)
       /\ Len(<<any>> \o rest) = 1 + Len(rest) /\ (<<any>> \o rest)[1] = any
       /\ \A i \in 2 .. Len(<<any>> \o rest) : (<<any>> \o rest)[i] = rest[i - 1] /\ i - 1 \in DOMAIN rest
  BY <1>9, <1>10, Headed, Zenon
<1>12. /\ Lines(C) \in Seq(LineType)
       /\ Len(Lines(C)) = 1 + Len(rest) /\ Lines(C)[1] = any
       /\ \A i \in 2 .. Len(Lines(C)) : Lines(C)[i] = rest[i - 1] /\ i - 1 \in DOMAIN rest
  BY <1>8, <1>11, Zenon DEF any
<1>13. Len(rest) \in Nat /\ \A i \in DOMAIN rest : rest[i].kind # "any" /\ (rest[i].kind = "type" => rest[i].name # "")
  <2>1. Len(rest) \in Nat /\ \A i \in DOMAIN rest : rest[i] \in OtherLine
    BY <1>7, Elements
  <2> QED BY <2>1 DEF OtherLine
<1>14. \A i \in 2 .. Len(Lines(C)) : Lines(C)[i].kind # "any" /\ (Lines(C)[i].kind = "type" => Lines(C)[i].name # "")
  BY <1>12, <1>13, Zenon
<1>15. Len(Lines(C)) >= 1
  BY <1>12, <1>13, Successor, Zenon
<1> QED BY <1>12, <1>14, <1>15, Zenon DEF IsList, any

LEMMA ManifestLists == IsList(SourceLines) /\ IsList(TargetLines)
<1> DEFINE O == [role : STRING, name : STRING, types : SUBSET (STRING \ {""}),
                 contexts : SUBSET Seq(STRING), data : Seq(GroupType)]
<1>0. Len(Manifest) \in Nat /\ DOMAIN Manifest = 1 .. Len(Manifest) /\ \A i \in DOMAIN Manifest : Manifest[i] \in O
  <2>1. Manifest \in Seq(O)
    BY ManifestAssumption
  <2> HIDE DEF O
  <2> QED BY <2>1, Elements
<1>1. ASSUME NEW role
      PROVE  IsList(Lines(Components(Manifest, role)))
  <2> DEFINE J == {j \in DOMAIN Manifest : Manifest[j].role = role}
             C == Components(Manifest, role)
             f == [i \in J |-> Manifest[i]]
  <2>1. IsFiniteSet(J)
    <3>1. IsFiniteSet(1 .. Len(Manifest))
      BY <1>0, FirstPlaces, Zenon
    <3> QED BY <1>0, <3>1, FS_Subset
  <2>2. f \in Surjection(J, C)
    BY DEF Surjection, Components
  <2>3. IsFiniteSet(C)
    BY <2>1, <2>2, FS_Surjection
  <2>4. \A c \in C : c.name \in STRING /\ c.types \subseteq STRING \ {""} /\ IsFiniteSet(c.types)
    BY <1>0, ManifestAssumption DEF Components
  <2> QED BY <2>3, <2>4, LinesOfComponents
<1> QED BY <1>1 DEF SourceLines, TargetLines

(* The sample that the view shows is one of the registry, or none is.             *)
SampleLine == [depth : Nat, key : SampleKeys \cup {""}]

LEMMA SampleShape ==
    \/ SampleLines = <<Blank>>
    \/ \E t \in DOMAIN Registry : SampleLines = Append(Registry[t], Blank)
<1>1. ASSUME source \in DOMAIN Samples, Samples[source] # NoSample
      PROVE  source \in DOMAIN Registry /\ Samples[source] = Registry[source]
  BY <1>1 DEF Samples, Cache
<1> QED BY <1>1 DEF SampleLines

LEMMA RegistrySample ==
    ASSUME NEW t \in DOMAIN Registry
    PROVE  Registry[t] \in Seq(SampleLine) /\ Len(Registry[t]) >= 1
<1> DEFINE r == Registry[t]
<1>1. \A i \in DOMAIN r : r[i].key \in SampleKeys
  BY DEF SampleKeys
<1>2. IsSample(r)
  BY RegistryAssumption
<1>3. CASE r = <<Empty>>
  <2>1. Empty.key \in SampleKeys
    <3>1. DOMAIN r = {1} /\ r[1] = Empty
      BY <1>3
    <3> QED BY <1>1, <3>1
  <2>2. Empty \in SampleLine
    BY <2>1 DEF Empty, SampleLine
  <2> QED BY <1>3, <2>2
<1>4. CASE r # <<Empty>>
  <2> DEFINE R == [depth : Nat, key : STRING]
  <2>1. r \in Seq(R) /\ Len(r) > 2
    BY <1>2, <1>4 DEF IsSample
  <2>2. Len(r) \in Nat /\ DOMAIN r = 1 .. Len(r) /\ \A i \in DOMAIN r : r[i] \in R
    <3> HIDE DEF R
    <3> QED BY <2>1, Elements
  <2>3. \A i \in DOMAIN r : r[i] \in SampleLine
    BY <1>1, <2>2 DEF SampleLine
  <2>4. r \in [1 .. Len(r) -> SampleLine]
    <3>1. r = [i \in 1 .. Len(r) |-> r[i]]
      <4>1. r \in [1 .. Len(r) -> R]
        <5> HIDE DEF R
        <5> QED BY <2>1, LenProperties
      <4> QED BY <4>1
    <3> QED BY <2>2, <2>3, <3>1
  <2>5. Len(r) >= 1
    BY <2>1, <2>2
  <2> QED BY <2>2, <2>4, <2>5, SeqDef
<1> QED BY <1>3, <1>4

LEMMA ShownSample ==
    /\ SampleLines \in Seq(SampleLine)
    /\ Len(SampleLines) \in Nat \ {0} /\ DOMAIN SampleLines = 1 .. Len(SampleLines)
    /\ \A i \in DOMAIN SampleLines : SampleLines[i] \in SampleLine
<1> DEFINE S == SampleLines
<1>1. Blank \in SampleLine
  BY DEF Blank, SampleLine
<1>2. ASSUME NEW T, NEW b \in T, NEW r \in Seq(T)
      PROVE  /\ <<b>> \in Seq(T) /\ Len(<<b>>) \in Nat \ {0}
             /\ Append(r, b) \in Seq(T) /\ Len(Append(r, b)) \in Nat \ {0}
  OBVIOUS
<1>3. S \in Seq(SampleLine) /\ Len(S) \in Nat \ {0}
  <2>1. CASE S = <<Blank>>
    BY <1>1, <1>2, <2>1, EmptySeq, Zenon
  <2>2. CASE \E t \in DOMAIN Registry : S = Append(Registry[t], Blank)
    BY <1>1, <1>2, <2>2, RegistrySample, Zenon
  <2> QED BY <2>1, <2>2, SampleShape
<1> QED BY <1>3, Elements, Zenon
-----------------------------------------------------------------------------
(* Types: handlers are called for the views that their keys are bound in, at most   *)
(* one signal waits, those of the sample have lines of one, and the cursors of *)
(* the lists do not rest on headers.                                         *)
CallType == [do : Names, view : Views]

Fits(call) ==
    \/ call.do \in {"closeWindow", "switchToSources", "switchToTargets", "switchToTransformation",
                    "popTransformationNameView"}
    \/ call.do \in {"cursorUp", "cursorDown"} /\ call.view \in {"sources", "targets"}
    \/ call.do = "sourceCursorRight" /\ call.view = "sources"
    \/ call.do \in {"sourceEventCursorLeft", "cursorUpEventSample", "cursorDownEventSample",
                    "wipeData", "resetTransformation", "popOperationsView"} /\ call.view = "sourceEvent"
    \/ call.do = "selectOperation" /\ call.view = "transformationOperation"
    \/ call.do \in {"saveAndExit", "closeName"} /\ call.view = "transformationName"
    \/ call.do \in {"inputEnter", "closeInput", "inputClose"} /\ call.view = "operationValue"

IsSignal(s) == s.origin = "sourceEvent" => s.line \in SampleLine

Calls   == todo \in Seq(CallType) /\ \A i \in DOMAIN todo : Fits(todo[i])
Signals == /\ sending = <<>> \/ (sending = <<sending[1]>> /\ IsSignal(sending[1]))
           /\ proc = [pc |-> proc.pc, signal |-> proc.signal, path |-> proc.path, value |-> proc.value]
           /\ IsSignal(proc.signal)
Cursors == at["sources"] \in Entries(SourceLines) /\ at["targets"] \in Entries(TargetLines)
Typed   == TypeOK /\ Calls /\ Signals /\ Cursors

LEMMA FirstCall ==
    ASSUME Calls, todo # <<>>
    PROVE  /\ V \in Views /\ Head(todo) = todo[1] /\ Fits(Head(todo)) /\ Head(todo).do \in Names
           /\ Head(todo) = [do |-> Head(todo).do, view |-> V]
           /\ Tail(todo) \in Seq(CallType) /\ \A i \in DOMAIN Tail(todo) : Fits(Tail(todo)[i])
           /\ \A c \in CallType : Fits(c) =>
                 /\ <<c>> \o Tail(todo) \in Seq(CallType)
                 /\ \A i \in DOMAIN (<<c>> \o Tail(todo)) : Fits((<<c>> \o Tail(todo))[i])
<1>1. Len(todo) \in Nat \ {0} /\ DOMAIN todo = 1 .. Len(todo) /\ Head(todo) = todo[1] /\ 1 \in DOMAIN todo
  BY DEF Calls
<1>2. Head(todo) \in CallType /\ Fits(Head(todo))
  BY <1>1 DEF Calls
<1>3. /\ Tail(todo) \in Seq(CallType) /\ Len(Tail(todo)) = Len(todo) - 1
      /\ \A i \in DOMAIN Tail(todo) : i + 1 \in DOMAIN todo /\ Tail(todo)[i] = todo[i + 1]
  BY DEF Calls
<1>4. \A i \in DOMAIN Tail(todo) : Fits(Tail(todo)[i])
  BY <1>3 DEF Calls
<1>5. ASSUME NEW c \in CallType, Fits(c)
      PROVE  /\ <<c>> \o Tail(todo) \in Seq(CallType)
             /\ \A i \in DOMAIN (<<c>> \o Tail(todo)) : Fits((<<c>> \o Tail(todo))[i])
  <2> DEFINE r == Tail(todo)
             l == <<c>> \o r
  <2>1. r \in Seq(CallType) /\ \A i \in DOMAIN r : Fits(r[i])
    BY <1>3, <1>4
  <2> HIDE DEF r
  <2>2. /\ l \in Seq(CallType) /\ Len(l) = 1 + Len(r) /\ l[1] = c
        /\ \A i \in 2 .. Len(l) : l[i] = r[i - 1] /\ i - 1 \in DOMAIN r
    BY <2>1, Headed, Zenon
  <2> HIDE DEF l
  <2>3. \A i \in DOMAIN l : i = 1 \/ i \in 2 .. Len(l)
    BY <2>2
  <2>4. \A i \in DOMAIN l : Fits(l[i])
    BY <1>5, <2>1, <2>2, <2>3, Zenon
  <2> QED BY <2>2, <2>4 DEF l, r
<1> QED BY <1>1, <1>2, <1>3, <1>4, <1>5 DEF V, CallType

(* What `sendSignal' does: it fails or leaves a signal with the line of the view.  *)
Failed == phase' = "error" /\ todo' = <<>> /\ UNCHANGED <<popups, binds, current, at, top, text, sending>>

LEMMA Sends ==
    ASSUME NEW view, NEW where, SendSignal(view, where),
           where["sourceEvent"] \in Nat, Cursors, where["sources"] \in DOMAIN SourceLines, where["targets"] \in DOMAIN TargetLines
    PROVE  \/ Failed /\ view = "sourceEvent" /\ where["sourceEvent"] \notin DOMAIN SampleLines
           \/ \E line : /\ sending' = <<Signal(view, line)>> /\ IsSignal(Signal(view, line))
                        /\ view = "sources" => line = SourceLines[where["sources"]]
                        /\ view = "targets" => line = TargetLines[where["targets"]]
                        /\ view = "sourceEvent" => line = SampleLines[where["sourceEvent"]] /\ where["sourceEvent"] \in DOMAIN SampleLines
                        /\ view \notin Lists => line \in Operations
                        /\ todo' = Tail(todo) /\ current' = view /\ MoveCursors(where) /\ at' = where
                        /\ UNCHANGED <<phase, popups, binds, text>>
<1> USE DEF Signal, IsSignal, Done, Failed
<1>1. CASE view \notin Lists
  <2>1. PICK op \in Operations : sending' = <<Signal(view, op)>>
    BY <1>1 DEF SendSignal, MoveCursors
  <2>2. Done /\ UNCHANGED <<phase, popups, binds, text>> /\ current' = view /\ MoveCursors(where) /\ at' = where
    BY <1>1 DEF SendSignal, MoveCursors
  <2> QED BY <1>1, <2>1, <2>2
<1>2. CASE view \in Lists /\ where[view] \in DOMAIN LinesOf(view)
  <2>1. sending' = <<Signal(view, LinesOf(view)[where[view]])>>
    BY <1>2 DEF SendSignal, MoveCursors
  <2>2. Done /\ UNCHANGED <<phase, popups, binds, text>> /\ current' = view /\ MoveCursors(where) /\ at' = where
    BY <1>2 DEF SendSignal, MoveCursors
  <2>3. view = "sourceEvent" => LinesOf(view)[where[view]] \in SampleLine
    BY <1>2, ShownSample DEF LinesOf
  <2> QED BY <1>2, <2>1, <2>2, <2>3 DEF LinesOf
<1>3. CASE view \in Lists /\ where[view] \notin DOMAIN LinesOf(view)
  <2>1. view = "sourceEvent"
    BY <1>3 DEF LinesOf
  <2>2. Failed
    BY <1>3 DEF SendSignal, MoveCursors, ui
  <2> QED BY <1>3, <2>1, <2>2 DEF LinesOf
<1> QED BY <1>1, <1>2, <1>3

LEMMA Focus ==
    ASSUME NEW v
    PROVE  Under(v) = IF v \in {"transformationName", "transformationOperation"} THEN "sourceEvent"
                 ELSE IF v = "operationValue" THEN "transformationOperation"
                 ELSE IF v = "targetWarning" THEN "targets" ELSE ""
BY DEF Under

(* The cursor moves to a line where it may rest, or stays.                     *)
LEMMA Moves ==
    ASSUME NEW n \in Nat, NEW rests \in SUBSET (1 .. n), NEW from \in Nat, NEW step \in Int
    PROVE  MoveTo(rests, from, step) \in rests \cup {from}
<1> DEFINE stops == {i \in rests : IF step > 0 THEN i > from ELSE i < from}
<1>1. CASE stops = {}
  BY <1>1 DEF MoveTo
<1>2. CASE stops # {}
  <2>1. stops \in SUBSET Nat /\ stops \in SUBSET (0 .. n) /\ stops \subseteq rests
    <3>1. stops \subseteq rests
      BY Zenon
    <3> QED BY <3>1, FirstPlaces, Zenon
  <2>2. Min(stops) \in rests /\ Max(stops) \in rests
    <3> HIDE DEF stops
    <3> QED BY <1>2, <2>1, Least, Greatest, Zenon
  <2> QED BY <1>2, <2>2 DEF MoveTo
<1> QED BY <1>1, <1>2

Histories == SUBSET {"left", "hasty", "strayed", "joined"}

(* The visible part of a list follows its cursor.                               *)
LEMMA CursorsStayVisible ==
    ASSUME top \in [Lists -> Nat], NEW where \in [Lists -> Nat \ {0}], MoveCursors(where)
    PROVE  /\ at' \in [Lists -> Nat \ {0}] /\ top' \in [Lists -> Nat]
           /\ \A v \in Lists : Visible(v, at[v])'
<1> DEFINE First(v) == IF where[v] <= top[v] THEN where[v] - 1
                       ELSE IF where[v] > top[v] + Height[v] THEN where[v] - Height[v] ELSE top[v]
<1>1. at' = where /\ top' = [v \in Lists |-> First(v)]
  BY DEF MoveCursors
<1>2. ASSUME NEW v \in Lists
      PROVE  First(v) \in Nat /\ where[v] - First(v) \in 1 .. Height[v]
  <2>1. where[v] \in Nat \ {0} /\ top[v] \in Nat /\ Height[v] \in Nat \ {0}
    BY HeightAssumption
  <2> QED BY <2>1
<1> HIDE DEF First
<1>3. top' \in [Lists -> Nat]
  BY <1>1, <1>2
<1>4. ASSUME NEW v \in Lists
      PROVE  at'[v] - top'[v] \in 1 .. Height[v]
  BY <1>1, <1>2
<1> QED BY <1>1, <1>3, <1>4 DEF Visible

LEMMA SendKeepsTypes ==
    ASSUME Typed, phase = "run", todo # <<>>,
           NEW view \in Views, NEW where, SendSignal(view, where),
           where \in [Lists -> Nat \ {0}],
           where["sources"] \in Entries(SourceLines), where["targets"] \in Entries(TargetLines),
           UNCHANGED <<proc, nesting>>, history' \in Histories
    PROVE  Typed'
<1>1. \/ Failed
      \/ \E line : /\ sending' = <<Signal(view, line)>> /\ IsSignal(Signal(view, line))
                   /\ todo' = Tail(todo) /\ current' = view /\ MoveCursors(where) /\ at' = where
                   /\ UNCHANGED <<phase, popups, binds, text>>
  BY Sends DEF Typed, Entries
<1>2. TypeOK'
  <2>1. CASE Failed
    BY <2>1 DEF Typed, TypeOK, Failed, Histories, Visible
  <2>2. CASE MoveCursors(where) /\ current' = view /\ UNCHANGED <<phase, popups, binds>>
    <3>1. /\ at' \in [Lists -> Nat \ {0}] /\ top' \in [Lists -> Nat]
          /\ \A v \in Lists : Visible(v, at[v])'
      BY <2>2, CursorsStayVisible DEF Typed, TypeOK
    <3> QED BY <2>2, <3>1 DEF Typed, TypeOK, Histories
  <2> QED BY <1>1, <2>1, <2>2
<1>3. Calls'
  <2>1. CASE todo' = <<>>
    BY <2>1 DEF Calls
  <2>2. CASE todo' = Tail(todo)
    BY <2>2, FirstCall DEF Typed, Calls
  <2> QED BY <1>1, <2>1, <2>2 DEF Failed
<1>4. Signals'
  BY <1>1 DEF Typed, Signals, Failed
<1>5. Cursors'
  BY <1>1 DEF Typed, Cursors, Failed
<1> QED BY <1>2, <1>3, <1>4, <1>5 DEF Typed

LEMMA PressKeepsTypes ==
    ASSUME Typed, NEW k \in Keys, Press(k)
    PROVE  Typed'
<1> USE DEF Typed
<1>1. /\ phase = "run"
      /\ todo' = [i \in DOMAIN Bound(k, current) |-> [do |-> Bound(k, current)[i], view |-> current]]
      /\ history' = history \cup Slips(k)
      /\ UNCHANGED <<phase, popups, binds, current, at, top, sending, proc, nesting>>
  BY DEF Press, ui
<1>2. TypeOK'
  BY <1>1 DEF TypeOK, Slips, Visible
<1>3. Calls'
  <2> DEFINE b == Bound(k, current)
  <2>1. current \in Views /\ binds \in [Popups -> Nat]
    BY DEF TypeOK
  <2>2. /\ b \in Seq(Names)
        /\ \A i \in DOMAIN b : \/ b[i] = GlobalKey(k) /\ GlobalKey(k) # ""
                               \/ b[i] = ViewKey(current, k) /\ ViewKey(current, k) # ""
                               \/ b[i] = PopupKey(current, k) /\ PopupKey(current, k) # "" /\ current \in Popups /\ binds[current] > 0
    BY <2>1, BoundCalls
  <2> HIDE DEF b
  <2>3. Len(b) \in Nat /\ DOMAIN b = 1 .. Len(b) /\ \A i \in DOMAIN b : b[i] \in Names
    BY <2>2, Elements
  <2>4. todo' = [i \in 1 .. Len(b) |-> [do |-> b[i], view |-> current]]
    BY <1>1, <2>3 DEF b
  <2>5. ASSUME NEW i \in DOMAIN b
        PROVE  [do |-> b[i], view |-> current] \in CallType /\ Fits([do |-> b[i], view |-> current])
    BY <2>1, <2>2, <2>3, GlobalKeys, ViewKeys, PopupKeys DEF CallType, Fits
  <2>6. todo' \in [1 .. Len(b) -> CallType]
    BY <2>3, <2>4, <2>5
  <2>7. todo' \in Seq(CallType)
    BY <2>3, <2>6, SeqDef
  <2> QED BY <2>3, <2>4, <2>5, <2>7 DEF Calls
<1>4. Signals'
  BY <1>1 DEF Signals
<1>5. Cursors'
  BY <1>1 DEF Cursors
<1> QED BY <1>2, <1>3, <1>4, <1>5

(* The handlers that neither send a signal nor move a cursor.                  *)
LEMMA QuietKeepsTypes ==
    ASSUME Typed, UNCHANGED <<at, top, proc, nesting>>, phase' \in {"run", "quit", "error"},
           popups' \subseteq Popups, binds' \in [Popups -> Nat], current' \in Views, history' \in Histories,
           todo # <<>>, todo' \in {<<>>, Tail(todo)},
           \/ sending' = sending
           \/ \E s : sending' = <<s>> /\ IsSignal(s)
    PROVE  Typed'
<1>1. TypeOK'
  BY DEF Typed, TypeOK, Histories, Visible
<1>2. Calls'
  <2>1. CASE todo' = <<>>
    BY <2>1 DEF Calls
  <2>2. CASE todo' = Tail(todo)
    BY <2>2, FirstCall DEF Typed, Calls
  <2> QED BY <2>1, <2>2
<1>3. Signals'
  BY DEF Typed, Signals
<1>4. Cursors'
  BY DEF Typed, Cursors
<1> QED BY <1>1, <1>2, <1>3, <1>4 DEF Typed

LEMMA HandlersKeepTypes ==
    ASSUME Typed, Handlers
    PROVE  Typed'
<1> DEFINE Ats == [Lists -> Nat \ {0}]
<1>1. /\ at \in Ats /\ top \in [Lists -> Nat] /\ at["sources"] \in Entries(SourceLines) /\ at["targets"] \in Entries(TargetLines)
      /\ popups \subseteq Popups /\ binds \in [Popups -> Nat] /\ current \in Views /\ history \in Histories
  BY DEF Typed, TypeOK, Cursors, Histories
<1>2. ASSUME NEW h, Do(h)
      PROVE  /\ phase = "run" /\ todo # <<>> /\ sending = <<>> /\ V \in Views
             /\ Fits([do |-> h, view |-> V])
  BY <1>2, FirstCall DEF Do, Typed
<1>3. CASE CloseWindow
  <2>1. Do("closeWindow") /\ UNCHANGED <<at, top, proc, nesting, sending>>
    BY <1>3 DEF CloseWindow, End, Rest, Delete, ui
  <2>2. phase' \in {"run", "quit", "error"} /\ todo' \in {<<>>, Tail(todo)} /\ history' \in Histories
    BY <1>1, <1>2, <1>3, <2>1 DEF CloseWindow, End, Done, Histories
  <2>3. popups' \subseteq Popups /\ binds' \in [Popups -> Nat] /\ current' \in Views
    <3>1. CASE Under(V) # "" /\ Delete(V, Under(V))
      <4>1. Under(V) \in Views
        BY <3>1, Focus DEF Views, Popups
      <4> QED BY <1>1, <3>1, <4>1 DEF Delete
    <3>2. CASE UNCHANGED <<popups, binds, current>>
      BY <1>1, <3>2
    <3> QED BY <1>3, <3>1, <3>2 DEF CloseWindow, End, ui
  <2> QED BY <1>2, <2>1, <2>2, <2>3, QuietKeepsTypes
<1>4. CASE SelectOperation
  <2>1. Do("selectOperation") /\ SendSignal(current, at) /\ UNCHANGED <<history, proc, nesting>>
    BY <1>4 DEF SelectOperation, Rest
  <2> QED BY <1>1, <1>2, <2>1, SendKeepsTypes
<1>5. ASSUME NEW h, NEW view \in {"sources", "targets"}, SwitchTo(h, view)
      PROVE  Typed'
  <2>1. Do(h) /\ UNCHANGED <<history, proc, nesting>>
    BY <1>5 DEF SwitchTo, Rest
  <2>2. CASE V = view
    <3>1. todo' = Tail(todo) /\ UNCHANGED <<phase, popups, binds, current, at, top, sending>>
      BY <1>5, <2>2 DEF SwitchTo, Done, ui
    <3> QED BY <1>1, <1>2, <2>1, <3>1, QuietKeepsTypes
  <2>3. CASE V # view
    <3>1. SendSignal(view, at) /\ view \in Views
      BY <1>5, <2>3 DEF SwitchTo, Views
    <3> QED BY <1>1, <1>2, <2>1, <3>1, SendKeepsTypes
  <2> QED BY <2>2, <2>3
<1>6. CASE SwitchToTransformation
  <2>1. /\ Do("switchToTransformation") /\ todo' = Tail(todo) /\ current' = "transformation"
        /\ UNCHANGED <<phase, popups, binds, at, top, sending, history, proc, nesting>>
    BY <1>6 DEF SwitchToTransformation, Done, Rest
  <2>2. current' \in Views
    BY <2>1 DEF Views
  <2> QED BY <1>1, <1>2, <2>1, <2>2, QuietKeepsTypes
<1>7. CASE SourceCursorRight
  <2>1. Do("sourceCursorRight") /\ UNCHANGED <<proc, nesting>> /\ history' \in Histories
    BY <1>1, <1>7 DEF SourceCursorRight, Rest, Histories
  <2>2. CASE HasSample
    <3>1. SendSignal("sourceEvent", at) /\ "sourceEvent" \in Views
      BY <1>7, <2>2 DEF SourceCursorRight, Views
    <3> QED BY <1>1, <1>2, <2>1, <3>1, SendKeepsTypes
  <2>3. CASE ~HasSample
    <3>1. todo' = Tail(todo) /\ UNCHANGED <<phase, popups, binds, current, at, top, sending>>
      BY <1>7, <2>3 DEF SourceCursorRight, Done, ui
    <3> QED BY <1>1, <1>2, <2>1, <3>1, QuietKeepsTypes
  <2> QED BY <2>2, <2>3
<1>8. CASE SourceEventCursorLeft
  <2> DEFINE where == [at EXCEPT !["sourceEvent"] = top["sourceEvent"] + 1]
  <2>1. Do("sourceEventCursorLeft") /\ SendSignal("sources", where) /\ UNCHANGED <<history, proc, nesting>>
    BY <1>8 DEF SourceEventCursorLeft, Rest
  <2>2. where \in Ats /\ where["sources"] = at["sources"] /\ where["targets"] = at["targets"] /\ "sources" \in Views
    <3>1. top["sourceEvent"] + 1 \in Nat \ {0}
      BY <1>1
    <3> QED BY <1>1, <3>1 DEF Views
  <2> HIDE DEF where
  <2> QED BY <1>1, <1>2, <2>1, <2>2, SendKeepsTypes
<1>9. ASSUME NEW h \in {"cursorUp", "cursorDown"}, NEW step \in {-1, 1}, CursorList(h, step)
      PROVE  Typed'
  <2> DEFINE there == MoveTo(Entries(LinesOf(V)), at[V], step)
             where == [at EXCEPT ![V] = there]
  <2>1. Do(h) /\ UNCHANGED <<history, proc, nesting>>
    BY <1>9 DEF CursorList, Rest, End
  <2>2. V \in {"sources", "targets"}
    BY <1>2, <2>1 DEF Fits
  <2>3. CASE there = at[V]
    <3>1. todo' = Tail(todo) /\ UNCHANGED <<phase, popups, binds, current, at, top, sending>>
      BY <1>9, <2>3 DEF CursorList, Done, ui
    <3> QED BY <1>1, <1>2, <2>1, <3>1, QuietKeepsTypes
  <2>4. CASE there # at[V] /\ HiddenHeader(V, at[V] + step)
    <3>1. phase' = "error" /\ todo' = <<>> /\ UNCHANGED <<popups, binds, current, at, top, sending>>
      BY <1>9, <2>4 DEF CursorList, End, ui
    <3> QED BY <1>1, <1>2, <2>1, <3>1, QuietKeepsTypes
  <2>5. CASE there # at[V] /\ ~HiddenHeader(V, at[V] + step)
    <3>1. SendSignal(current, where)
      BY <1>9, <2>5 DEF CursorList
    <3>2. PICK n \in Nat : DOMAIN LinesOf(V) = 1 .. n
      BY <2>2, ManifestLists, Elements DEF IsList, LinesOf
    <3>3. at[V] \in Entries(LinesOf(V)) /\ Entries(LinesOf(V)) \in SUBSET (1 .. n) /\ at[V] \in Nat
      BY <1>1, <2>2, <3>2 DEF Entries, LinesOf
    <3>4. there \in Entries(LinesOf(V))
      <4>1. there \in Entries(LinesOf(V)) \cup {at[V]}
        <5>1. step \in Int
          BY <1>9
        <5> QED BY <3>2, <3>3, <5>1, Moves, Zenon
      <4> QED BY <3>3, <4>1
    <3>5. there \in Nat \ {0}
      BY <3>2, <3>3, <3>4
    <3> HIDE DEF there
    <3>6. where \in Ats
      BY <1>1, <2>2, <3>5
    <3>7. where["sources"] \in Entries(SourceLines) /\ where["targets"] \in Entries(TargetLines)
      BY <1>1, <2>2, <3>4 DEF LinesOf
    <3> HIDE DEF where
    <3> QED BY <1>1, <1>2, <2>1, <3>1, <3>6, <3>7, SendKeepsTypes
  <2> QED BY <2>3, <2>4, <2>5
<1>10. ASSUME NEW h, NEW step \in {-1, 1}, CursorEventSample(h, step)
       PROVE  Typed'
  <2> DEFINE here  == at["sourceEvent"]
             inner == [i \in 1 .. Len(SampleLines) - 2 |-> SampleLines[i]]
             there == MoveTo({i \in DOMAIN inner : inner[i].key \notin Closers}, here, step)
             where == [at EXCEPT !["sourceEvent"] = there]
  <2>1. Do(h) /\ UNCHANGED <<proc, nesting>> /\ history' \in Histories
    BY <1>1, <1>10 DEF CursorEventSample, Rest, Histories
  <2>2. CASE here + step \notin DOMAIN inner
    <3>1. todo' = Tail(todo) /\ UNCHANGED <<phase, popups, binds, current, at, top, sending>>
      BY <1>10, <2>2 DEF CursorEventSample, Done, ui
    <3> QED BY <1>1, <1>2, <2>1, <3>1, QuietKeepsTypes
  <2>3. CASE here + step \in DOMAIN inner /\ there = here
    <3>1. /\ todo' = Tail(todo) /\ UNCHANGED <<phase, popups, binds, current, sending>>
          /\ MoveCursors([at EXCEPT !["sourceEvent"] = Len(inner)])
      BY <1>10, <2>3 DEF CursorEventSample, Done
    <3>2. Len(inner) \in Nat \ {0}
      <4>1. Len(SampleLines) \in Nat /\ DOMAIN inner = 1 .. Len(SampleLines) - 2
        BY ShownSample
      <4>2. here + step \in 1 .. Len(SampleLines) - 2
        BY <2>3, <4>1
      <4>3. Len(inner) = Len(SampleLines) - 2
        BY <4>1, <4>2
      <4>4. Len(SampleLines) - 2 \in Nat \ {0}
        BY <4>1, <4>2, Inhabited, Zenon
      <4> QED BY <4>3, <4>4, Zenon
    <3> HIDE DEF inner
    <3> DEFINE last == [at EXCEPT !["sourceEvent"] = Len(inner)]
    <3>3. last \in Ats /\ last["sources"] = at["sources"] /\ last["targets"] = at["targets"]
      BY <1>1, <3>2
    <3> HIDE DEF last
    <3>4. MoveCursors(last)
      BY <3>1 DEF last
    <3>5. at' \in Ats /\ at'["sources"] = at["sources"] /\ at'["targets"] = at["targets"]
      BY <3>3, <3>4 DEF MoveCursors
    <3>6. top' \in [Lists -> Nat] /\ \A v \in Lists : Visible(v, at[v])'
      BY <1>1, <3>3, <3>4, CursorsStayVisible
    <3>7. TypeOK'
      BY <2>1, <3>1, <3>5, <3>6 DEF Typed, TypeOK, Histories
    <3>8. Calls'
      BY <1>2, <2>1, <3>1, FirstCall DEF Typed, Calls
    <3>9. Signals' /\ Cursors'
      BY <1>1, <2>1, <3>1, <3>5 DEF Typed, Signals, Cursors
    <3> QED BY <3>7, <3>8, <3>9 DEF Typed
  <2>4. CASE here + step \in DOMAIN inner /\ there # here
    <3>1. SendSignal(current, where)
      BY <1>10, <2>4 DEF CursorEventSample
    <3>2. there \in Nat \ {0}
      <4> DEFINE rests == {i \in DOMAIN inner : inner[i].key \notin Closers}
                 n == Len(SampleLines) - 2
      <4>1. n \in Nat /\ DOMAIN inner = 1 .. n /\ here \in Nat
        BY <1>1, <2>4, ShownSample
      <4> HIDE DEF n, inner
      <4>2. rests \in SUBSET (1 .. n) /\ there = MoveTo(rests, here, step) /\ step \in Int
        BY <1>10, <4>1
      <4> HIDE DEF rests
      <4>3. there \in rests \cup {here}
        BY <4>1, <4>2, Moves, Zenon
      <4> HIDE DEF there
      <4> QED BY <2>4, <4>1, <4>2, <4>3
    <3> HIDE DEF there
    <3>3. where \in Ats /\ where["sources"] = at["sources"] /\ where["targets"] = at["targets"]
      BY <1>1, <3>2
    <3> HIDE DEF where
    <3> QED BY <1>1, <1>2, <2>1, <3>1, <3>3, SendKeepsTypes
  <2> QED BY <2>2, <2>3, <2>4
<1>11. CASE WipeData
  <2>1. /\ Do("wipeData") /\ todo' = Tail(todo)
        /\ sending' = <<[origin |-> "transformationOperation", line |-> "delete", isHotKey |-> TRUE]>>
        /\ UNCHANGED <<phase, popups, binds, current, at, top, history, proc, nesting>>
    BY <1>11 DEF WipeData, Done, Rest, ui
  <2>2. IsSignal([origin |-> "transformationOperation", line |-> "delete", isHotKey |-> TRUE])
    BY DEF IsSignal
  <2> QED BY <1>1, <1>2, <2>1, <2>2, QuietKeepsTypes
<1>12. CASE ResetTransformation
  <2>1. /\ Do("resetTransformation") /\ todo' = Tail(todo)
        /\ UNCHANGED <<phase, popups, binds, current, at, top, sending, history, proc, nesting>>
    BY <1>12 DEF ResetTransformation, Done, Rest, ui
  <2> QED BY <1>1, <1>2, <2>1, QuietKeepsTypes
<1>13. ASSUME NEW h, NEW p \in Popups, Pop(h, p)
       PROVE  Typed'
  <2>1. /\ Do(h) /\ todo' = Tail(todo) /\ UNCHANGED <<phase, at, top, sending, history, proc, nesting>>
        /\ popups' = popups \cup {p} /\ binds' = [binds EXCEPT ![p] = @ + 1] /\ current' = p
    BY <1>13 DEF Pop, Done, Rest
  <2>2. popups' \subseteq Popups /\ binds' \in [Popups -> Nat] /\ current' \in Views
    BY <1>1, <2>1 DEF Views
  <2> QED BY <1>1, <1>2, <2>1, <2>2, QuietKeepsTypes
<1>14. ASSUME NEW h, NEW c, Do(h), Fits([do |-> c, view |-> V]), c \in Names,
              todo' = <<[do |-> c, view |-> V]>> \o Tail(todo),
              NEW s, sending' = <<s>>, s.origin # "sourceEvent",
              UNCHANGED <<phase, popups, binds, current, at, top, history, proc, nesting>>
       PROVE  Typed'
  <2>1. TypeOK' /\ Cursors'
    BY <1>14 DEF Typed, TypeOK, Cursors, Visible
  <2>2. Calls'
    <3>1. [do |-> c, view |-> V] \in CallType
      BY <1>2, <1>14 DEF CallType
    <3> QED BY <1>2, <1>14, <3>1, FirstCall DEF Typed, Calls
  <2>3. Signals'
    BY <1>14 DEF Typed, Signals, IsSignal
  <2> QED BY <2>1, <2>2, <2>3 DEF Typed
<1>15. CASE SaveAndExit
  <2>1. /\ Do("saveAndExit") /\ sending' = <<Signal("createAndExit", "name")>>
        /\ todo' = <<[do |-> "closeName", view |-> V]>> \o Tail(todo)
        /\ UNCHANGED <<phase, popups, binds, current, at, top, history, proc, nesting>>
    BY <1>15 DEF SaveAndExit, Rest, ui
  <2>2. Fits([do |-> "closeName", view |-> V]) /\ "closeName" \in Names
    BY <1>2, <2>1 DEF Fits, Names
  <2>3. Signal("createAndExit", "name").origin # "sourceEvent"
    BY DEF Signal
  <2> QED BY <1>14, <2>1, <2>2, <2>3
<1>16. CASE InputEnter
  <2>1. Do("inputEnter") /\ UNCHANGED <<popups, binds, current, at, top, proc, nesting>>
    BY <1>16 DEF InputEnter, Rest, ui
  <2>2. CASE /\ \E v \in Values : sending' = <<Signal("inputValue", v)>>
             /\ todo' = <<[do |-> "closeInput", view |-> V]>> \o Tail(todo) /\ UNCHANGED <<phase, history>>
    <3>1. PICK v \in Values : sending' = <<Signal("inputValue", v)>>
      BY <2>2
    <3>2. Fits([do |-> "closeInput", view |-> V]) /\ "closeInput" \in Names
      BY <1>2, <2>1 DEF Fits, Names
    <3>3. Signal("inputValue", v).origin # "sourceEvent"
      BY DEF Signal
    <3> QED BY <1>14, <2>1, <2>2, <3>1, <3>2, <3>3
  <2>3. CASE phase' = "error" /\ todo' = <<>> /\ history' = history \cup {"joined"} /\ sending' = sending
    <3>1. history' \in Histories
      BY <1>1, <2>3 DEF Histories
    <3> QED BY <1>1, <1>2, <2>1, <2>3, <3>1, QuietKeepsTypes
  <2> QED BY <1>16, <2>2, <2>3 DEF InputEnter
<1>17. CASE CloseName
  <2>1. /\ Do("closeName") /\ UNCHANGED <<at, top, proc, nesting, sending, history>>
        /\ phase' \in {"run", "error"} /\ todo' \in {<<>>, Tail(todo)}
    BY <1>2, <1>17 DEF CloseName, End, Rest, Delete, Done, ui
  <2>2. popups' \subseteq Popups /\ binds' \in [Popups -> Nat] /\ current' \in Views
    BY <1>1, <1>17 DEF CloseName, End, Delete, ui
  <2> QED BY <1>1, <1>2, <2>1, <2>2, QuietKeepsTypes
<1>18. CASE CloseInput
  <2>1. /\ Do("closeInput") /\ UNCHANGED <<at, top, proc, nesting, sending, history>>
        /\ phase' \in {"run", "error"} /\ todo' \in {<<>>, Tail(todo)}
    BY <1>2, <1>18 DEF CloseInput, End, Rest, Done, ui
  <2>2. popups' \subseteq Popups /\ binds' \in [Popups -> Nat] /\ current' \in Views
    BY <1>1, <1>18 DEF CloseInput, End, ui, Views
  <2> QED BY <1>1, <1>2, <2>1, <2>2, QuietKeepsTypes
<1>19. CASE InputClose
  <2>1. /\ Do("inputClose") /\ phase' \in {"run", "error"} /\ todo' \in {<<>>, Tail(todo)}
        /\ UNCHANGED <<popups, binds, current, at, top, sending, history, nesting>>
        /\ proc' \in {proc, [proc EXCEPT !.pc = "apply", !.path = <<>>, !.value = <<>>]}
    BY <1>2, <1>19 DEF InputClose, End, Done, ui
  <2>2. TypeOK' /\ Cursors' /\ Signals'
    BY <2>1 DEF Typed, TypeOK, Cursors, Signals, Visible
  <2>3. Calls'
    <3>1. CASE todo' = <<>>
      BY <3>1 DEF Calls
    <3>2. CASE todo' = Tail(todo)
      BY <1>2, <2>1, <3>2, FirstCall DEF Typed, Calls
    <3> QED BY <2>1, <3>1, <3>2
  <2> QED BY <2>2, <2>3 DEF Typed
<1>20. \A p \in {"transformationOperation", "transformationName"} : p \in Popups
  BY DEF Popups
<1> QED BY <1>3, <1>4, <1>5, <1>6, <1>7, <1>8, <1>9, <1>10, <1>11, <1>12, <1>13, <1>15, <1>16, <1>17, <1>18, <1>19, <1>20
        DEF Handlers

LEMMA BoundOnceMore ==
    ASSUME NEW b \in [Popups -> Nat], NEW p \in Popups
    PROVE  [b EXCEPT ![p] = @ + 1] \in [Popups -> Nat]
OBVIOUS

LEMMA ProcessorKeepsTypes ==
    ASSUME Typed, ProcessKeystrokes
    PROVE  Typed'
<1> DEFINE Fields(p) == p = [pc |-> p.pc, signal |-> p.signal, path |-> p.path, value |-> p.value]
<1>1. Fields(proc) /\ IsSignal(proc.signal) /\ (sending # <<>> => IsSignal(sending[1]))
  BY DEF Typed, Signals
<1>2. Fields(Idle) /\ IsSignal(Idle.signal) /\ Idle.pc = "idle"
  BY DEF Idle, Signal, IsSignal
<1>3. ASSUME UNCHANGED <<todo, at, top, history>>, sending' \in {sending, <<>>}, phase' \in {"run", "panic"},
             popups' \subseteq Popups, binds' \in [Popups -> Nat], current' \in Views,
             nesting' \in [1 .. MaxNesting -> SampleKeys \cup {"", "."}],
             Fields(proc'), IsSignal(proc'.signal), proc'.pc \in {"idle", "got", "input", "apply"}
      PROVE  Typed'
  <2>1. TypeOK' /\ Calls' /\ Cursors'
    BY <1>3 DEF Typed, TypeOK, Calls, Cursors, Visible
  <2>2. Signals'
    BY <1>3 DEF Typed, Signals
  <2> QED BY <2>1, <2>2 DEF Typed
<1>4. /\ phase \in {"run", "quit", "error", "panic", "saved"} /\ popups \subseteq Popups /\ binds \in [Popups -> Nat]
      /\ current \in Views /\ nesting \in [1 .. MaxNesting -> SampleKeys \cup {"", "."}]
      /\ proc.pc \in {"idle", "got", "input", "apply"}
  BY DEF Typed, TypeOK
<1>5. CASE Receive
  <2>1. /\ proc' \in {proc, [proc EXCEPT !.pc = "got", !.signal = sending[1]]} /\ sending' = <<>> /\ phase = "run"
        /\ sending # <<>> /\ UNCHANGED <<phase, popups, binds, current, at, top, todo, nesting, history>>
    BY <1>5 DEF Receive, ToProcessor, ui
  <2>2. Fields(proc') /\ IsSignal(proc'.signal) /\ proc'.pc \in {"idle", "got", "input", "apply"}
    <3>1. CASE proc' = proc
      BY <1>1, <1>4, <3>1
    <3>2. CASE proc' = [proc EXCEPT !.pc = "got", !.signal = sending[1]]
      <4>1. proc' = [pc |-> "got", signal |-> sending[1], path |-> proc.path, value |-> proc.value]
        BY <1>1, <3>2
      <4> QED BY <1>1, <2>1, <4>1
    <3> QED BY <2>1, <3>1, <3>2
  <2> QED BY <1>3, <1>4, <2>1, <2>2
<1>6. CASE SelectSource
  <2>1. proc' = Idle /\ phase = "run" /\ UNCHANGED <<phase, popups, binds, current, at, top, todo, sending, nesting, history>>
    BY <1>6 DEF SelectSource, Got, ui
  <2> QED BY <1>2, <1>3, <1>4, <2>1
<1>7. CASE SelectTarget
  <2>1. proc' = Idle /\ phase = "run" /\ UNCHANGED <<phase, popups, binds, current, at, top, todo, sending, nesting, history>>
    BY <1>7 DEF SelectTarget, Got, ui
  <2> QED BY <1>2, <1>3, <1>4, <2>1
<1>8. CASE WalkSample
  <2> DEFINE l == proc.signal.line
  <2>1. Got("sourceEvent") /\ UNCHANGED <<popups, binds, current, at, top, todo, sending, history>>
    BY <1>8 DEF WalkSample, ui
  <2>2. l \in SampleLine /\ phase = "run"
    BY <1>1, <2>1 DEF Got, IsSignal
  <2>3. phase' \in {"run", "panic"} /\ proc' \in {proc, Idle}
    BY <1>8, <2>2 DEF WalkSample
  <2>4. nesting' \in [1 .. MaxNesting -> SampleKeys \cup {"", "."}]
    <3>1. CASE nesting' = [nesting EXCEPT ![1] = "."]
      BY <1>4, <3>1, NestingAssumption
    <3>2. CASE nesting' = nesting
      BY <1>4, <3>2
    <3>3. CASE nesting' = [d \in 1 .. MaxNesting |-> IF d < l.depth THEN nesting[d] ELSE IF d = l.depth THEN l.key ELSE ""]
      <4>1. l.key \in SampleKeys \cup {""}
        BY <2>2 DEF SampleLine
      <4>2. \A d \in 1 .. MaxNesting : (IF d < l.depth THEN nesting[d] ELSE IF d = l.depth THEN l.key ELSE "") \in SampleKeys \cup {"", "."}
        BY <1>4, <4>1
      <4> QED BY <3>3, <4>2
    <3> QED BY <1>8, <3>1, <3>2, <3>3 DEF WalkSample
  <2>5. Fields(proc') /\ IsSignal(proc'.signal) /\ proc'.pc \in {"idle", "got", "input", "apply"}
    BY <1>1, <1>2, <1>4, <2>3
  <2> QED BY <1>3, <1>4, <2>1, <2>3, <2>4, <2>5
<1>9. CASE ReadOperation
  <2>1. /\ phase = "run" /\ UNCHANGED <<phase, at, top, todo, sending, nesting, history>>
        /\ \E p : proc' \in {[proc EXCEPT !.pc = "apply", !.path = p], [proc EXCEPT !.pc = "input", !.path = p]}
    BY <1>9 DEF ReadOperation, Got
  <2>2. popups' \subseteq Popups /\ binds' \in [Popups -> Nat] /\ current' \in Views
    <3>1. "transformationOperation" \in Popups /\ "operationValue" \in Popups /\ "sourceEvent" \in Views /\ Popups \subseteq Views
      BY DEF Popups, Views
    <3>2. CASE Delete("transformationOperation", "sourceEvent")
      BY <1>4, <3>1, <3>2 DEF Delete
    <3>3. CASE /\ popups' = popups \cup {"operationValue"} /\ current' = "operationValue"
               /\ binds' = [binds EXCEPT !["operationValue"] = @ + 1]
      <4>1. popups' \subseteq Popups /\ current' \in Views
        BY <1>4, <3>1, <3>3
      <4>2. binds' \in [Popups -> Nat]
        BY <1>4, <3>1, <3>3, BoundOnceMore, Zenon
      <4> QED BY <4>1, <4>2
    <3>4. \/ Delete("transformationOperation", "sourceEvent")
          \/ /\ popups' = popups \cup {"operationValue"} /\ current' = "operationValue"
             /\ binds' = [binds EXCEPT !["operationValue"] = @ + 1]
      BY <1>9 DEF ReadOperation
    <3> QED BY <3>2, <3>3, <3>4
  <2>3. Fields(proc') /\ IsSignal(proc'.signal) /\ proc'.pc \in {"idle", "got", "input", "apply"}
    <3>1. PICK p : \E c \in {"apply", "input"} : proc' = [proc EXCEPT !.pc = c, !.path = p]
      BY <2>1
    <3>2. PICK c \in {"apply", "input"} : proc' = [proc EXCEPT !.pc = c, !.path = p]
      BY <3>1
    <3>3. proc' = [pc |-> c, signal |-> proc.signal, path |-> p, value |-> proc.value]
      BY <1>1, <3>2
    <3> QED BY <1>1, <3>3
  <2> QED BY <1>3, <1>4, <2>1, <2>2, <2>3
<1>10. CASE ReceiveInput
  <2>1. /\ phase = "run" /\ sending' = <<>> /\ UNCHANGED <<phase, popups, binds, current, at, top, todo, nesting, history>>
        /\ \E p, v : proc' = [proc EXCEPT !.pc = "apply", !.value = v, !.path = p]
    BY <1>10 DEF ReceiveInput, ui
  <2>2. Fields(proc') /\ IsSignal(proc'.signal) /\ proc'.pc \in {"idle", "got", "input", "apply"}
    <3>1. PICK p, v : proc' = [proc EXCEPT !.pc = "apply", !.value = v, !.path = p]
      BY <2>1
    <3>2. proc' = [pc |-> "apply", signal |-> proc.signal, path |-> p, value |-> v]
      BY <1>1, <3>1
    <3> QED BY <1>1, <3>2
  <2> QED BY <1>3, <1>4, <2>1, <2>2
<1>11. CASE Apply
  <2>1. proc' = Idle /\ phase = "run" /\ UNCHANGED <<phase, popups, binds, current, at, top, todo, sending, nesting, history>>
    BY <1>11 DEF Apply, ui
  <2> QED BY <1>2, <1>3, <1>4, <2>1
<1> QED BY <1>5, <1>6, <1>7, <1>8, <1>9, <1>10, <1>11 DEF ProcessKeystrokes

LEMMA TypesHold ==
    /\ Init => Typed
    /\ Typed /\ [Next]_vars => Typed'
<1>1. ASSUME Init
      PROVE  Typed
  <2>1. TypeOK
    <3>1. binds \in [Popups -> Nat] /\ popups \subseteq Popups /\ history \subseteq {"left", "hasty", "strayed", "joined"}
      BY <1>1 DEF Init
    <3>2. at \in [Lists -> Nat \ {0}]
      <4>1. at = [v \in Lists |-> 1]
        BY <1>1 DEF Init
      <4> QED BY <4>1
    <3>5. top \in [Lists -> Nat] /\ \A v \in Lists : Visible(v, at[v])
      <4>1. at = [v \in Lists |-> 1] /\ top = [v \in Lists |-> 0]
        BY <1>1 DEF Init
      <4>2. \A v \in Lists : Height[v] \in Nat \ {0}
        BY HeightAssumption
      <4>3. \A v \in Lists : at[v] - top[v] \in 1 .. Height[v]
        BY <4>1, <4>2
      <4> QED BY <4>1, <4>3 DEF Visible
    <3>3. nesting \in [1 .. MaxNesting -> SampleKeys \cup {"", "."}]
      BY <1>1 DEF Init
    <3>4. phase = "run" /\ current \in Views /\ proc.pc = "idle"
      BY <1>1 DEF Init, Views, Idle
    <3> QED BY <3>1, <3>2, <3>3, <3>4, <3>5 DEF TypeOK
  <2>2. Calls
    <3>1. todo = <<>>
      BY <1>1 DEF Init
    <3>2. <<>> \in Seq(CallType) /\ DOMAIN <<>> = {}
      OBVIOUS
    <3> QED BY <3>1, <3>2, Zenon DEF Calls
  <2>3. Signals
    BY <1>1 DEF Init, Signals, Idle, Signal, IsSignal
  <2>4. Cursors
    <3>1. at["sources"] = 1 /\ at["targets"] = 1
      BY <1>1 DEF Init
    <3>2. ASSUME NEW l, IsList(l)
          PROVE  1 \in Entries(l)
      <4>1. l \in Seq(LineType) /\ Len(l) >= 1 /\ l[1] = [kind |-> "any", name |-> "*"]
        BY <3>2 DEF IsList
      <4>2. Len(l) \in Nat /\ DOMAIN l = 1 .. Len(l)
        BY <4>1, Elements, Zenon
      <4>3. 1 \in DOMAIN l /\ l[1].kind = "any"
        BY <4>1, <4>2
      <4> QED BY <4>3 DEF Entries
    <3> QED BY <3>1, <3>2, ManifestLists DEF Cursors
  <2> QED BY <2>1, <2>2, <2>3, <2>4 DEF Typed
<1>2. ASSUME Typed, [Next]_vars
      PROVE  Typed'
  <2>1. ASSUME UNCHANGED <<popups, current, at, top, todo, proc, nesting, history>>, phase' \in {phase, "saved"},
               binds' \in [Popups -> Nat], sending' \in {sending, <<>>}
        PROVE  Typed'
    BY <1>2, <2>1 DEF Typed, TypeOK, Calls, Signals, Cursors, Visible
  <2>2. CASE \E k \in Keys : Press(k)
    BY <1>2, <2>2, PressKeepsTypes
  <2>3. CASE Handlers
    BY <1>2, <2>3, HandlersKeepTypes
  <2>4. CASE ProcessKeystrokes
    BY <1>2, <2>4, ProcessorKeepsTypes
  <2>5. CASE PopTargetWarning
    <3>1. /\ popups' = popups \cup {"targetWarning"} /\ current' = "targetWarning"
          /\ binds' = [binds EXCEPT !["targetWarning"] = @ + 1]
          /\ UNCHANGED <<phase, at, top, todo, sending, proc, nesting, history>>
      BY <2>5 DEF PopTargetWarning
    <3>2. TypeOK'
      <4>1. "targetWarning" \in Popups /\ binds \in [Popups -> Nat]
        BY <1>2 DEF Typed, TypeOK, Popups
      <4>2. binds' \in [Popups -> Nat]
        BY <3>1, <4>1
      <4> QED BY <1>2, <3>1, <4>1, <4>2 DEF Typed, TypeOK, Views, Visible
    <3>3. Calls' /\ Signals' /\ Cursors'
      BY <1>2, <3>1 DEF Typed, Calls, Signals, Cursors
    <3> QED BY <3>2, <3>3 DEF Typed
  <2>6. CASE Edit \/ ReceiveName \/ Save \/ UNCHANGED vars
    <3>1. binds \in [Popups -> Nat]
      BY <1>2 DEF Typed, TypeOK
    <3>2. CASE Edit
      BY <2>1, <3>1, <3>2 DEF Edit, ui
    <3>3. CASE ReceiveName
      BY <2>1, <3>1, <3>3 DEF ReceiveName, ui
    <3>4. CASE Save
      BY <2>1, <3>1, <3>4 DEF Save, ui
    <3>5. CASE UNCHANGED vars
      BY <2>1, <3>1, <3>5 DEF vars, ui
    <3> QED BY <2>6, <3>2, <3>3, <3>4, <3>5
  <2> QED BY <1>2, <2>2, <2>3, <2>4, <2>5, <2>6 DEF Next
<1> QED BY <1>1, <1>2

(* The state of the wizard has its type: each popup's keys are bound a number of   *)
(* times, cursors are lines, and a level of the processor's position holds a   *)
(* key of a sample, a dot or nothing (Wizard, all of Next).                    *)
THEOREM WizardTypes == Spec => []TypeOK
<1>1. Typed => TypeOK
  BY DEF Typed
<1> QED BY <1>1, TypesHold, PTL DEF Spec
-----------------------------------------------------------------------------
(* The wizard of a user who closes each popup with its own keys and waits for the  *)
(* processor.  It goes through few stages: which popups there are, which calls *)
(* are still to be made, and who waits for whom.                              *)
Clean == history \cap {"left", "hasty"} = {}

Call(h, v) == [do |-> h, view |-> v]

MainViews == {"sources", "targets", "sourceEvent", "transformation"}

ViewHandlers == {"closeWindow", "switchToSources", "switchToTargets", "switchToTransformation",
                 "popTransformationNameView", "popOperationsView", "cursorUp", "cursorDown",
                 "sourceCursorRight", "sourceEventCursorLeft", "cursorUpEventSample",
                 "cursorDownEventSample", "wipeData", "resetTransformation"}

Quiet == sending = <<>> /\ proc.pc = "idle" /\ main = <<>>

(* Signals of the views, and those of the popup of operations.                 *)
OfViews(s) == s.origin \in Lists
              \/ (s.origin = "transformationOperation" /\ s.line = "delete")
OfPopup(s) == s.origin = "transformationOperation"

AtViews ==
    /\ popups = {} /\ current \in MainViews /\ main = <<>>
    /\ \/ /\ todo = <<>> /\ proc.pc # "input"
          /\ sending # <<>> => proc.pc = "idle" /\ OfViews(sending[1])
          /\ proc.pc = "got" => OfViews(proc.signal)
       \/ Quiet /\ \E h \in ViewHandlers : todo = <<Call(h, current)>>

AtOperations ==
    /\ popups = {"transformationOperation"} /\ current = "transformationOperation" /\ main = <<>>
    /\ \/ /\ todo = <<>> /\ proc.pc # "input"
          /\ sending # <<>> => proc.pc = "idle" /\ OfPopup(sending[1])
          /\ proc.pc = "got" => OfPopup(proc.signal)
       \/ Quiet /\ \E h \in {"closeWindow", "selectOperation"} : todo = <<Call(h, "transformationOperation")>>
       \/ sending = <<>> /\ proc.pc = "input" /\ todo = <<Call("inputClose", "operationValue")>>

AtValue ==
    /\ popups = {"transformationOperation", "operationValue"} /\ current = "operationValue" /\ main = <<>>
    /\ \/ sending = <<>> /\ proc.pc = "input"
             /\ todo \in {<<>>, <<Call("inputEnter", "operationValue")>>,
                          <<Call("closeWindow", "operationValue"), Call("inputClose", "operationValue")>>}
       \/ /\ todo = <<Call("closeInput", "operationValue")>>
          /\ sending # <<>> /\ sending[1].origin = "inputValue" /\ proc.pc = "input"
       \/ todo = <<Call("closeInput", "operationValue")>> /\ sending = <<>> /\ proc.pc \in {"apply", "idle"}

AtName ==
    /\ popups = {"transformationName"} /\ current = "transformationName" /\ proc.pc = "idle"
    /\ \/ /\ sending = <<>> /\ main = <<>>
          /\ todo \in {<<>>, <<Call("closeWindow", "transformationName")>>, <<Call("saveAndExit", "transformationName")>>}
       \/ /\ todo = <<Call("closeName", "transformationName")>>
          /\ main = <<>> /\ sending # <<>> /\ sending[1].origin = "createAndExit"
       \/ todo = <<Call("closeName", "transformationName")>> /\ main # <<>> /\ sending = <<>>

Naming ==
    /\ popups = {} /\ current = "transformationName" /\ todo = <<>> /\ sending = <<>>
    /\ proc.pc = "idle" /\ main # <<>>

AtWarning ==
    /\ current = "targetWarning" /\ Quiet
    /\ \/ popups = {"targetWarning"} /\ todo \in {<<>>, <<Call("closeWindow", "targetWarning")>>}
       \/ popups = {"transformationName", "targetWarning"} /\ todo = <<Call("closeName", "transformationName")>>

OneBinding == binds = [p \in Popups |-> IF p \in popups THEN 1 ELSE 0]

Stages == AtViews \/ AtOperations \/ AtValue \/ AtName \/ Naming \/ AtWarning

(* What such a user's handlers return an error for.                            *)
Excused == \/ "joined" \in history
           \/ at["sourceEvent"] \notin DOMAIN SampleLines
           \/ \E v \in {"sources", "targets"}, step \in {-1, 1} : HiddenHeader(v, at[v] + step)

Tidy ==
    Clean => /\ phase = "run" => OneBinding /\ Stages
             /\ phase = "error" => Excused

LEMMA StillExcused ==
    ASSUME Excused, UNCHANGED <<at, top, source>>, history \subseteq history'
    PROVE  Excused'
<1>1. SampleLines' = SampleLines
  BY DEF SampleLines
<1>2. CASE \E v \in {"sources", "targets"}, step \in {-1, 1} : HiddenHeader(v, at[v] + step)
  <2>1. PICK v \in {"sources", "targets"}, step \in {-1, 1} : HiddenHeader(v, at[v] + step)
    BY <1>2
  <2>2. HiddenHeader(v, at[v] + step)'
    BY <1>1, <2>1 DEF HiddenHeader, LinesOf, Visible
  <2> QED BY <2>2 DEF Excused
<1> QED BY <1>1, <1>2 DEF Excused

(* Lists of one or two calls.                                                 *)
LEMMA ShortLists ==
    /\ \A c : <<c>> # <<>> /\ Head(<<c>>) = c /\ Tail(<<c>>) = <<>>
    /\ \A c, d : <<c, d>> # <<>> /\ Head(<<c, d>>) = c /\ Tail(<<c, d>>) = <<d>>
    /\ \A c, d : <<c>> \o Tail(<<d>>) = <<c>>
<1>1. ASSUME NEW c
      PROVE  <<c>> # <<>> /\ Head(<<c>>) = c /\ Tail(<<c>>) = <<>>
  OBVIOUS
<1>2. ASSUME NEW c, NEW d
      PROVE  <<c, d>> # <<>> /\ Head(<<c, d>>) = c /\ Tail(<<c, d>>) = <<d>>
  OBVIOUS
<1>3. ASSUME NEW c, NEW d
      PROVE  <<c>> \o Tail(<<d>>) = <<c>>
  OBVIOUS
<1> QED BY <1>1, <1>2, <1>3, Zenon

(* The call that a stage has to make next.                                    *)
LEMMA NextCall ==
    ASSUME Stages, todo # <<>>, sending = <<>>, NEW h, h = Head(todo).do
    PROVE  \/ AtViews /\ Quiet /\ h \in ViewHandlers /\ V = current /\ Tail(todo) = <<>>
           \/ AtOperations /\ Quiet /\ h \in {"closeWindow", "selectOperation"} /\ V = "transformationOperation" /\ Tail(todo) = <<>>
           \/ AtOperations /\ proc.pc = "input" /\ h = "inputClose" /\ V = "operationValue" /\ Tail(todo) = <<>>
           \/ AtValue /\ proc.pc = "input" /\ h = "inputEnter" /\ V = "operationValue" /\ Tail(todo) = <<>>
              /\ \A c : <<c>> \o Tail(todo) = <<c>>
           \/ AtValue /\ proc.pc = "input" /\ h = "closeWindow" /\ V = "operationValue"
              /\ Tail(todo) = <<Call("inputClose", "operationValue")>>
           \/ AtValue /\ proc.pc \in {"apply", "idle"} /\ h = "closeInput" /\ V = "operationValue" /\ Tail(todo) = <<>>
           \/ AtName /\ main = <<>> /\ h \in {"closeWindow", "saveAndExit"} /\ V = "transformationName" /\ Tail(todo) = <<>>
              /\ \A c : <<c>> \o Tail(todo) = <<c>>
           \/ AtName /\ main # <<>> /\ h = "closeName" /\ V = "transformationName" /\ Tail(todo) = <<>>
           \/ AtWarning /\ h = "closeWindow" /\ V = "targetWarning" /\ popups = {"targetWarning"} /\ Tail(todo) = <<>>
           \/ AtWarning /\ h = "closeName" /\ V = "transformationName"
              /\ popups = {"transformationName", "targetWarning"} /\ Tail(todo) = <<>>
<1>1. ASSUME NEW c, NEW v, todo = <<Call(c, v)>>
      PROVE  h = c /\ V = v /\ Tail(todo) = <<>> /\ \A d : <<d>> \o Tail(todo) = <<d>>
  <2>1. Head(todo) = Call(c, v) /\ Tail(todo) = <<>> /\ \A d : <<d>> \o Tail(todo) = <<d>>
    BY <1>1, ShortLists, Zenon
  <2> QED BY <2>1 DEF V, Call
<1>2. ASSUME NEW c, NEW v, NEW d, todo = <<Call(c, v), d>>
      PROVE  h = c /\ V = v /\ Tail(todo) = <<d>>
  <2>1. Head(todo) = Call(c, v) /\ Tail(todo) = <<d>>
    BY <1>2, ShortLists, Zenon
  <2> QED BY <2>1 DEF V, Call
<1>3. CASE AtViews
  BY <1>1, <1>3 DEF AtViews
<1>4. CASE AtOperations
  BY <1>1, <1>4 DEF AtOperations
<1>5. CASE AtValue
  BY <1>1, <1>2, <1>5 DEF AtValue
<1>6. CASE AtName
  BY <1>1, <1>6 DEF AtName
<1>7. CASE Naming
  BY <1>7 DEF Naming
<1>8. CASE AtWarning
  BY <1>1, <1>8 DEF AtWarning
<1> QED BY <1>3, <1>4, <1>5, <1>6, <1>7, <1>8 DEF Stages

LEMMA CallsOfKeys ==
    ASSUME NEW v
    PROVE  /\ \A h : [i \in DOMAIN <<h>> |-> [do |-> <<h>>[i], view |-> v]] = <<Call(h, v)>>
           /\ \A g, h : [i \in DOMAIN <<g, h>> |-> [do |-> <<g, h>>[i], view |-> v]] = <<Call(g, v), Call(h, v)>>
<1>1. ASSUME NEW h
      PROVE  [i \in DOMAIN <<h>> |-> [do |-> <<h>>[i], view |-> v]] = <<Call(h, v)>>
  <2>1. DOMAIN <<h>> = {1} /\ <<h>>[1] = h
    OBVIOUS
  <2>2. [i \in DOMAIN <<h>> |-> [do |-> <<h>>[i], view |-> v]] = [i \in {1} |-> Call(h, v)]
    BY <2>1 DEF Call
  <2>3. [i \in {1} |-> Call(h, v)] = <<Call(h, v)>>
    OBVIOUS
  <2> QED BY <2>2, <2>3
<1>2. ASSUME NEW g, NEW h
      PROVE  [i \in DOMAIN <<g, h>> |-> [do |-> <<g, h>>[i], view |-> v]] = <<Call(g, v), Call(h, v)>>
  <2>1. DOMAIN <<g, h>> = {1, 2} /\ <<g, h>>[1] = g /\ <<g, h>>[2] = h
    OBVIOUS
  <2>2. [i \in DOMAIN <<g, h>> |-> [do |-> <<g, h>>[i], view |-> v]] = [i \in {1, 2} |-> IF i = 1 THEN Call(g, v) ELSE Call(h, v)]
    BY <2>1 DEF Call
  <2>3. [i \in {1, 2} |-> IF i = 1 THEN Call(g, v) ELSE Call(h, v)] = <<Call(g, v), Call(h, v)>>
    OBVIOUS
  <2> QED BY <2>2, <2>3
<1> QED BY <1>1, <1>2, Zenon

LEMMA PressKeepsTidy ==
    ASSUME Typed, Tidy, NEW k \in Keys, Press(k), Clean'
    PROVE  Tidy'
<1>1. /\ phase = "run" /\ todo = <<>> /\ sending = <<>> /\ Bound(k, current) # <<>>
      /\ todo' = [i \in DOMAIN Bound(k, current) |-> [do |-> Bound(k, current)[i], view |-> current]]
      /\ history' = history \cup Slips(k)
      /\ UNCHANGED <<phase, popups, binds, current, at, sending, proc, source, main>>
  BY DEF Press, ui
<1>2. Clean /\ OneBinding /\ Stages
  BY <1>1 DEF Clean, Tidy
<1>3. ~Busy /\ (current \in Popups => GlobalKey(k) \in {"", "closeWindow"})
  BY <1>1 DEF Clean, Slips
<1>4. proc.pc \in {"idle", "input"} /\ main = <<>>
  BY <1>3 DEF Busy
<1>5. current \in Views
  BY DEF Typed, TypeOK
<1>6. \/ AtViews /\ proc.pc = "idle"
      \/ AtOperations /\ proc.pc = "idle"
      \/ AtValue /\ proc.pc = "input"
      \/ AtName /\ proc.pc = "idle"
      \/ AtWarning /\ proc.pc = "idle" /\ popups = {"targetWarning"}
  <2>1. \A c : todo # <<c>>
    BY <1>1, ShortLists, Zenon
  <2> QED BY <1>1, <1>2, <1>4, <2>1 DEF Stages, AtViews, AtOperations, AtValue, AtName, Naming, AtWarning, Quiet
<1>7. current \in Popups => binds[current] = 1
  BY <1>2, <1>6 DEF OneBinding, AtViews, AtOperations, AtValue, AtName, AtWarning, Popups, MainViews
<1>8. Bound(k, current) = IF current = "operationValue" /\ k = "Ctrl-C" THEN <<"closeWindow", "inputClose">>
                     ELSE IF GlobalKey(k) # "" THEN <<GlobalKey(k)>>
                     ELSE IF ViewKey(current, k) # "" THEN <<ViewKey(current, k)>>
                     ELSE IF current \in Popups /\ PopupKey(current, k) # "" THEN <<PopupKey(current, k)>> ELSE <<>>
  BY <1>5, <1>7, CallsOnce
<1>9. ASSUME NEW h, Bound(k, current) = <<h>>
      PROVE  todo' = <<Call(h, current)>>
  BY <1>1, <1>9, CallsOfKeys, Zenon
<1>10. ASSUME NEW g, NEW h, Bound(k, current) = <<g, h>>
       PROVE  todo' = <<Call(g, current), Call(h, current)>>
  <2>1. todo' = [i \in DOMAIN <<g, h>> |-> [do |-> <<g, h>>[i], view |-> current]]
    BY <1>1, <1>10
  <2> QED BY <2>1, CallsOfKeys, Zenon
<1>11. OneBinding'
  BY <1>1, <1>2 DEF OneBinding
<1>12. Stages'
  <2>1. CASE AtViews /\ proc.pc = "idle"
    <3>1. current \in MainViews /\ current \notin Popups
      BY <2>1 DEF AtViews, MainViews, Popups
    <3>2. \E h \in ViewHandlers : Bound(k, current) = <<h>>
      BY <1>1, <1>8, <3>1, GlobalKeys, ViewKeys DEF ViewHandlers, Popups
    <3>3. \E h \in ViewHandlers : todo' = <<Call(h, current)>>
      BY <1>9, <3>2
    <3>4. AtViews'
      BY <1>1, <1>4, <2>1, <3>1, <3>3 DEF AtViews, Quiet
    <3> QED BY <3>4 DEF Stages
  <2>2. CASE AtOperations /\ proc.pc = "idle"
    <3>1. current = "transformationOperation"
      BY <2>2 DEF AtOperations
    <3>2. \E h \in {"closeWindow", "selectOperation"} : Bound(k, current) = <<h>>
      BY <1>1, <1>3, <1>8, <3>1, GlobalKeys, ViewKeys, PopupKeys DEF Popups
    <3>3. \E h \in {"closeWindow", "selectOperation"} : todo' = <<Call(h, "transformationOperation")>>
      BY <1>9, <3>1, <3>2
    <3>4. AtOperations'
      BY <1>1, <1>4, <2>2, <3>3 DEF AtOperations, Quiet
    <3> QED BY <3>4 DEF Stages
  <2>3. CASE AtValue /\ proc.pc = "input"
    <3>1. current = "operationValue"
      BY <2>3 DEF AtValue
    <3>2. Bound(k, current) \in {<<"inputEnter">>, <<"closeWindow", "inputClose">>}
      BY <1>1, <1>3, <1>8, <3>1, GlobalKeys, ViewKeys, PopupKeys DEF Popups
    <3>3. CASE Bound(k, current) = <<"inputEnter">>
      <4>1. todo' = <<Call("inputEnter", "operationValue")>>
        BY <1>9, <3>1, <3>3
      <4>2. AtValue'
        BY <1>1, <2>3, <4>1 DEF AtValue
      <4> QED BY <4>2 DEF Stages
    <3>4. CASE Bound(k, current) = <<"closeWindow", "inputClose">>
      <4>1. todo' = <<Call("closeWindow", "operationValue"), Call("inputClose", "operationValue")>>
        BY <1>10, <3>1, <3>4
      <4>2. AtValue'
        BY <1>1, <2>3, <4>1 DEF AtValue
      <4> QED BY <4>2 DEF Stages
    <3> QED BY <3>2, <3>3, <3>4
  <2>4. CASE AtName /\ proc.pc = "idle"
    <3>1. current = "transformationName"
      BY <2>4 DEF AtName
    <3>2. \E h \in {"closeWindow", "saveAndExit"} : Bound(k, current) = <<h>>
      BY <1>1, <1>3, <1>8, <3>1, GlobalKeys, ViewKeys, PopupKeys DEF Popups
    <3>3. todo' \in {<<Call("closeWindow", "transformationName")>>, <<Call("saveAndExit", "transformationName")>>}
      BY <1>9, <3>1, <3>2
    <3>4. AtName'
      BY <1>1, <1>4, <2>4, <3>3 DEF AtName
    <3> QED BY <3>4 DEF Stages
  <2>5. CASE AtWarning /\ proc.pc = "idle" /\ popups = {"targetWarning"}
    <3>1. current = "targetWarning"
      BY <2>5 DEF AtWarning
    <3>2. Bound(k, current) = <<"closeWindow">>
      BY <1>1, <1>3, <1>8, <3>1, GlobalKeys, ViewKeys, PopupKeys DEF Popups
    <3>3. todo' = <<Call("closeWindow", "targetWarning")>>
      BY <1>9, <3>1, <3>2
    <3>4. AtWarning'
      BY <1>1, <1>4, <2>5, <3>3 DEF AtWarning, Quiet
    <3> QED BY <3>4 DEF Stages
  <2> QED BY <1>6, <2>1, <2>2, <2>3, <2>4, <2>5
<1> QED BY <1>1, <1>11, <1>12 DEF Tidy

LEMMA PopupsAndBindings ==
    ASSUME OneBinding, NEW p \in Popups
    PROVE  /\ popups' = popups \ {p} /\ binds' = [binds EXCEPT ![p] = 0] => OneBinding'
           /\ p \notin popups /\ popups' = popups \cup {p} /\ binds' = [binds EXCEPT ![p] = @ + 1] => OneBinding'
<1>1. ASSUME popups' = popups \ {p}, binds' = [binds EXCEPT ![p] = 0]
      PROVE  OneBinding'
  BY <1>1 DEF OneBinding
<1>2. ASSUME p \notin popups, popups' = popups \cup {p}, binds' = [binds EXCEPT ![p] = @ + 1]
      PROVE  OneBinding'
  <2>1. binds[p] + 1 = 1
    BY <1>2 DEF OneBinding
  <2>2. binds' = [binds EXCEPT ![p] = 1]
    BY <1>2, <2>1
  <2> QED BY <1>2, <2>2 DEF OneBinding
<1> QED BY <1>1, <1>2

LEMMA CloseWindowTidy ==
    ASSUME Typed, Tidy, CloseWindow, Clean'
    PROVE  Tidy'
<1>1. /\ phase = "run" /\ todo # <<>> /\ Head(todo).do = "closeWindow" /\ sending = <<>>
      /\ UNCHANGED <<at, proc, source, main, sending>> /\ (history' = history \/ history' = history \cup {"strayed"})
  BY DEF CloseWindow, Do, Rest, End, ui
<1>2. Clean /\ OneBinding /\ Stages
  BY <1>1 DEF Clean, Tidy
<1>3. \/ AtViews /\ Quiet /\ V = current /\ Tail(todo) = <<>>
      \/ AtOperations /\ Quiet /\ V = "transformationOperation" /\ Tail(todo) = <<>>
      \/ AtValue /\ proc.pc = "input" /\ V = "operationValue" /\ Tail(todo) = <<Call("inputClose", "operationValue")>>
      \/ AtName /\ main = <<>> /\ V = "transformationName" /\ Tail(todo) = <<>>
      \/ AtWarning /\ V = "targetWarning" /\ popups = {"targetWarning"} /\ Tail(todo) = <<>>
  BY <1>1, <1>2, NextCall DEF ViewHandlers
<1>4. CASE AtViews /\ V = current
  <2>1. Under(V) = ""
    BY <1>4, Focus DEF AtViews, MainViews
  <2>2. phase' = "quit"
    BY <2>1 DEF CloseWindow, End
  <2> QED BY <2>2 DEF Tidy
<1>5. CASE ~(AtViews /\ V = current)
  <2>1. V \in popups /\ Under(V) \notin Popups \ popups /\ Under(V) # "" /\ V \in Popups
    BY <1>3, <1>5, Focus DEF AtOperations, AtValue, AtName, AtWarning, Popups
  <2>2. Delete(V, Under(V)) /\ todo' = Tail(todo) /\ UNCHANGED phase
    BY <2>1 DEF CloseWindow, Done
  <2>3. OneBinding'
    BY <1>2, <2>1, <2>2, PopupsAndBindings DEF Delete
  <2>4. CASE AtOperations /\ Quiet /\ V = "transformationOperation" /\ Tail(todo) = <<>>
    <3>1. current' = "sourceEvent" /\ popups' = {} /\ todo' = <<>>
      BY <2>2, <2>4, Focus DEF Delete, AtOperations
    <3>2. AtViews'
      BY <1>1, <2>4, <3>1 DEF AtViews, Quiet, MainViews
    <3> QED BY <1>1, <2>2, <2>3, <3>2 DEF Tidy, Stages
  <2>5. CASE AtValue /\ proc.pc = "input" /\ V = "operationValue" /\ Tail(todo) = <<Call("inputClose", "operationValue")>>
    <3>1. current' = "transformationOperation" /\ popups' = {"transformationOperation"}
      BY <2>2, <2>5, Focus DEF Delete, AtValue
    <3>2. AtOperations'
      BY <1>1, <2>2, <2>5, <3>1 DEF AtOperations, AtValue
    <3> QED BY <1>1, <2>2, <2>3, <3>2 DEF Tidy, Stages
  <2>6. CASE AtName /\ main = <<>> /\ V = "transformationName" /\ Tail(todo) = <<>>
    <3>1. current' = "sourceEvent" /\ popups' = {} /\ todo' = <<>>
      BY <2>2, <2>6, Focus DEF Delete, AtName
    <3>2. AtViews'
      BY <1>1, <2>6, <3>1 DEF AtViews, AtName, MainViews
    <3> QED BY <1>1, <2>2, <2>3, <3>2 DEF Tidy, Stages
  <2>7. CASE AtWarning /\ V = "targetWarning" /\ popups = {"targetWarning"} /\ Tail(todo) = <<>>
    <3>1. current' = "targets" /\ popups' = {} /\ todo' = <<>>
      BY <2>2, <2>7, Focus DEF Delete
    <3>2. AtViews'
      BY <1>1, <2>7, <3>1 DEF AtViews, AtWarning, Quiet, MainViews
    <3> QED BY <1>1, <2>2, <2>3, <3>2 DEF Tidy, Stages
  <2> QED BY <1>3, <1>5, <2>4, <2>5, <2>6, <2>7
<1> QED BY <1>4, <1>5

(* A call in a view that leaves a signal, or does nothing more.                *)
LEMMA ViewCallTidy ==
    ASSUME Tidy, Clean, AtViews, OneBinding, Quiet, Tail(todo) = <<>>, phase = "run",
           UNCHANGED <<proc, main>>,
           \/ Failed /\ UNCHANGED source /\ Excused /\ history \subseteq history'
           \/ /\ todo' = Tail(todo) /\ current' \in MainViews /\ UNCHANGED <<phase, popups, binds>>
              /\ sending' = sending \/ \E s : sending' = <<s>> /\ OfViews(s)
    PROVE  Tidy'
<1>1. CASE Failed /\ UNCHANGED source /\ Excused /\ history \subseteq history'
  <2>1. Excused'
    BY <1>1, StillExcused DEF Failed
  <2> QED BY <1>1, <2>1 DEF Failed, Tidy
<1>2. CASE /\ todo' = Tail(todo) /\ current' \in MainViews /\ UNCHANGED <<phase, popups, binds>>
           /\ sending' = sending \/ \E s : sending' = <<s>> /\ OfViews(s)
  <2>1. OneBinding'
    BY <1>2 DEF OneBinding
  <2>2. sending' # <<>> => OfViews(sending'[1])
    BY <1>2 DEF Quiet
  <2>3. AtViews'
    BY <1>2, <2>2 DEF AtViews, Quiet, OfViews
  <2> QED BY <1>2, <2>1, <2>3 DEF Tidy, Stages
<1> QED BY <1>1, <1>2

LEMMA SampleCursorSends ==
    ASSUME Typed, NEW h, NEW step \in {-1, 1}, CursorEventSample(h, step)
    PROVE  \/ /\ todo' = Tail(todo) /\ UNCHANGED <<phase, popups, binds, current, sending>>
              /\ at' = at \/ \E c : at' = [at EXCEPT !["sourceEvent"] = c]
           \/ \E where : /\ SendSignal(current, where) /\ where["sourceEvent"] \in DOMAIN SampleLines
                         /\ where["sources"] = at["sources"] /\ where["targets"] = at["targets"]
<1> DEFINE here  == at["sourceEvent"]
           inner == [i \in 1 .. Len(SampleLines) - 2 |-> SampleLines[i]]
           rests == {i \in DOMAIN inner : inner[i].key \notin Closers}
           there == MoveTo(rests, here, step)
           where == [at EXCEPT !["sourceEvent"] = there]
<1>1. CASE here + step \notin DOMAIN inner \/ there = here
  <2>1. \A w : MoveCursors(w) => at' = w
    BY DEF MoveCursors
  <2> QED BY <1>1, <2>1 DEF CursorEventSample, Done, ui
<1>2. CASE here + step \in DOMAIN inner /\ there # here
  <2>1. SendSignal(current, where)
    BY <1>2 DEF CursorEventSample
  <2>2. at \in [Lists -> Nat \ {0}]
    BY DEF Typed, TypeOK
  <2> DEFINE n == Len(SampleLines) - 2
  <2>3. n \in Nat /\ DOMAIN inner = 1 .. n /\ here \in Nat /\ 1 .. n \subseteq DOMAIN SampleLines
    BY <1>2, <2>2, ShownSample
  <2> HIDE DEF n, inner
  <2>4. rests \in SUBSET (1 .. n) /\ step \in Int
    BY <2>3
  <2> HIDE DEF rests
  <2>5. there \in rests \cup {here}
    BY <2>3, <2>4, Moves, Zenon
  <2> HIDE DEF there
  <2>6. there \in DOMAIN SampleLines
    BY <1>2, <2>3, <2>4, <2>5
  <2>7. where["sourceEvent"] = there /\ where["sources"] = at["sources"] /\ where["targets"] = at["targets"]
    BY <2>2
  <2> QED BY <2>1, <2>6, <2>7, Zenon
<1> QED BY <1>1, <1>2

LEMMA TypedCursors ==
    ASSUME Typed
    PROVE  /\ at["sources"] \in DOMAIN SourceLines /\ at["targets"] \in DOMAIN TargetLines /\ Cursors
           /\ at \in [Lists -> Nat \ {0}] /\ top["sourceEvent"] + 1 \in Nat \ {0}
<1>1. top["sourceEvent"] \in Nat
  BY DEF Typed, TypeOK
<1>2. top["sourceEvent"] + 1 \in Nat \ {0}
  BY <1>1
<1>3. at["sources"] \in DOMAIN SourceLines /\ at["targets"] \in DOMAIN TargetLines
  BY DEF Typed, Cursors, Entries
<1> QED BY <1>2, <1>3 DEF Typed, TypeOK

MayStray == history' \in {history, history \cup {"strayed"}}

LEMMA HandlersKeepTidy ==
    ASSUME Typed, Tidy, Handlers, Clean'
    PROVE  Tidy'
<1>1. /\ at["sources"] \in DOMAIN SourceLines /\ at["targets"] \in DOMAIN TargetLines /\ Cursors
      /\ at \in [Lists -> Nat \ {0}] /\ top["sourceEvent"] + 1 \in Nat \ {0}
  BY TypedCursors
<1>0. UNCHANGED history => MayStray
  BY DEF MayStray
<1>2. ASSUME NEW h, Do(h), MayStray
      PROVE  /\ phase = "run" /\ todo # <<>> /\ Head(todo).do = h /\ sending = <<>>
             /\ Clean /\ OneBinding /\ Stages
  BY <1>2 DEF Do, Clean, Tidy, MayStray
<1>3. ASSUME NEW h \in ViewHandlers \ {"closeWindow"}, Do(h), MayStray
      PROVE  AtViews /\ Quiet /\ V = current /\ Tail(todo) = <<>>
  BY <1>2, <1>3, NextCall DEF ViewHandlers
<1>4. ASSUME NEW h \in ViewHandlers \ {"closeWindow"}, Do(h), MayStray,
             UNCHANGED <<proc, main, source>>,
             NEW view \in Lists, NEW where, SendSignal(view, where),
             where["sources"] \in DOMAIN SourceLines, where["targets"] \in DOMAIN TargetLines,
             \/ where = at
             \/ view # "sourceEvent" /\ where["sourceEvent"] \in Nat
             \/ where["sourceEvent"] \in DOMAIN SampleLines
      PROVE  Tidy'
  <2>1. where["sourceEvent"] \in Nat
    <3>1. \A i \in DOMAIN SampleLines : i \in Nat
      BY ShownSample
    <3> QED BY <1>1, <1>4, <3>1
  <2>2. \/ Failed /\ view = "sourceEvent" /\ where["sourceEvent"] \notin DOMAIN SampleLines
        \/ \E line : /\ sending' = <<Signal(view, line)>>
                     /\ todo' = Tail(todo) /\ current' = view /\ UNCHANGED <<phase, popups, binds>>
    BY <1>1, <1>4, <2>1, Sends
  <2>3. \A line : OfViews(Signal(view, line))
    BY <1>4 DEF OfViews, Signal
  <2>4. current' = view => current' \in MainViews
    BY <1>4 DEF MainViews
  <2>5. CASE Failed /\ view = "sourceEvent" /\ where["sourceEvent"] \notin DOMAIN SampleLines
    <3>1. where = at
      BY <1>4, <2>5
    <3>2. Excused /\ history \subseteq history'
      BY <1>4, <2>5, <3>1 DEF Excused, MayStray
    <3> QED BY <1>2, <1>3, <1>4, <2>5, <3>2, ViewCallTidy
  <2>6. CASE \E line : /\ sending' = <<Signal(view, line)>>
                       /\ todo' = Tail(todo) /\ current' = view /\ UNCHANGED <<phase, popups, binds>>
    BY <1>2, <1>3, <1>4, <2>3, <2>4, <2>6, ViewCallTidy
  <2> QED BY <2>2, <2>5, <2>6
<1>5. ASSUME NEW h \in ViewHandlers \ {"closeWindow"}, Do(h), MayStray,
             UNCHANGED <<proc, main>>, todo' = Tail(todo), current' \in {current, "transformation"},
             UNCHANGED <<phase, popups, binds>>,
             \/ sending' = sending
             \/ \E s : sending' = <<s>> /\ OfViews(s)
      PROVE  Tidy'
  <2>1. current' \in MainViews
    BY <1>3, <1>5 DEF AtViews, MainViews
  <2> QED BY <1>2, <1>3, <1>5, <2>1, ViewCallTidy
<1>6. {"switchToSources", "switchToTargets", "switchToTransformation", "sourceCursorRight", "sourceEventCursorLeft",
       "cursorUp", "cursorDown", "cursorUpEventSample", "cursorDownEventSample", "wipeData", "resetTransformation",
       "popOperationsView", "popTransformationNameView"} \subseteq ViewHandlers \ {"closeWindow"}
  BY DEF ViewHandlers
<1>7. CASE CloseWindow
  BY <1>7, CloseWindowTidy
<1>8. CASE SelectOperation
  <2>1. Do("selectOperation") /\ SendSignal(current, at) /\ UNCHANGED <<history, proc, main, source>>
    BY <1>8 DEF SelectOperation, Rest
  <2>2. AtOperations /\ Quiet /\ Tail(todo) = <<>> /\ current = "transformationOperation"
    BY <1>0, <1>2, <2>1, NextCall DEF ViewHandlers, AtOperations
  <2>3. \E line : /\ sending' = <<Signal(current, line)>>
                  /\ todo' = Tail(todo) /\ current' = current /\ UNCHANGED <<phase, popups, binds>>
    BY <1>0, <1>1, <2>1, <2>2, Sends
  <2>4. \A line : OfPopup(Signal(current, line))
    BY <2>2 DEF OfPopup, Signal
  <2>5. sending' # <<>> /\ OfPopup(sending'[1])
    BY <2>3, <2>4
  <2>6. AtOperations' /\ OneBinding'
    BY <1>0, <1>2, <2>1, <2>2, <2>3, <2>5 DEF AtOperations, Quiet, OfPopup, OneBinding
  <2> QED BY <1>0, <1>2, <2>1, <2>3, <2>6 DEF Tidy, Stages
<1>9. ASSUME NEW h \in {"switchToSources", "switchToTargets"}, NEW view \in {"sources", "targets"}, SwitchTo(h, view)
      PROVE  Tidy'
  <2>1. Do(h) /\ UNCHANGED <<history, proc, main, source>>
    BY <1>9 DEF SwitchTo, Rest
  <2>2. CASE V = view
    <3>1. todo' = Tail(todo) /\ UNCHANGED <<phase, popups, binds, current, sending>>
      BY <1>9, <2>2 DEF SwitchTo, Done, ui
    <3> QED BY <1>0, <1>5, <1>6, <2>1, <3>1
  <2>3. CASE V # view
    <3>1. SendSignal(view, at)
      BY <1>9, <2>3 DEF SwitchTo
    <3> QED BY <1>0, <1>1, <1>4, <1>6, <2>1, <3>1
  <2> QED BY <2>2, <2>3
<1>10. CASE SwitchToTransformation
  <2>1. /\ Do("switchToTransformation") /\ todo' = Tail(todo) /\ current' = "transformation"
        /\ UNCHANGED <<phase, popups, binds, sending, history, proc, main>>
    BY <1>10 DEF SwitchToTransformation, Done, Rest
  <2> QED BY <1>0, <1>5, <1>6, <2>1
<1>11. CASE SourceCursorRight
  <2>1. /\ Do("sourceCursorRight") /\ UNCHANGED <<proc, main, source>>
        /\ MayStray
    BY <1>11 DEF SourceCursorRight, Rest, MayStray
  <2>2. CASE HasSample
    <3>1. SendSignal("sourceEvent", at)
      BY <1>11, <2>2 DEF SourceCursorRight
    <3> QED BY <1>0, <1>1, <1>4, <1>6, <2>1, <3>1
  <2>3. CASE ~HasSample
    <3>1. todo' = Tail(todo) /\ UNCHANGED <<phase, popups, binds, current, sending>>
      BY <1>11, <2>3 DEF SourceCursorRight, Done, ui
    <3> QED BY <1>0, <1>5, <1>6, <2>1, <3>1
  <2> QED BY <2>2, <2>3
<1>12. CASE SourceEventCursorLeft
  <2> DEFINE where == [at EXCEPT !["sourceEvent"] = top["sourceEvent"] + 1]
  <2>1. Do("sourceEventCursorLeft") /\ SendSignal("sources", where) /\ UNCHANGED <<history, proc, main, source>>
    BY <1>12 DEF SourceEventCursorLeft, Rest
  <2>2. where["sources"] = at["sources"] /\ where["targets"] = at["targets"] /\ where["sourceEvent"] \in Nat
    BY <1>1
  <2> HIDE DEF where
  <2> QED BY <1>0, <1>1, <1>4, <1>6, <2>1, <2>2
<1>13. ASSUME NEW h \in {"cursorUp", "cursorDown"}, NEW step \in {-1, 1}, CursorList(h, step)
       PROVE  Tidy'
  <2> DEFINE there == MoveTo(Entries(LinesOf(V)), at[V], step)
             where == [at EXCEPT ![V] = there]
  <2>1. Do(h) /\ UNCHANGED <<history, proc, main, source>>
    BY <1>13 DEF CursorList, Rest, End
  <2>2. CASE there = at[V]
    <3>1. todo' = Tail(todo) /\ UNCHANGED <<phase, popups, binds, current, sending>>
      BY <1>13, <2>2 DEF CursorList, Done, ui
    <3> QED BY <1>0, <1>5, <1>6, <2>1, <3>1
  <2>3. V \in {"sources", "targets"} /\ current = V
    <3>1. Fits(Head(todo)) /\ Head(todo).view = V /\ Head(todo).do = h
      BY <1>0, <1>2, <2>1, FirstCall DEF Typed, V
    <3> QED BY <1>0, <1>3, <1>6, <1>13, <2>1, <3>1 DEF Fits
  <2>4. CASE there # at[V] /\ HiddenHeader(V, at[V] + step)
    <3>1. Failed
      BY <1>13, <2>4 DEF CursorList, End, Failed, ui
    <3>2. Excused
      BY <2>3, <2>4 DEF Excused
    <3> QED BY <1>0, <1>2, <1>3, <1>6, <2>1, <3>1, <3>2, ViewCallTidy
  <2>5. CASE there # at[V] /\ ~HiddenHeader(V, at[V] + step)
    <3>1. SendSignal(current, where)
      BY <1>13, <2>5 DEF CursorList
    <3>2. V \in {"sources", "targets"} /\ current = V
      BY <2>3
    <3>3. PICK n \in Nat : DOMAIN LinesOf(V) = 1 .. n
      BY <3>2, ManifestLists, Elements DEF IsList, LinesOf
    <3>4. at[V] \in Entries(LinesOf(V)) /\ Entries(LinesOf(V)) \in SUBSET (1 .. n) /\ at[V] \in Nat /\ step \in Int
      BY <1>0, <1>1, <1>13, <3>2, <3>3 DEF Entries, LinesOf, Cursors
    <3>5. there \in Entries(LinesOf(V)) \cup {at[V]}
      BY <3>3, <3>4, Moves, Zenon
    <3> HIDE DEF there
    <3>6. there \in DOMAIN LinesOf(V)
      BY <3>3, <3>4, <3>5
    <3>7. /\ where["sources"] \in DOMAIN SourceLines /\ where["targets"] \in DOMAIN TargetLines
          /\ where["sourceEvent"] \in Nat
      BY <1>0, <1>1, <3>2, <3>6 DEF LinesOf
    <3> HIDE DEF where
    <3> QED BY <1>0, <1>4, <1>6, <2>1, <3>1, <3>2, <3>7
  <2> QED BY <2>2, <2>4, <2>5
<1>14. ASSUME NEW h \in {"cursorUpEventSample", "cursorDownEventSample"}, NEW step \in {-1, 1}, CursorEventSample(h, step)
       PROVE  Tidy'
  <2>1. Do(h) /\ UNCHANGED <<proc, main, source>> /\ MayStray
    BY <1>14 DEF CursorEventSample, Rest, MayStray
  <2>2. CASE todo' = Tail(todo) /\ UNCHANGED <<phase, popups, binds, current, sending>>
    BY <1>0, <1>5, <1>6, <2>1, <2>2
  <2>3. CASE \E where : /\ SendSignal(current, where) /\ where["sourceEvent"] \in DOMAIN SampleLines
                        /\ where["sources"] = at["sources"] /\ where["targets"] = at["targets"]
    <3>1. current = "sourceEvent"
      <4>1. Fits(Head(todo)) /\ Head(todo).view = V /\ Head(todo).do = h
        BY <1>0, <1>2, <2>1, FirstCall DEF Typed, V
      <4> QED BY <1>0, <1>3, <1>6, <1>14, <2>1, <4>1 DEF Fits
    <3> QED BY <1>0, <1>1, <1>4, <1>6, <2>1, <2>3, <3>1
  <2> QED BY <1>14, <2>2, <2>3, SampleCursorSends
<1>15. CASE WipeData
  <2> DEFINE s == [origin |-> "transformationOperation", line |-> "delete", isHotKey |-> TRUE]
  <2>1. /\ Do("wipeData") /\ todo' = Tail(todo) /\ sending' = <<s>>
        /\ UNCHANGED <<phase, popups, binds, current, history, proc, main>>
    BY <1>15 DEF WipeData, Done, Rest, ui
  <2>2. OfViews(s)
    BY DEF OfViews
  <2> HIDE DEF s
  <2> QED BY <1>0, <1>5, <1>6, <2>1, <2>2
<1>16. CASE ResetTransformation
  <2>1. /\ Do("resetTransformation") /\ todo' = Tail(todo)
        /\ UNCHANGED <<phase, popups, binds, current, sending, history, proc, main>>
    BY <1>16 DEF ResetTransformation, Done, Rest, ui
  <2> QED BY <1>0, <1>5, <1>6, <2>1
<1>17. ASSUME NEW h \in {"popOperationsView", "popTransformationNameView"},
              NEW p \in {"transformationOperation", "transformationName"}, Pop(h, p)
       PROVE  Tidy'
  <2>1. /\ Do(h) /\ todo' = Tail(todo) /\ UNCHANGED <<phase, sending, history, proc, main>>
        /\ popups' = popups \cup {p} /\ binds' = [binds EXCEPT ![p] = @ + 1] /\ current' = p
    BY <1>17 DEF Pop, Done, Rest
  <2>2. AtViews /\ Quiet /\ Tail(todo) = <<>>
    BY <1>0, <1>3, <1>6, <2>1
  <2>3. popups = {} /\ p \in Popups
    BY <2>2 DEF AtViews, Popups
  <2>4. OneBinding'
    BY <1>0, <1>2, <2>1, <2>3, PopupsAndBindings
  <2>5. CASE p = "transformationOperation"
    <3>1. AtOperations'
      BY <2>1, <2>2, <2>3, <2>5 DEF AtOperations, Quiet
    <3> QED BY <1>0, <1>2, <2>1, <2>4, <3>1 DEF Tidy, Stages
  <2>6. CASE p = "transformationName"
    <3>1. AtName'
      BY <2>1, <2>2, <2>3, <2>6 DEF AtName, Quiet
    <3> QED BY <1>0, <1>2, <2>1, <2>4, <3>1 DEF Tidy, Stages
  <2> QED BY <2>5, <2>6
<1>18. CASE SaveAndExit
  <2>1. /\ Do("saveAndExit") /\ sending' = <<Signal("createAndExit", "name")>>
        /\ todo' = <<Call("closeName", V)>> \o Tail(todo)
        /\ UNCHANGED <<phase, popups, binds, current, history, proc, main>>
    BY <1>18 DEF SaveAndExit, Rest, ui, Call
  <2>2. AtName /\ main = <<>> /\ V = "transformationName" /\ \A c : <<c>> \o Tail(todo) = <<c>>
    BY <1>0, <1>2, <2>1, NextCall DEF ViewHandlers
  <2>3. todo' = <<Call("closeName", "transformationName")>>
    BY <2>1, <2>2
  <2>4. sending' # <<>> /\ sending'[1].origin = "createAndExit"
    BY <2>1 DEF Signal
  <2>5. AtName' /\ OneBinding'
    BY <1>0, <1>2, <2>1, <2>2, <2>3, <2>4 DEF AtName, OneBinding
  <2> QED BY <1>0, <1>2, <2>1, <2>5 DEF Tidy, Stages
<1>19. CASE CloseName
  <2>1. Do("closeName") /\ UNCHANGED <<history, proc, main>>
    BY <1>19 DEF CloseName, Rest, End
  <2>2. \/ AtName /\ main # <<>> /\ V = "transformationName" /\ Tail(todo) = <<>>
        \/ AtWarning /\ V = "transformationName" /\ popups = {"transformationName", "targetWarning"} /\ Tail(todo) = <<>>
    BY <1>0, <1>2, <2>1, NextCall DEF ViewHandlers
  <2>3. V \in popups /\ V \in Popups
    BY <2>2 DEF AtName, Popups
  <2>4. Delete(V, current) /\ todo' = Tail(todo) /\ UNCHANGED <<phase, sending>>
    BY <1>19, <2>3 DEF CloseName, Done
  <2>5. OneBinding'
    BY <1>0, <1>2, <2>1, <2>3, <2>4, PopupsAndBindings DEF Delete
  <2>6. CASE AtName /\ main # <<>>
    <3>1. Naming'
      BY <1>0, <1>2, <2>1, <2>2, <2>4, <2>6 DEF Naming, AtName, Delete, AtWarning
    <3> QED BY <1>0, <1>2, <2>1, <2>4, <2>5, <3>1 DEF Tidy, Stages
  <2>7. CASE AtWarning /\ popups = {"transformationName", "targetWarning"}
    <3>1. AtWarning'
      BY <1>0, <1>2, <2>1, <2>2, <2>4, <2>7 DEF AtWarning, Delete, Quiet
    <3> QED BY <1>0, <1>2, <2>1, <2>4, <2>5, <3>1 DEF Tidy, Stages
  <2> QED BY <2>2, <2>6, <2>7
<1>20. CASE InputEnter
  <2>1. Do("inputEnter") /\ UNCHANGED <<popups, binds, current, proc, main>>
    BY <1>20 DEF InputEnter, Rest, ui
  <2>2. CASE phase' = "error" /\ history' = history \cup {"joined"}
    BY <2>2 DEF Tidy, Excused
  <2>3. CASE /\ \E v \in Values : sending' = <<Signal("inputValue", v)>>
             /\ todo' = <<Call("closeInput", V)>> \o Tail(todo) /\ UNCHANGED <<phase, history>>
    <3>1. PICK v \in Values : sending' = <<Signal("inputValue", v)>>
      BY <2>3
    <3>2. AtValue /\ proc.pc = "input" /\ V = "operationValue" /\ \A c : <<c>> \o Tail(todo) = <<c>>
      BY <1>0, <1>2, <2>1, <2>3, NextCall DEF ViewHandlers
    <3>3. todo' = <<Call("closeInput", "operationValue")>>
      BY <2>3, <3>2
    <3>4. sending' # <<>> /\ sending'[1].origin = "inputValue"
      BY <3>1 DEF Signal
    <3>5. AtValue' /\ OneBinding'
      BY <1>0, <1>2, <2>1, <2>3, <3>2, <3>3, <3>4 DEF AtValue, OneBinding
    <3> QED BY <1>0, <1>2, <2>1, <2>3, <3>5 DEF Tidy, Stages
  <2> QED BY <1>20, <2>2, <2>3 DEF InputEnter, Call
<1>21. CASE CloseInput
  <2>1. Do("closeInput") /\ UNCHANGED <<history, proc, main>>
    BY <1>21 DEF CloseInput, Rest, End
  <2>2. AtValue /\ proc.pc \in {"apply", "idle"} /\ V = "operationValue" /\ Tail(todo) = <<>>
    BY <1>0, <1>2, <2>1, NextCall DEF ViewHandlers
  <2>3. /\ popups' = popups \ {"operationValue", "transformationOperation"}
        /\ binds' = [binds EXCEPT !["operationValue"] = 0, !["transformationOperation"] = 0]
        /\ current' = "sourceEvent" /\ todo' = Tail(todo) /\ UNCHANGED <<phase, sending>>
    BY <1>21, <2>2 DEF CloseInput, Done, AtValue
  <2>4. OneBinding'
    BY <1>0, <1>2, <2>1, <2>3 DEF OneBinding, Popups
  <2>5. AtViews'
    BY <1>0, <1>2, <2>1, <2>2, <2>3 DEF AtViews, AtValue, MainViews
  <2> QED BY <1>0, <1>2, <2>1, <2>3, <2>4, <2>5 DEF Tidy, Stages
<1>22. CASE InputClose
  <2>1. Do("inputClose") /\ UNCHANGED <<history, main>>
    BY <1>22 DEF InputClose, End
  <2>2. AtOperations /\ proc.pc = "input" /\ Tail(todo) = <<>>
    BY <1>0, <1>2, <2>1, NextCall DEF ViewHandlers
  <2>3. /\ proc' = [proc EXCEPT !.pc = "apply", !.path = <<>>, !.value = <<>>]
        /\ todo' = Tail(todo) /\ UNCHANGED <<phase, popups, binds, current, sending>>
    BY <1>22, <2>2 DEF InputClose, Done, ui
  <2>4. proc'.pc = "apply"
    BY <2>3 DEF Typed, Signals
  <2>5. AtOperations' /\ OneBinding'
    BY <1>0, <1>2, <2>1, <2>2, <2>3, <2>4 DEF AtOperations, OneBinding
  <2> QED BY <1>0, <1>2, <2>1, <2>3, <2>5 DEF Tidy, Stages
<1> QED BY <1>7, <1>8, <1>9, <1>10, <1>11, <1>12, <1>13, <1>14, <1>15, <1>16, <1>17, <1>18, <1>19, <1>20, <1>21, <1>22
        DEF Handlers

(* The processor is with the signal that it got.                              *)
LEMMA GotTidy ==
    ASSUME Stages, NEW origin, Got(origin)
    PROVE  /\ proc.signal.origin = origin /\ todo = <<>> /\ sending = <<>> /\ main = <<>>
           /\ \/ AtViews /\ OfViews(proc.signal) /\ popups = {} /\ current \in MainViews
              \/ AtOperations /\ OfPopup(proc.signal) /\ popups = {"transformationOperation"}
                 /\ current = "transformationOperation"
BY DEF Got, Stages, AtViews, AtOperations, AtValue, AtName, Naming, AtWarning, Quiet

LEMMA ProcessorKeepsTidy ==
    ASSUME Typed, Tidy, ProcessKeystrokes, Clean'
    PROVE  Tidy'
<1>1. phase = "run" /\ UNCHANGED <<at, todo, main, history>> /\ Clean
  BY DEF ProcessKeystrokes, Receive, Got, SelectSource, SelectTarget, WalkSample, ReadOperation, ReceiveInput,
         Apply, ui, Clean
<1>2. OneBinding /\ Stages /\ proc = [pc |-> proc.pc, signal |-> proc.signal, path |-> proc.path, value |-> proc.value]
  BY <1>1 DEF Tidy, Typed, Signals
<1>3. Idle.pc = "idle"
  BY DEF Idle
<1>4. ASSUME UNCHANGED <<popups, binds>>
      PROVE  OneBinding'
  BY <1>2, <1>4 DEF OneBinding
<1>5. CASE Receive
  <2>1. sending # <<>> /\ sending[1].origin \notin {"createAndExit", "inputValue"} /\ proc.pc = "idle"
    BY <1>5 DEF Receive, ToProcessor
  <2>2. sending' = <<>> /\ UNCHANGED <<phase, popups, binds, current>>
    BY <1>5 DEF Receive, ui
  <2>3. CASE AtViews
    <3>1. todo = <<>> /\ OfViews(sending[1]) /\ sending[1].origin \in Origins
      BY <2>1, <2>3 DEF AtViews, Quiet, OfViews, Origins
    <3>2. proc'.pc = "got" /\ proc'.signal = sending[1]
      BY <1>2, <1>5, <3>1 DEF Receive
    <3>3. AtViews'
      BY <1>1, <2>2, <2>3, <3>1, <3>2 DEF AtViews, OfViews
    <3> QED BY <1>4, <2>2, <1>1, <3>3 DEF Tidy, Stages
  <2>4. CASE AtOperations
    <3>1. todo = <<>> /\ OfPopup(sending[1]) /\ sending[1].origin \in Origins
      BY <2>1, <2>4 DEF AtOperations, Quiet, OfPopup, Origins
    <3>2. proc'.pc = "got" /\ proc'.signal = sending[1]
      BY <1>2, <1>5, <3>1 DEF Receive
    <3>3. AtOperations'
      BY <1>1, <2>2, <2>4, <3>1, <3>2 DEF AtOperations, OfPopup
    <3> QED BY <1>4, <2>2, <1>1, <3>3 DEF Tidy, Stages
  <2> QED BY <1>2, <2>1, <2>3, <2>4 DEF Stages, AtValue, AtName, Naming, AtWarning, Quiet
<1>6. ASSUME NEW origin, Got(origin), proc' = Idle, UNCHANGED <<phase, popups, binds, current, sending>>
      PROVE  Tidy'
  <2>1. proc'.pc = "idle"
    BY <1>3, <1>6
  <2>2. Stages'
    BY <1>1, <1>2, <1>6, <2>1, GotTidy DEF Stages, AtViews, AtOperations
  <2> QED BY <1>1, <1>4, <1>6, <2>2 DEF Tidy
<1>7. CASE SelectSource
  BY <1>6, <1>7 DEF SelectSource, ui
<1>8. CASE SelectTarget
  BY <1>6, <1>8 DEF SelectTarget, ui
<1>9. CASE WalkSample
  <2>1. Got("sourceEvent") /\ UNCHANGED <<popups, binds, current, sending>>
        /\ (phase' = "panic" \/ (proc' = Idle /\ UNCHANGED phase))
    BY <1>9 DEF WalkSample, ui
  <2> QED BY <1>6, <2>1 DEF Tidy
<1>10. CASE ReadOperation
  <2> DEFINE op == "transformationOperation"
  <2>1. Got(op) /\ UNCHANGED <<phase, sending>>
    BY <1>10 DEF ReadOperation
  <2>2. CASE proc.signal.line \in {"delete", "parse"}
    <3>1. Delete(op, "sourceEvent") /\ \E p : proc' = [proc EXCEPT !.pc = "apply", !.path = p]
      BY <1>10, <2>2 DEF ReadOperation
    <3>2. proc'.pc = "apply"
      BY <1>2, <3>1
    <3>3. OneBinding' /\ popups' = {} /\ current' = "sourceEvent"
      BY <1>2, <2>1, <3>1, GotTidy, PopupsAndBindings DEF Delete, Popups
    <3>4. AtViews'
      BY <1>1, <1>2, <2>1, <3>2, <3>3, GotTidy DEF AtViews, MainViews
    <3> QED BY <1>1, <2>1, <3>3, <3>4 DEF Tidy, Stages
  <2>3. CASE proc.signal.line \notin {"delete", "parse"}
    <3>1. /\ popups' = popups \cup {"operationValue"} /\ current' = "operationValue"
          /\ binds' = [binds EXCEPT !["operationValue"] = @ + 1]
          /\ \E p : proc' = [proc EXCEPT !.pc = "input", !.path = p]
      BY <1>10, <2>3 DEF ReadOperation
    <3>2. proc'.pc = "input"
      BY <1>2, <3>1
    <3>3. popups = {op}
      BY <1>2, <2>1, <2>3, GotTidy DEF OfViews
    <3>4. OneBinding'
      BY <1>2, <3>1, <3>3, PopupsAndBindings DEF Popups
    <3>5. AtValue'
      BY <1>1, <1>2, <2>1, <3>1, <3>2, <3>3, GotTidy DEF AtValue
    <3> QED BY <1>1, <2>1, <3>4, <3>5 DEF Tidy, Stages
  <2> QED BY <2>2, <2>3
<1>11. CASE ReceiveInput
  <2>1. /\ proc.pc = "input" /\ sending # <<>> /\ sending[1].origin = "inputValue"
        /\ sending' = <<>> /\ UNCHANGED <<phase, popups, binds, current>>
        /\ \E v, p : proc' = [proc EXCEPT !.pc = "apply", !.value = v, !.path = p]
    BY <1>11 DEF ReceiveInput, ui
  <2>2. proc'.pc = "apply"
    BY <1>2, <2>1
  <2>3. AtValue /\ todo = <<Call("closeInput", "operationValue")>>
    BY <1>2, <2>1 DEF Stages, AtViews, AtOperations, AtValue, AtName, Naming, AtWarning, Quiet
  <2>4. AtValue'
    BY <1>1, <2>1, <2>2, <2>3 DEF AtValue
  <2> QED BY <1>1, <1>4, <2>1, <2>4 DEF Tidy, Stages
<1>12. CASE Apply
  <2>1. proc.pc = "apply" /\ UNCHANGED <<phase, popups, binds, current, sending>> /\ proc'.pc = "idle"
    BY <1>3, <1>12 DEF Apply, ui
  <2>2. \/ AtViews /\ todo = <<>> /\ sending = <<>>
        \/ AtOperations /\ todo = <<>> /\ sending = <<>>
        \/ AtValue /\ todo = <<Call("closeInput", "operationValue")>> /\ sending = <<>>
    BY <1>2, <2>1 DEF Stages, AtViews, AtOperations, AtValue, AtName, Naming, AtWarning, Quiet
  <2>3. Stages'
    BY <1>1, <2>1, <2>2 DEF Stages, AtViews, AtOperations, AtValue
  <2> QED BY <1>1, <1>4, <2>1, <2>3 DEF Tidy
<1> QED BY <1>5, <1>7, <1>8, <1>9, <1>10, <1>11, <1>12 DEF ProcessKeystrokes

LEMMA TidyHolds ==
    /\ Init => Tidy
    /\ Typed /\ Tidy /\ [Next]_vars => Tidy'
<1>1. ASSUME Init
      PROVE  Tidy
  <2>1. AtViews
    BY <1>1 DEF Init, AtViews, MainViews, Idle
  <2>2. OneBinding
    BY <1>1 DEF Init, OneBinding
  <2> QED BY <1>1, <2>1, <2>2 DEF Init, Tidy, Stages
<1>2. ASSUME Typed, Tidy, [Next]_vars
      PROVE  Tidy'
  <2>1. CASE ~Clean'
    BY <2>1 DEF Tidy
  <2>2. CASE Clean'
    <3>1. ASSUME UNCHANGED <<phase, popups, binds, current, at, top, todo, sending, proc, source, main, history>>
          PROVE  Tidy'
      <4>1. Clean = Clean' /\ OneBinding = OneBinding' /\ (Excused => Excused')
        BY <3>1, StillExcused DEF Clean, OneBinding
      <4>2. Stages' = Stages
        BY <3>1 DEF Stages, AtViews, AtOperations, AtValue, AtName, Naming, AtWarning, Quiet, OfViews, OfPopup
      <4> QED BY <1>2, <3>1, <4>1, <4>2 DEF Tidy
    <3>2. CASE UNCHANGED vars \/ Edit
      BY <3>1, <3>2 DEF vars, ui, Edit
    <3>3. ASSUME NEW k \in Keys, Press(k)
          PROVE  Tidy'
      BY <1>2, <2>2, <3>3, PressKeepsTidy
    <3>4. CASE Handlers
      BY <1>2, <2>2, <3>4, HandlersKeepTidy
    <3>5. CASE ProcessKeystrokes
      BY <1>2, <2>2, <3>5, ProcessorKeepsTidy
    <3>6. CASE ReceiveName
      <4>1. /\ phase = "run" /\ sending # <<>> /\ sending[1].origin = "createAndExit"
            /\ main' # <<>> /\ sending' = <<>>
            /\ UNCHANGED <<phase, popups, binds, current, todo, proc, history>>
        BY <3>6 DEF ReceiveName, ui
      <4>2. Clean /\ OneBinding /\ Stages
        BY <1>2, <2>2, <4>1 DEF Clean, Tidy
      <4>3. AtName /\ todo = <<Call("closeName", "transformationName")>>
        BY <4>1, <4>2 DEF Stages, AtViews, AtOperations, AtValue, AtName, Naming, AtWarning, Quiet, OfViews, OfPopup
      <4>4. AtName' /\ OneBinding'
        BY <4>1, <4>2, <4>3 DEF AtName, OneBinding
      <4> QED BY <4>1, <4>4 DEF Tidy, Stages
    <3>7. CASE PopTargetWarning
      <4>1. /\ phase = "run" /\ main # <<>> /\ main' = <<>>
            /\ popups' = popups \cup {"targetWarning"} /\ current' = "targetWarning"
            /\ binds' = [binds EXCEPT !["targetWarning"] = @ + 1]
            /\ UNCHANGED <<phase, todo, sending, proc, history>>
        BY <3>7 DEF PopTargetWarning
      <4>2. Clean /\ OneBinding /\ Stages
        BY <1>2, <2>2, <4>1 DEF Clean, Tidy
      <4>3. /\ sending = <<>> /\ proc.pc = "idle"
            /\ \/ popups = {"transformationName"} /\ todo = <<Call("closeName", "transformationName")>>
               \/ popups = {} /\ todo = <<>>
        BY <4>1, <4>2 DEF Stages, AtViews, AtOperations, AtValue, AtName, Naming, AtWarning, Quiet
      <4>4. OneBinding'
        BY <4>1, <4>2, <4>3, PopupsAndBindings DEF Popups
      <4>5. AtWarning'
        BY <4>1, <4>3 DEF AtWarning, Quiet
      <4> QED BY <4>1, <4>4, <4>5 DEF Tidy, Stages
    <3>8. CASE Save
      BY <3>8 DEF Save, Tidy
    <3> QED BY <1>2, <3>2, <3>3, <3>4, <3>5, <3>6, <3>7, <3>8 DEF Next
  <2> QED BY <2>1, <2>2
<1> QED BY <1>1, <1>2

(* A user who closes each popup with its own keys and lets the wizard finish before    *)
(* the next key is never left with a terminal that does not answer (the channels  *)
(* of ProcessKeystrokes and the handlers that send on them), because whoever    *)
(* sends a signal in one of the stages finds its receiver waiting.             *)
THEOREM NeverFreezes == Spec => []FreezesOnlyAfterSlip
<1>1. Tidy => FreezesOnlyAfterSlip
  <2> SUFFICES ASSUME Tidy, Frozen, Clean
               PROVE  FALSE
    BY DEF FreezesOnlyAfterSlip, Clean
  <2>1. Stages
    BY DEF Frozen, Tidy
  <2> QED BY <2>1 DEF Frozen, ToProcessor, Stages, AtViews, AtOperations, AtValue, AtName, Naming, AtWarning,
             Quiet, OfViews, OfPopup
<1> QED BY <1>1, TypesHold, TidyHolds, PTL DEF Spec

(* For such a user a handler returns an error, which ends the wizard, in three cases   *)
(* only: the two lines of the popup for a value were joined, the cursor is at a  *)
(* line that a shorter sample does not have, or next to the cursor of a list     *)
(* there is a header outside the visible part (CloseWindow, CloseName, CloseInput, *)
(* InputEnter, InputClose, CursorList and SendSignal, each of which can fail).     *)
THEOREM NeverFails == Spec => []FailsOnlyAfterSlip
<1>1. Tidy => FailsOnlyAfterSlip
  BY DEF Tidy, Excused, Clean, FailsOnlyAfterSlip
<1> QED BY <1>1, TypesHold, TidyHolds, PTL DEF Spec
-----------------------------------------------------------------------------
(* The wizard of a user who waits for the processor, whatever popups are left: it    *)
(* has been told of the lines under the cursors or is being told, nothing else   *)
(* is under way while a name is saved under, a signal is only waited for by the  *)
(* keys of the popup of operations, and a key of a view makes one call.         *)
Pending    == Range(todo)
SaveCalls  == {"saveAndExit", "closeName"}
ViewCalls  == ViewHandlers \ {"closeWindow"}

Told(view, lines, told) ==
    IF sending # <<>> /\ sending[1].origin = view THEN sending[1].line = lines[at[view]]
    ELSE IF proc.pc = "got" /\ proc.signal.origin = view THEN proc.signal.line = lines[at[view]]
    ELSE told = lines[at[view]].name \/ (told = "" /\ at[view] = 1)

Saving   == \/ main # <<>>
            \/ sending # <<>> /\ sending[1].origin = "createAndExit"
            \/ \E c \in Pending : c.do \in SaveCalls
InFlight == ToProcessor \/ proc.pc = "got"

SavesAlone == Saving => /\ proc.pc \in {"idle", "input"} /\ \A c \in Pending : c.do \in SaveCalls
                        /\ sending # <<>> => sending[1].origin = "createAndExit"
PicksAlone == InFlight \/ (\E c \in Pending : c.do = "selectOperation")
                 => \A c \in Pending : c.do = "selectOperation"
OneCall    == (\E c \in Pending : c.do \in ViewCalls)
                 => /\ Tail(todo) = <<>> /\ \A c \in Pending : c.view = current
                    /\ sending = <<>> /\ proc.pc \in {"idle", "input"} /\ main = <<>>
Prompt     == /\ Told("sources", SourceLines, source) /\ Told("targets", TargetLines, target)
              /\ SavesAlone /\ PicksAlone /\ OneCall

Waits == phase = "run" /\ "hasty" \notin history => Prompt

LEMMA CallsLeft ==
    ASSUME Calls, todo # <<>>
    PROVE  /\ Head(todo) \in Pending /\ Range(Tail(todo)) \subseteq Pending /\ Range(<<>>) = {}
           /\ \A c : Range(<<c>> \o Tail(todo)) \subseteq {c} \cup Range(Tail(todo))
<1>1. Len(todo) \in Nat \ {0} /\ DOMAIN todo = 1 .. Len(todo) /\ Head(todo) = todo[1] /\ 1 \in DOMAIN todo
  BY DEF Calls
<1>2. Tail(todo) \in Seq(CallType) /\ \A i \in DOMAIN Tail(todo) : i + 1 \in DOMAIN todo /\ Tail(todo)[i] = todo[i + 1]
  BY <1>1 DEF Calls
<1>3. Range(Tail(todo)) \subseteq Pending
  BY <1>2 DEF Range, Pending
<1>4. Range(<<>>) = {}
  BY DEF Range
<1>5. ASSUME NEW c
      PROVE  Range(<<c>> \o Tail(todo)) \subseteq {c} \cup Range(Tail(todo))
  <2> DEFINE S == CallType \cup {c}
             r == Tail(todo)
             l == <<c>> \o r
  <2>1. c \in S /\ r \in Seq(S)
    BY <1>2
  <2> HIDE DEF S, r
  <2>2. /\ l \in Seq(S) /\ Len(l) = 1 + Len(r) /\ l[1] = c
        /\ \A i \in 2 .. Len(l) : l[i] = r[i - 1] /\ i - 1 \in DOMAIN r
    BY <2>1, Headed, Zenon
  <2> HIDE DEF l
  <2>3. ASSUME NEW i \in DOMAIN l
        PROVE  l[i] \in {c} \cup {r[j] : j \in DOMAIN r}
    <3>1. i = 1 \/ i \in 2 .. Len(l)
      BY <2>2
    <3> QED BY <2>2, <3>1
  <2>4. Range(l) \subseteq {c} \cup Range(r)
    BY <2>3 DEF Range
  <2> QED BY <2>4 DEF l, r
<1> QED BY <1>1, <1>3, <1>4, <1>5 DEF Pending, Range

(* A handler that sends nothing and moves no cursor of the lists.               *)
LEMMA StillPrompt ==
    ASSUME Typed, Prompt, todo # <<>>, sending = <<>>, UNCHANGED <<sending, source, target, main>>,
           at'["sources"] = at["sources"], at'["targets"] = at["targets"],
           todo' \in {<<>>, Tail(todo)},
           \/ proc' = proc
           \/ Head(todo).do = "inputClose" /\ proc.pc = "input" /\ proc'.pc = "apply"
    PROVE  Prompt'
<1>1. Pending' \subseteq Range(Tail(todo)) /\ Head(todo) \in Pending /\ Range(Tail(todo)) \subseteq Pending /\ Range(<<>>) = {}
  BY CallsLeft DEF Typed, Pending
<1>2. Told("sources", SourceLines, source)' /\ Told("targets", TargetLines, target)'
  BY DEF Prompt, Told
<1>3. SavesAlone'
  <2>1. Saving' => Saving
    BY <1>1 DEF Saving
  <2>2. CASE proc' = proc
    BY <1>1, <2>1, <2>2 DEF Prompt, SavesAlone
  <2>3. CASE Head(todo).do = "inputClose"
    BY <1>1, <2>1, <2>3 DEF Prompt, SavesAlone, SaveCalls
  <2> QED BY <2>2, <2>3
<1>4. PicksAlone'
  BY <1>1 DEF Prompt, PicksAlone, InFlight, ToProcessor
<1>5. OneCall'
  BY <1>1 DEF Prompt, OneCall, Pending
<1> QED BY <1>2, <1>3, <1>4, <1>5 DEF Prompt

(* A handler of a view that sends a signal: of a list, with the line that the cursor   *)
(* is on now.                                                                  *)
LEMMA ViewSendPrompt ==
    ASSUME Typed, Prompt, todo # <<>>, sending = <<>>, UNCHANGED <<proc, source, target, main>>,
           Head(todo).do \in ViewCalls \cup {"selectOperation"},
           todo' = Tail(todo), NEW s, sending' = <<s>>,
           s.origin \notin {"createAndExit", "inputValue"},
           at'["sources"] = at["sources"] \/ s.origin = "sources",
           at'["targets"] = at["targets"] \/ s.origin = "targets",
           s.origin = "sources" => s.line = SourceLines[at'["sources"]],
           s.origin = "targets" => s.line = TargetLines[at'["targets"]]
    PROVE  Prompt'
<1>1. /\ Pending' = Range(Tail(todo)) /\ Head(todo) \in Pending /\ Range(Tail(todo)) \subseteq Pending /\ Range(<<>>) = {}
      /\ Pending' \subseteq Pending
  BY CallsLeft DEF Typed, Pending
<1>2. sending' # <<>> /\ sending'[1] = s
  OBVIOUS
<1>3. Told("sources", SourceLines, source)' /\ Told("targets", TargetLines, target)'
  BY <1>2 DEF Prompt, Told
<1>4. ~Saving
  BY <1>1 DEF Prompt, SavesAlone, SaveCalls, ViewCalls, ViewHandlers
<1>5. SavesAlone'
  BY <1>1, <1>2, <1>4 DEF SavesAlone, Saving
<1>6. \A c \in Pending' : c.do = "selectOperation"
  BY <1>1 DEF Prompt, PicksAlone, OneCall
<1>7. PicksAlone' /\ OneCall'
  BY <1>6 DEF PicksAlone, OneCall, ViewCalls, ViewHandlers
<1> QED BY <1>3, <1>5, <1>7 DEF Prompt

LEMMA PressKeepsPrompt ==
    ASSUME Typed, Prompt, NEW k \in Keys, Press(k), "hasty" \notin history'
    PROVE  Prompt'
<1>1. /\ todo = <<>> /\ sending = <<>>
      /\ todo' = [i \in DOMAIN Bound(k, current) |-> [do |-> Bound(k, current)[i], view |-> current]]
      /\ history' = history \cup Slips(k)
      /\ UNCHANGED <<current, at, sending, proc, source, target, main>>
  BY DEF Press, ui
<1>2. proc.pc \in {"idle", "input"} /\ main = <<>>
  BY <1>1 DEF Slips, Busy
<1>3. current \in Views /\ binds \in [Popups -> Nat]
  BY DEF Typed, TypeOK
<1> DEFINE b == Bound(k, current)
           n == IF current \in Popups THEN binds[current] ELSE 0
<1>4. /\ b \in Seq(Names)
      /\ \A i \in DOMAIN b : \/ b[i] = GlobalKey(k) /\ GlobalKey(k) # ""
                             \/ b[i] = ViewKey(current, k) /\ ViewKey(current, k) # ""
                             \/ b[i] = PopupKey(current, k) /\ PopupKey(current, k) # "" /\ current \in Popups
  BY <1>3, BoundCalls, Zenon
<1>5. \A c \in Pending' : \E i \in DOMAIN b : c.do = b[i] /\ c.view = current
  BY <1>1 DEF Pending, Range
<1>6. ASSUME NEW h \in {"selectOperation", "saveAndExit"}, NEW i \in DOMAIN b, b[i] = h
      PROVE  \A j \in DOMAIN b : b[j] = h
  <2>1. k = "enter" /\ PopupKey(current, k) = h /\ GlobalKey(k) = ""
    BY <1>4, <1>6, GlobalKeys, ViewKeys, PopupKeys
  <2>2. ViewKey(current, k) = ""
    BY <1>6, <2>1, ViewKeys, PopupKeys
  <2> QED BY <1>4, <2>1, <2>2
<1>7. ASSUME NEW i \in DOMAIN b, b[i] \in ViewCalls
      PROVE  \E h : b = <<h>>
  <2>1. \/ GlobalKey(k) # "" /\ GlobalKey(k) # "closeWindow"
        \/ ViewKey(current, k) # "" /\ GlobalKey(k) = ""
    BY <1>4, <1>7, GlobalKeys, ViewKeys, PopupKeys DEF ViewCalls, ViewHandlers
  <2>2. PopupKey(current, k) = "" \/ current \notin Popups
    BY <2>1, GlobalKeys, ViewKeys, PopupKeys DEF Popups
  <2>3. GlobalKey(k) = "" \/ ViewKey(current, k) = ""
    BY <2>1, GlobalKeys, ViewKeys
  <2>4. b = (Times(GlobalKey(k), 1) \o Times(ViewKey(current, k), 1)) \o Times(PopupKey(current, k), n)
    BY DEF Bound
  <2>5. GlobalKey(k) \in Names /\ ViewKey(current, k) \in Names /\ PopupKey(current, k) \in Names
    BY GlobalKeys, ViewKeys, PopupKeys DEF Names
  <2>6. n \in Nat /\ (current \notin Popups => n = 0)
    BY <1>3
  <2> HIDE DEF n, b
  <2>7. Times(PopupKey(current, k), n) = <<>>
    BY <2>2, <2>5, <2>6, RepeatedCall
  <2>8. ASSUME NEW h \in Names
        PROVE  Times(h, 1) = IF h = "" THEN <<>> ELSE <<h>>
    BY <2>8, RepeatedCall
  <2>9. CASE GlobalKey(k) # ""
    <3>1. b = (<<GlobalKey(k)>> \o <<>>) \o <<>>
      BY <2>3, <2>4, <2>5, <2>7, <2>8, <2>9
    <3> QED BY <3>1, SmallJoins
  <2>10. CASE GlobalKey(k) = ""
    <3>1. b = (<<>> \o <<ViewKey(current, k)>>) \o <<>>
      BY <2>1, <2>4, <2>5, <2>7, <2>8, <2>10
    <3> QED BY <3>1, SmallJoins
  <2> QED BY <2>9, <2>10
<1>8. Told("sources", SourceLines, source)' /\ Told("targets", TargetLines, target)'
  BY <1>1 DEF Prompt, Told
<1>9. \A c \in Pending' : c.do # "closeName"
  BY <1>4, <1>5, GlobalKeys, ViewKeys, PopupKeys
<1>10. SavesAlone'
  BY <1>1, <1>2, <1>5, <1>6, <1>9 DEF SavesAlone, Saving, SaveCalls
<1>11. PicksAlone'
  BY <1>1, <1>2, <1>5, <1>6 DEF PicksAlone, InFlight, ToProcessor
<1>12. ASSUME NEW c \in Pending', c.do \in ViewCalls
       PROVE  Tail(todo') = <<>>
  <2>1. PICK h : b = <<h>>
    BY <1>5, <1>7, <1>12
  <2>2. todo' = <<Call(h, current)>>
    BY <1>1, <2>1, CallsOfKeys, Zenon
  <2> QED BY <2>2, ShortLists, Zenon
<1>13. OneCall'
  BY <1>1, <1>2, <1>5, <1>12 DEF OneCall
<1> QED BY <1>8, <1>10, <1>11, <1>13 DEF Prompt

LEMMA HandlersKeepPrompt ==
    ASSUME Typed, Prompt, Handlers, phase' = "run"
    PROVE  Prompt'
<1>1. /\ at["sources"] \in DOMAIN SourceLines /\ at["targets"] \in DOMAIN TargetLines /\ Cursors
      /\ at \in [Lists -> Nat \ {0}] /\ top["sourceEvent"] + 1 \in Nat \ {0} /\ current \in Views
  BY TypedCursors DEF Typed, TypeOK
<1>2. ASSUME NEW h, Do(h)
      PROVE  todo # <<>> /\ Head(todo).do = h /\ sending = <<>> /\ Fits(Head(todo)) /\ Head(todo).view = V
  BY <1>2, FirstCall DEF Do, Typed, V
<1>3. ASSUME NEW h \in ViewCalls, Do(h)
      PROVE  V = current /\ Tail(todo) = <<>>
  BY <1>2, <1>3, CallsLeft DEF Typed, Prompt, OneCall
<1>4. ASSUME NEW h \in ViewCalls \cup {"selectOperation"}, Do(h), UNCHANGED <<proc, source, target, main>>,
             NEW view \in Views, NEW where, SendSignal(view, where), where["sourceEvent"] \in Nat,
             where["sources"] \in DOMAIN SourceLines, where["targets"] \in DOMAIN TargetLines,
             where["sources"] = at["sources"] \/ view = "sources",
             where["targets"] = at["targets"] \/ view = "targets"
      PROVE  Prompt'
  <2>1. ~Failed
    BY DEF Failed
  <2>2. PICK line : /\ sending' = <<Signal(view, line)>>
                    /\ view = "sources" => line = SourceLines[where["sources"]]
                    /\ view = "targets" => line = TargetLines[where["targets"]]
                    /\ todo' = Tail(todo) /\ at' = where
    BY <1>1, <1>4, <2>1, Sends
  <2> DEFINE s == Signal(view, line)
  <2>3. s.origin = view /\ s.line = line /\ sending' = <<s>>
    BY <2>2 DEF Signal
  <2>4. view \notin {"createAndExit", "inputValue"}
    BY <1>4 DEF Views, Popups
  <2> HIDE DEF s
  <2> QED BY <1>2, <1>4, <2>2, <2>3, <2>4, ViewSendPrompt
<1>5. ASSUME NEW h, Do(h), UNCHANGED <<sending, source, target, main>>,
             at'["sources"] = at["sources"], at'["targets"] = at["targets"],
             todo' \in {<<>>, Tail(todo)},
             \/ proc' = proc
             \/ h = "inputClose" /\ proc.pc = "input" /\ proc'.pc = "apply"
      PROVE  Prompt'
  BY <1>2, <1>5, StillPrompt
<1>6. {"switchToSources", "switchToTargets", "sourceCursorRight", "sourceEventCursorLeft",
       "cursorUp", "cursorDown", "cursorUpEventSample", "cursorDownEventSample", "wipeData"} \subseteq ViewCalls
  BY DEF ViewCalls, ViewHandlers
<1>7. Lists \subseteq Views
  BY DEF Views
<1>8. CASE CloseWindow
  <2>1. Do("closeWindow") /\ UNCHANGED <<proc, source, target, main, sending, at>> /\ todo' \in {<<>>, Tail(todo)}
    BY <1>8 DEF CloseWindow, Rest, End, Done, ui
  <2> QED BY <1>5, <2>1
<1>9. CASE SelectOperation
  <2>1. Do("selectOperation") /\ SendSignal(current, at) /\ UNCHANGED <<proc, source, target, main>>
    BY <1>9 DEF SelectOperation, Rest
  <2> QED BY <1>1, <1>4, <2>1
<1>10. ASSUME NEW h \in {"switchToSources", "switchToTargets"}, NEW view \in {"sources", "targets"}, SwitchTo(h, view)
       PROVE  Prompt'
  <2>1. Do(h) /\ UNCHANGED <<proc, source, target, main>>
    BY <1>10 DEF SwitchTo, Rest
  <2>2. \/ SendSignal(view, at)
        \/ UNCHANGED <<sending, at>> /\ todo' = Tail(todo)
    BY <1>10 DEF SwitchTo, Done, ui
  <2>3. CASE SendSignal(view, at)
    BY <1>1, <1>4, <1>6, <1>7, <2>1, <2>3
  <2>4. CASE UNCHANGED <<sending, at>> /\ todo' = Tail(todo)
    BY <1>5, <2>1, <2>4
  <2> QED BY <2>2, <2>3, <2>4
<1>11. CASE SwitchToTransformation
  <2>1. Do("switchToTransformation") /\ todo' = Tail(todo) /\ UNCHANGED <<proc, source, target, main, sending, at>>
    BY <1>11 DEF SwitchToTransformation, Rest, Done
  <2> QED BY <1>5, <2>1
<1>12. CASE SourceCursorRight
  <2>1. Do("sourceCursorRight") /\ UNCHANGED <<proc, source, target, main>>
    BY <1>12 DEF SourceCursorRight, Rest
  <2>2. \/ SendSignal("sourceEvent", at)
        \/ UNCHANGED <<sending, at>> /\ todo' = Tail(todo)
    BY <1>12 DEF SourceCursorRight, Done, ui
  <2>3. CASE SendSignal("sourceEvent", at)
    BY <1>1, <1>4, <1>6, <1>7, <2>1, <2>3
  <2>4. CASE UNCHANGED <<sending, at>> /\ todo' = Tail(todo)
    BY <1>5, <2>1, <2>4
  <2> QED BY <2>2, <2>3, <2>4
<1>13. CASE SourceEventCursorLeft
  <2> DEFINE where == [at EXCEPT !["sourceEvent"] = top["sourceEvent"] + 1]
  <2>1. Do("sourceEventCursorLeft") /\ SendSignal("sources", where) /\ UNCHANGED <<proc, source, target, main>>
    BY <1>13 DEF SourceEventCursorLeft, Rest
  <2>2. where["sources"] = at["sources"] /\ where["targets"] = at["targets"] /\ where["sourceEvent"] \in Nat
    BY <1>1
  <2> HIDE DEF where
  <2> QED BY <1>1, <1>4, <1>6, <1>7, <2>1, <2>2
<1>14. ASSUME NEW h \in {"cursorUp", "cursorDown"}, NEW step \in {-1, 1}, CursorList(h, step)
       PROVE  Prompt'
  <2> DEFINE there == MoveTo(Entries(LinesOf(V)), at[V], step)
             where == [at EXCEPT ![V] = there]
  <2>1. Do(h) /\ UNCHANGED <<proc, source, target, main>>
    BY <1>14 DEF CursorList, Rest, End
  <2>2. CASE there = at[V]
    <3>1. todo' = Tail(todo) /\ UNCHANGED <<sending, at>>
      BY <1>14, <2>2 DEF CursorList, Done, ui
    <3> QED BY <1>5, <2>1, <3>1
  <2>3. CASE there # at[V]
    <3>1. SendSignal(current, where)
      BY <1>14, <2>3 DEF CursorList, End
    <3>2. V \in {"sources", "targets"} /\ current = V
      BY <1>2, <1>3, <1>6, <1>14, <2>1 DEF Fits
    <3>3. PICK n \in Nat : DOMAIN LinesOf(V) = 1 .. n
      BY <3>2, ManifestLists, Elements DEF IsList, LinesOf
    <3>4. at[V] \in Entries(LinesOf(V)) /\ Entries(LinesOf(V)) \in SUBSET (1 .. n) /\ at[V] \in Nat /\ step \in Int
      BY <1>1, <1>14, <3>2, <3>3 DEF Entries, LinesOf, Cursors
    <3>5. there \in Entries(LinesOf(V)) \cup {at[V]}
      BY <3>3, <3>4, Moves, Zenon
    <3> HIDE DEF there
    <3>6. there \in DOMAIN LinesOf(V)
      BY <3>3, <3>4, <3>5
    <3>7. /\ where["sources"] \in DOMAIN SourceLines /\ where["targets"] \in DOMAIN TargetLines
          /\ where["sourceEvent"] \in Nat
          /\ where["sources"] = at["sources"] \/ V = "sources"
          /\ where["targets"] = at["targets"] \/ V = "targets"
      BY <1>1, <3>2, <3>6 DEF LinesOf
    <3> HIDE DEF where
    <3> QED BY <1>1, <1>4, <1>6, <2>1, <3>1, <3>2, <3>7
  <2> QED BY <2>2, <2>3
<1>15. ASSUME NEW h \in {"cursorUpEventSample", "cursorDownEventSample"}, NEW step \in {-1, 1}, CursorEventSample(h, step)
       PROVE  Prompt'
  <2>1. Do(h) /\ UNCHANGED <<proc, source, target, main>>
    BY <1>15 DEF CursorEventSample, Rest
  <2>2. CASE \E where : /\ SendSignal(current, where) /\ where["sourceEvent"] \in DOMAIN SampleLines
                        /\ where["sources"] = at["sources"] /\ where["targets"] = at["targets"]
    <3>1. current = "sourceEvent"
      BY <1>2, <1>3, <1>6, <1>15, <2>1 DEF Fits
    <3>2. \A i \in DOMAIN SampleLines : i \in Nat
      BY ShownSample
    <3> QED BY <1>1, <1>4, <1>6, <2>1, <2>2, <3>1, <3>2
  <2>3. CASE todo' = Tail(todo) /\ UNCHANGED sending /\ (at' = at \/ \E c : at' = [at EXCEPT !["sourceEvent"] = c])
    <3>1. at'["sources"] = at["sources"] /\ at'["targets"] = at["targets"]
      BY <1>1, <2>3
    <3> QED BY <1>5, <2>1, <2>3, <3>1
  <2> QED BY <1>15, <2>2, <2>3, SampleCursorSends
<1>16. CASE WipeData
  <2> DEFINE s == [origin |-> "transformationOperation", line |-> "delete", isHotKey |-> TRUE]
  <2>1. Do("wipeData") /\ todo' = Tail(todo) /\ sending' = <<s>> /\ UNCHANGED <<at, proc, source, target, main>>
    BY <1>16 DEF WipeData, Done, Rest, ui
  <2>2. s.origin = "transformationOperation"
    OBVIOUS
  <2> HIDE DEF s
  <2> QED BY <1>2, <1>6, <2>1, <2>2, ViewSendPrompt
<1>17. CASE ResetTransformation
  <2>1. Do("resetTransformation") /\ todo' = Tail(todo) /\ UNCHANGED <<proc, source, target, main, sending, at>>
    BY <1>17 DEF ResetTransformation, Rest, Done, ui
  <2> QED BY <1>5, <2>1
<1>18. ASSUME NEW h, NEW p, Pop(h, p)
       PROVE  Prompt'
  <2>1. Do(h) /\ todo' = Tail(todo) /\ UNCHANGED <<proc, source, target, main, sending, at>>
    BY <1>18 DEF Pop, Rest, Done
  <2> QED BY <1>5, <2>1
<1>19. CASE CloseName
  <2>1. Do("closeName") /\ todo' \in {<<>>, Tail(todo)} /\ UNCHANGED <<proc, source, target, main, sending, at>>
    BY <1>19 DEF CloseName, Rest, Done, End, ui
  <2> QED BY <1>5, <2>1
<1>20. CASE CloseInput
  <2>1. Do("closeInput") /\ todo' \in {<<>>, Tail(todo)} /\ UNCHANGED <<proc, source, target, main, sending, at>>
    BY <1>20 DEF CloseInput, Rest, Done, End, ui
  <2> QED BY <1>5, <2>1
<1>21. CASE InputClose
  <2>1. /\ Do("inputClose") /\ todo' \in {<<>>, Tail(todo)} /\ UNCHANGED <<source, target, main, sending, at>>
        /\ \/ proc' = proc
           \/ proc.pc = "input" /\ proc' = [proc EXCEPT !.pc = "apply", !.path = <<>>, !.value = <<>>]
    BY <1>21 DEF InputClose, Done, End, ui
  <2>2. proc' = proc \/ (proc.pc = "input" /\ proc'.pc = "apply")
    BY <2>1 DEF Typed, Signals
  <2> QED BY <1>5, <2>1, <2>2
<1>22. ASSUME NEW h \in {"saveAndExit", "inputEnter"}, Do(h), NEW c, Pending' \subseteq {c} \cup Range(Tail(todo)),
              NEW s, sending' = <<s>>, UNCHANGED <<at, proc, source, target, main>>,
              \/ h = "saveAndExit" /\ s.origin = "createAndExit" /\ c.do = "closeName"
              \/ h = "inputEnter" /\ s.origin = "inputValue" /\ c.do = "closeInput"
       PROVE  Prompt'
  <2>1. Head(todo) \in Pending /\ Range(Tail(todo)) \subseteq Pending /\ Range(<<>>) = {} /\ Head(todo).do = h /\ sending = <<>>
    BY <1>2, <1>22, CallsLeft DEF Typed
  <2>2. sending' # <<>> /\ sending'[1] = s
    BY <1>22
  <2>3. Told("sources", SourceLines, source)' /\ Told("targets", TargetLines, target)'
    BY <1>22, <2>1, <2>2 DEF Prompt, Told
  <2>4. \A d \in Pending : d.do # "selectOperation"
    BY <1>22, <2>1 DEF Prompt, PicksAlone
  <2>5. proc.pc # "got"
    BY <1>22, <2>1 DEF Prompt, PicksAlone, InFlight
  <2>6. \A d \in Pending' : d.do # "selectOperation"
    BY <1>22, <2>1, <2>4
  <2>7. PicksAlone'
    BY <1>22, <2>2, <2>5, <2>6 DEF PicksAlone, InFlight, ToProcessor
  <2>8. \A d \in Pending' : d.do \notin ViewCalls
    BY <1>22, <2>1 DEF Prompt, OneCall, ViewCalls, ViewHandlers
  <2>9. OneCall'
    BY <2>8 DEF OneCall
  <2>10. SavesAlone'
    <3>1. CASE h = "saveAndExit"
      <4>1. Saving
        BY <2>1, <3>1 DEF Saving, SaveCalls
      <4> QED BY <1>22, <2>1, <2>2, <3>1, <4>1 DEF Prompt, SavesAlone, SaveCalls
    <3>2. CASE h = "inputEnter"
      <4>1. ~Saving
        BY <2>1, <3>2 DEF Prompt, SavesAlone, SaveCalls
      <4> QED BY <1>22, <2>1, <2>2, <3>2, <4>1 DEF SavesAlone, Saving, SaveCalls
    <3> QED BY <3>1, <3>2
  <2> QED BY <2>3, <2>7, <2>9, <2>10 DEF Prompt
<1>23. CASE SaveAndExit
  <2> DEFINE c == [do |-> "closeName", view |-> V]
             s == Signal("createAndExit", "name")
  <2>1. Do("saveAndExit") /\ todo' = <<c>> \o Tail(todo) /\ sending' = <<s>> /\ UNCHANGED <<at, proc, source, target, main>>
    BY <1>23 DEF SaveAndExit, Rest, ui
  <2>2. s.origin = "createAndExit" /\ c.do = "closeName"
    BY DEF Signal
  <2>3. Pending' \subseteq {c} \cup Range(Tail(todo))
    BY <1>2, <2>1, CallsLeft DEF Pending, Typed
  <2> HIDE DEF c, s
  <2> QED BY <1>22, <2>1, <2>2, <2>3
<1>24. CASE InputEnter
  <2> DEFINE c == [do |-> "closeInput", view |-> V]
  <2>1. PICK v \in Values : sending' = <<Signal("inputValue", v)>> /\ todo' = <<c>> \o Tail(todo)
    BY <1>24 DEF InputEnter
  <2> DEFINE s == Signal("inputValue", v)
  <2>2. Do("inputEnter") /\ todo' = <<c>> \o Tail(todo) /\ sending' = <<s>> /\ UNCHANGED <<at, proc, source, target, main>>
    BY <1>24, <2>1 DEF InputEnter, Rest, ui
  <2>3. s.origin = "inputValue" /\ c.do = "closeInput"
    BY DEF Signal
  <2>4. Pending' \subseteq {c} \cup Range(Tail(todo))
    BY <1>2, <2>2, CallsLeft DEF Pending, Typed
  <2> HIDE DEF c, s
  <2> QED BY <1>22, <2>2, <2>3, <2>4
<1> QED BY <1>8, <1>9, <1>10, <1>11, <1>12, <1>13, <1>14, <1>15, <1>16, <1>17, <1>18, <1>19, <1>20, <1>21, <1>23, <1>24
        DEF Handlers

(* Steps of the processor and of main that make no call.                        *)
LEMMA QuietlyPrompt ==
    ASSUME Prompt, UNCHANGED <<todo, current>>, Told("sources", SourceLines, source)', Told("targets", TargetLines, target)',
           Saving' => Saving /\ proc'.pc \in {"idle", "input"} /\ (sending' # <<>> => sending'[1].origin = "createAndExit"),
           InFlight' => InFlight,
           \/ \A c \in Pending : c.do \notin ViewCalls
           \/ sending' = <<>> /\ proc'.pc \in {"idle", "input"} /\ main' = <<>>
    PROVE  Prompt'
BY DEF Prompt, SavesAlone, PicksAlone, OneCall, Pending

LEMMA ProcessorKeepsPrompt ==
    ASSUME Typed, Prompt, ProcessKeystrokes, phase' = "run"
    PROVE  Prompt'
<1>1. UNCHANGED <<at, todo, main>>
  BY DEF ProcessKeystrokes, Receive, SelectSource, SelectTarget, WalkSample, ReadOperation, ReceiveInput, Apply, ui
<1>2. /\ proc = [pc |-> proc.pc, signal |-> proc.signal, path |-> proc.path, value |-> proc.value]
      /\ Idle.pc = "idle" /\ Pending' = Pending
  BY <1>1 DEF Typed, Signals, Idle, Pending
<1>3. CASE Receive
  <2>1. /\ sending # <<>> /\ sending[1].origin \notin {"createAndExit", "inputValue"} /\ proc.pc = "idle" /\ ToProcessor
        /\ sending' = <<>> /\ UNCHANGED <<source, target>>
    BY <1>3 DEF Receive, ToProcessor
  <2>2. IF sending[1].origin \in Origins THEN proc'.pc = "got" /\ proc'.signal = sending[1] ELSE proc' = proc
    BY <1>2, <1>3 DEF Receive
  <2>3. Told("sources", SourceLines, source)' /\ Told("targets", TargetLines, target)'
    BY <1>1, <2>1, <2>2 DEF Prompt, Told, Origins
  <2>4. \A c \in Pending : c.do = "selectOperation"
    BY <2>1 DEF Prompt, PicksAlone, InFlight
  <2>5. ~Saving
    BY <2>1 DEF Prompt, SavesAlone
  <2>6. ~Saving'
    BY <1>1, <1>2, <2>1, <2>5 DEF Saving
  <2>7. SavesAlone' /\ PicksAlone' /\ OneCall'
    BY <1>2, <2>4, <2>6 DEF SavesAlone, PicksAlone, OneCall, ViewCalls, ViewHandlers
  <2> QED BY <2>3, <2>7 DEF Prompt
<1>4. ASSUME NEW origin, Got(origin), UNCHANGED sending, proc'.pc \in {"idle", "input", "apply"},
             source' = source \/ (origin = "sources" /\ proc' = Idle /\ source' = proc.signal.line.name),
             target' = target \/ (origin = "targets" /\ proc' = Idle /\ target' = proc.signal.line.name),
             origin = "sources" => source' = proc.signal.line.name,
             origin = "targets" => target' = proc.signal.line.name
      PROVE  Prompt'
  <2>1. proc.pc = "got" /\ proc.signal.origin = origin
    BY <1>4 DEF Got
  <2>2. Told("sources", SourceLines, source)' /\ Told("targets", TargetLines, target)'
    BY <1>1, <1>2, <1>4, <2>1 DEF Prompt, Told
  <2>3. ~Saving /\ ~Saving'
    BY <1>1, <1>2, <1>4, <2>1 DEF Prompt, SavesAlone, Saving
  <2>4. \A c \in Pending : c.do = "selectOperation"
    BY <2>1 DEF Prompt, PicksAlone, InFlight
  <2>5. SavesAlone' /\ PicksAlone' /\ OneCall'
    BY <1>2, <2>3, <2>4 DEF SavesAlone, PicksAlone, OneCall, ViewCalls, ViewHandlers
  <2> QED BY <2>2, <2>5 DEF Prompt
<1>5. CASE SelectSource
  <2>1. Got("sources") /\ proc' = Idle /\ UNCHANGED <<sending, target>> /\ source' = proc.signal.line.name
    BY <1>5 DEF SelectSource
  <2> QED BY <1>2, <1>4, <2>1
<1>6. CASE SelectTarget
  <2>1. Got("targets") /\ proc' = Idle /\ UNCHANGED <<sending, source>> /\ target' = proc.signal.line.name
    BY <1>6 DEF SelectTarget
  <2> QED BY <1>2, <1>4, <2>1
<1>7. CASE WalkSample
  <2>1. Got("sourceEvent") /\ proc' = Idle /\ UNCHANGED <<sending, source, target>>
    BY <1>7 DEF WalkSample
  <2> QED BY <1>2, <1>4, <2>1
<1>8. CASE ReadOperation
  <2>1. Got("transformationOperation") /\ UNCHANGED <<sending, source, target>>
    BY <1>8 DEF ReadOperation
  <2>2. \E p : proc' \in {[proc EXCEPT !.pc = "apply", !.path = p], [proc EXCEPT !.pc = "input", !.path = p]}
    BY <1>8 DEF ReadOperation
  <2>3. proc'.pc \in {"input", "apply"}
    BY <1>2, <2>2
  <2> QED BY <1>4, <2>1, <2>3
<1>9. CASE ReceiveInput
  <2>1. /\ proc.pc = "input" /\ sending # <<>> /\ sending[1].origin = "inputValue" /\ sending' = <<>>
        /\ \E v, p : proc' = [proc EXCEPT !.pc = "apply", !.value = v, !.path = p]
        /\ UNCHANGED <<source, target, current>>
    BY <1>9 DEF ReceiveInput, ui
  <2>2. proc'.pc = "apply"
    BY <1>2, <2>1
  <2>3. Told("sources", SourceLines, source)' /\ Told("targets", TargetLines, target)'
    BY <1>1, <2>1, <2>2 DEF Prompt, Told
  <2>4. ~Saving
    BY <2>1 DEF Prompt, SavesAlone
  <2>5. ~Saving'
    BY <1>1, <1>2, <2>1, <2>4 DEF Saving
  <2>6. InFlight' => InFlight
    BY <2>1, <2>2 DEF InFlight, ToProcessor
  <2>7. \A c \in Pending : c.do \notin ViewCalls
    BY <2>1 DEF Prompt, OneCall
  <2> QED BY <1>1, <2>1, <2>3, <2>5, <2>6, <2>7, QuietlyPrompt
<1>10. CASE Apply
  <2>1. proc.pc = "apply" /\ proc'.pc = "idle" /\ UNCHANGED <<source, target, current, sending>>
    BY <1>2, <1>10 DEF Apply, ui
  <2>2. Told("sources", SourceLines, source)' /\ Told("targets", TargetLines, target)'
    BY <1>1, <2>1 DEF Prompt, Told
  <2>3. ~Saving /\ ~Saving'
    BY <1>1, <1>2, <2>1 DEF Prompt, SavesAlone, Saving
  <2>4. InFlight' => InFlight
    BY <2>1 DEF InFlight, ToProcessor
  <2>5. \A c \in Pending : c.do \notin ViewCalls
    BY <2>1 DEF Prompt, OneCall
  <2> QED BY <1>1, <2>1, <2>2, <2>3, <2>4, <2>5, QuietlyPrompt
<1> QED BY <1>3, <1>5, <1>6, <1>7, <1>8, <1>9, <1>10 DEF ProcessKeystrokes

LEMMA WaitsHold ==
    /\ Init => Waits
    /\ Typed /\ Waits /\ [Next]_vars => Waits'
<1>1. ASSUME Init
      PROVE  Waits
  <2>1. todo = <<>> /\ sending = <<>> /\ main = <<>> /\ source = "" /\ target = ""
    BY <1>1 DEF Init
  <2>2. proc.pc = "idle"
    BY <1>1 DEF Init, Idle
  <2>3. at["sources"] = 1 /\ at["targets"] = 1
    BY <1>1 DEF Init
  <2>4. Pending = {}
    <3>1. Range(<<>>) = {}
      BY DEF Range
    <3> QED BY <2>1, <3>1 DEF Pending
  <2> QED BY <2>1, <2>2, <2>3, <2>4 DEF Waits, Prompt, Told, SavesAlone, Saving, PicksAlone, InFlight, ToProcessor, OneCall
<1>2. ASSUME Typed, Waits, [Next]_vars
      PROVE  Waits'
  <2>1. CASE UNCHANGED vars
    <3>1. UNCHANGED <<phase, current, at, todo, sending, proc, source, target, main, history>>
      BY <2>1 DEF vars, ui
    <3> QED BY <1>2, <3>1 DEF Waits, Prompt, Told, SavesAlone, Saving, PicksAlone, InFlight, ToProcessor, OneCall, Pending
  <2>2. CASE Next /\ (phase' # "run" \/ "hasty" \in history')
    BY <2>2 DEF Waits
  <2>3. CASE Next /\ phase' = "run" /\ "hasty" \notin history'
    <3>1. ASSUME phase = "run", "hasty" \notin history
          PROVE  Prompt
      BY <1>2, <3>1 DEF Waits
    <3>2. ASSUME NEW k \in Keys, Press(k)
          PROVE  Prompt'
      <4>1. phase = "run" /\ "hasty" \notin history
        BY <2>3, <3>2 DEF Press
      <4> QED BY <1>2, <2>3, <3>1, <3>2, <4>1, PressKeepsPrompt
    <3>3. ASSUME Edit
          PROVE  Prompt'
      <4>1. phase = "run" /\ UNCHANGED <<current, at, todo, sending, proc, source, target, main, history>>
        BY <3>3 DEF Edit, ui
      <4> QED BY <2>3, <3>1, <4>1
              DEF Prompt, Told, SavesAlone, Saving, PicksAlone, InFlight, ToProcessor, OneCall, Pending
    <3>4. ASSUME Handlers
          PROVE  Prompt'
      <4>1. phase = "run" /\ history \subseteq history'
        BY <3>4 DEF Handlers, Do, CloseWindow, SelectOperation, SwitchTo, SwitchToTransformation, SourceCursorRight,
             SourceEventCursorLeft, CursorList, CursorEventSample, WipeData, ResetTransformation, Pop, SaveAndExit,
             CloseName, InputEnter, CloseInput, InputClose, End
      <4> QED BY <1>2, <2>3, <3>1, <3>4, <4>1, HandlersKeepPrompt
    <3>5. ASSUME ProcessKeystrokes
          PROVE  Prompt'
      <4>1. phase = "run" /\ UNCHANGED history
        BY <3>5 DEF ProcessKeystrokes, Receive, Got, SelectSource, SelectTarget, WalkSample, ReadOperation, ReceiveInput, Apply
      <4> QED BY <1>2, <2>3, <3>1, <3>5, <4>1, ProcessorKeepsPrompt
    <3>6. ASSUME ReceiveName
          PROVE  Prompt'
      <4>1. /\ phase = "run" /\ sending # <<>> /\ sending[1].origin = "createAndExit" /\ sending' = <<>>
            /\ UNCHANGED <<current, at, todo, proc, source, target, history>>
        BY <3>6 DEF ReceiveName, ui
      <4>2. Prompt /\ Saving
        BY <2>3, <3>1, <4>1 DEF Saving
      <4>3. proc.pc \in {"idle", "input"}
        BY <4>2 DEF Prompt, SavesAlone
      <4>4. Told("sources", SourceLines, source)' /\ Told("targets", TargetLines, target)'
        BY <4>1, <4>2 DEF Prompt, Told
      <4>5. ~InFlight'
        BY <4>1, <4>3 DEF InFlight, ToProcessor
      <4>6. \A c \in Pending : c.do \notin ViewCalls
        BY <4>1, <4>2 DEF Prompt, OneCall
      <4> QED BY <4>1, <4>2, <4>3, <4>4, <4>5, <4>6, QuietlyPrompt
    <3>7. ASSUME PopTargetWarning
          PROVE  Prompt'
      <4>1. /\ phase = "run" /\ main # <<>> /\ main' = <<>>
            /\ UNCHANGED <<at, todo, sending, proc, source, target, history>>
        BY <3>7 DEF PopTargetWarning
      <4>2. Prompt /\ Saving
        BY <2>3, <3>1, <4>1 DEF Saving
      <4>3. Told("sources", SourceLines, source)' /\ Told("targets", TargetLines, target)'
        BY <4>1, <4>2 DEF Prompt, Told
      <4>4. Pending' = Pending
        BY <4>1 DEF Pending
      <4>5. SavesAlone'
        BY <4>1, <4>2, <4>4 DEF Prompt, SavesAlone
      <4>6. PicksAlone'
        BY <4>1, <4>2, <4>4 DEF Prompt, PicksAlone, InFlight, ToProcessor
      <4>7. OneCall'
        BY <4>1, <4>2, <4>4 DEF Prompt, OneCall
      <4> QED BY <4>3, <4>5, <4>6, <4>7 DEF Prompt
    <3>8. ~Save
      BY <2>3 DEF Save
    <3>9. Prompt'
      BY <2>3, <3>2, <3>3, <3>4, <3>5, <3>6, <3>7, <3>8 DEF Next
    <3> QED BY <3>9 DEF Waits
  <2> QED BY <1>2, <2>1, <2>2, <2>3
<1> QED BY <1>1, <1>2

(* After Create has returned nothing happens.                                  *)
LEMMA SavedStays ==
    ASSUME [Next]_vars, phase' = "saved"
    PROVE  \/ Save
           \/ UNCHANGED vars
<1>1. CASE \E k \in Keys : Press(k)
  BY <1>1 DEF Press
<1>2. CASE Handlers
  <2>1. phase' \in {"run", "quit", "error"}
    BY <1>2 DEF Handlers, Do, CloseWindow, SelectOperation, SwitchTo, SwitchToTransformation, SourceCursorRight,
         SourceEventCursorLeft, CursorList, CursorEventSample, WipeData, ResetTransformation, Pop, SaveAndExit,
         CloseName, InputEnter, CloseInput, InputClose, End, SendSignal, MoveCursors, ui
  <2> QED BY <2>1
<1>3. CASE ProcessKeystrokes
  <2>1. phase' \in {"run", "panic"}
    BY <1>3 DEF ProcessKeystrokes, Receive, Got, SelectSource, SelectTarget, WalkSample, ReadOperation, ReceiveInput, Apply
  <2> QED BY <2>1
<1> QED BY <1>1, <1>2, <1>3 DEF Next, Edit, ReceiveName, PopTargetWarning

LEMMA ListLines ==
    ASSUME NEW l, IsList(l)
    PROVE  /\ Len(l) \in Nat /\ DOMAIN l = 1 .. Len(l) /\ l[1].kind = "any" /\ l[1].name = "*"
           /\ \A i \in DOMAIN l : i # 1 => l[i].kind # "any" /\ (l[i].kind = "type" => l[i].name # "")
<1>1. l \in Seq(LineType) /\ l[1] = [kind |-> "any", name |-> "*"]
  BY DEF IsList
<1>2. \A i \in 2 .. Len(l) : l[i].kind # "any" /\ (l[i].kind = "type" => l[i].name # "")
  BY DEF IsList
<1>3. Len(l) \in Nat /\ DOMAIN l = 1 .. Len(l)
  BY <1>1, Elements, Zenon
<1>4. l[1].kind = "any" /\ l[1].name = "*"
  BY <1>1
<1>5. ASSUME NEW i \in DOMAIN l, i # 1
      PROVE  l[i].kind # "any" /\ (l[i].kind = "type" => l[i].name # "")
  <2>1. i \in 2 .. Len(l)
    BY <1>3, <1>5
  <2> QED BY <1>2, <2>1, Zenon
<1> QED BY <1>3, <1>4, <1>5

(* What the two cursors stand for when Create reads them.                       *)
LEMMA SavedLines ==
    ASSUME Typed, Waits, Save, "hasty" \notin history
    PROVE  /\ source = SourceLines[at["sources"]].name \/ (source = "" /\ SourceLines[at["sources"]].name = "*")
           /\ target = IF TargetEventType # "" THEN TargetEventType ELSE TargetComponent
<1>1. Prompt /\ Saving
  BY DEF Save, Waits, Saving
<1>2. /\ source = SourceLines[at["sources"]].name \/ (source = "" /\ at["sources"] = 1)
      /\ target = TargetLines[at["targets"]].name \/ (target = "" /\ at["targets"] = 1)
  <2>1. proc.pc # "got" /\ (sending # <<>> => sending[1].origin = "createAndExit")
    BY <1>1 DEF Prompt, SavesAlone
  <2> QED BY <1>1, <2>1 DEF Prompt, Told
<1>3. SourceLines[1].name = "*"
  BY ManifestLists, ListLines
<1>4. target = IF TargetEventType # "" THEN TargetEventType ELSE TargetComponent
  <2> DEFINE line == TargetLines[at["targets"]]
  <2>1. /\ at["targets"] \in DOMAIN TargetLines /\ TargetLines[1].kind = "any"
        /\ at["targets"] # 1 => line.kind # "any" /\ (line.kind = "type" => line.name # "")
    BY ManifestLists, ListLines DEF Typed, Cursors, Entries
  <2>2. at["targets"] # 1
    BY <2>1 DEF Save, TargetChosen, TargetComponent, TargetEventType, ComponentAt, TypeAt
  <2>3. target = line.name
    BY <1>2, <2>2
  <2>4. CASE line.kind = "type"
    BY <2>1, <2>2, <2>3, <2>4 DEF TargetEventType, TypeAt
  <2>5. CASE line.kind # "type"
    BY <2>1, <2>2, <2>3, <2>5 DEF TargetEventType, TypeAt, TargetComponent, ComponentAt
  <2> QED BY <2>4, <2>5
<1> QED BY <1>2, <1>3, <1>4

(* What is saved was made while the source it is saved for was shown: Create reads     *)
(* the cursors of the lists, the processor what it was told, and for a user who    *)
(* waits the two agree whenever a name is on its way (Save, SelectSource).        *)
THEOREM SavedForTheSourceShown == Spec => []SavedForItsSource
<1>1. Init => SavedForItsSource
  BY DEF Init, SavedForItsSource
<1>2. ASSUME Typed, Waits, SavedForItsSource, [Next]_vars
      PROVE  SavedForItsSource'
  <2> SUFFICES ASSUME phase' = "saved", "hasty" \notin history'
               PROVE  source' = saved'.source \/ (source' = "" /\ saved'.source = "*")
    BY DEF SavedForItsSource
  <2>1. CASE UNCHANGED vars
    BY <1>2, <2>1 DEF SavedForItsSource, vars
  <2>2. CASE Save
    <3>1. UNCHANGED <<source, history>> /\ saved'.source = SourceLines[at["sources"]].name
      BY <2>2 DEF Save
    <3> QED BY <1>2, <2>2, <3>1, SavedLines
  <2> QED BY <1>2, <2>1, <2>2, SavedStays
<1> QED BY <1>1, <1>2, TypesHold, WaitsHold, PTL DEF Spec

(* And it was made for the target that it is saved for: an event type, whose component    *)
(* may be lost above the visible part of the list, or else a component (Save,       *)
(* SelectTarget).                                                               *)
THEOREM SavedForTheTargetShown == Spec => []SavedForItsTarget
<1>1. Init => SavedForItsTarget
  BY DEF Init, SavedForItsTarget
<1>2. ASSUME Typed, Waits, SavedForItsTarget, [Next]_vars
      PROVE  SavedForItsTarget'
  <2> SUFFICES ASSUME phase' = "saved", "hasty" \notin history'
               PROVE  target' = IF saved'.type # "" THEN saved'.type ELSE saved'.target
    BY DEF SavedForItsTarget
  <2>1. CASE UNCHANGED vars
    BY <1>2, <2>1 DEF SavedForItsTarget, vars
  <2>2. CASE Save
    <3>1. UNCHANGED <<target, history>> /\ saved'.target = TargetComponent /\ saved'.type = TargetEventType
      BY <2>2 DEF Save
    <3> QED BY <1>2, <2>2, <3>1, SavedLines
  <2> QED BY <1>2, <2>1, <2>2, SavedStays
<1> QED BY <1>1, <1>2, TypesHold, WaitsHold, PTL DEF Spec

(* A name other than the one that was typed is that of a transformation that the user   *)
(* was shown for the pair (existingTransformation in ProcessKeystrokes and in       *)
(* Create, which look the pair up on their own), if a source was chosen and the      *)
(* target has no event types.                                                   *)
THEOREM ReplacesTheOneShown == Spec => []ReplacesWhatItShowed
<1>1. Init => ReplacesWhatItShowed
  BY DEF Init, ReplacesWhatItShowed
<1>2. ASSUME Typed, Waits, ReplacesWhatItShowed, [Next]_vars
      PROVE  ReplacesWhatItShowed'
  <2> SUFFICES ASSUME phase' = "saved", "hasty" \notin history', saved'.type = "",
                      saved'.name # main'[1], source' # ""
               PROVE  ExistingTransformation(source', target', Known).name = saved'.name
    BY DEF ReplacesWhatItShowed
  <2>1. CASE UNCHANGED vars
    BY <1>2, <2>1 DEF ReplacesWhatItShowed, vars
  <2>2. CASE Save
    <3> DEFINE from == SourceLines[at["sources"]].name
               to   == TargetComponent
               old  == ExistingTransformation(from, to, Known).name
    <3>1. /\ UNCHANGED <<source, target, main, history>> /\ saved'.type = TargetEventType
          /\ saved'.name = IF old # "" THEN old ELSE main[1]
      BY <2>2 DEF Save
    <3>2. source = from /\ target = to
      BY <1>2, <2>2, <3>1, SavedLines
    <3> QED BY <3>1, <3>2
  <2> QED BY <1>2, <2>1, <2>2, SavedStays
<1> QED BY <1>1, <1>2, TypesHold, WaitsHold, PTL DEF Spec
-----------------------------------------------------------------------------
(* The wizard of a user who walks down through samples and waits for the processor.     *)
(* First the stages: calls of one key are for one view, a popup of the sample is  *)
(* closed from itself, signals of the sample are sent from its views, and those  *)
(* of the list of sources from the list.                                       *)
SampleViews == {"sourceEvent", "transformationOperation", "operationValue"}
Inputs      == {"inputEnter", "closeInput", "inputClose"}

ClosesPopup(c) == c.do = "closeWindow" /\ c.view \in {"transformationOperation", "operationValue"}

SameView  == \A c, d \in Pending : c.view = d.view
Closing   == todo # <<>> =>
                /\ \A c \in Range(Tail(todo)) : ~ClosesPopup(c) /\ c.do # "closeInput"
                /\ ClosesPopup(Head(todo)) => current = Head(todo).view
                /\ Head(todo).do = "closeInput" /\ sending = <<>> => proc.pc \in {"apply", "idle"}
InputSide == (\E c \in Pending : c.do \in Inputs) => current \in SampleViews
SampleSide ==
    (\/ \E c \in Pending : c.do = "selectOperation"
     \/ proc.pc = "got" /\ proc.signal.origin \in SampleViews
     \/ sending # <<>> /\ sending[1].origin \in SampleViews)
        => current \in SampleViews
SourceSide ==
    /\ sending # <<>> /\ sending[1].origin = "sources" => current = "sources" /\ todo = <<>>
    /\ proc.pc = "got" /\ proc.signal.origin = "sources" => current = "sources" /\ todo = <<>> /\ sending = <<>>

(* While the processor waits for a value the user does not get back to the sample:       *)
(* the value is on its way or refused, or whatever the user does in the views that *)
(* are left, no key of the sample works.                                       *)
Away == /\ current \notin {"sourceEvent", "transformationOperation"} /\ binds["operationValue"] > 0
        /\ \A c \in Pending : c.view \notin {"sourceEvent", "transformationOperation"}
        /\ todo # <<>> /\ ClosesPopup(Head(todo)) => Tail(todo) # <<>> /\ Head(Tail(todo)).do = "inputClose"
Opened == /\ sending = <<>> /\ current = "operationValue" /\ binds["operationValue"] > 0
          /\ \A c \in Pending : c.do = "selectOperation"
Waiting ==
    proc.pc = "input" =>
        \/ sending # <<>> /\ sending[1].origin # "createAndExit"
        \/ sending = <<>> /\ todo # <<>> /\ Head(todo).do = "inputClose"
        \/ Opened
        \/ Away

Steady == SameView /\ Closing /\ InputSide /\ SampleSide /\ SourceSide /\ Waiting

LEMMA Ends ==
    ASSUME NEW S, NEW s \in Seq(S)
    PROVE  s # <<>> => /\ Head(s) = s[1] /\ Head(s) \in Range(s) /\ Tail(s) \in Seq(S)
                       /\ Range(Tail(s)) \subseteq Range(s)
                       /\ \A x \in Range(Tail(s)) : \E i \in 2 .. Len(s) : x = s[i]
                       /\ Len(s) > 1 => Tail(s) # <<>> /\ Head(Tail(s)) = s[2]
<1> SUFFICES ASSUME s # <<>>
             PROVE  /\ Head(s) = s[1] /\ Head(s) \in Range(s) /\ Tail(s) \in Seq(S)
                    /\ Range(Tail(s)) \subseteq Range(s)
                    /\ \A x \in Range(Tail(s)) : \E i \in 2 .. Len(s) : x = s[i]
                    /\ Len(s) > 1 => Tail(s) # <<>> /\ Head(Tail(s)) = s[2]
  OBVIOUS
<1>1. Len(s) \in Nat \ {0} /\ DOMAIN s = 1 .. Len(s) /\ Head(s) = s[1] /\ 1 \in DOMAIN s
  OBVIOUS
<1>2. /\ Tail(s) \in Seq(S) /\ Len(Tail(s)) = Len(s) - 1
      /\ \A i \in DOMAIN Tail(s) : i + 1 \in 2 .. Len(s) /\ i + 1 \in DOMAIN s /\ Tail(s)[i] = s[i + 1]
  BY <1>1
<1>3. \A x \in Range(Tail(s)) : \E i \in DOMAIN Tail(s) : x = Tail(s)[i]
  BY DEF Range
<1>4. \A x \in Range(Tail(s)) : \E i \in 2 .. Len(s) : x = s[i]
  BY <1>2, <1>3
<1>5. \A i \in DOMAIN s : s[i] \in Range(s)
  BY DEF Range
<1>6. Range(Tail(s)) \subseteq Range(s)
  BY <1>2, <1>3, <1>5
<1>7. Len(s) > 1 => Tail(s) # <<>> /\ Head(Tail(s)) = s[2]
  <2> SUFFICES ASSUME Len(s) > 1
               PROVE  Tail(s) # <<>> /\ Head(Tail(s)) = s[2]
    OBVIOUS
  <2>1. 1 \in DOMAIN Tail(s)
    BY <1>1, <1>2
  <2>2. Tail(s)[1] = s[1 + 1]
    BY <1>2, <2>1, Zenon
  <2>3. 1 + 1 = 2
    OBVIOUS
  <2>4. Tail(s) # <<>>
    <3>1. 1 \notin DOMAIN <<>>
      OBVIOUS
    <3> QED BY <2>1, <3>1, Zenon
  <2>5. Head(Tail(s)) = Tail(s)[1]
    BY <1>2, <2>4
  <2> QED BY <2>2, <2>3, <2>4, <2>5
<1> QED BY <1>1, <1>2, <1>4, <1>5, <1>6, <1>7

(* What the calls that are left keep.                                          *)
LEMMA TailSteady ==
    ASSUME Typed, Steady, todo # <<>>, todo' = Tail(todo)
    PROVE  SameView' /\ Closing'
<1>1. /\ todo \in Seq(CallType) /\ Tail(todo) \in Seq(CallType) /\ Range(Tail(todo)) \subseteq Range(todo)
  BY Ends, Zenon DEF Typed, Calls
<1>2. SameView'
  BY <1>1 DEF Steady, SameView, Pending
<1>3. ASSUME Tail(todo) # <<>>
      PROVE  Range(Tail(Tail(todo))) \subseteq Range(Tail(todo)) /\ Head(Tail(todo)) \in Range(Tail(todo))
  BY <1>1, <1>3, Ends, Zenon
<1>4. Closing'
  BY <1>3 DEF Steady, Closing, ClosesPopup
<1> QED BY <1>2, <1>4

LEMMA InsertSteady ==
    ASSUME Typed, Steady, todo # <<>>, NEW h \in {"closeName", "closeInput"},
           todo' = <<[do |-> h, view |-> V]>> \o Tail(todo), sending' # <<>>
    PROVE  SameView' /\ Closing' /\ Tail(todo') = Tail(todo) /\ Head(todo') = [do |-> h, view |-> V] /\ todo' # <<>>
<1> DEFINE c == [do |-> h, view |-> V]
<1>1. Tail(todo) \in Seq(CallType) /\ Head(todo) \in Pending /\ Range(Tail(todo)) \subseteq Pending
  BY Ends, Zenon DEF Typed, Calls, Pending
<1>2. Pending' \subseteq {c} \cup Range(Tail(todo)) /\ c.view = Head(todo).view /\ c.do = h
  BY CallsLeft DEF Typed, Pending, V
<1>3. todo' # <<>> /\ Head(todo') = c /\ Tail(todo') = Tail(todo)
  <2> DEFINE t == Tail(todo)
             T == CallType \cup {c}
  <2>1. t \in Seq(T)
    BY <1>1
  <2>2. c \in T
    OBVIOUS
  <2>3. todo' = <<c>> \o t
    OBVIOUS
  <2> HIDE DEF t, c, T
  <2>4. <<c>> \o t # <<>> /\ Head(<<c>> \o t) = c /\ Tail(<<c>> \o t) = t
    BY <2>1, <2>2
  <2> QED BY <2>3, <2>4 DEF t, c
<1>4. SameView'
  BY <1>1, <1>2 DEF Steady, SameView
<1>5. Closing'
  BY <1>2, <1>3 DEF Steady, Closing, ClosesPopup
<1> QED BY <1>3, <1>4, <1>5

(* A call of a key of a view: it sends a signal from where it leaves the user, or       *)
(* leaves the processor waiting.                                               *)
LEMMA ViewSteady ==
    ASSUME Typed, Prompt, Steady, todo # <<>>, sending = <<>>, Head(todo).do \in ViewCalls,
           todo' = Tail(todo), UNCHANGED proc,
           \/ \E s : /\ sending' = <<s>> /\ s.origin \notin {"createAndExit", "inputValue"}
                     /\ s.origin \in SampleViews => current' \in SampleViews
                     /\ s.origin = "sources" => current' = "sources"
           \/ /\ UNCHANGED sending
              /\ \/ V = "sourceEvent"
                 \/ /\ current' = current \/ current' \in {"transformation", "transformationName"}
                    /\ binds'["operationValue"] = binds["operationValue"]
    PROVE  Steady'
<1>1. /\ Head(todo) \in Pending /\ Tail(todo) = <<>> /\ V = current /\ proc.pc \in {"idle", "input"} /\ Range(<<>>) = {}
  BY CallsLeft DEF Typed, Prompt, OneCall, V
<1>2. SameView' /\ Closing' /\ Pending' = {} /\ todo' = <<>>
  BY <1>1, TailSteady DEF Pending
<1>3. InputSide'
  BY <1>2 DEF InputSide
<1>4. SampleSide' /\ SourceSide'
  BY <1>1, <1>2 DEF SampleSide, SourceSide
<1>5. Waiting'
  <2>1. CASE sending' # <<>>
    BY <2>1 DEF Waiting
  <2>2. CASE UNCHANGED sending /\ proc.pc = "input"
    <3>1. Away /\ V \notin {"sourceEvent", "transformationOperation"}
      BY <1>1, <2>2 DEF Steady, Waiting, Opened, Away, ViewCalls, ViewHandlers
    <3>2. Away'
      BY <1>2, <2>2, <3>1 DEF Away
    <3> QED BY <3>2 DEF Waiting
  <2>3. CASE proc.pc # "input"
    BY <2>3 DEF Waiting
  <2> QED BY <2>1, <2>2, <2>3
<1> QED BY <1>2, <1>3, <1>4, <1>5 DEF Steady

LEMMA NotEmpty ==
    ASSUME NEW S, NEW s \in Seq(S)
    PROVE  /\ s # <<>> => Len(s) \in Nat \ {0} /\ 1 \in DOMAIN s
           /\ 1 \in DOMAIN s => s # <<>>
           /\ 2 \in DOMAIN s <=> Len(s) > 1
OBVIOUS

LEMMA AfterHead ==
    ASSUME NEW S, NEW g \in S, NEW p \in Seq(S)
    PROVE  /\ \A i \in DOMAIN (<<g>> \o p) : i = 1 \/ \E j \in DOMAIN p : (<<g>> \o p)[i] = p[j]
           /\ p # <<>> => Len(<<g>> \o p) > 1 /\ 2 \in DOMAIN (<<g>> \o p)
<1> DEFINE b == <<g>> \o p
<1>1. /\ b \in Seq(S) /\ Len(b) = 1 + Len(p) /\ b[1] = g
      /\ \A i \in 2 .. Len(b) : b[i] = p[i - 1] /\ i - 1 \in DOMAIN p
  BY Headed, Zenon
<1> HIDE DEF b
<1>2. \A i \in DOMAIN b : i = 1 \/ i \in 2 .. Len(b)
  BY <1>1
<1>3. p # <<>> => Len(b) > 1 /\ 2 \in DOMAIN b
  BY <1>1
<1> QED BY <1>1, <1>2, <1>3 DEF b

LEMMA CallsOf ==
    ASSUME NEW S, NEW b \in Seq(S), NEW v
    PROVE  /\ [i \in DOMAIN b |-> [do |-> b[i], view |-> v]] \in Seq([do : S, view : {v}])
           /\ Len([i \in DOMAIN b |-> [do |-> b[i], view |-> v]]) = Len(b)
           /\ DOMAIN [i \in DOMAIN b |-> [do |-> b[i], view |-> v]] = DOMAIN b
           /\ \A j \in DOMAIN b : /\ [i \in DOMAIN b |-> [do |-> b[i], view |-> v]][j].do = b[j]
                                  /\ [i \in DOMAIN b |-> [do |-> b[i], view |-> v]][j].view = v
<1> DEFINE t == [i \in DOMAIN b |-> [do |-> b[i], view |-> v]]
<1> DEFINE T == [do : S, view : {v}]
<1>1. Len(b) \in Nat /\ DOMAIN b = 1 .. Len(b) /\ \A i \in DOMAIN b : b[i] \in S
  BY Elements
<1>2. DOMAIN t = DOMAIN b /\ \A i \in DOMAIN t : t[i] \in T /\ t[i].do = b[i] /\ t[i].view = v
  BY <1>1
<1>3. t = [i \in 1 .. Len(b) |-> t[i]]
  BY <1>1
<1> HIDE DEF T
<1>4. t \in [1 .. Len(b) -> T]
  BY <1>1, <1>2, <1>3
<1>5. t \in Seq(T)
  BY <1>1, <1>4, SeqDef
<1>6. Len(t) = Len(b)
  BY <1>1, <1>2, <1>5
<1> QED BY <1>2, <1>5, <1>6 DEF T

LEMMA Positive == ASSUME NEW n \in Nat, n > 0 PROVE 1 \in 1 .. n
OBVIOUS

(* Keys.  Ctrl-C closes a popup of the sample with the first call, and takes the    *)
(* processor from its wait with the second.                                    *)
LEMMA ClosesFirst ==
    ASSUME NEW k \in Keys, NEW v \in {"transformationOperation", "operationValue"}, binds \in [Popups -> Nat]
    PROVE  /\ \A i \in DOMAIN Bound(k, v) : Bound(k, v)[i] = "closeWindow" => i = 1
           /\ v = "operationValue" /\ binds[v] > 0 /\ 1 \in DOMAIN Bound(k, v) /\ Bound(k, v)[1] = "closeWindow"
                 => Len(Bound(k, v)) > 1 /\ Bound(k, v)[2] = "inputClose"
<1>1. v \in Views /\ v \in Popups
  BY DEF Views, Popups
<1>2. CASE k # "Ctrl-C"
  <2>1. \A i \in DOMAIN Bound(k, v) : Bound(k, v)[i] # "closeWindow"
    BY <1>1, <1>2, BoundCalls, GlobalKeys, ViewKeys, PopupKeys
  <2> QED BY <2>1
<1>3. CASE k = "Ctrl-C"
  <2> DEFINE n == binds[v]
             h == PopupKey(v, k)
             p == Times(h, n)
             g == "closeWindow"
  <2>1. n \in Nat /\ g \in Names /\ h \in Names
    BY <1>1, PopupKeys DEF Names
  <2>2. GlobalKey(k) = g /\ ViewKey(v, k) = "" /\ h = IF v = "operationValue" THEN "inputClose" ELSE ""
    BY <1>3, GlobalKeys, ViewKeys, PopupKeys
  <2>3. Times(g, 1) = <<g>> /\ Times("", 1) = <<>>
    <3>1. "" \in Names /\ 1 \in Nat
      BY DEF Names
    <3> QED BY <2>1, <3>1, RepeatedCall
  <2>4. Bound(k, v) = (<<g>> \o <<>>) \o p
    BY <1>1, <2>2, <2>3 DEF Bound
  <2>5. Bound(k, v) = <<g>> \o p
    <3>1. <<g>> \o <<>> = <<g>>
      OBVIOUS
    <3> QED BY <2>4, <3>1
  <2>6. p \in Seq(Names) /\ \A i \in DOMAIN p : p[i] = h /\ h # ""
    BY <2>1, RepeatedCall
  <2>7. h # "" /\ n > 0 => p # <<>>
    <3> SUFFICES ASSUME h # "", n > 0
                 PROVE  p # <<>>
      OBVIOUS
    <3>1. p = [i \in 1 .. n |-> h]
      BY DEF Times
    <3>2. 1 \in 1 .. n
      <4> HIDE DEF n
      <4> QED BY <2>1, Positive, Zenon
    <3>3. 1 \in DOMAIN p
      BY <3>1, <3>2
    <3> HIDE DEF p
    <3> QED BY <2>6, <3>3, NotEmpty, Zenon
  <2> HIDE DEF p, g, h
  <2> DEFINE b == <<g>> \o p
  <2>10. \A i \in DOMAIN p : p[i] = h
    BY <2>6
  <2>11. /\ \A i \in DOMAIN b : i = 1 \/ \E j \in DOMAIN p : b[i] = p[j]
         /\ p # <<>> => Len(b) > 1 /\ 2 \in DOMAIN b
    BY <2>1, <2>6, AfterHead, Zenon
  <2>12. 2 # 1
    OBVIOUS
  <2>8. /\ \A i \in DOMAIN b : i = 1 \/ b[i] = h
        /\ p # <<>> => Len(b) > 1 /\ b[2] = h
    BY <2>10, <2>11, <2>12, Zenon
  <2> HIDE DEF b, n
  <2>9. \A i \in DOMAIN b : b[i] = g => i = 1
    BY <2>2, <2>8 DEF g
  <2> QED BY <1>1, <2>2, <2>5, <2>7, <2>8, <2>9 DEF b, g, h, n
<1> QED BY <1>2, <1>3

LEMMA PressKeepsSteady ==
    ASSUME Typed, Steady, NEW k \in Keys, Press(k), "hasty" \notin history'
    PROVE  Steady'
<1> DEFINE b == Bound(k, current)
<1>1. /\ todo = <<>> /\ sending = <<>> /\ b # <<>>
      /\ todo' = [i \in DOMAIN b |-> [do |-> b[i], view |-> current]]
      /\ history' = history \cup Slips(k)
      /\ UNCHANGED <<current, binds, sending, proc, main>>
  BY DEF Press, ui
<1>2. proc.pc \in {"idle", "input"}
  BY <1>1 DEF Slips, Busy
<1>3. current \in Views /\ binds \in [Popups -> Nat]
  BY DEF Typed, TypeOK
<1>4. /\ b \in Seq(Names)
      /\ \A i \in DOMAIN b : \/ b[i] = GlobalKey(k) /\ GlobalKey(k) # ""
                             \/ b[i] = ViewKey(current, k) /\ ViewKey(current, k) # ""
                             \/ b[i] = PopupKey(current, k) /\ PopupKey(current, k) # "" /\ current \in Popups
  BY <1>3, BoundCalls, Zenon
<1>5. 1 \in DOMAIN b
  <2> HIDE DEF b
  <2> QED BY <1>1, <1>4, NotEmpty, Zenon
<1>6. current \in {"transformationOperation", "operationValue"} =>
         /\ \A i \in DOMAIN b : b[i] = "closeWindow" => i = 1
         /\ current = "operationValue" /\ binds["operationValue"] > 0 /\ b[1] = "closeWindow" => Len(b) > 1 /\ b[2] = "inputClose"
  BY <1>3, <1>5, ClosesFirst
<1>7. \A i \in DOMAIN b : /\ b[i] # "closeInput"
                          /\ b[i] \in Inputs => current = "operationValue"
                          /\ b[i] = "selectOperation" => current = "transformationOperation"
  BY <1>4, GlobalKeys, ViewKeys, PopupKeys DEF Inputs
<1> DEFINE T == [do : Names, view : {current}]
<1>8. /\ todo' \in Seq(T) /\ Len(todo') = Len(b) /\ DOMAIN todo' = DOMAIN b /\ todo' # <<>>
      /\ \A i \in DOMAIN todo' : todo'[i].do = b[i] /\ todo'[i].view = current
  <2> HIDE DEF b
  <2> DEFINE t == [i \in DOMAIN b |-> [do |-> b[i], view |-> current]]
  <2>3. b \in Seq(Names)
    BY <1>4
  <2>2. /\ t \in Seq(T) /\ Len(t) = Len(b) /\ DOMAIN t = DOMAIN b
        /\ \A j \in DOMAIN b : t[j].do = b[j] /\ t[j].view = current
    BY <2>3, CallsOf, Zenon
  <2>1. /\ todo' \in Seq(T) /\ Len(todo') = Len(b) /\ DOMAIN todo' = DOMAIN b
        /\ \A i \in DOMAIN todo' : todo'[i].do = b[i] /\ todo'[i].view = current
    BY <1>1, <2>2, Zenon
  <2> HIDE DEF T
  <2> QED BY <1>5, <2>1, NotEmpty, Zenon
<1> HIDE DEF b, T
<1>9. /\ Head(todo') = todo'[1]
      /\ \A x \in Range(Tail(todo')) : \E i \in 2 .. Len(todo') : x = todo'[i]
      /\ Len(todo') > 1 => Tail(todo') # <<>> /\ Head(Tail(todo')) = todo'[2]
  BY <1>8, Ends, Zenon
<1>10. 2 \in DOMAIN b <=> Len(b) > 1
  BY <1>4, NotEmpty
<1>11. \A c \in Pending' : \E i \in DOMAIN b : c.do = b[i] /\ c.view = current
  BY <1>8 DEF Pending, Range
<1>12. SameView'
  BY <1>11 DEF SameView
<1>13. Head(todo').view = current /\ Head(todo').do = b[1]
  BY <1>5, <1>8, <1>9
<1>14. \A c \in Range(Tail(todo')) : ~ClosesPopup(c) /\ c.do # "closeInput"
  <2> SUFFICES ASSUME NEW c \in Range(Tail(todo'))
               PROVE  ~ClosesPopup(c) /\ c.do # "closeInput"
    OBVIOUS
  <2>1. PICK i \in 2 .. Len(todo') : c = todo'[i]
    BY <1>9
  <2>2. i # 1 /\ i \in DOMAIN todo'
    BY <1>8, <2>1, Elements
  <2> QED BY <1>6, <1>7, <1>8, <2>1, <2>2 DEF ClosesPopup
<1>15. Closing'
  BY <1>1, <1>5, <1>7, <1>13, <1>14 DEF Closing
<1>16. InputSide' /\ SampleSide' /\ SourceSide'
  BY <1>1, <1>2, <1>7, <1>11 DEF InputSide, SampleSide, SourceSide, SampleViews
<1>17. ASSUME proc.pc = "input"
       PROVE  Away'
  <2>1. current \notin {"sourceEvent", "transformationOperation"} /\ binds["operationValue"] > 0
    BY <1>1, <1>17 DEF Steady, Waiting, Opened, Away
  <2>2. ClosesPopup(Head(todo')) => Tail(todo') # <<>> /\ Head(Tail(todo')).do = "inputClose"
    <3> SUFFICES ASSUME ClosesPopup(Head(todo'))
                 PROVE  Tail(todo') # <<>> /\ Head(Tail(todo')).do = "inputClose"
      OBVIOUS
    <3>1. current = "operationValue" /\ b[1] = "closeWindow"
      BY <1>13, <2>1 DEF ClosesPopup
    <3>2. Len(b) > 1 /\ b[2] = "inputClose"
      BY <1>6, <2>1, <3>1
    <3>3. 2 \in DOMAIN todo'
      BY <1>8, <1>10, <3>2
    <3> QED BY <1>8, <1>9, <3>2, <3>3
  <2> QED BY <1>1, <1>11, <2>1, <2>2 DEF Away
<1>18. Waiting'
  BY <1>1, <1>17 DEF Waiting
<1> QED BY <1>12, <1>15, <1>16, <1>18 DEF Steady

(* A popup is closed: of the sample, from itself, and when the processor waits, which   *)
(* it does for the popup for a value, the call that follows ends its wait.       *)
LEMMA CloseWindowSteady ==
    ASSUME Typed, Prompt, Steady, CloseWindow, phase' = "run", "strayed" \notin history'
    PROVE  Steady'
<1>1. /\ phase = "run" /\ todo # <<>> /\ Head(todo).do = "closeWindow" /\ sending = <<>>
      /\ UNCHANGED <<proc, sending>> /\ Delete(V, Under(V)) /\ todo' = Tail(todo) /\ Under(V) # ""
      /\ V # "transformationName"
  BY DEF CloseWindow, Do, Rest, End, Done
<1>2. /\ Head(todo) \in Pending /\ Pending' \subseteq Pending /\ Head(todo).view = V
      /\ \A c \in Pending : c.view = V
  BY <1>1, CallsLeft DEF Typed, Pending, V, Steady, SameView
<1>3. SameView' /\ Closing'
  BY <1>1, TailSteady
<1>4. \A c \in Pending : Fits(c)
  <2>1. Calls
    BY DEF Typed
  <2> QED BY <2>1 DEF Calls, Pending, Range
<1>5. /\ proc.pc # "got" /\ ~(\A c \in Pending : c.do = "selectOperation")
      /\ \A c \in Pending : c.do # "selectOperation"
  BY <1>1, <1>2 DEF Prompt, PicksAlone, InFlight
<1>6. SourceSide'
  BY <1>1, <1>5 DEF SourceSide
<1>7. SampleSide'
  BY <1>1, <1>2, <1>5 DEF SampleSide
<1>8. proc.pc = "input" => Away
  BY <1>1, <1>5 DEF Steady, Waiting, Opened
<1>9. CASE V = "transformationOperation"
  <2>1. current = "transformationOperation" /\ current' = "sourceEvent"
    BY <1>1, <1>2, <1>9, Focus DEF Steady, Closing, ClosesPopup, Delete
  <2>2. proc.pc # "input"
    BY <1>8, <2>1 DEF Away
  <2> QED BY <1>1, <1>3, <1>6, <1>7, <2>1, <2>2 DEF Steady, InputSide, SampleViews, Waiting
<1>10. CASE V = "operationValue"
  <2>1. current' = "transformationOperation"
    BY <1>1, <1>10, Focus DEF Delete
  <2>2. proc.pc = "input" => Tail(todo) # <<>> /\ Head(Tail(todo)).do = "inputClose"
    BY <1>1, <1>2, <1>8, <1>10 DEF Away, ClosesPopup
  <2> QED BY <1>1, <1>3, <1>6, <1>7, <2>1, <2>2 DEF Steady, InputSide, SampleViews, Waiting
<1>11. CASE V = "targetWarning"
  <2>1. current' = "targets" /\ binds'["operationValue"] = binds["operationValue"]
    <3>1. binds \in [Popups -> Nat] /\ "operationValue" \in Popups
      BY DEF Typed, TypeOK, Popups
    <3>2. current' = "targets" /\ binds' = [binds EXCEPT !["targetWarning"] = 0]
      BY <1>1, <1>11, Focus DEF Delete
    <3> QED BY <3>1, <3>2
  <2>2. \A c \in Pending : c.do \notin Inputs
    BY <1>2, <1>4, <1>11 DEF Fits, Inputs
  <2>3. InputSide'
    BY <1>2, <2>2 DEF InputSide
  <2>4. todo' # <<>> => Head(todo').view = "targetWarning"
    <3>1. ASSUME todo' # <<>>
          PROVE  Head(todo') \in Pending
      <4>1. Tail(todo) \in Seq(CallType) /\ Tail(todo) # <<>>
        BY <1>1, <3>1, Ends, Zenon DEF Typed, Calls
      <4>2. Head(Tail(todo)) \in Range(Tail(todo))
        BY <4>1, Ends, Zenon
      <4> QED BY <1>1, <1>2, <4>2 DEF Pending
    <3> QED BY <1>2, <1>11, <3>1
  <2>5. proc.pc = "input" => Away'
    BY <1>2, <1>8, <2>1, <2>4 DEF Away, ClosesPopup
  <2>6. Waiting'
    BY <1>1, <2>5 DEF Waiting
  <2> QED BY <1>3, <1>6, <1>7, <2>3, <2>6 DEF Steady
<1>12. V \in {"transformationOperation", "operationValue", "targetWarning"}
  BY <1>1, Focus
<1> QED BY <1>9, <1>10, <1>11, <1>12

LEMMA HandlersKeepSteady ==
    ASSUME Typed, Prompt, Steady, Handlers, phase' = "run", "strayed" \notin history'
    PROVE  Steady'
<1>1. ASSUME NEW h, Do(h)
      PROVE  /\ todo # <<>> /\ Head(todo).do = h /\ sending = <<>> /\ Fits(Head(todo)) /\ Head(todo).view = V
             /\ Head(todo) \in Pending /\ \A c \in Pending : c.view = V
             /\ Range(Tail(todo)) \subseteq Pending
  BY <1>1, FirstCall, CallsLeft DEF Do, Typed, V, Steady, SameView
<1>2. \A c \in Pending : Fits(c)
  <2>1. Calls
    BY DEF Typed
  <2> QED BY <2>1 DEF Calls, Pending, Range
<1>3. ASSUME NEW h \in ViewCalls, Do(h)
      PROVE  V = current /\ Tail(todo) = <<>>
  BY <1>1, <1>3 DEF Prompt, OneCall
<1>4. {"switchToSources", "switchToTargets", "switchToTransformation", "sourceCursorRight", "sourceEventCursorLeft",
       "cursorUp", "cursorDown", "cursorUpEventSample", "cursorDownEventSample", "wipeData", "resetTransformation",
       "popOperationsView", "popTransformationNameView"} \subseteq ViewCalls
  BY DEF ViewCalls, ViewHandlers
<1>5. ASSUME NEW h \in ViewCalls, Do(h), UNCHANGED proc, NEW view \in Views, NEW where, SendSignal(view, where)
      PROVE  Steady'
  <2>1. PICK line : sending' = <<Signal(view, line)>> /\ todo' = Tail(todo) /\ current' = view
    BY <1>5 DEF SendSignal, MoveCursors, Done
  <2>2. Signal(view, line).origin = view /\ view \notin {"createAndExit", "inputValue"}
    BY <1>5 DEF Signal, Views, Popups
  <2> QED BY <1>1, <1>5, <2>1, <2>2, ViewSteady
<1>6. ASSUME NEW h \in ViewCalls, Do(h), UNCHANGED <<proc, sending>>, todo' = Tail(todo),
             \/ V = "sourceEvent"
             \/ /\ current' = current \/ current' \in {"transformation", "transformationName"}
                /\ binds'["operationValue"] = binds["operationValue"]
      PROVE  Steady'
  BY <1>1, <1>6, ViewSteady
<1>7. current \in Views /\ Lists \subseteq Views
  BY DEF Typed, TypeOK, Views
<1>8. CASE CloseWindow
  BY <1>8, CloseWindowSteady
<1>9. CASE SelectOperation
  <2>1. Do("selectOperation") /\ SendSignal(current, at) /\ UNCHANGED proc
    BY <1>9 DEF SelectOperation, Rest
  <2>2. PICK line : sending' = <<Signal(current, line)>> /\ todo' = Tail(todo) /\ current' = current
    BY <2>1 DEF SendSignal, MoveCursors, Done
  <2>3. sending' # <<>> /\ sending'[1].origin = current
    BY <2>2 DEF Signal
  <2>4. /\ current \in SampleViews /\ Pending' \subseteq Pending
        /\ \A c \in Pending : c.do = "selectOperation"
    BY <1>1, <2>1, <2>2 DEF Steady, SampleSide, Pending, Prompt, PicksAlone
  <2>5. SameView' /\ Closing'
    BY <1>1, <2>1, <2>2, TailSteady
  <2>6. InputSide' /\ SampleSide' /\ Waiting'
    BY <2>2, <2>3, <2>4 DEF InputSide, SampleSide, Waiting, SampleViews
  <2>7. SourceSide'
    BY <1>1, <2>1, <2>3, <2>4 DEF Steady, SourceSide, SampleViews
  <2> QED BY <2>5, <2>6, <2>7 DEF Steady
<1>10. ASSUME NEW h \in {"switchToSources", "switchToTargets"}, NEW view \in {"sources", "targets"}, SwitchTo(h, view)
       PROVE  Steady'
  <2>1. Do(h) /\ UNCHANGED proc
    BY <1>10 DEF SwitchTo, Rest
  <2>2. \/ SendSignal(view, at)
        \/ UNCHANGED <<sending, current, binds>> /\ todo' = Tail(todo)
    BY <1>10 DEF SwitchTo, Done, ui
  <2>3. CASE SendSignal(view, at)
    BY <1>4, <1>5, <1>7, <2>1, <2>3
  <2>4. CASE UNCHANGED <<sending, current, binds>> /\ todo' = Tail(todo)
    BY <1>4, <1>6, <2>1, <2>4
  <2> QED BY <2>2, <2>3, <2>4
<1>11. CASE SwitchToTransformation
  <2>1. /\ Do("switchToTransformation") /\ todo' = Tail(todo) /\ UNCHANGED <<proc, sending, binds>>
        /\ current' = "transformation"
    BY <1>11 DEF SwitchToTransformation, Rest, Done
  <2> QED BY <1>4, <1>6, <2>1
<1>12. CASE SourceCursorRight
  <2>1. Do("sourceCursorRight") /\ UNCHANGED proc
    BY <1>12 DEF SourceCursorRight, Rest
  <2>2. \/ SendSignal("sourceEvent", at)
        \/ UNCHANGED <<sending, current, binds>> /\ todo' = Tail(todo)
    BY <1>12 DEF SourceCursorRight, Done, ui
  <2>3. CASE SendSignal("sourceEvent", at)
    BY <1>4, <1>5, <1>7, <2>1, <2>3
  <2>4. CASE UNCHANGED <<sending, current, binds>> /\ todo' = Tail(todo)
    BY <1>4, <1>6, <2>1, <2>4
  <2> QED BY <2>2, <2>3, <2>4
<1>13. CASE SourceEventCursorLeft
  <2>1. /\ Do("sourceEventCursorLeft") /\ SendSignal("sources", [at EXCEPT !["sourceEvent"] = top["sourceEvent"] + 1]) /\ UNCHANGED proc
    BY <1>13 DEF SourceEventCursorLeft, Rest
  <2> QED BY <1>4, <1>5, <1>7, <2>1
<1>14. ASSUME NEW h \in {"cursorUp", "cursorDown"}, NEW step \in {-1, 1}, CursorList(h, step)
       PROVE  Steady'
  <2>1. Do(h) /\ UNCHANGED proc
    BY <1>14 DEF CursorList, Rest
  <2>2. \/ \E where : SendSignal(current, where)
        \/ UNCHANGED <<sending, current, binds>> /\ todo' = Tail(todo)
    BY <1>14 DEF CursorList, Done, End, ui
  <2>3. CASE \E where : SendSignal(current, where)
    BY <1>4, <1>5, <1>7, <2>1, <2>3
  <2>4. CASE UNCHANGED <<sending, current, binds>> /\ todo' = Tail(todo)
    BY <1>4, <1>6, <2>1, <2>4
  <2> QED BY <2>2, <2>3, <2>4
<1>15. ASSUME NEW h \in {"cursorUpEventSample", "cursorDownEventSample"}, NEW step \in {-1, 1}, CursorEventSample(h, step)
       PROVE  Steady'
  <2>1. Do(h) /\ UNCHANGED proc
    BY <1>15 DEF CursorEventSample, Rest
  <2>2. \/ \E where : SendSignal(current, where)
        \/ UNCHANGED <<sending, current, binds>> /\ todo' = Tail(todo)
    BY <1>15, SampleCursorSends
  <2>3. CASE \E where : SendSignal(current, where)
    BY <1>4, <1>5, <1>7, <2>1, <2>3
  <2>4. CASE UNCHANGED <<sending, current, binds>> /\ todo' = Tail(todo)
    BY <1>4, <1>6, <2>1, <2>4
  <2> QED BY <2>2, <2>3, <2>4
<1>16. CASE WipeData
  <2> DEFINE s == [origin |-> "transformationOperation", line |-> "delete", isHotKey |-> TRUE]
  <2>1. Do("wipeData") /\ todo' = Tail(todo) /\ sending' = <<s>> /\ UNCHANGED <<current, proc>>
    BY <1>16 DEF WipeData, Done, Rest, ui
  <2>2. s.origin = "transformationOperation"
    OBVIOUS
  <2>3. current \in SampleViews
    BY <1>1, <1>3, <1>4, <2>1 DEF Fits, SampleViews
  <2> HIDE DEF s
  <2> QED BY <1>1, <1>4, <2>1, <2>2, <2>3, ViewSteady
<1>17. CASE ResetTransformation
  <2>1. Do("resetTransformation") /\ todo' = Tail(todo) /\ UNCHANGED <<proc, sending, current, binds>>
    BY <1>17 DEF ResetTransformation, Rest, Done, ui
  <2> QED BY <1>4, <1>6, <2>1
<1>18. CASE Pop("popOperationsView", "transformationOperation")
  <2>1. Do("popOperationsView") /\ todo' = Tail(todo) /\ UNCHANGED <<proc, sending>>
    BY <1>18 DEF Pop, Rest, Done
  <2>2. V = "sourceEvent"
    BY <1>1, <2>1 DEF Fits
  <2> QED BY <1>4, <1>6, <2>1, <2>2
<1>19. CASE Pop("popTransformationNameView", "transformationName")
  <2>1. /\ Do("popTransformationNameView") /\ todo' = Tail(todo) /\ UNCHANGED <<proc, sending>>
        /\ current' = "transformationName" /\ binds' = [binds EXCEPT !["transformationName"] = @ + 1]
    BY <1>19 DEF Pop, Rest, Done
  <2>2. binds'["operationValue"] = binds["operationValue"]
    <3>1. binds \in [Popups -> Nat] /\ "operationValue" \in Popups
      BY DEF Typed, TypeOK, Popups
    <3> QED BY <2>1, <3>1
  <2> QED BY <1>4, <1>6, <2>1, <2>2
<1>20. CASE SaveAndExit
  <2>1. /\ Do("saveAndExit") /\ todo' = <<[do |-> "closeName", view |-> V]>> \o Tail(todo)
        /\ sending' = <<Signal("createAndExit", "name")>> /\ UNCHANGED <<current, binds, proc>>
    BY <1>20 DEF SaveAndExit, Rest, ui
  <2>2. sending' # <<>> /\ sending'[1].origin = "createAndExit"
    BY <2>1 DEF Signal
  <2>3. /\ SameView' /\ Closing' /\ todo' # <<>> /\ Tail(todo') = Tail(todo)
        /\ Head(todo') = [do |-> "closeName", view |-> V]
    BY <1>1, <2>1, <2>2, InsertSteady
  <2>4. V = "transformationName" /\ proc.pc \in {"idle", "input"} /\ \A c \in Pending : c.do \in SaveCalls
    <3>1. Saving
      BY <1>1, <2>1 DEF Saving, SaveCalls
    <3> QED BY <1>1, <2>1, <3>1 DEF Fits, Prompt, SavesAlone
  <2>5. \A c \in Pending' : c.do \in SaveCalls /\ c.view = V
    <3>1. Pending' \subseteq {[do |-> "closeName", view |-> V]} \cup Range(Tail(todo))
      BY <1>1, <2>1, CallsLeft DEF Typed, Pending
    <3> QED BY <1>1, <2>1, <2>4, <3>1 DEF SaveCalls
  <2>6. InputSide' /\ SampleSide' /\ SourceSide'
    BY <2>1, <2>2, <2>4, <2>5 DEF InputSide, SampleSide, SourceSide, SaveCalls, Inputs, SampleViews
  <2>7. proc.pc = "input" => Away'
    <3>1. proc.pc = "input" => Away
      BY <1>1, <2>1, <2>4 DEF Steady, Waiting, Opened, SaveCalls
    <3> QED BY <2>1, <2>3, <2>4, <2>5, <3>1 DEF Away, ClosesPopup
  <2>8. Waiting'
    BY <2>1, <2>7 DEF Waiting
  <2> QED BY <2>3, <2>6, <2>8 DEF Steady
<1>21. CASE CloseName
  <2>1. /\ Do("closeName") /\ todo' = Tail(todo) /\ UNCHANGED <<proc, sending, current>>
        /\ binds' = [binds EXCEPT ![V] = 0]
    BY <1>21 DEF CloseName, Rest, Done, End, Delete
  <2>2. V = "transformationName" /\ Pending' \subseteq Pending
    BY <1>1, <2>1 DEF Fits, Pending
  <2>3. binds'["operationValue"] = binds["operationValue"]
    <3>1. binds \in [Popups -> Nat] /\ "operationValue" \in Popups
      BY DEF Typed, TypeOK, Popups
    <3> QED BY <2>1, <2>2, <3>1
  <2>4. SameView' /\ Closing'
    BY <1>1, <2>1, TailSteady
  <2>5. InputSide' /\ SampleSide' /\ SourceSide'
    BY <1>1, <2>1, <2>2 DEF Steady, InputSide, SampleSide, SourceSide
  <2>6. todo' # <<>> => Head(todo').view = "transformationName"
    <3>1. ASSUME todo' # <<>>
          PROVE  Head(todo') \in Pending
      <4>1. Tail(todo) \in Seq(CallType) /\ Tail(todo) # <<>>
        BY <1>1, <2>1, <3>1, Ends, Zenon DEF Typed, Calls
      <4>2. Head(Tail(todo)) \in Range(Tail(todo))
        BY <4>1, Ends, Zenon
      <4> QED BY <1>1, <2>1, <4>2
    <3> QED BY <1>1, <2>1, <2>2, <3>1
  <2>7. proc.pc = "input" => Away'
    <3>1. proc.pc = "input" => Away
      BY <1>1, <2>1 DEF Steady, Waiting, Opened
    <3> QED BY <2>1, <2>2, <2>3, <2>6, <3>1 DEF Away, ClosesPopup
  <2>8. Waiting'
    BY <2>1, <2>7 DEF Waiting
  <2> QED BY <2>4, <2>5, <2>8 DEF Steady
<1>22. CASE InputEnter
  <2>1. PICK v \in Values : sending' = <<Signal("inputValue", v)>>
    BY <1>22 DEF InputEnter
  <2>2. /\ Do("inputEnter") /\ todo' = <<[do |-> "closeInput", view |-> V]>> \o Tail(todo)
        /\ UNCHANGED <<current, binds, proc>>
    BY <1>22 DEF InputEnter, Rest, ui
  <2>3. sending' # <<>> /\ sending'[1].origin = "inputValue"
    BY <2>1 DEF Signal
  <2>4. SameView' /\ Closing'
    BY <1>1, <2>2, <2>3, InsertSteady
  <2>5. current \in SampleViews
    BY <1>1, <2>2 DEF Steady, InputSide, Inputs
  <2>6. InputSide' /\ SampleSide' /\ Waiting'
    BY <2>2, <2>3, <2>5 DEF InputSide, SampleSide, Waiting
  <2>7. SourceSide'
    BY <1>1, <2>2, <2>3 DEF Steady, SourceSide
  <2> QED BY <2>4, <2>6, <2>7 DEF Steady
<1>23. CASE CloseInput
  <2>1. /\ Do("closeInput") /\ todo' = Tail(todo) /\ UNCHANGED <<proc, sending>> /\ current' = "sourceEvent"
    BY <1>23 DEF CloseInput, Rest, Done, End
  <2>2. proc.pc \in {"apply", "idle"} /\ sending = <<>>
    BY <1>1, <2>1 DEF Steady, Closing
  <2>3. SameView' /\ Closing'
    BY <1>1, <2>1, TailSteady
  <2>4. InputSide' /\ SampleSide' /\ SourceSide' /\ Waiting'
    BY <2>1, <2>2 DEF InputSide, SampleSide, SourceSide, Waiting, SampleViews
  <2> QED BY <2>3, <2>4 DEF Steady
<1>24. CASE InputClose
  <2>1. /\ Do("inputClose") /\ todo' = Tail(todo) /\ UNCHANGED <<sending, current>>
        /\ proc' = [proc EXCEPT !.pc = "apply", !.path = <<>>, !.value = <<>>]
    BY <1>24 DEF InputClose, Done, End, ui
  <2>2. proc'.pc = "apply" /\ sending = <<>> /\ Pending' \subseteq Pending
    BY <1>1, <2>1 DEF Typed, Signals, Pending
  <2>3. SameView' /\ Closing'
    BY <1>1, <2>1, TailSteady
  <2>4. InputSide' /\ SampleSide' /\ SourceSide' /\ Waiting'
    BY <2>1, <2>2 DEF Steady, InputSide, SampleSide, SourceSide, Waiting
  <2> QED BY <2>3, <2>4 DEF Steady
<1> QED BY <1>8, <1>9, <1>10, <1>11, <1>12, <1>13, <1>14, <1>15, <1>16, <1>17, <1>18, <1>19, <1>20, <1>21, <1>22, <1>23, <1>24
        DEF Handlers

LEMMA ProcessorKeepsSteady ==
    ASSUME Typed, Prompt, Steady, ProcessKeystrokes, phase' = "run"
    PROVE  Steady'
<1>1. UNCHANGED <<todo, main>> /\ Pending' = Pending /\ SameView'
  <2>1. UNCHANGED <<todo, main>>
    BY DEF ProcessKeystrokes, Receive, SelectSource, SelectTarget, WalkSample, ReadOperation, ReceiveInput, Apply
  <2> QED BY <2>1 DEF Steady, SameView, Pending
<1>2. /\ proc = [pc |-> proc.pc, signal |-> proc.signal, path |-> proc.path, value |-> proc.value]
      /\ Idle.pc = "idle"
  BY DEF Typed, Signals, Idle
<1>3. /\ \A c \in Range(Tail(todo)) : todo # <<>> => c \in Pending
      /\ todo # <<>> => Head(todo) \in Pending
  BY CallsLeft DEF Typed
<1>4. ASSUME proc.pc \in {"idle", "got"}, InFlight
      PROVE  /\ \A c \in Pending : c.do = "selectOperation"
             /\ todo # <<>> => Head(todo).do = "selectOperation"
             /\ ~Saving
  BY <1>3, <1>4 DEF Prompt, PicksAlone, SavesAlone, InFlight, ToProcessor
<1>5. CASE Receive
  <2>1. /\ proc.pc = "idle" /\ InFlight /\ sending # <<>> /\ sending' = <<>> /\ UNCHANGED <<current, binds>>
    BY <1>5 DEF Receive, InFlight, ToProcessor, ui
  <2>2. \/ proc'.pc = "got" /\ proc'.signal = sending[1]
        \/ proc'.pc = "idle"
    BY <1>2, <1>5, <2>1 DEF Receive
  <2>3. Closing'
    BY <1>1, <1>3, <1>4, <2>1 DEF Steady, Closing
  <2>4. InputSide' /\ SampleSide' /\ SourceSide' /\ Waiting'
    BY <1>1, <2>1, <2>2 DEF Steady, InputSide, SampleSide, SourceSide, Waiting
  <2> QED BY <1>1, <2>3, <2>4 DEF Steady
<1>6. ASSUME proc'.pc \in {"idle", "apply"}, sending' \in {sending, <<>>}, UNCHANGED <<current, binds>>
      PROVE  Steady'
  <2>1. Closing'
    BY <1>1, <1>6 DEF Steady, Closing
  <2>2. InputSide' /\ SampleSide' /\ SourceSide' /\ Waiting'
    BY <1>1, <1>6 DEF Steady, InputSide, SampleSide, SourceSide, Waiting
  <2> QED BY <1>1, <2>1, <2>2 DEF Steady
<1>7. CASE SelectSource \/ SelectTarget \/ Apply
  <2>1. proc' = Idle /\ UNCHANGED <<sending, current, binds>>
    BY <1>7 DEF SelectSource, SelectTarget, Apply, ui
  <2> QED BY <1>2, <1>6, <2>1
<1>8. CASE WalkSample
  <2>1. proc' = Idle \/ phase' = "panic"
    BY <1>8 DEF WalkSample
  <2>2. proc' = Idle /\ UNCHANGED <<sending, current, binds>>
    BY <1>8, <2>1 DEF WalkSample, ui
  <2> QED BY <1>2, <1>6, <2>2
<1>9. CASE ReceiveInput
  <2>1. /\ sending' = <<>> /\ UNCHANGED <<current, binds>>
        /\ \E v, p : proc' = [proc EXCEPT !.pc = "apply", !.value = v, !.path = p]
    BY <1>9 DEF ReceiveInput, ui
  <2>2. proc'.pc = "apply"
    BY <1>2, <2>1
  <2> QED BY <1>6, <2>1, <2>2
<1>10. CASE ReadOperation
  <2>1. /\ proc.pc = "got" /\ proc.signal.origin = "transformationOperation" /\ UNCHANGED sending
        /\ \/ /\ \E p : proc' = [proc EXCEPT !.pc = "apply", !.path = p]
              /\ current' = "sourceEvent"
           \/ /\ \E p : proc' = [proc EXCEPT !.pc = "input", !.path = p]
              /\ current' = "operationValue" /\ binds' = [binds EXCEPT !["operationValue"] = @ + 1]
    BY <1>10 DEF ReadOperation, Got, Delete
  <2>2. /\ \A c \in Pending : c.do = "selectOperation"
        /\ todo # <<>> => Head(todo).do = "selectOperation"
        /\ ~Saving
    BY <1>4, <2>1 DEF InFlight
  <2>3. current \in SampleViews
    BY <2>1 DEF Steady, SampleSide, SampleViews
  <2>4. sending # <<>> => sending[1].origin # "sources"
    BY <2>3 DEF Steady, SourceSide, SampleViews
  <2>5. proc'.pc \in {"apply", "input"}
    BY <1>2, <2>1
  <2>6. current' \in SampleViews
    BY <2>1 DEF SampleViews
  <2>7. Closing'
    BY <1>1, <1>3, <2>2 DEF Closing, ClosesPopup
  <2>8. InputSide' /\ SampleSide' /\ SourceSide'
    BY <1>1, <2>1, <2>4, <2>5, <2>6 DEF InputSide, SampleSide, SourceSide
  <2>9. Waiting'
    <3>1. SUFFICES ASSUME proc'.pc = "input"
                   PROVE  \/ sending' # <<>> /\ sending'[1].origin # "createAndExit"
                          \/ Opened'
      BY DEF Waiting
    <3>2. current' = "operationValue" /\ binds' = [binds EXCEPT !["operationValue"] = @ + 1]
      BY <1>2, <2>1, <3>1
    <3>3. binds'["operationValue"] > 0
      <4>1. binds \in [Popups -> Nat] /\ "operationValue" \in Popups
        BY DEF Typed, TypeOK, Popups
      <4> QED BY <3>2, <4>1
    <3> QED BY <1>1, <2>1, <2>2, <3>2, <3>3 DEF Opened, Saving
  <2> QED BY <1>1, <2>7, <2>8, <2>9 DEF Steady
<1> QED BY <1>5, <1>7, <1>8, <1>9, <1>10 DEF ProcessKeystrokes

LEMMA MainKeepsSteady ==
    ASSUME Typed, Prompt, Steady, ReceiveName \/ PopTargetWarning
    PROVE  Steady'
<1>1. UNCHANGED <<todo, proc>> /\ Saving /\ Pending' = Pending /\ SameView'
  <2>1. UNCHANGED <<todo, proc>> /\ Saving
    BY DEF ReceiveName, PopTargetWarning, Saving
  <2> QED BY <2>1 DEF Steady, SameView, Pending
<1>2. /\ proc.pc \in {"idle", "input"} /\ \A c \in Pending : c.do \in SaveCalls
      /\ sending # <<>> => sending[1].origin = "createAndExit"
  BY <1>1 DEF Prompt, SavesAlone
<1>3. /\ \A c \in Range(Tail(todo)) : todo # <<>> => c \in Pending
      /\ todo # <<>> => Head(todo) \in Pending
  BY CallsLeft DEF Typed
<1>4. Closing'
  BY <1>1, <1>2, <1>3 DEF Closing, ClosesPopup, SaveCalls
<1>5. sending' \in {sending, <<>>}
  BY DEF ReceiveName, PopTargetWarning
<1>6. InputSide' /\ SampleSide' /\ SourceSide'
  BY <1>1, <1>2, <1>5 DEF InputSide, SampleSide, SourceSide, SaveCalls, Inputs, SampleViews
<1>7. proc.pc = "input" => \/ Away
                           \/ current = "operationValue" /\ binds["operationValue"] > 0 /\ Pending = {} /\ sending = <<>>
  BY <1>2, <1>3 DEF Steady, Waiting, Opened, SaveCalls
<1>8. \/ current' = current /\ binds' = binds /\ sending # <<>>
      \/ current' = "targetWarning" /\ binds' = [binds EXCEPT !["targetWarning"] = @ + 1]
  BY DEF ReceiveName, PopTargetWarning, ui
<1>9. binds'["operationValue"] = binds["operationValue"]
  <2>1. binds \in [Popups -> Nat] /\ "operationValue" \in Popups
    BY DEF Typed, TypeOK, Popups
  <2> QED BY <1>8, <2>1
<1>10. proc.pc = "input" => Away'
  BY <1>1, <1>2, <1>3, <1>7, <1>8, <1>9 DEF Away, ClosesPopup, SaveCalls
<1>11. Waiting'
  BY <1>1, <1>10 DEF Waiting
<1> QED BY <1>1, <1>4, <1>6, <1>11 DEF Steady

(* Steady stages, for as long as the user does not stray.                       *)
Straight == phase = "run" /\ history \cap {"strayed", "hasty"} = {}

LEMMA StraightBefore ==
    ASSUME [Next]_vars, Straight'
    PROVE  Straight
<1>1. phase = "run" \/ UNCHANGED vars
  BY DEF Next, Press, Edit, Handlers, Do, CloseWindow, SelectOperation, SwitchTo, SwitchToTransformation, SourceCursorRight,
         SourceEventCursorLeft, CursorList, CursorEventSample, WipeData, ResetTransformation, Pop, SaveAndExit,
         CloseName, InputEnter, CloseInput, InputClose, ProcessKeystrokes, Receive, Got, SelectSource, SelectTarget,
         WalkSample, ReadOperation, ReceiveInput, Apply, ReceiveName, PopTargetWarning, Save
<1>2. history \subseteq history'
  BY DEF Next, Press, Edit, Handlers, Do, CloseWindow, SelectOperation, SwitchTo, SwitchToTransformation, SourceCursorRight,
         SourceEventCursorLeft, CursorList, CursorEventSample, WipeData, ResetTransformation, Pop, SaveAndExit,
         CloseName, InputEnter, CloseInput, InputClose, End, ProcessKeystrokes, Receive, Got, SelectSource, SelectTarget,
         WalkSample, ReadOperation, ReceiveInput, Apply, ReceiveName, PopTargetWarning, Save, vars
<1> QED BY <1>1, <1>2 DEF Straight, vars

LEMMA SteadyHolds ==
    /\ Init => (Straight => Steady)
    /\ Typed /\ Waits /\ (Straight => Steady) /\ [Next]_vars => (Straight => Steady)'
<1>1. ASSUME Init
      PROVE  Steady
  <2>1. todo = <<>> /\ sending = <<>> /\ proc.pc = "idle"
    BY <1>1 DEF Init, Idle
  <2>2. Pending = {}
    <3>1. Range(<<>>) = {}
      BY DEF Range
    <3> QED BY <2>1, <3>1 DEF Pending
  <2> QED BY <2>1, <2>2 DEF Steady, SameView, Closing, InputSide, SampleSide, SourceSide, Waiting
<1>2. ASSUME Typed, Waits, Straight => Steady, [Next]_vars, Straight'
      PROVE  Steady'
  <2>1. Steady /\ Prompt
    BY <1>2, StraightBefore DEF Straight, Waits
  <2>2. phase' = "run" /\ "hasty" \notin history' /\ "strayed" \notin history'
    BY <1>2 DEF Straight
  <2>3. CASE UNCHANGED vars
    <3>1. UNCHANGED <<current, binds, todo, sending, proc>>
      BY <2>3 DEF vars, ui
    <3> QED BY <2>1, <3>1 DEF Steady, SameView, Closing, InputSide, SampleSide, SourceSide, Waiting, Opened, Away, Pending
  <2>4. ASSUME NEW k \in Keys, Press(k)
        PROVE  Steady'
    BY <1>2, <2>1, <2>2, <2>4, PressKeepsSteady
  <2>5. ASSUME Edit
        PROVE  Steady'
    <3>1. UNCHANGED <<current, binds, todo, sending, proc>>
      BY <2>5 DEF Edit, ui
    <3> QED BY <2>1, <3>1 DEF Steady, SameView, Closing, InputSide, SampleSide, SourceSide, Waiting, Opened, Away, Pending
  <2>6. ~Save
    BY <2>2 DEF Save
  <2> QED BY <1>2, <2>1, <2>2, <2>3, <2>4, <2>5, <2>6, HandlersKeepSteady, ProcessorKeepsSteady, MainKeepsSteady DEF Next
<1> QED BY <1>1, <1>2
-----------------------------------------------------------------------------
(* Where the processor takes the cursor to be.  A sample starts with its bracket and a   *)
(* key one level in, and only its first and its last line are at no level.       *)
LEMMA LinesOfSample ==
    LET S == SampleLines
    IN /\ S[1] \in {Blank, Open, Empty} /\ S[1].key \in NoKey
       /\ 2 \in 1 .. Len(S) - 2 => S[2].depth = 1 /\ S[2].key \notin NoKey
       /\ \A i \in 2 .. Len(S) - 2 : S[i].depth # 0
       /\ \A i \in DOMAIN S : S[i].depth \in Nat /\ (S[i].key \notin NoKey => S[i].depth # 0)
<1> DEFINE S == SampleLines
<1>1. /\ Len(S) \in Nat \ {0} /\ DOMAIN S = 1 .. Len(S) /\ \A i \in DOMAIN S : S[i].depth \in Nat
  BY ShownSample DEF SampleLine
<1>2. /\ Blank.key \in NoKey /\ Open.key \in NoKey /\ Empty.key \in NoKey /\ Close.key \in NoKey
  BY DEF Blank, Open, Empty, Close, NoKey, Closers
<1>3. CASE S = <<Blank>>
  <2>1. Len(S) = 1 /\ S[1] = Blank
    BY <1>3
  <2>2. \A i \in DOMAIN S : i = 1
    BY <1>1, <2>1
  <2>3. 2 \notin 1 .. Len(S) - 2 /\ \A i \in 2 .. Len(S) - 2 : FALSE
    BY <2>1
  <2> QED BY <1>1, <1>2, <2>1, <2>2, <2>3
<1>4. ASSUME NEW t \in DOMAIN Registry, S = Append(Registry[t], Blank)
      PROVE  /\ S[1] \in {Blank, Open, Empty} /\ S[1].key \in NoKey
             /\ 2 \in 1 .. Len(S) - 2 => S[2].depth = 1 /\ S[2].key \notin NoKey
             /\ \A i \in 2 .. Len(S) - 2 : S[i].depth # 0
             /\ \A i \in DOMAIN S : S[i].key \notin NoKey => S[i].depth # 0
  <2> DEFINE r == Registry[t]
             n == Len(r)
  <2>1. r \in Seq(SampleLine) /\ Len(r) >= 1
    BY RegistrySample
  <2>2. IsSample(r)
    BY RegistryAssumption
  <2>3. S = Append(r, Blank)
    BY <1>4
  <2> HIDE DEF r, S
  <2>4. n \in Nat /\ n >= 1 /\ Len(S) = n + 1 /\ (\A i \in 1 .. n : S[i] = r[i]) /\ S[n + 1] = Blank
    BY <2>1, <2>3
  <2> HIDE DEF n
  <2>5. 1 \in 1 .. n /\ (\A i \in 2 .. Len(S) - 2 : i \in 1 .. n /\ i \in 2 .. n - 1) /\ (2 \in 1 .. Len(S) - 2 => 2 \in 1 .. n /\ n > 2)
    BY <2>4
  <2>6. \A i \in DOMAIN S : i \in 1 .. n \/ i = n + 1
    BY <1>1, <2>4
  <2>7. CASE r = <<Empty>>
    <3>1. n = 1 /\ r[1] = Empty
      BY <2>7 DEF n
    <3>2. S[1] = Empty /\ S[2] = Blank /\ (\A i \in DOMAIN S : i = 1 \/ i = 2)
      BY <2>4, <2>5, <2>6, <3>1
    <3>3. \A i \in 2 .. Len(S) - 2 : FALSE
      BY <2>4, <3>1
    <3>4. 2 \notin 1 .. Len(S) - 2
      BY <2>4, <3>1
    <3> QED BY <1>2, <3>2, <3>3, <3>4
  <2>8. CASE r # <<Empty>>
    <3>1. /\ n > 2 /\ r[1] = Open /\ r[n] = Close /\ r[2].depth = 1 /\ r[2].key \notin NoKey
          /\ \A i \in 2 .. n - 1 : r[i].depth > 0
      BY <2>2, <2>8 DEF IsSample, n
    <3>2. \A i \in 2 .. n - 1 : i \in 1 .. n /\ S[i] = r[i] /\ S[i].depth # 0
      BY <2>4, <3>1
    <3>3. S[1] = Open /\ S[n] = Close /\ S[2] = r[2]
      BY <2>4, <3>1
    <3>4. \A i \in DOMAIN S : i = 1 \/ i = n \/ i \in 2 .. n - 1 \/ i = n + 1
      BY <2>4, <2>6
    <3> QED BY <1>2, <2>4, <2>5, <3>1, <3>2, <3>3, <3>4
  <2> QED BY <2>7, <2>8
<1> QED BY <1>1, <1>3, <1>4, SampleShape

(* The innermost keys that a line is inside of, the place of each in `nesting', and   *)
(* the step of the processor.                                                  *)
Inside(S, i)   == {j \in Keyed(S, i) : \A k \in Keyed(S, i) : k > j => S[k].depth > S[j].depth}
Level(S, i, d) == {j \in Inside(S, i) : S[j].depth = d}
KeyAt(S, L)    == S[CHOOSE j \in L : TRUE].key
NestingAt(S, i) ==
    [d \in 1 .. MaxNesting |->
        IF Level(S, i, d) # {} THEN KeyAt(S, Level(S, i, d))
        ELSE IF d = 1 /\ Keyed(S, i) = {} /\ S[1] = Open THEN "." ELSE ""]
Walked(n, l) ==
    IF l \in {Open, Close} THEN [n EXCEPT ![1] = "."]
    ELSE IF l.key \in NoKey THEN n
    ELSE [d \in 1 .. MaxNesting |-> IF d < l.depth THEN n[d] ELSE IF d = l.depth THEN l.key ELSE ""]

(* Lines without a key change nothing.                                         *)
LEMMA NoKeysBetween ==
    ASSUME NEW S, NEW i \in Nat, NEW t \in Nat, i <= t, \A k \in i + 1 .. t : S[k].key \in NoKey
    PROVE  Keyed(S, t) = Keyed(S, i) /\ Inside(S, t) = Inside(S, i) /\ NestingAt(S, t) = NestingAt(S, i)
<1>1. Keyed(S, t) = Keyed(S, i)
  BY DEF Keyed
<1>2. Inside(S, t) = Inside(S, i)
  BY <1>1 DEF Inside
<1>3. \A d : Level(S, t, d) = Level(S, i, d)
  BY <1>2 DEF Level
<1>4. ASSUME NEW d \in 1 .. MaxNesting
      PROVE  NestingAt(S, t)[d] = NestingAt(S, i)[d]
  BY <1>1, <1>3 DEF NestingAt
<1>5. \A u : NestingAt(S, u) = [d \in 1 .. MaxNesting |-> NestingAt(S, u)[d]]
  BY DEF NestingAt
<1>6. NestingAt(S, t) = NestingAt(S, i)
  BY <1>4, <1>5
<1> QED BY <1>1, <1>2, <1>6

LEMMA WalkToKey ==
    ASSUME NEW S, NEW i \in Nat, NEW t \in Nat, i < t, \A k \in i + 1 .. t - 1 : S[k].key \in NoKey,
           \A k \in 1 .. t : S[k].depth \in Nat,
           S[t].key \notin NoKey, S[t].depth # 0, Keyed(S, i) = {} => S[t].depth = 1
    PROVE  /\ NestingAt(S, t) = Walked(NestingAt(S, i), S[t])
           /\ Inside(S, t) \subseteq Inside(S, i) \cup {t}
<1> DEFINE e == S[t].depth
<1>1. Keyed(S, t) = Keyed(S, i) \cup {t} /\ \A j \in Keyed(S, i) : j < t /\ j \in 1 .. t
  BY DEF Keyed
<1>2. \A j \in Keyed(S, t) : j \in Nat /\ S[j].depth \in Nat
  BY DEF Keyed
<1>3. /\ t \in Inside(S, t)
      /\ \A j : j \in Inside(S, t) /\ j # t <=> j \in Inside(S, i) /\ S[j].depth < e
  <2>1. t \in Inside(S, t)
    BY <1>1, <1>2 DEF Inside
  <2>2. ASSUME NEW j \in Inside(S, t), j # t
        PROVE  j \in Inside(S, i) /\ S[j].depth < e
    BY <1>1, <1>2, <2>2 DEF Inside
  <2>3. ASSUME NEW j \in Inside(S, i), S[j].depth < e
        PROVE  j \in Inside(S, t) /\ j # t
    BY <1>1, <1>2, <2>3 DEF Inside
  <2> QED BY <2>1, <2>2, <2>3
<1>4. \A j \in Inside(S, t) : S[j].depth \in Nat
  BY <1>2 DEF Inside
<1>5. ASSUME NEW d \in 1 .. MaxNesting
      PROVE  /\ d < e => Level(S, t, d) = Level(S, i, d)
             /\ d = e => Level(S, t, d) = {t}
             /\ d > e => Level(S, t, d) = {}
  BY <1>2, <1>3, <1>4, NestingAssumption DEF Level
<1>6. S[t] \notin {Open, Close}
  <2>1. Open.depth = 0 /\ Close.depth = 0
    BY DEF Open, Close
  <2> QED BY <2>1, Zenon
<1>7. ASSUME NEW d \in 1 .. MaxNesting
      PROVE  NestingAt(S, t)[d] = Walked(NestingAt(S, i), S[t])[d]
  <2>0. Keyed(S, t) # {}
    BY <1>1
  <2>1. /\ NestingAt(S, t)[d] = IF Level(S, t, d) # {} THEN KeyAt(S, Level(S, t, d)) ELSE ""
        /\ NestingAt(S, i)[d] = IF Level(S, i, d) # {} THEN KeyAt(S, Level(S, i, d))
                                ELSE IF d = 1 /\ Keyed(S, i) = {} /\ S[1] = Open THEN "." ELSE ""
    BY <2>0 DEF NestingAt
  <2>5. Walked(NestingAt(S, i), S[t])[d] = IF d < e THEN NestingAt(S, i)[d] ELSE IF d = e THEN S[t].key ELSE ""
    BY <1>6 DEF Walked
  <2>2. CASE d < e
    <3>1. ~(d = 1 /\ Keyed(S, i) = {})
      BY <2>2
    <3> QED BY <1>5, <2>1, <2>2, <2>5, <3>1
  <2>3. CASE d = e
    <3>1. KeyAt(S, {t}) = S[t].key
      BY DEF KeyAt
    <3> QED BY <1>5, <2>1, <2>3, <2>5, <3>1
  <2>4. CASE d > e
    BY <1>5, <2>1, <2>4, <2>5, NestingAssumption
  <2> QED BY <2>2, <2>3, <2>4, NestingAssumption
<1>8. NestingAt(S, t) = Walked(NestingAt(S, i), S[t])
  <2>1. Walked(NestingAt(S, i), S[t]) = [d \in 1 .. MaxNesting |-> Walked(NestingAt(S, i), S[t])[d]]
    BY <1>6 DEF Walked
  <2>2. NestingAt(S, t) = [d \in 1 .. MaxNesting |-> NestingAt(S, t)[d]]
    BY DEF NestingAt
  <2> QED BY <1>7, <2>1, <2>2
<1> QED BY <1>3, <1>8

(* The sample that is shown, walked down line by line.                          *)
LEMMA WalkDown ==
    ASSUME NEW i \in 1 .. Len(SampleLines), NEW t \in 2 .. Len(SampleLines) - 2, i < t,
           \A k \in i + 1 .. t - 1 : SampleLines[k].key \in NoKey
    PROVE  /\ NestingAt(SampleLines, t) = Walked(NestingAt(SampleLines, i), SampleLines[t])
           /\ IF SampleLines[t].key \in NoKey THEN Inside(SampleLines, t) = Inside(SampleLines, i)
              ELSE Inside(SampleLines, t) \subseteq Inside(SampleLines, i) \cup {t}
           /\ SampleLines[t] \notin {Open, Close}
<1> DEFINE S == SampleLines
<1>1. /\ Len(S) \in Nat /\ DOMAIN S = 1 .. Len(S) /\ i \in Nat /\ t \in Nat /\ S[t].depth # 0
      /\ \A k \in DOMAIN S : S[k].depth \in Nat /\ (S[k].key \notin NoKey => S[k].depth # 0)
  BY ShownSample, LinesOfSample
<1>2. S[t] \notin {Open, Close}
  <2>1. Open.depth = 0 /\ Close.depth = 0
    BY DEF Open, Close
  <2> QED BY <1>1, <2>1, Zenon
<1> HIDE DEF S
<1>3. t \in 1 .. Len(S) /\ i + 1 <= t /\ i <= t /\ i >= 1
  BY <1>1 DEF S
<1>4. CASE S[t].key \in NoKey
  <2>1. \A k \in i + 1 .. t : S[k].key \in NoKey
    <3>1. \A k \in i + 1 .. t : k = t \/ k \in i + 1 .. t - 1
      BY <1>1
    <3> QED BY <1>4, <3>1 DEF S
  <2>2. Inside(S, t) = Inside(S, i) /\ NestingAt(S, t) = NestingAt(S, i)
    BY <1>1, <1>3, <2>1, NoKeysBetween
  <2>3. Walked(NestingAt(S, i), S[t]) = NestingAt(S, i)
    BY <1>2, <1>4 DEF Walked
  <2> QED BY <1>2, <1>4, <2>2, <2>3 DEF S
<1>5. CASE S[t].key \notin NoKey
  <2>1. Keyed(S, i) = {} => S[t].depth = 1
    <3>1. 2 \in 1 .. Len(S) - 2
      BY <1>1, <1>3 DEF S
    <3>2. S[2].depth = 1 /\ S[2].key \notin NoKey
      BY <3>1, LinesOfSample DEF S
    <3>3. i >= 2 => 2 \in Keyed(S, i)
      BY <1>1, <3>2 DEF Keyed
    <3>4. i = 1 => t = 2
      <4>1. i = 1 /\ t # 2 => 2 \in i + 1 .. t - 1
        BY <1>1, <1>3
      <4> QED BY <3>2, <4>1 DEF S
    <3>5. i >= 2 \/ i = 1
      BY <1>1, <1>3
    <3> QED BY <3>2, <3>3, <3>4, <3>5
  <2>2. \A k \in 1 .. t : S[k].depth \in Nat
    <3>1. \A k \in 1 .. t : k \in DOMAIN S
      BY <1>1, <1>3
    <3> QED BY <1>1, <3>1
  <2>3. i < t /\ \A k \in i + 1 .. t - 1 : S[k].key \in NoKey
    BY DEF S
  <2>4. NestingAt(S, t) = Walked(NestingAt(S, i), S[t]) /\ Inside(S, t) \subseteq Inside(S, i) \cup {t}
    BY <1>1, <1>5, <2>1, <2>2, <2>3, WalkToKey
  <2> QED BY <1>2, <1>5, <2>4 DEF S
<1> QED BY <1>4, <1>5

LEMMA FirstLine ==
    /\ Inside(SampleLines, 1) = {}
    /\ NestingAt(SampleLines, 1) = Walked([d \in 1 .. MaxNesting |-> ""], SampleLines[1])
    /\ Walked(NestingAt(SampleLines, 1), SampleLines[1]) = NestingAt(SampleLines, 1)
<1> DEFINE S == SampleLines
           n == [d \in 1 .. MaxNesting |-> ""]
<1>1. S[1].key \in NoKey /\ S[1] \in {Blank, Open, Empty}
  BY LinesOfSample
<1>2. 1 \in 1 .. MaxNesting
  BY NestingAssumption
<1>3. Blank \notin {Open, Close} /\ Empty \notin {Open, Close}
  <2>1. /\ Blank.key = "" /\ Empty.key = "{}" /\ Open.key = "{" /\ Close.key = "}"
    BY DEF Blank, Empty, Open, Close
  <2> QED BY <2>1
<1> HIDE DEF S
<1>4. Keyed(S, 1) = {} /\ Inside(S, 1) = {} /\ \A d : Level(S, 1, d) = {}
  BY <1>1 DEF Keyed, Inside, Level
<1>5. NestingAt(S, 1) = [d \in 1 .. MaxNesting |-> IF d = 1 /\ S[1] = Open THEN "." ELSE ""]
  BY <1>4 DEF NestingAt
<1>6. CASE S[1] = Open
  <2>1. NestingAt(S, 1) = [n EXCEPT ![1] = "."] /\ [NestingAt(S, 1) EXCEPT ![1] = "."] = NestingAt(S, 1)
    BY <1>2, <1>5, <1>6
  <2> QED BY <1>4, <1>6, <2>1 DEF Walked, S
<1>7. CASE S[1] # Open
  <2>1. NestingAt(S, 1) = n
    BY <1>5, <1>7
  <2>2. S[1] \notin {Open, Close}
    BY <1>1, <1>3, <1>7
  <2> QED BY <1>1, <1>4, <2>1, <2>2 DEF Walked, S
<1> QED BY <1>6, <1>7

(* A line that the processor is told of twice.                                  *)
LEMMA WalkAgain ==
    ASSUME NEW t \in Nat, t = 1 \/ t \in 1 .. Len(SampleLines) - 2
    PROVE  Walked(NestingAt(SampleLines, t), SampleLines[t]) = NestingAt(SampleLines, t)
<1> DEFINE S == SampleLines
<1>1. CASE t = 1
  BY <1>1, FirstLine
<1>2. CASE t # 1
  <2> DEFINE i == t - 1
             n == NestingAt(S, i)
  <2>1. Len(S) \in Nat
    BY ShownSample
  <2>2. i \in 1 .. Len(S) /\ t \in 2 .. Len(S) - 2 /\ i < t /\ \A k \in i + 1 .. t - 1 : S[k].key \in NoKey
    BY <1>2, <2>1
  <2>3. NestingAt(S, t) = Walked(n, S[t]) /\ S[t] \notin {Open, Close}
    BY <2>2, WalkDown
  <2> HIDE DEF n, S
  <2>4. S[t].key \in NoKey => Walked(NestingAt(S, t), S[t]) = NestingAt(S, t)
    BY <2>3 DEF Walked
  <2>5. S[t].key \notin NoKey => Walked(Walked(n, S[t]), S[t]) = Walked(n, S[t])
    BY <2>3 DEF Walked
  <2> QED BY <2>3, <2>4, <2>5 DEF S
<1> QED BY <1>1, <1>2

(* The path of an operation: the levels of `nesting' that are taken are the lines that  *)
(* the cursor is inside of, in the same order.                                 *)
LEMMA SameOrder ==
    ASSUME NEW f, NEW g, NEW D \in SUBSET Nat, NEW E \in SUBSET Nat, IsFiniteSet(D),
           NEW h \in [D -> E], \A e \in E : \E d \in D : h[d] = e,
           \A c, d \in D : c < d => h[c] < h[d],
           \A d \in D : f[d] = g[h[d]]
    PROVE  Chosen(f, D) = Chosen(g, E)
<1> DEFINE N == Cardinality(D)
<1>1. /\ \A c, d \in D : c <= d <=> h[c] <= h[d]
      /\ \A c, d \in D : h[c] = h[d] => c = d
  <2> SUFFICES ASSUME NEW c \in D, NEW d \in D
               PROVE  (c <= d <=> h[c] <= h[d]) /\ (h[c] = h[d] => c = d)
    OBVIOUS
  <2>1. c \in Nat /\ d \in Nat /\ h[c] \in Nat /\ h[d] \in Nat
    OBVIOUS
  <2>2. (c < d => h[c] < h[d]) /\ (d < c => h[d] < h[c])
    OBVIOUS
  <2>3. c < d \/ c = d \/ d < c
    BY <2>1
  <2> QED BY <2>1, <2>2, <2>3
<1>2. h \in Bijection(D, E)
  BY <1>1 DEF Bijection, Injection, Surjection, IsInjective
<1>3. IsFiniteSet(E) /\ Cardinality(E) = N
  <2>1. ExistsBijection(D, E)
    BY <1>2 DEF ExistsBijection
  <2> QED BY <2>1, FS_Bijection
<1>4. ASSUME NEW d \in D
      PROVE  Cardinality(Below(D, d)) = Cardinality(Below(E, h[d]))
  <2> DEFINE b == [c \in Below(D, d) |-> h[c]]
  <2>1. Below(D, d) \subseteq D /\ IsFiniteSet(Below(D, d))
    <3>1. Below(D, d) \subseteq D
      BY DEF Below
    <3> QED BY <3>1, FS_Subset
  <2>2. \A c \in Below(D, d) : h[c] \in Below(E, h[d])
    BY <1>1 DEF Below
  <2>3. \A e \in Below(E, h[d]) : \E c \in Below(D, d) : h[c] = e
    BY <1>1 DEF Below
  <2>4. b \in Bijection(Below(D, d), Below(E, h[d]))
    BY <1>1, <2>1, <2>2, <2>3 DEF Bijection, Injection, Surjection, IsInjective
  <2>5. ExistsBijection(Below(D, d), Below(E, h[d]))
    BY <2>4 DEF ExistsBijection
  <2> QED BY <2>1, <2>5, FS_Bijection
<1> DEFINE x(n) == CHOOSE d \in D : Cardinality(Below(D, d)) = n
           y(n) == CHOOSE e \in E : Cardinality(Below(E, e)) = n
<1>5. ASSUME NEW n \in 1 .. N
      PROVE  f[x(n)] = g[y(n)]
  <2>1. x(n) \in D /\ Cardinality(Below(D, x(n))) = n
    BY Ranks
  <2>2. y(n) \in E /\ Cardinality(Below(E, y(n))) = n
    BY <1>3, Ranks
  <2> HIDE DEF x, y
  <2>3. h[x(n)] \in E /\ Cardinality(Below(E, h[x(n)])) = n
    BY <1>4, <2>1
  <2>4. h[x(n)] = y(n)
    <3>1. \A e1, e2 \in E : e1 < e2 => Cardinality(Below(E, e1)) < Cardinality(Below(E, e2))
      BY <1>3, Ranks
    <3>2. h[x(n)] \in Nat /\ y(n) \in Nat /\ n \in Nat
      <4>1. \A e \in E : e \in Nat
        OBVIOUS
      <4>2. N \in Nat /\ n \in 1 .. N
        BY FS_CardinalityType
      <4> HIDE DEF N
      <4>3. n \in Nat
        BY <4>2
      <4> QED BY <2>2, <2>3, <4>1, <4>3, Zenon
    <3>3. ~(h[x(n)] < y(n)) /\ ~(y(n) < h[x(n)])
      BY <2>2, <2>3, <3>1, <3>2
    <3> QED BY <3>2, <3>3
  <2> QED BY <2>1, <2>4
<1>6. Chosen(f, D) = [n \in 1 .. N |-> f[x(n)]] /\ Chosen(g, E) = [n \in 1 .. N |-> g[y(n)]]
  BY <1>3 DEF Chosen, Below
<1> HIDE DEF x, y
<1> QED BY <1>5, <1>6

LEMMA PathOfLine ==
    ASSUME NEW S, NEW n \in Nat \ {0}, n \in DOMAIN S, \A k \in 1 .. n : k \in DOMAIN S,
           \A k \in 1 .. n : S[k].depth \in Nat /\ (S[k].key \notin NoKey => S[k].depth # 0),
           Regular(S), \A j \in Inside(S, n) : S[j].depth <= MaxNesting,
           NEW N, N = NestingAt(S, n)
    PROVE  Chosen(N, {d \in DOMAIN N : N[d] # ""}) = KeyPath(S, n)
<1> DEFINE keyed == Keyed(S, n)
           D == {d \in DOMAIN N : N[d] # ""}
<1>1. DOMAIN N = 1 .. MaxNesting
  BY DEF NestingAt
<1>2. ASSUME NEW d \in 1 .. MaxNesting
      PROVE  N[d] = IF Level(S, n, d) # {} THEN KeyAt(S, Level(S, n, d))
                    ELSE IF d = 1 /\ keyed = {} /\ S[1] = Open THEN "." ELSE ""
  BY DEF NestingAt
<1>3. "" \in NoKey
  BY DEF NoKey
<1>4. keyed \subseteq 1 .. n /\ \A j \in keyed : S[j].key \notin NoKey /\ S[j].depth \in Nat \ {0}
  BY DEF Keyed
<1>5. CASE keyed = {}
  <2>1. \A d : Level(S, n, d) = {}
    BY <1>5 DEF Level, Inside
  <2>2. \A d \in 1 .. MaxNesting : N[d] = IF d = 1 /\ S[1] = Open THEN "." ELSE ""
    BY <1>2, <1>5, <2>1
  <2>3. CASE S[1] = Open
    <3>1. D = {1} /\ N[1] = "."
      <4>1. 1 \in 1 .. MaxNesting
        BY NestingAssumption
      <4> QED BY <1>1, <2>2, <2>3, <4>1
    <3>2. KeyPath(S, n) = <<".">>
      BY <1>5, <2>3 DEF KeyPath
    <3>3. IsFiniteSet({1}) /\ Cardinality({1}) = 1
      BY FS_Singleton
    <3>4. Chosen(N, {1}) \in Seq({"."}) /\ DOMAIN Chosen(N, {1}) = 1 .. 1
      <4>1. /\ DOMAIN Chosen(N, {1}) = 1 .. Cardinality({1})
            /\ \A T : (\A d \in {1} : N[d] \in T) => Chosen(N, {1}) \in Seq(T)
        <5>1. {1} \in SUBSET Nat
          OBVIOUS
        <5> QED BY <3>3, <5>1, ChosenElements, Zenon
      <4>2. \A d \in {1} : N[d] \in {"."}
        BY <3>1
      <4> QED BY <3>3, <4>1, <4>2, Zenon
    <3> DEFINE s == Chosen(N, {1})
    <3>5. s \in Seq({"."}) /\ DOMAIN s = 1 .. 1
      BY <3>4
    <3> HIDE DEF s
    <3>6. s = <<".">>
      <4>1. s[1] = "."
        <5>1. 1 \in DOMAIN s /\ \A i \in DOMAIN s : s[i] \in {"."}
          <6>1. 1 \in 1 .. 1
            OBVIOUS
          <6> QED BY <3>5, <6>1, Elements, Zenon
        <5> QED BY <5>1
      <4>2. s = [i \in 1 .. 1 |-> s[i]]
        BY <3>5
      <4> QED BY <4>1, <4>2
    <3> QED BY <3>1, <3>2, <3>6 DEF s
  <2>4. CASE S[1] # Open
    <3>1. D = {}
      BY <1>1, <2>2, <2>4
    <3>2. KeyPath(S, n) = <<>>
      BY <1>5, <2>4 DEF KeyPath
    <3>3. Cardinality({}) = 0
      BY FS_EmptySet
    <3>4. Chosen(N, {}) = <<>>
      BY <3>3 DEF Chosen
    <3> QED BY <3>1, <3>2, <3>4
  <2> QED BY <2>3, <2>4
<1>6. CASE keyed # {}
  <2> DEFINE m == Max(keyed)
             K == keyed \cap Around(S, m)
             f == [i \in keyed |-> S[i].key]
  <2>1. m \in keyed /\ m \in 1 .. n /\ m \in Nat /\ \A j \in keyed : j <= m /\ j \in Nat
    <3>1. keyed \in SUBSET (0 .. n) /\ n \in Nat
      BY <1>4
    <3> HIDE DEF keyed
    <3>2. m \in keyed /\ \A j \in keyed : j <= m
      BY <1>6, <3>1, Greatest
    <3>3. \A j \in 1 .. n : j \in Nat
      OBVIOUS
    <3> HIDE DEF m
    <3> QED BY <1>4, <3>2, <3>3, Zenon
  <2> HIDE DEF m
  <2>2. K = Inside(S, n)
    <3>1. ASSUME NEW i \in K
          PROVE  i \in Inside(S, n)
      <4>1. i \in keyed /\ \A j \in i + 1 .. m : S[j].depth > S[i].depth
        BY DEF Around
      <4>2. \A j \in keyed : j > i => j \in i + 1 .. m
        BY <1>4, <2>1, <4>1
      <4> QED BY <4>1, <4>2 DEF Inside
    <3>2. ASSUME NEW i \in Inside(S, n)
          PROVE  i \in K
      <4>1. i \in keyed /\ \A k \in keyed : k > i => S[k].depth > S[i].depth
        BY DEF Inside
      <4>2. i <= m /\ i \in 1 .. n
        BY <1>4, <2>1, <4>1
      <4>3. Keyed(S, m) \subseteq keyed
        BY <2>1 DEF Keyed
      <4>4. i \in Keyed(S, m)
        BY <2>1, <4>1, <4>2 DEF Keyed
      <4>5. m \in DOMAIN S /\ S[m].key \notin NoKey
        BY <1>4, <2>1
      <4>6. \A j \in Keyed(S, m) : j > i => S[j].depth > S[i].depth
        BY <4>1, <4>3
      <4>7. i \in Around(S, m)
        BY <4>4, <4>5, <4>6 DEF Regular
      <4> QED BY <4>1, <4>7
    <3> QED BY <3>1, <3>2
  <2>3. KeyPath(S, n) = Chosen(f, K)
    BY <1>6 DEF KeyPath, m
  <2> DEFINE h == [j \in K |-> S[j].depth]
  <2>4. K \subseteq keyed /\ K \in SUBSET Nat /\ IsFiniteSet(K)
    <3>1. K \subseteq 1 .. n /\ IsFiniteSet(1 .. n) /\ 1 .. n \subseteq Nat
      BY <1>4, FirstPlaces
    <3> QED BY <3>1, FS_Subset
  <2>5. \A c, d \in K : c < d => S[c].depth < S[d].depth
    BY <1>4, <2>2, <2>4 DEF Inside
  <2> HIDE DEF K
  <2>6. ASSUME NEW j \in K
        PROVE  /\ S[j].depth \in 1 .. MaxNesting /\ N[S[j].depth] = S[j].key /\ S[j].key # ""
               /\ j \in Nat /\ S[j].depth \in Nat
    <3>1. j \in keyed /\ S[j].depth \in Nat \ {0} /\ S[j].depth <= MaxNesting /\ S[j].key \notin NoKey
      BY <1>4, <2>2, <2>4
    <3>2. S[j].depth \in 1 .. MaxNesting
      BY <3>1, NestingAssumption
    <3>3. Level(S, n, S[j].depth) = {j}
      <4>1. j \in Level(S, n, S[j].depth)
        BY <2>2 DEF Level
      <4>2. ASSUME NEW i \in Level(S, n, S[j].depth)
            PROVE  i = j
        <5>1. i \in K /\ i \in Nat /\ j \in Nat /\ S[i].depth = S[j].depth
          BY <2>2, <2>4 DEF Level
        <5> QED BY <2>5, <3>1, <5>1
      <4> QED BY <4>1, <4>2
    <3>4. N[S[j].depth] = S[j].key
      BY <1>2, <3>2, <3>3 DEF KeyAt
    <3>5. j \in Nat
      BY <2>4
    <3> QED BY <1>3, <3>1, <3>2, <3>4, <3>5
  <2>7. ASSUME NEW d \in D
        PROVE  \E j \in K : S[j].depth = d
    <3>1. d \in 1 .. MaxNesting /\ N[d] # ""
      BY <1>1
    <3>2. Level(S, n, d) # {}
      BY <1>2, <1>6, <3>1
    <3> QED BY <2>2, <3>2 DEF Level
  <2>8. D \in SUBSET Nat
    <3>1. D \subseteq 1 .. MaxNesting
      BY <1>1
    <3>2. 1 .. MaxNesting \subseteq Nat
      BY NestingAssumption
    <3> QED BY <3>1, <3>2, Zenon
  <2>9. h \in [K -> D] /\ \A j \in K : h[j] = S[j].depth /\ f[j] = N[h[j]]
    BY <1>1, <2>4, <2>6
  <2>10. /\ \A e \in D : \E d \in K : h[d] = e
         /\ \A c, d \in K : c < d => h[c] < h[d]
    BY <2>5, <2>7, <2>9
  <2> HIDE DEF h, f, D
  <2>11. Chosen(f, K) = Chosen(N, D)
    BY <2>4, <2>8, <2>9, <2>10, SameOrder
  <2> QED BY <2>3, <2>11 DEF D
<1> QED BY <1>5, <1>6
-----------------------------------------------------------------------------
(* While the user is in the views of the sample, the processor knows the line under the *)
(* cursor, or will when it has taken the signals that are on their way; and a line  *)
(* that it has no room for ends the wizard before an operation is taken there.   *)
Line  == at["sourceEvent"]
After(n, s) == IF s.origin = "sourceEvent" THEN Walked(n, s.line) ELSE n
Reached == IF proc.pc = "got" THEN After(nesting, proc.signal) ELSE nesting
Heading == IF sending # <<>> THEN After(Reached, sending[1]) ELSE Reached

TooDeep(s) == s.origin = "sourceEvent" /\ s.line.key \notin NoKey /\ s.line.depth > MaxNesting
InReach    == \A j \in Inside(SampleLines, Line) : SampleLines[j].depth <= MaxNesting

OnLine ==
    current \in SampleViews =>
        /\ Line = 1 \/ Line \in 1 .. Len(SampleLines) - 2
        /\ Heading = NestingAt(SampleLines, Line)
        /\ proc.pc = "got" /\ proc.signal.origin = "transformationOperation" => nesting = NestingAt(SampleLines, Line)
        /\ \/ InReach
           \/ sending # <<>> /\ TooDeep(sending[1]) /\ proc.pc = "idle"
           \/ proc.pc = "got" /\ TooDeep(proc.signal)
OnPath  == proc.pc = "input" => (Regular(SampleLines) => proc.path = KeyPath(SampleLines, Line))
HotKeys == /\ sending # <<>> /\ sending[1].isHotKey => sending[1].line = "delete"
           /\ proc.signal.isHotKey => proc.signal.line = "delete"
Walks   == OnLine /\ OnPath /\ HotKeys

(* Handlers that tell of no line of the sample.                                *)
LEMMA StillWalks ==
    ASSUME Walks, sending = <<>>, UNCHANGED <<nesting, source>>,
           \/ proc' = proc
           \/ proc.pc = "input" /\ proc'.pc = "apply" /\ proc'.signal = proc.signal,
           \/ UNCHANGED sending
           \/ \E s : sending' = <<s>> /\ s.origin # "sourceEvent" /\ (s.isHotKey => s.line = "delete"),
           current' \in SampleViews => current \in SampleViews,
           \/ at'["sourceEvent"] = at["sourceEvent"]
           \/ current' \notin SampleViews /\ proc.pc # "input"
    PROVE  Walks'
<1>1. SampleLines' = SampleLines
  BY DEF SampleLines
<1>2. sending' # <<>> => sending'[1].origin # "sourceEvent" /\ (sending'[1].isHotKey => sending'[1].line = "delete")
  OBVIOUS
<1>3. Reached' = Reached /\ Heading = Reached
  BY DEF Reached, Heading
<1>4. Heading' = Heading
  BY <1>2, <1>3 DEF Heading, After
<1>5. HotKeys'
  BY <1>2 DEF Walks, HotKeys
<1>6. OnPath'
  BY <1>1 DEF Walks, OnPath, Line
<1>7. OnLine'
  <2>1. SUFFICES ASSUME current' \in SampleViews
                 PROVE  /\ Line' = 1 \/ Line' \in 1 .. Len(SampleLines') - 2
                        /\ Heading' = NestingAt(SampleLines', Line')
                        /\ proc'.pc = "got" /\ proc'.signal.origin = "transformationOperation"
                             => nesting' = NestingAt(SampleLines', Line')
                        /\ InReach' \/ (proc'.pc = "got" /\ TooDeep(proc'.signal))
    BY DEF OnLine, TooDeep
  <2>2. current \in SampleViews /\ Line' = Line
    BY <2>1 DEF Line
  <2>3. InReach' = InReach
    BY <1>1, <2>2 DEF InReach
  <2> QED BY <1>1, <1>4, <2>2, <2>3 DEF Walks, OnLine
<1> QED BY <1>5, <1>6, <1>7 DEF Walks

(* The next line that the cursor may rest on.                                  *)
LEMMA NextRest ==
    ASSUME NEW n \in Nat, NEW rests \in SUBSET (1 .. n), NEW from \in Nat
    PROVE  \/ MoveTo(rests, from, 1) = from /\ \A k \in from + 1 .. n : k \notin rests
           \/ /\ MoveTo(rests, from, 1) \in rests /\ MoveTo(rests, from, 1) > from
              /\ \A k \in from + 1 .. MoveTo(rests, from, 1) - 1 : k \notin rests
<1> DEFINE t     == MoveTo(rests, from, 1)
           stops == {i \in rests : i > from}
<1>1. t = IF stops = {} THEN from ELSE Min(stops)
  <2>1. stops = {i \in rests : IF 1 > 0 THEN i > from ELSE i < from}
    OBVIOUS
  <2> QED BY <2>1 DEF MoveTo
<1> HIDE DEF t
<1>2. CASE stops = {}
  <2>1. \A k \in from + 1 .. n : k > from
    OBVIOUS
  <2> QED BY <1>1, <1>2, <2>1 DEF t
<1>3. CASE stops # {}
  <2>1. stops \in SUBSET Nat /\ stops \subseteq rests
    <3>1. stops \subseteq rests
      BY Zenon
    <3>2. 1 .. n \in SUBSET Nat
      BY SMT
    <3> QED BY <3>1, <3>2, Zenon
  <2>2. t = Min(stops)
    BY <1>1, <1>3
  <2>3. t \in stops /\ \A x \in stops : t <= x
    <3>1. Min(stops) \in stops /\ \A x \in stops : Min(stops) <= x
      <4> HIDE DEF stops
      <4> QED BY <1>3, <2>1, Least, Zenon
    <3> QED BY <2>2, <3>1
  <2>4. t \in rests /\ t > from /\ t \in Nat
    BY <2>1, <2>3
  <2>5. \A k \in from + 1 .. t - 1 : k > from /\ ~(t <= k)
    BY <2>4
  <2>6. \A k \in from + 1 .. t - 1 : k \notin rests
    BY <2>3, <2>5
  <2> QED BY <2>4, <2>6 DEF t
<1> QED BY <1>2, <1>3

(* The cursor goes down in the sample.                                         *)
LEMMA CursorWalks ==
    ASSUME Typed, Prompt, Steady, Walks, CursorEventSample("cursorDownEventSample", 1), phase' = "run"
    PROVE  Walks'
<1> DEFINE S     == SampleLines
           here  == at["sourceEvent"]
           m     == Len(S) - 2
           inner == [i \in 1 .. m |-> S[i]]
           rests == {i \in DOMAIN inner : inner[i].key \notin Closers}
           there == MoveTo(rests, here, 1)
<1>1. /\ todo # <<>> /\ Head(todo).do = "cursorDownEventSample" /\ sending = <<>> /\ Fits(Head(todo))
      /\ Head(todo) \in Pending /\ UNCHANGED <<proc, nesting, source>>
  BY FirstCall, CallsLeft DEF CursorEventSample, Do, Typed, Rest
<1>2. current = "sourceEvent" /\ Head(todo).view = current /\ proc.pc \in {"idle", "input"}
  BY <1>1 DEF Fits, Prompt, OneCall, ViewCalls, ViewHandlers
<1>3. proc.pc = "idle"
  BY <1>1, <1>2 DEF Steady, Waiting, Opened, Away
<1>4. /\ here \in Nat \ {0} /\ Len(S) \in Nat /\ DOMAIN S = 1 .. Len(S)
      /\ at \in [Lists -> Nat \ {0}]
  BY ShownSample DEF Typed, TypeOK
<1>5. S' = S
  BY <1>1 DEF SampleLines
<1>6. nesting = NestingAt(S, here) /\ InReach
  BY <1>1, <1>2, <1>3 DEF Walks, OnLine, Heading, Reached, Line, SampleViews
<1>7. CASE here + 1 \notin DOMAIN inner
  <2>1. UNCHANGED <<at, current, sending>>
    BY <1>7 DEF CursorEventSample, ui
  <2> QED BY <1>1, <2>1, StillWalks
<1>8. CASE here + 1 \in DOMAIN inner
  <2>1. /\ m \in Nat /\ here + 1 \in 1 .. m /\ here \in 1 .. Len(S) /\ here <= m
        /\ rests \in SUBSET (1 .. m) /\ here \in Nat
    BY <1>4, <1>8
  <2>2. \A k \in 1 .. m : k \notin rests => S[k].key \in NoKey
    BY DEF NoKey
  <2>3. \A k \in here + 1 .. m : k \in 1 .. m
    BY <2>1
  <2>4. \/ there = here /\ \A k \in here + 1 .. m : k \notin rests
        \/ there \in rests /\ there > here /\ \A k \in here + 1 .. there - 1 : k \notin rests
    <3> HIDE DEF rests, m
    <3> QED BY <2>1, NextRest
  <2>5. CASE there = here
    <3>1. at' = [at EXCEPT !["sourceEvent"] = Len(inner)] /\ UNCHANGED <<current, sending>>
      BY <1>8, <2>5 DEF CursorEventSample, MoveCursors
    <3>2. Len(inner) = m
      BY <2>1
    <3>3. Line' = m
      BY <1>4, <3>1, <3>2 DEF Line
    <3>4. Inside(S, m) = Inside(S, here) /\ NestingAt(S, m) = NestingAt(S, here)
      <4>1. \A k \in here + 1 .. m : S[k].key \in NoKey
        <5>1. ~(there > here)
          BY <2>1, <2>5
        <5> QED BY <2>2, <2>3, <2>4, <5>1
      <4> QED BY <2>1, <4>1, NoKeysBetween
    <3>5. m \in 1 .. m
      BY <2>1
    <3>6. InReach'
      BY <1>5, <1>6, <3>3, <3>4 DEF InReach, Line
    <3>7. Heading' = nesting
      BY <1>1, <1>3, <3>1 DEF Heading, Reached
    <3>8. OnLine'
      BY <1>1, <1>3, <1>5, <1>6, <3>3, <3>4, <3>5, <3>6, <3>7 DEF OnLine
    <3>9. OnPath' /\ HotKeys'
      BY <1>1, <1>3, <3>1 DEF OnPath, Walks, HotKeys
    <3> QED BY <3>8, <3>9 DEF Walks
  <2>6. CASE there # here
    <3>1. SendSignal(current, [at EXCEPT !["sourceEvent"] = there])
      BY <1>8, <2>6 DEF CursorEventSample
    <3>2. there \in rests /\ there \in 1 .. m /\ there > here /\ \A k \in here + 1 .. there - 1 : k \notin rests
      BY <2>1, <2>4, <2>6
    <3> HIDE DEF rests, inner
    <3>3. there \in 2 .. Len(S) - 2 /\ there \in Nat /\ here < there /\ there \in DOMAIN S
          /\ \A k \in here + 1 .. there - 1 : k \in 1 .. m
      BY <1>4, <2>1, <3>2
    <3>4. \A k \in here + 1 .. there - 1 : S[k].key \in NoKey
      BY <2>2, <3>2, <3>3
    <3> HIDE DEF there
    <3>5. /\ NestingAt(S, there) = Walked(NestingAt(S, here), S[there])
          /\ IF S[there].key \in NoKey THEN Inside(S, there) = Inside(S, here)
             ELSE Inside(S, there) \subseteq Inside(S, here) \cup {there}
      BY <2>1, <3>3, <3>4, WalkDown
    <3> DEFINE s == Signal("sourceEvent", S[there])
    <3>6. sending' = <<s>> /\ at' = [at EXCEPT !["sourceEvent"] = there] /\ current' = current
      <4>1. LinesOf("sourceEvent") = S
        BY DEF LinesOf
      <4>2. [at EXCEPT !["sourceEvent"] = there]["sourceEvent"] = there
        BY <1>4
      <4> QED BY <1>2, <3>1, <3>3, <4>1, <4>2 DEF SendSignal, MoveCursors
    <3>7. Line' = there
      BY <1>4, <3>6 DEF Line
    <3>8. s.origin = "sourceEvent" /\ s.line = S[there] /\ s.isHotKey = FALSE
      BY DEF Signal
    <3> HIDE DEF s
    <3>9. sending' # <<>> /\ sending'[1] = s
      BY <3>6
    <3>10. Heading' = NestingAt(S, there)
      BY <1>1, <1>3, <1>6, <3>5, <3>8, <3>9 DEF Heading, Reached, After
    <3>11. InReach' \/ TooDeep(s)
      <4>1. S[there].depth \in Nat
        BY <3>3, LinesOfSample
      <4> QED BY <1>5, <1>6, <3>5, <3>7, <3>8, <4>1, NestingAssumption DEF InReach, Line, TooDeep
    <3>12. Line' \in 1 .. Len(S) - 2
      BY <3>2, <3>7
    <3>13. OnLine'
      BY <1>1, <1>3, <1>5, <3>7, <3>9, <3>10, <3>11, <3>12 DEF OnLine, TooDeep
    <3>14. OnPath' /\ HotKeys'
      BY <1>1, <1>3, <3>8, <3>9 DEF OnPath, Walks, HotKeys
    <3> QED BY <3>13, <3>14 DEF Walks
  <2> QED BY <2>5, <2>6
<1> QED BY <1>7, <1>8

(* The sample is entered at its first line, from where it was left or has not been.        *)
LEMMA EnterWalks ==
    ASSUME Typed, Prompt, Steady, Walks, SourceCursorRight, phase' = "run", "strayed" \notin history'
    PROVE  Walks'
<1> DEFINE S == SampleLines
<1>1. /\ todo # <<>> /\ Head(todo).do = "sourceCursorRight" /\ sending = <<>> /\ Head(todo) \in Pending
      /\ UNCHANGED <<proc, nesting, source>>
  BY FirstCall, CallsLeft DEF SourceCursorRight, Do, Typed, Rest
<1>2. proc.pc \in {"idle", "input"}
  BY <1>1 DEF Prompt, OneCall, ViewCalls, ViewHandlers
<1>3. S' = S
  BY <1>1 DEF SampleLines
<1>4. CASE ~HasSample
  <2>1. UNCHANGED <<at, current, sending>>
    BY <1>4 DEF SourceCursorRight, ui
  <2> QED BY <1>1, <2>1, StillWalks
<1>5. CASE HasSample
  <2>1. /\ SendSignal("sourceEvent", at) /\ at["sourceEvent"] = 1 /\ nesting = [d \in 1 .. MaxNesting |-> ""]
    BY <1>5 DEF SourceCursorRight
  <2> DEFINE s == Signal("sourceEvent", S[1])
  <2>2. sending' = <<s>> /\ UNCHANGED at
    BY <2>1 DEF SendSignal, MoveCursors, LinesOf
  <2>3. s.origin = "sourceEvent" /\ s.line = S[1] /\ s.isHotKey = FALSE
    BY DEF Signal
  <2> HIDE DEF s
  <2>4. sending' # <<>> /\ sending'[1] = s
    BY <2>2
  <2>5. Line' = 1 /\ Line = 1
    BY <2>1, <2>2 DEF Line
  <2>6. Heading' = NestingAt(S, 1)
    BY <1>1, <1>2, <2>1, <2>3, <2>4, FirstLine DEF Heading, Reached, After
  <2>7. InReach'
    BY <1>3, <2>5, FirstLine DEF InReach
  <2>8. OnLine'
    BY <1>1, <1>2, <1>3, <2>5, <2>6, <2>7 DEF OnLine
  <2>9. OnPath' /\ HotKeys'
    BY <1>1, <1>3, <2>3, <2>4, <2>5 DEF OnPath, Walks, HotKeys
  <2> QED BY <2>8, <2>9 DEF Walks
<1> QED BY <1>4, <1>5

(* A key of the popup of operations that reaches the sample tells the line again.          *)
LEMMA SelectWalks ==
    ASSUME Typed, Prompt, Steady, Walks, SelectOperation, phase' = "run"
    PROVE  Walks'
<1> DEFINE S == SampleLines
<1>1. /\ todo # <<>> /\ Head(todo).do = "selectOperation" /\ sending = <<>> /\ Head(todo) \in Pending
      /\ UNCHANGED <<proc, nesting, source>> /\ SendSignal(current, at)
  BY FirstCall, CallsLeft DEF SelectOperation, Do, Typed, Rest
<1>2. current \in SampleViews
  BY <1>1 DEF Steady, SampleSide
<1>3. S' = S
  BY <1>1 DEF SampleLines
<1>4. CASE current # "sourceEvent"
  <2>1. current \notin Lists
    BY <1>2, <1>4 DEF SampleViews
  <2>2. PICK op \in Operations : sending' = <<Signal(current, op)>>
    BY <1>1, <2>1 DEF SendSignal, MoveCursors
  <2>3. current' = current /\ at' = at
    BY <1>1, <2>1 DEF SendSignal, MoveCursors
  <2>4. Signal(current, op).origin # "sourceEvent" /\ Signal(current, op).isHotKey = FALSE
    BY <1>4 DEF Signal
  <2> QED BY <1>1, <2>2, <2>3, <2>4, StillWalks
<1>5. CASE current = "sourceEvent"
  <2> DEFINE s == Signal("sourceEvent", S[Line])
  <2>1. sending' = <<s>> /\ at' = at /\ current' = current
    BY <1>1, <1>5 DEF SendSignal, MoveCursors, LinesOf, Line
  <2>2. s.origin = "sourceEvent" /\ s.line = S[Line] /\ s.isHotKey = FALSE
    BY DEF Signal
  <2> HIDE DEF s
  <2>3. sending' # <<>> /\ sending'[1] = s
    BY <2>1
  <2>4. Line' = Line /\ InReach' = InReach /\ Reached' = Reached
    BY <1>1, <1>3, <2>1 DEF Line, InReach, Reached
  <2>5. Line \in Nat
    BY DEF Typed, TypeOK, Line
  <2>6. /\ Line = 1 \/ Line \in 1 .. Len(S) - 2
        /\ Reached = NestingAt(S, Line)
        /\ proc.pc = "got" /\ proc.signal.origin = "transformationOperation" => nesting = NestingAt(S, Line)
        /\ InReach \/ (proc.pc = "got" /\ TooDeep(proc.signal))
    BY <1>1, <1>2 DEF Walks, OnLine, Heading
  <2>7. Walked(NestingAt(S, Line), S[Line]) = NestingAt(S, Line)
    BY <2>5, <2>6, WalkAgain
  <2>8. Heading' = NestingAt(S, Line)
    BY <2>2, <2>3, <2>4, <2>6, <2>7 DEF Heading, After
  <2>9. OnLine'
    BY <1>1, <1>3, <2>4, <2>6, <2>8 DEF OnLine, TooDeep
  <2>10. OnPath' /\ HotKeys'
    BY <1>1, <1>3, <2>2, <2>3, <2>4 DEF OnPath, Walks, HotKeys
  <2> QED BY <2>9, <2>10 DEF Walks
<1> QED BY <1>4, <1>5

LEMMA HandlersKeepWalks ==
    ASSUME Typed, Prompt, Steady, Walks, Handlers, phase' = "run", "strayed" \notin history'
    PROVE  Walks'
<1>1. ASSUME NEW h, Do(h)
      PROVE  /\ todo # <<>> /\ Head(todo).do = h /\ sending = <<>> /\ Fits(Head(todo)) /\ Head(todo).view = V
             /\ Head(todo) \in Pending
  BY <1>1, FirstCall, CallsLeft DEF Do, Typed, V
<1>2. ASSUME NEW h \in ViewCalls, Do(h)
      PROVE  V = current /\ proc.pc \in {"idle", "input"}
  BY <1>1, <1>2 DEF Prompt, OneCall
<1>3. {"sourceEventCursorLeft", "cursorUp", "cursorDown", "wipeData", "popOperationsView"} \subseteq ViewCalls
  BY DEF ViewCalls, ViewHandlers
<1>4. ASSUME NEW h, Do(h), UNCHANGED <<proc, nesting, source, sending>>, at' = at,
             current' \in SampleViews => current \in SampleViews
      PROVE  Walks'
  BY <1>1, <1>4, StillWalks
<1>5. at \in [Lists -> Nat \ {0}]
  BY DEF Typed, TypeOK
<1>6. "sources" \notin SampleViews /\ "targets" \notin SampleViews /\ "transformation" \notin SampleViews
      /\ "transformationName" \notin SampleViews /\ "sourceEvent" \in SampleViews
      /\ "transformationOperation" \in SampleViews /\ "operationValue" \in SampleViews
  BY DEF SampleViews
<1>7. ASSUME NEW h, Do(h), UNCHANGED <<proc, nesting, source>>, NEW view \in {"sources", "targets"}, NEW where,
             SendSignal(view, where), where["sourceEvent"] = at["sourceEvent"] \/ proc.pc # "input"
      PROVE  Walks'
  <2>1. PICK line : sending' = <<Signal(view, line)>> /\ current' = view /\ at' = where
    BY <1>7 DEF SendSignal, MoveCursors
  <2>2. Signal(view, line).origin # "sourceEvent" /\ Signal(view, line).isHotKey = FALSE
    BY <1>7 DEF Signal
  <2>3. current' \notin SampleViews
    BY <1>6, <1>7, <2>1
  <2> QED BY <1>1, <1>7, <2>1, <2>2, <2>3, StillWalks
<1>8. CASE CloseWindow
  <2>1. /\ Do("closeWindow") /\ UNCHANGED <<proc, nesting, source, sending, at>> /\ current' = Under(V) /\ Under(V) # ""
        /\ V # "transformationName"
    BY <1>8 DEF CloseWindow, Rest, End, Delete, Done
  <2>2. V \in {"transformationOperation", "operationValue"} => current \in SampleViews
    BY <1>1, <2>1 DEF Steady, Closing, ClosesPopup, SampleViews
  <2>3. V \in {"transformationOperation", "operationValue"} \/ current' = "targets"
    BY <2>1, Focus
  <2> QED BY <1>4, <1>6, <2>1, <2>2, <2>3
<1>9. CASE SelectOperation
  BY <1>9, SelectWalks
<1>10. ASSUME NEW h \in {"switchToSources", "switchToTargets"}, NEW view \in {"sources", "targets"}, SwitchTo(h, view)
       PROVE  Walks'
  <2>1. Do(h) /\ UNCHANGED <<proc, nesting, source>>
    BY <1>10 DEF SwitchTo, Rest
  <2>2. SendSignal(view, at) \/ UNCHANGED <<sending, current, at>>
    BY <1>10 DEF SwitchTo, ui
  <2> QED BY <1>4, <1>7, <2>1, <2>2
<1>11. CASE SwitchToTransformation
  <2>1. Do("switchToTransformation") /\ UNCHANGED <<proc, nesting, source, sending, at>> /\ current' = "transformation"
    BY <1>11 DEF SwitchToTransformation, Rest
  <2> QED BY <1>4, <1>6, <2>1
<1>12. CASE SourceCursorRight
  BY <1>12, EnterWalks
<1>13. CASE SourceEventCursorLeft
  <2>1. /\ Do("sourceEventCursorLeft") /\ SendSignal("sources", [at EXCEPT !["sourceEvent"] = top["sourceEvent"] + 1])
        /\ UNCHANGED <<proc, nesting, source>>
    BY <1>13 DEF SourceEventCursorLeft, Rest
  <2>2. current = "sourceEvent"
    BY <1>1, <1>2, <1>3, <2>1 DEF Fits
  <2>3. proc.pc # "input"
    BY <1>1, <2>1, <2>2 DEF Steady, Waiting, Opened, Away
  <2> QED BY <1>7, <2>1, <2>3
<1>14. ASSUME NEW h \in {"cursorUp", "cursorDown"}, NEW step \in {-1, 1}, CursorList(h, step)
       PROVE  Walks'
  <2>1. Do(h) /\ UNCHANGED <<proc, nesting, source>>
    BY <1>14 DEF CursorList, Rest
  <2>2. V \in {"sources", "targets"} /\ current = V
    BY <1>1, <1>2, <1>3, <2>1 DEF Fits
  <2>3. \/ \E there : SendSignal(current, [at EXCEPT ![V] = there])
        \/ UNCHANGED <<sending, current, at>>
    BY <1>14 DEF CursorList, End, ui
  <2>4. \A there : [at EXCEPT ![V] = there]["sourceEvent"] = at["sourceEvent"]
    BY <1>5, <2>2
  <2>5. ASSUME NEW there, SendSignal(current, [at EXCEPT ![V] = there])
        PROVE  Walks'
    <3> DEFINE where == [at EXCEPT ![V] = there]
    <3>1. where["sourceEvent"] = at["sourceEvent"] /\ SendSignal(V, where)
      BY <2>2, <2>4, <2>5
    <3> HIDE DEF where
    <3> QED BY <1>7, <2>1, <2>2, <3>1
  <2> QED BY <1>4, <2>1, <2>3, <2>5
<1>15. CASE CursorEventSample("cursorUpEventSample", -1)
  BY <1>15 DEF CursorEventSample
<1>16. CASE CursorEventSample("cursorDownEventSample", 1)
  BY <1>16, CursorWalks
<1>17. CASE WipeData
  <2> DEFINE s == [origin |-> "transformationOperation", line |-> "delete", isHotKey |-> TRUE]
  <2>1. Do("wipeData") /\ sending' = <<s>> /\ UNCHANGED <<current, at, proc, nesting, source>>
    BY <1>17 DEF WipeData, Rest, ui
  <2>2. s.origin # "sourceEvent" /\ s.line = "delete"
    OBVIOUS
  <2> HIDE DEF s
  <2> QED BY <1>1, <2>1, <2>2, StillWalks
<1>18. CASE ResetTransformation
  <2>1. Do("resetTransformation") /\ UNCHANGED <<current, at, proc, nesting, source, sending>>
    BY <1>18 DEF ResetTransformation, Rest, ui
  <2> QED BY <1>4, <2>1
<1>19. CASE Pop("popOperationsView", "transformationOperation")
  <2>1. Do("popOperationsView") /\ UNCHANGED <<at, proc, nesting, source, sending>>
    BY <1>19 DEF Pop, Rest
  <2>2. current \in SampleViews
    BY <1>1, <1>2, <1>3, <1>6, <2>1 DEF Fits
  <2> QED BY <1>4, <2>1, <2>2
<1>20. CASE Pop("popTransformationNameView", "transformationName")
  <2>1. Do("popTransformationNameView") /\ UNCHANGED <<at, proc, nesting, source, sending>> /\ current' = "transformationName"
    BY <1>20 DEF Pop, Rest
  <2> QED BY <1>4, <1>6, <2>1
<1>21. CASE SaveAndExit
  <2>1. /\ Do("saveAndExit") /\ sending' = <<Signal("createAndExit", "name")>>
        /\ UNCHANGED <<current, at, proc, nesting, source>>
    BY <1>21 DEF SaveAndExit, Rest, ui
  <2>2. Signal("createAndExit", "name").origin # "sourceEvent" /\ Signal("createAndExit", "name").isHotKey = FALSE
    BY DEF Signal
  <2> QED BY <1>1, <2>1, <2>2, StillWalks
<1>22. CASE CloseName
  <2>1. Do("closeName") /\ UNCHANGED <<current, at, proc, nesting, source, sending>>
    BY <1>22 DEF CloseName, Rest, End, Delete
  <2> QED BY <1>4, <2>1
<1>23. CASE InputEnter
  <2>1. PICK v \in Values : sending' = <<Signal("inputValue", v)>>
    BY <1>23 DEF InputEnter
  <2>2. Do("inputEnter") /\ UNCHANGED <<current, at, proc, nesting, source>>
    BY <1>23 DEF InputEnter, Rest, ui
  <2>3. Signal("inputValue", v).origin # "sourceEvent" /\ Signal("inputValue", v).isHotKey = FALSE
    BY DEF Signal
  <2> QED BY <1>1, <2>1, <2>2, <2>3, StillWalks
<1>24. CASE CloseInput
  <2>1. Do("closeInput") /\ UNCHANGED <<at, proc, nesting, source, sending>>
    BY <1>24 DEF CloseInput, Rest, End
  <2>2. current \in SampleViews
    BY <1>1, <2>1 DEF Steady, InputSide, Inputs
  <2> QED BY <1>4, <2>1, <2>2
<1>25. CASE InputClose
  <2>1. /\ Do("inputClose") /\ proc.pc = "input" /\ UNCHANGED <<current, at, nesting, source, sending>>
        /\ proc' = [proc EXCEPT !.pc = "apply", !.path = <<>>, !.value = <<>>]
    BY <1>25 DEF InputClose, End, ui
  <2>2. proc'.pc = "apply" /\ proc'.signal = proc.signal
    BY <2>1 DEF Typed, Signals
  <2> QED BY <1>1, <2>1, <2>2, StillWalks
<1> QED BY <1>8, <1>9, <1>10, <1>11, <1>12, <1>13, <1>14, <1>15, <1>16, <1>17, <1>18, <1>19, <1>20, <1>21, <1>22, <1>23, <1>24, <1>25
        DEF Handlers

(* The other goroutines: what is no line of the sample leaves it where it was.             *)
LEMMA StaysWalks ==
    ASSUME Walks, UNCHANGED <<nesting, source, at>>,
           current' \in SampleViews => current \in SampleViews,
           sending' = sending \/ (sending # <<>> /\ sending[1].origin # "sourceEvent" /\ sending' = <<>>),
           \/ proc' = proc
           \/ /\ proc.pc # "idle" /\ (proc.pc = "got" => proc.signal.origin # "sourceEvent")
              /\ proc'.pc \in {"idle", "apply", "input"} /\ proc'.signal \in {proc.signal, Idle.signal}
    PROVE  OnLine' /\ HotKeys'
<1>1. SampleLines' = SampleLines /\ Line' = Line /\ InReach' = InReach
  BY DEF SampleLines, Line, InReach
<1>2. Reached' = Reached
  BY DEF Reached, After
<1>3. Heading' = Heading
  BY <1>2 DEF Heading, After
<1>4. HotKeys'
  <2>1. Idle.signal.isHotKey = FALSE
    BY DEF Idle, Signal
  <2>2. proc'.signal = proc.signal \/ proc'.signal = Idle.signal
    OBVIOUS
  <2>3. proc'.signal.isHotKey => proc'.signal.line = "delete"
    BY <2>1, <2>2, Zenon DEF Walks, HotKeys
  <2> QED BY <2>3 DEF Walks, HotKeys
<1>5. OnLine'
  <2>1. SUFFICES ASSUME current \in SampleViews
                 PROVE  /\ proc'.pc = "got" /\ proc'.signal.origin = "transformationOperation"
                             => nesting = NestingAt(SampleLines, Line)
                        /\ \/ InReach
                           \/ sending' # <<>> /\ TooDeep(sending'[1]) /\ proc'.pc = "idle"
                           \/ proc'.pc = "got" /\ TooDeep(proc'.signal)
    BY <1>1, <1>3 DEF Walks, OnLine
  <2>2. CASE proc' = proc
    BY <2>1, <2>2 DEF Walks, OnLine, TooDeep
  <2>3. CASE proc' # proc
    BY <2>1, <2>3 DEF Walks, OnLine, TooDeep
  <2> QED BY <2>2, <2>3
<1> QED BY <1>4, <1>5

(* The path that an operation gets is that of the line under the cursor.                  *)
LEMMA PathUnderCursor ==
    ASSUME Typed, Steady, Walks, Got("transformationOperation"), Regular(SampleLines)
    PROVE  PathOf = KeyPath(SampleLines, Line)
<1> DEFINE S == SampleLines
<1>1. proc.pc = "got" /\ proc.signal.origin = "transformationOperation"
  BY DEF Got
<1>2. current \in SampleViews
  BY <1>1 DEF Steady, SampleSide, SampleViews
<1>3. nesting = NestingAt(S, Line) /\ InReach /\ (Line = 1 \/ Line \in 1 .. Len(S) - 2)
  BY <1>1, <1>2 DEF Walks, OnLine, TooDeep
<1>4. /\ Len(S) \in Nat \ {0} /\ DOMAIN S = 1 .. Len(S)
      /\ \A k \in DOMAIN S : S[k].depth \in Nat /\ (S[k].key \notin NoKey => S[k].depth # 0)
  BY ShownSample, LinesOfSample
<1>5. Line \in Nat \ {0}
  BY DEF Typed, TypeOK, Line
<1> DEFINE n == Line
<1>6. n \in DOMAIN S /\ \A k \in 1 .. n : k \in DOMAIN S
  <2> HIDE DEF S
  <2> HIDE DEF n
  <2> QED BY <1>3, <1>4, <1>5 DEF n, S
<1>7. \A j \in Inside(S, n) : S[j].depth <= MaxNesting
  BY <1>3 DEF InReach
<1>8. \A k \in 1 .. n : S[k].depth \in Nat /\ (S[k].key \notin NoKey => S[k].depth # 0)
  BY <1>4, <1>6
<1> HIDE DEF n, S
<1>9. Chosen(nesting, {d \in DOMAIN nesting : nesting[d] # ""}) = KeyPath(S, n)
  <2>1. Regular(S) /\ n \in Nat \ {0}
    BY <1>5 DEF S, n
  <2>2. nesting = NestingAt(S, n)
    BY <1>3 DEF S, n
  <2> QED BY <1>6, <1>7, <1>8, <2>1, <2>2, PathOfLine
<1> QED BY <1>9 DEF PathOf, S, n

LEMMA ProcessorKeepsWalks ==
    ASSUME Typed, Prompt, Steady, Walks, ProcessKeystrokes, phase' = "run"
    PROVE  Walks'
<1>1. UNCHANGED <<at, todo>>
  BY DEF ProcessKeystrokes, Receive, SelectSource, SelectTarget, WalkSample, ReadOperation, ReceiveInput, Apply, ui
<1>2. /\ proc = [pc |-> proc.pc, signal |-> proc.signal, path |-> proc.path, value |-> proc.value]
      /\ Idle.pc = "idle" /\ Idle.signal.isHotKey = FALSE
  BY DEF Typed, Signals, Idle, Signal
<1>3. Line' = Line
  BY <1>1 DEF Line
<1>4. CASE Receive
  <2>1. /\ proc.pc = "idle" /\ sending # <<>> /\ sending' = <<>> /\ UNCHANGED <<nesting, source, current>>
        /\ proc' = IF sending[1].origin \in Origins THEN [proc EXCEPT !.pc = "got", !.signal = sending[1]] ELSE proc
    BY <1>4 DEF Receive, ToProcessor, ui
  <2>2. CASE sending[1].origin \in Origins
    <3>1. proc'.pc = "got" /\ proc'.signal = sending[1]
      BY <1>2, <2>1, <2>2
    <3>2. SampleLines' = SampleLines /\ InReach' = InReach
      BY <1>3, <2>1 DEF SampleLines, InReach
    <3>3. Heading' = Heading /\ Heading = After(nesting, sending[1])
      BY <2>1, <3>1 DEF Heading, Reached, After
    <3>4. OnPath'
      BY <3>1 DEF OnPath
    <3>5. HotKeys'
      BY <2>1, <3>1 DEF Walks, HotKeys
    <3>6. OnLine'
      BY <1>3, <2>1, <3>1, <3>2, <3>3 DEF Walks, OnLine, After, TooDeep
    <3> QED BY <3>4, <3>5, <3>6 DEF Walks
  <2>3. CASE sending[1].origin \notin Origins
    <3>1. proc' = proc /\ sending[1].origin # "sourceEvent"
      BY <2>1, <2>3 DEF Origins
    <3>2. OnPath'
      BY <2>1, <3>1 DEF OnPath
    <3> QED BY <1>1, <2>1, <3>1, <3>2, StaysWalks DEF Walks
  <2> QED BY <2>2, <2>3
<1>5. CASE SelectSource
  <2>1. /\ proc.pc = "got" /\ proc.signal.origin = "sources" /\ proc' = Idle /\ UNCHANGED <<sending, current>>
    BY <1>5 DEF SelectSource, Got, ui
  <2>2. current' \notin SampleViews /\ sending' = <<>>
    BY <2>1 DEF Steady, SourceSide, SampleViews
  <2> QED BY <1>2, <2>1, <2>2 DEF Walks, OnLine, OnPath, HotKeys
<1>6. CASE SelectTarget \/ Apply
  <2>1. /\ proc.pc # "idle" /\ (proc.pc = "got" => proc.signal.origin # "sourceEvent") /\ proc' = Idle
        /\ UNCHANGED <<sending, current, nesting, source>>
    BY <1>6 DEF SelectTarget, Apply, Got, ui
  <2>2. OnPath'
    BY <1>2, <2>1 DEF OnPath
  <2> QED BY <1>1, <1>2, <2>1, <2>2, StaysWalks DEF Walks
<1>7. CASE WalkSample
  <2> DEFINE l == proc.signal.line
  <2>1. /\ proc.pc = "got" /\ proc.signal.origin = "sourceEvent" /\ UNCHANGED <<sending, current, source>>
    BY <1>7 DEF WalkSample, Got, ui
  <2>2. Open.key \in NoKey /\ Close.key \in NoKey
    BY DEF Open, Close, NoKey, Closers
  <2>3. proc' = Idle /\ nesting' = Walked(nesting, l) /\ (l.key \in NoKey \/ l.depth <= MaxNesting)
    BY <1>7, <2>2 DEF WalkSample, Walked
  <2>4. ~TooDeep(proc.signal)
    <3>1. l.depth \in Nat
      BY <2>1 DEF Typed, Signals, IsSignal, SampleLine
    <3>2. l.depth <= MaxNesting => ~(l.depth > MaxNesting)
      BY <3>1, NestingAssumption
    <3> QED BY <2>3, <3>2 DEF TooDeep
  <2>5. SampleLines' = SampleLines /\ InReach' = InReach
    BY <1>3, <2>1 DEF SampleLines, InReach
  <2>6. Reached' = Reached
    BY <1>2, <2>1, <2>3 DEF Reached, After
  <2>7. Heading' = Heading
    BY <2>1, <2>6 DEF Heading, After
  <2>8. OnLine'
    BY <1>2, <1>3, <2>1, <2>3, <2>4, <2>5, <2>7 DEF Walks, OnLine
  <2>9. OnPath' /\ HotKeys'
    BY <1>2, <2>1, <2>3 DEF Walks, OnPath, HotKeys
  <2> QED BY <2>8, <2>9 DEF Walks
<1>8. CASE ReadOperation
  <2> DEFINE path == IF proc.signal.isHotKey THEN <<>> ELSE PathOf
  <2>1. /\ Got("transformationOperation") /\ proc.pc = "got" /\ proc.signal.origin = "transformationOperation"
        /\ UNCHANGED <<sending, nesting, source>>
        /\ IF proc.signal.line \in {"delete", "parse"}
           THEN proc' = [proc EXCEPT !.pc = "apply", !.path = path]
           ELSE proc' = [proc EXCEPT !.pc = "input", !.path = path]
    BY <1>8 DEF ReadOperation, Got
  <2>2. proc'.pc \in {"apply", "input"} /\ proc'.signal = proc.signal
    BY <1>2, <2>1
  <2>3. current \in SampleViews
    BY <2>1 DEF Steady, SampleSide, SampleViews
  <2>4. OnLine' /\ HotKeys'
    BY <1>1, <2>1, <2>2, <2>3, StaysWalks
  <2>5. OnPath'
    <3>1. SUFFICES ASSUME proc'.pc = "input", Regular(SampleLines)
                   PROVE  proc'.path = KeyPath(SampleLines, Line)
      <4>1. SampleLines' = SampleLines
        BY <2>1 DEF SampleLines
      <4> QED BY <1>3, <3>1, <4>1 DEF OnPath
    <3>2. proc.signal.line # "delete" /\ proc' = [proc EXCEPT !.pc = "input", !.path = path]
      BY <1>2, <2>1, <3>1
    <3>3. ~proc.signal.isHotKey
      BY <3>2 DEF Walks, HotKeys
    <3>4. proc'.path = PathOf
      BY <1>2, <3>2, <3>3
    <3> QED BY <2>1, <3>1, <3>4, PathUnderCursor
  <2> QED BY <2>4, <2>5 DEF Walks
<1>9. CASE ReceiveInput
  <2>1. /\ proc.pc = "input" /\ sending # <<>> /\ sending[1].origin = "inputValue" /\ sending' = <<>>
        /\ UNCHANGED <<current, nesting, source>>
        /\ \E v, p : proc' = [proc EXCEPT !.pc = "apply", !.value = v, !.path = p]
    BY <1>9 DEF ReceiveInput, ui
  <2>2. proc'.pc = "apply" /\ proc'.signal = proc.signal
    BY <1>2, <2>1
  <2>3. OnPath'
    BY <2>2 DEF OnPath
  <2>4. OnLine' /\ HotKeys'
    BY <1>1, <2>1, <2>2, StaysWalks
  <2> QED BY <2>3, <2>4 DEF Walks
<1> QED BY <1>4, <1>5, <1>6, <1>7, <1>8, <1>9 DEF ProcessKeystrokes

LEMMA WalksHold ==
    /\ Init => (Straight => Walks)
    /\ Typed /\ Waits /\ (Straight => Steady) /\ (Straight => Walks) /\ [Next]_vars => (Straight => Walks)'
<1>1. ASSUME Init
      PROVE  Walks
  <2>1. current \notin SampleViews /\ sending = <<>> /\ proc.pc = "idle" /\ proc.signal.isHotKey = FALSE
    BY <1>1 DEF Init, Idle, Signal, SampleViews
  <2> QED BY <2>1 DEF Walks, OnLine, OnPath, HotKeys
<1>2. ASSUME Typed, Waits, Straight => Steady, Straight => Walks, [Next]_vars, Straight'
      PROVE  Walks'
  <2>1. Walks /\ Steady /\ Prompt
    BY <1>2, StraightBefore DEF Straight, Waits
  <2>2. phase' = "run" /\ "strayed" \notin history'
    BY <1>2 DEF Straight
  <2>3. ASSUME UNCHANGED <<proc, sending, nesting, source, at, current>>
        PROVE  Walks'
    <3>1. OnLine' /\ HotKeys'
      BY <2>1, <2>3, StaysWalks
    <3>2. OnPath'
      BY <2>1, <2>3 DEF Walks, OnPath, Line, SampleLines
    <3> QED BY <3>1, <3>2 DEF Walks
  <2>4. CASE UNCHANGED vars \/ Edit \/ \E k \in Keys : Press(k)
    BY <2>3, <2>4 DEF vars, ui, Edit, Press
  <2>5. ASSUME ReceiveName \/ PopTargetWarning
        PROVE  Walks'
    <3>1. /\ UNCHANGED <<proc, nesting, source, at>> /\ (current' \in SampleViews => current \in SampleViews)
          /\ sending' = sending \/ (sending # <<>> /\ sending[1].origin # "sourceEvent" /\ sending' = <<>>)
      BY <2>5 DEF ReceiveName, PopTargetWarning, ui, SampleViews
    <3>2. OnLine' /\ HotKeys'
      BY <2>1, <3>1, StaysWalks
    <3>3. OnPath'
      BY <2>1, <3>1 DEF Walks, OnPath, Line, SampleLines
    <3> QED BY <3>2, <3>3 DEF Walks
  <2>6. ~Save
    BY <2>2 DEF Save
  <2> QED BY <1>2, <2>1, <2>2, <2>4, <2>5, <2>6, HandlersKeepWalks, ProcessorKeepsWalks DEF Next
<1> QED BY <1>1, <1>2

(* A wizard that ends, or has ended, keeps what the property is about.                     *)
LEMMA EndKeeps ==
    ASSUME [Next]_vars, phase' # "run"
    PROVE  UNCHANGED <<proc, source, at>> /\ history \subseteq history'
<1>1. CASE Handlers
  BY <1>1 DEF Handlers, Do, CloseWindow, SelectOperation, SwitchTo, SwitchToTransformation, SourceCursorRight,
         SourceEventCursorLeft, CursorList, CursorEventSample, WipeData, ResetTransformation, Pop, SaveAndExit,
         CloseName, InputEnter, CloseInput, InputClose, End, SendSignal, MoveCursors, Rest, ui
<1>2. CASE ProcessKeystrokes
  BY <1>2 DEF ProcessKeystrokes, Receive, Got, SelectSource, SelectTarget, WalkSample, ReadOperation, ReceiveInput, Apply, ui
<1>3. CASE ReceiveName \/ PopTargetWarning \/ Save \/ Edit \/ UNCHANGED vars \/ \E k \in Keys : Press(k)
  BY <1>3 DEF ReceiveName, PopTargetWarning, Save, Edit, Press, vars, ui
<1> QED BY <1>1, <1>2, <1>3 DEF Next

(* Walking down through a sample, an operation gets the key path of the line under the    *)
(* cursor, though the processor only knows the lines it was told of                *)
(* (cursorDownEventSample, ProcessKeystrokes and its `nesting', readOperation).    *)
THEOREM WalkingDownGivesTheKeyPath == Spec => []PathIsKeyPath
<1>1. Init => PathIsKeyPath
  <2>1. Init => proc.pc # "input"
    <3>1. Idle.pc = "idle"
      BY DEF Idle
    <3>2. Init => proc = Idle
      BY DEF Init
    <3> QED BY <3>1, <3>2
  <2> QED BY <2>1 DEF PathIsKeyPath
<1>2. ASSUME Typed, Waits, Straight => Steady, Straight => Walks, PathIsKeyPath, [Next]_vars
      PROVE  PathIsKeyPath'
  <2>1. CASE phase' = "run"
    <3>1. SUFFICES ASSUME Straight'
                   PROVE  PathIsKeyPath'
      BY <2>1 DEF Straight, PathIsKeyPath
    <3>2. Walks'
      BY <1>2, <3>1, WalksHold
    <3> QED BY <3>2 DEF Walks, OnPath, Line, PathIsKeyPath
  <2>2. CASE phase' # "run"
    <3>1. UNCHANGED <<proc, source, at>> /\ history \subseteq history'
      BY <1>2, <2>2, EndKeeps
    <3> QED BY <1>2, <3>1 DEF PathIsKeyPath, SampleLines
  <2> QED BY <2>1, <2>2
<1> QED BY <1>1, <1>2, TypesHold, WaitsHold, SteadyHolds, WalksHold, PTL DEF Spec
-----------------------------------------------------------------------------
(* What a list of operations becomes.  Transforms' operators are applied to lists of     *)
(* groups, whatever the paths in them.                                         *)
Listed(s)  == \E S : s \in Seq(S)
Grouped(t) == t = Group(t.operation, t.paths) /\ t.operation \in Ops /\ Listed(t.paths)
IsText(ts) == Listed(ts) /\ \A i \in DOMAIN ts : Grouped(ts[i])
In(ts, op, p) == \E i \in DOMAIN ts : ts[i].operation = op /\ p \in Range(ts[i].paths)

LEMMA GroupParts ==
    ASSUME NEW op, NEW ps
    PROVE  Group(op, ps).operation = op /\ Group(op, ps).paths = ps
BY DEF Group

(* `Chosen' takes each of its places once.                                      *)
Placing(h, s, D) ==
    /\ h \in [1 .. Cardinality(D) -> D]
    /\ \A n \in 1 .. Cardinality(D) : Chosen(s, D)[n] = s[h[n]]
    /\ \A m, n \in 1 .. Cardinality(D) : h[m] = h[n] => m = n
    /\ \A d \in D : \E n \in 1 .. Cardinality(D) : h[n] = d

LEMMA ChosenPlaces ==
    ASSUME NEW s, NEW D \in SUBSET Nat, IsFiniteSet(D)
    PROVE  DOMAIN Chosen(s, D) = 1 .. Cardinality(D) /\ \E h : Placing(h, s, D)
<1> DEFINE N == Cardinality(D)
           x(n) == CHOOSE d \in D : Cardinality({e \in D : e <= d}) = n
           h == [n \in 1 .. N |-> x(n)]
<1>1. Chosen(s, D) = [n \in 1 .. N |-> s[x(n)]]
  BY DEF Chosen
<1>2. ASSUME NEW n \in 1 .. N
      PROVE  x(n) \in D /\ Cardinality(Below(D, x(n))) = n
  BY Ranks DEF Below
<1>3. ASSUME NEW d \in D
      PROVE  Cardinality(Below(D, d)) \in 1 .. N /\ x(Cardinality(Below(D, d))) = d
  <2> DEFINE n == Cardinality(Below(D, d))
  <2>1. n \in 1 .. N
    BY Ranks
  <2> HIDE DEF x
  <2>2. x(n) \in D /\ Cardinality(Below(D, x(n))) = n
    BY <1>2, <2>1
  <2>3. d < x(n) => Cardinality(Below(D, d)) < Cardinality(Below(D, x(n)))
    BY <2>2, Ranks
  <2>4. x(n) < d => Cardinality(Below(D, x(n))) < Cardinality(Below(D, d))
    BY <2>2, Ranks
  <2>5. d \in Nat /\ x(n) \in Nat /\ n \in Nat
    <3>1. \A e \in D : e \in Nat
      OBVIOUS
    <3>2. N \in Nat
      BY Ranks
    <3>3. n \in Nat
      <4> HIDE DEF n, N
      <4> QED BY <2>1, <3>2
    <3> QED BY <2>2, <3>1, <3>3
  <2>6. ~(d < x(n)) /\ ~(x(n) < d)
    BY <2>2, <2>3, <2>4, <2>5
  <2>7. x(n) = d
    <3> HIDE DEF n
    <3> QED BY <2>5, <2>6
  <2> QED BY <2>1, <2>7
<1> HIDE DEF x
<1>4. h \in [1 .. N -> D]
  BY <1>2
<1>5. \A n \in 1 .. N : Chosen(s, D)[n] = s[h[n]]
  BY <1>1
<1>6. \A m, n \in 1 .. N : h[m] = h[n] => m = n
  BY <1>2
<1>7. \A d \in D : \E n \in 1 .. N : h[n] = d
  BY <1>3
<1>8. Placing(h, s, D)
  BY <1>4, <1>5, <1>6, <1>7 DEF Placing
<1>9. DOMAIN Chosen(s, D) = 1 .. N
  BY <1>1
<1> QED BY <1>8, <1>9

(* `sanitize': each key once, all of it complete, and no complete key is lost.               *)
LEMMA SanitizeCleans ==
    ASSUME NEW t, Grouped(t)
    PROVE  /\ Grouped(Sanitize(t)) /\ Sanitize(t).operation = t.operation
           /\ IsInjective([n \in DOMAIN Sanitize(t).paths |-> Sanitize(t).paths[n].key])
           /\ \A p \in Range(Sanitize(t).paths) : Complete(t.operation, p)
           /\ \A p \in Range(t.paths) : Complete(t.operation, p) => Index(p.key, Sanitize(t).paths) # {}
<1> DEFINE op == t.operation
           ps == t.paths
           complete == {i \in DOMAIN ps : Complete(op, ps[i])}
           Same(i)  == {j \in complete : ps[j].key = ps[i].key}
           f == [i \in complete |-> ps[Max(Same(i))]]
           D == {i \in complete : i = Min(Same(i))}
           qs == Chosen(f, D)
<1>1. PICK S : ps \in Seq(S)
  BY DEF Grouped, Listed
<1>2. Len(ps) \in Nat /\ DOMAIN ps = 1 .. Len(ps) /\ \A i \in DOMAIN ps : ps[i] \in S
  BY <1>1, Elements, Zenon
<1>3. complete \subseteq 1 .. Len(ps) /\ D \subseteq complete
  BY <1>2
<1>4. t = Group(op, ps) /\ op \in Ops
  BY DEF Grouped
<1>5. Sanitize(t) = [t EXCEPT !.paths = qs]
  BY DEF Sanitize
<1>6. Sanitize(t) = Group(op, qs)
  <2> HIDE DEF qs, op, ps
  <2> QED BY <1>4, <1>5 DEF Group
<1>7. Sanitize(t).operation = op /\ Sanitize(t).paths = qs
  <2> HIDE DEF qs, op
  <2> QED BY <1>6, GroupParts
<1>8. ASSUME NEW i \in complete
      PROVE  /\ Max(Same(i)) \in complete /\ ps[Max(Same(i))].key = ps[i].key
             /\ Min(Same(i)) \in complete /\ ps[Min(Same(i))].key = ps[i].key
  <2>1. Same(i) \subseteq 1 .. Len(ps) /\ Same(i) # {}
    BY <1>3
  <2>2. Same(i) \in SUBSET Nat /\ Same(i) \in SUBSET (0 .. Len(ps))
    BY <1>2, <2>1, FirstPlaces, Zenon
  <2>3. Max(Same(i)) \in Same(i) /\ Min(Same(i)) \in Same(i)
    <3> HIDE DEF Same
    <3> QED BY <1>2, <2>1, <2>2, Greatest, Least, Zenon
  <2> QED BY <2>3
<1>9. D \in SUBSET Nat /\ IsFiniteSet(D)
  <2>1. D \subseteq 1 .. Len(ps)
    BY <1>3
  <2> HIDE DEF D
  <2> QED BY <1>2, <2>1, FirstPlaces, FS_Subset, Zenon
<1>10. ASSUME NEW i \in complete
       PROVE  f[i] \in S /\ f[i].key = ps[i].key /\ Complete(op, f[i])
  BY <1>2, <1>8
<1>11. ASSUME NEW i \in D, NEW j \in D, ps[i].key = ps[j].key
       PROVE  i = j
  BY <1>11
<1>12. ASSUME NEW i \in complete
       PROVE  Min(Same(i)) \in D /\ f[Min(Same(i))].key = ps[i].key
  <2>1. Same(Min(Same(i))) = Same(i)
    BY <1>8
  <2> QED BY <1>8, <1>10, <2>1
<1> HIDE DEF D, f, Same
<1>13. PICK h : /\ h \in [1 .. Cardinality(D) -> D]
                /\ \A n \in 1 .. Cardinality(D) : qs[n] = f[h[n]]
                /\ \A m, n \in 1 .. Cardinality(D) : h[m] = h[n] => m = n
                /\ \A d \in D : \E n \in 1 .. Cardinality(D) : h[n] = d
  <2>1. PICK h : Placing(h, f, D)
    BY <1>9, ChosenPlaces, Zenon
  <2> QED BY <2>1 DEF Placing
<1>14. DOMAIN qs = 1 .. Cardinality(D) /\ qs \in Seq(S)
  <2>1. \A d \in D : f[d] \in S
    BY <1>3, <1>10
  <2> QED BY <1>9, <2>1, ChosenElements, Zenon
<1> HIDE DEF qs
<1>15. \A n \in DOMAIN qs : h[n] \in D /\ qs[n].key = ps[h[n]].key /\ Complete(op, qs[n])
  BY <1>3, <1>10, <1>13, <1>14
<1>16. IsInjective([n \in DOMAIN qs |-> qs[n].key])
  BY <1>11, <1>13, <1>14, <1>15 DEF IsInjective
<1>17. \A p \in Range(qs) : Complete(op, p)
  BY <1>15 DEF Range
<1>18. ASSUME NEW p \in Range(ps), Complete(op, p)
       PROVE  Index(p.key, qs) # {}
  <2>1. PICK i \in DOMAIN ps : p = ps[i]
    BY DEF Range
  <2>2. i \in complete
    BY <1>18, <2>1
  <2>3. Min(Same(i)) \in D /\ f[Min(Same(i))].key = p.key
    BY <1>12, <2>1, <2>2
  <2>4. PICK n \in 1 .. Cardinality(D) : h[n] = Min(Same(i))
    BY <1>13, <2>3
  <2>5. n \in DOMAIN qs /\ qs[n].key = p.key
    BY <1>13, <1>14, <2>3, <2>4
  <2> QED BY <2>5 DEF Index
<1>19. Grouped(Sanitize(t))
  BY <1>4, <1>6, <1>7, <1>14 DEF Grouped, Listed
<1> HIDE DEF op, ps
<1> QED BY <1>7, <1>16, <1>17, <1>18, <1>19 DEF op, ps

LEMMA Appended ==
    ASSUME NEW S, NEW s \in Seq(S), NEW x
    PROVE  /\ Append(s, x) \in Seq(S \cup {x})
           /\ \A i \in DOMAIN s : i \in DOMAIN Append(s, x) /\ Append(s, x)[i] = s[i]
           /\ \A i \in DOMAIN Append(s, x) : i \in DOMAIN s \/ Append(s, x)[i] = x
           /\ \E i \in DOMAIN Append(s, x) : Append(s, x)[i] = x
<1> DEFINE a == Append(s, x)
           n == Len(s)
<1>1. n \in Nat /\ DOMAIN s = 1 .. n
  OBVIOUS
<1>2. s \in Seq(S \cup {x})
  <2>1. \A i \in 1 .. n : s[i] \in S \cup {x}
    OBVIOUS
  <2>2. s = [i \in 1 .. n |-> s[i]]
    OBVIOUS
  <2>3. s \in [1 .. n -> S \cup {x}]
    BY <2>1, <2>2
  <2> HIDE DEF n
  <2> QED BY <1>1, <2>3, SeqDef
<1>3. /\ a \in Seq(S \cup {x}) /\ Len(a) = n + 1 /\ DOMAIN a = 1 .. n + 1
      /\ (\A i \in 1 .. n : a[i] = s[i]) /\ a[n + 1] = x
  BY <1>2
<1> HIDE DEF a, n
<1>4. \A i \in 1 .. n + 1 : i \in 1 .. n \/ i = n + 1
  BY <1>1
<1>5. n + 1 \in 1 .. n + 1 /\ 1 .. n \subseteq 1 .. n + 1
  BY <1>1
<1> QED BY <1>1, <1>3, <1>4, <1>5 DEF a

(* `updateTransformations': the new path joins a group of its operation, and every path    *)
(* stays in one of its operation.                                              *)
LEMMA UpdateAdds ==
    ASSUME NEW ts, IsText(ts), NEW op \in Ops, NEW path, NEW value
    PROVE  /\ IsText(UpdateTransformations(ts, op, path, value))
           /\ In(UpdateTransformations(ts, op, path, value), op, Entry(op, path, value))
           /\ \A o, p : In(ts, o, p) => In(UpdateTransformations(ts, op, path, value), o, p)
<1> DEFINE same == {i \in DOMAIN ts : ts[i].operation = op}
           e    == Entry(op, path, value)
           u    == UpdateTransformations(ts, op, path, value)
<1>1. PICK S : ts \in Seq(S)
  BY DEF IsText, Listed
<1>2. Len(ts) \in Nat /\ DOMAIN ts = 1 .. Len(ts)
  BY <1>1
<1>3. u = IF same = {} THEN Append(ts, Group(op, <<e>>))
          ELSE [ts EXCEPT ![Min(same)].paths = Append(@, e)]
  BY DEF UpdateTransformations
<1> HIDE DEF e, u
<1>4. CASE same = {}
  <2> DEFINE g == Group(op, <<e>>)
  <2>1. g.operation = op /\ g.paths = <<e>>
    BY GroupParts
  <2>2. <<e>> \in Seq({e}) /\ 1 \in DOMAIN <<e>> /\ <<e>>[1] = e
    OBVIOUS
  <2>3. Grouped(g) /\ e \in Range(g.paths)
    BY <2>1, <2>2 DEF Grouped, Listed, Range
  <2>4. u = Append(ts, g)
    BY <1>3, <1>4
  <2> HIDE DEF g
  <2>5. /\ u \in Seq(S \cup {g})
        /\ \A i \in DOMAIN ts : i \in DOMAIN u /\ u[i] = ts[i]
        /\ \A i \in DOMAIN u : i \in DOMAIN ts \/ u[i] = g
        /\ \E i \in DOMAIN u : u[i] = g
    BY <1>1, <2>4, Appended
  <2>6. IsText(u)
    BY <2>3, <2>5 DEF IsText, Listed
  <2>7. In(u, op, e)
    BY <2>1, <2>3, <2>5 DEF In
  <2>8. \A o, p : In(ts, o, p) => In(u, o, p)
    BY <2>5 DEF In
  <2> QED BY <2>6, <2>7, <2>8 DEF u, e
<1>5. CASE same # {}
  <2> DEFINE m == Min(same)
             g == ts[m]
             c == [g EXCEPT !.paths = Append(@, e)]
  <2>1. m \in DOMAIN ts /\ g.operation = op
    <3>1. same \in SUBSET Nat
      <4>1. same \subseteq 1 .. Len(ts)
        BY <1>2
      <4> QED BY <1>2, <4>1, FirstPlaces, Zenon
    <3>2. m \in same
      <4> HIDE DEF same
      <4> QED BY <1>5, <3>1, Least, Zenon
    <3> QED BY <3>2
  <2>2. Grouped(g)
    BY <2>1 DEF IsText
  <2>3. u = [ts EXCEPT ![m] = c]
    BY <1>3, <1>5
  <2> HIDE DEF m
  <2>4. c.operation = op /\ c.paths = Append(g.paths, e) /\ c = Group(op, Append(g.paths, e))
    <3>1. g = [operation |-> g.operation, paths |-> g.paths]
      BY <2>2 DEF Grouped, Group
    <3> HIDE DEF g
    <3> QED BY <2>1, <3>1 DEF Group
  <2>5. PICK P : g.paths \in Seq(P)
    BY <2>2 DEF Grouped, Listed
  <2>6. /\ Append(g.paths, e) \in Seq(P \cup {e}) /\ Range(g.paths) \subseteq Range(Append(g.paths, e))
        /\ e \in Range(Append(g.paths, e))
    <3> DEFINE ps == g.paths
    <3>0. ps \in Seq(P)
      BY <2>5
    <3> HIDE DEF ps
    <3>1. /\ Append(ps, e) \in Seq(P \cup {e})
          /\ \A i \in DOMAIN ps : i \in DOMAIN Append(ps, e) /\ Append(ps, e)[i] = ps[i]
          /\ \E i \in DOMAIN Append(ps, e) : Append(ps, e)[i] = e
      BY <3>0, Appended
    <3> QED BY <3>1 DEF Range, ps
  <2> HIDE DEF c
  <2>7. Grouped(c)
    BY <2>4, <2>6 DEF Grouped, Listed
  <2>8. /\ DOMAIN u = DOMAIN ts /\ u[m] = c /\ \A i \in DOMAIN ts : i # m => u[i] = ts[i]
    BY <2>1, <2>3
  <2>9. u \in Seq(S \cup {c})
    <3>1. \A i \in 1 .. Len(ts) : u[i] \in S \cup {c}
      BY <1>1, <2>8
    <3>2. u = [i \in 1 .. Len(ts) |-> u[i]]
      BY <1>2, <2>3
    <3>3. u \in [1 .. Len(ts) -> S \cup {c}]
      BY <3>1, <3>2
    <3> QED BY <1>2, <3>3, SeqDef
  <2>10. IsText(u)
    BY <2>7, <2>8, <2>9 DEF IsText, Listed
  <2>11. In(u, op, e)
    BY <2>1, <2>4, <2>6, <2>8 DEF In
  <2>12. ASSUME NEW o, NEW p, In(ts, o, p)
         PROVE  In(u, o, p)
    <3>1. PICK i \in DOMAIN ts : ts[i].operation = o /\ p \in Range(ts[i].paths)
      BY <2>12 DEF In
    <3>2. i = m => u[i].operation = o /\ p \in Range(u[i].paths)
      BY <2>1, <2>4, <2>6, <2>8, <3>1
    <3> QED BY <2>8, <3>1, <3>2 DEF In
  <2> QED BY <2>10, <2>11, <2>12 DEF u, e
<1> QED BY <1>4, <1>5

(* The order of the operations.                                                *)
LEMMA RankOf ==
    /\ Rank("parse") = 1 /\ Rank("store") = 2 /\ Rank("delete") = 3 /\ Rank("add") = 4 /\ Rank("shift") = 5
    /\ \A p : Complete("delete", p)
<1>1. Rank("parse") = 1 /\ Rank("store") = 2 /\ Rank("delete") = 3 /\ Rank("add") = 4 /\ Rank("shift") = 5
  BY Zenon DEF Rank
<1>2. ASSUME NEW p
      PROVE  Complete("delete", p)
  BY Zenon DEF Complete
<1> QED BY <1>1, <1>2

(* Lists of clean groups, the ranks of whose operations do not fall.                       *)
CleanGroup(g) ==
    /\ Grouped(g) /\ IsInjective([n \in DOMAIN g.paths |-> g.paths[n].key])
    /\ \A p \in Range(g.paths) : Complete(g.operation, p)
Ranked(s, lo, hi) ==
    /\ Listed(s) /\ \A i \in DOMAIN s : CleanGroup(s[i]) /\ Rank(s[i].operation) \in lo .. hi
    /\ \A i, j \in DOMAIN s : i < j => Rank(s[i].operation) <= Rank(s[j].operation)

LEMMA JoinedLists ==
    ASSUME NEW a, NEW b, NEW lo \in Nat, NEW mid \in Nat, NEW next \in Nat, NEW hi \in Nat,
           lo <= mid, mid < next, next <= hi, Ranked(a, lo, mid), Ranked(b, next, hi)
    PROVE  Ranked(a \o b, lo, hi) /\ Range(a) \subseteq Range(a \o b) /\ Range(b) \subseteq Range(a \o b)
<1>1. PICK S, T : a \in Seq(S) /\ b \in Seq(T)
  BY DEF Ranked, Listed
<1> DEFINE U == S \cup T
           k == Len(a)
           n == Len(b)
           c == a \o b
<1>2. a \in Seq(U) /\ b \in Seq(U)
  <2>1. ASSUME NEW R \in SUBSET U, NEW r \in Seq(R)
        PROVE  r \in Seq(U)
    <3>1. Len(r) \in Nat /\ r = [i \in 1 .. Len(r) |-> r[i]] /\ \A i \in 1 .. Len(r) : r[i] \in R
      OBVIOUS
    <3>2. r \in [1 .. Len(r) -> U]
      BY <3>1
    <3> HIDE DEF U
    <3> QED BY <3>1, <3>2, SeqDef
  <2> HIDE DEF U
  <2>2. S \in SUBSET U /\ T \in SUBSET U
    BY DEF U
  <2> QED BY <1>1, <2>1, <2>2
<1> HIDE DEF U
<1>3. /\ c \in Seq(U) /\ Len(c) = k + n /\ k \in Nat /\ n \in Nat /\ DOMAIN c = 1 .. k + n
      /\ DOMAIN a = 1 .. k /\ DOMAIN b = 1 .. n
      /\ \A i \in 1 .. k : c[i] = a[i]
      /\ \A i \in k + 1 .. k + n : c[i] = b[i - k]
  BY <1>2
<1> HIDE DEF c, k, n
<1>4. /\ \A i \in 1 .. k + n : i \in 1 .. k \/ (i \in k + 1 .. k + n /\ i - k \in 1 .. n)
      /\ \A i \in 1 .. n : i + k \in k + 1 .. k + n /\ i + k \in 1 .. k + n /\ (i + k) - k = i
      /\ \A i \in 1 .. k : i \in 1 .. k + n
  BY <1>3
<1>5. ASSUME NEW i \in DOMAIN c
      PROVE  CleanGroup(c[i]) /\ Rank(c[i].operation) \in lo .. hi
  <2>1. CASE i \in 1 .. k
    <3>1. CleanGroup(a[i]) /\ Rank(a[i].operation) \in lo .. mid
      BY <1>3, <2>1 DEF Ranked
    <3> QED BY <1>3, <2>1, <3>1
  <2>2. CASE i \in k + 1 .. k + n /\ i - k \in 1 .. n
    <3>1. CleanGroup(b[i - k]) /\ Rank(b[i - k].operation) \in next .. hi
      BY <1>3, <2>2 DEF Ranked
    <3> QED BY <1>3, <2>2, <3>1
  <2> QED BY <1>3, <1>4, <2>1, <2>2
<1>6. ASSUME NEW i \in DOMAIN c, NEW j \in DOMAIN c, i < j
      PROVE  Rank(c[i].operation) <= Rank(c[j].operation)
  <2>1. CASE j \in 1 .. k
    <3>1. i \in 1 .. k
      BY <1>3, <1>6, <2>1
    <3> QED BY <1>3, <1>6, <2>1, <3>1 DEF Ranked
  <2>2. CASE i \in k + 1 .. k + n /\ i - k \in 1 .. n
    <3>1. j \in k + 1 .. k + n /\ j - k \in 1 .. n /\ i - k < j - k
      BY <1>3, <1>6, <2>2
    <3>2. Rank(b[i - k].operation) <= Rank(b[j - k].operation)
      BY <1>3, <2>2, <3>1 DEF Ranked
    <3> QED BY <1>3, <2>2, <3>1, <3>2
  <2>3. CASE i \in 1 .. k /\ j \in k + 1 .. k + n /\ j - k \in 1 .. n
    <3>1. Rank(a[i].operation) \in lo .. mid /\ Rank(b[j - k].operation) \in next .. hi
      BY <1>3, <2>3 DEF Ranked
    <3>2. Rank(c[i].operation) \in lo .. mid /\ Rank(c[j].operation) \in next .. hi
      BY <1>3, <2>3, <3>1
    <3> QED BY <3>2
  <2> QED BY <1>3, <1>4, <2>1, <2>2, <2>3
<1>7. Range(a) \subseteq Range(c)
  BY <1>3, <1>4 DEF Range
<1>8. Range(b) \subseteq Range(c)
  <2>1. \A i \in DOMAIN b : i + k \in DOMAIN c /\ c[i + k] = b[i]
    BY <1>3, <1>4
  <2> QED BY <2>1 DEF Range
<1>9. Ranked(c, lo, hi)
  BY <1>3, <1>5, <1>6 DEF Ranked, Listed
<1> QED BY <1>7, <1>8, <1>9 DEF c

(* The groups of one operation, cleaned, that have paths left.                             *)
Cleaned(ts)    == [i \in DOMAIN ts |-> Sanitize(ts[i])]
OfKind(ts, op) == Chosen(Cleaned(ts), {i \in DOMAIN ts : ts[i].operation = op /\ Cleaned(ts)[i].paths # <<>>})

LEMMA KindIsClean ==
    ASSUME NEW ts, IsText(ts), NEW op \in Ops, Rank(op) \in Nat
    PROVE  /\ Ranked(OfKind(ts, op), Rank(op), Rank(op))
           /\ \A p : In(ts, op, p) /\ Complete(op, p)
                 => \E g \in Range(OfKind(ts, op)) : g.operation = op /\ Index(p.key, g.paths) # {}
<1> DEFINE clean == Cleaned(ts)
           D == {i \in DOMAIN ts : ts[i].operation = op /\ clean[i].paths # <<>>}
           k == OfKind(ts, op)
           G == {clean[i] : i \in DOMAIN ts}
<1>1. PICK S : ts \in Seq(S)
  BY DEF IsText, Listed
<1>2. Len(ts) \in Nat /\ DOMAIN ts = 1 .. Len(ts)
  BY <1>1, Elements, Zenon
<1>3. D \in SUBSET Nat /\ IsFiniteSet(D)
  <2>1. D \subseteq 1 .. Len(ts)
    BY <1>2
  <2> HIDE DEF D
  <2> QED BY <1>2, <2>1, FirstPlaces, FS_Subset, Zenon
<1>4. ASSUME NEW i \in DOMAIN ts
      PROVE  /\ clean[i] = Sanitize(ts[i]) /\ CleanGroup(clean[i]) /\ clean[i].operation = ts[i].operation
             /\ \A p \in Range(ts[i].paths) : Complete(ts[i].operation, p) => Index(p.key, clean[i].paths) # {}
  <2>1. clean[i] = Sanitize(ts[i]) /\ Grouped(ts[i])
    BY DEF Cleaned, IsText
  <2> HIDE DEF clean
  <2> DEFINE t == ts[i]
  <2>2. Grouped(t)
    BY <2>1
  <2> HIDE DEF t
  <2>3. /\ Grouped(Sanitize(t)) /\ Sanitize(t).operation = t.operation
        /\ IsInjective([n \in DOMAIN Sanitize(t).paths |-> Sanitize(t).paths[n].key])
        /\ \A p \in Range(Sanitize(t).paths) : Complete(t.operation, p)
        /\ \A p \in Range(t.paths) : Complete(t.operation, p) => Index(p.key, Sanitize(t).paths) # {}
    BY <2>2, SanitizeCleans, Zenon
  <2>4. CleanGroup(Sanitize(t))
    BY <2>3 DEF CleanGroup
  <2> QED BY <2>1, <2>3, <2>4 DEF t
<1>5. k = Chosen(clean, D)
  BY DEF OfKind
<1>6. \A d \in D : clean[d] \in G /\ d \in DOMAIN ts /\ ts[d].operation = op
  OBVIOUS
<1>9. ASSUME NEW p, In(ts, op, p), Complete(op, p)
      PROVE  \E d \in D : Index(p.key, clean[d].paths) # {}
  <2>1. PICK i \in DOMAIN ts : ts[i].operation = op /\ p \in Range(ts[i].paths)
    BY <1>9 DEF In
  <2>2. Index(p.key, clean[i].paths) # {}
    BY <1>4, <1>9, <2>1
  <2>3. clean[i].paths # <<>>
    BY <2>2 DEF Index
  <2> QED BY <2>1, <2>2, <2>3
<1> HIDE DEF clean, D, k, G
<1>7. /\ DOMAIN k = 1 .. Cardinality(D) /\ k \in Seq(G)
      /\ \A n \in DOMAIN k : \E d \in D : k[n] = clean[d]
  <2>1. \A d \in D : clean[d] \in G
    BY <1>6
  <2>2. /\ DOMAIN Chosen(clean, D) = 1 .. Cardinality(D)
        /\ \A S_ : (\A d \in D : clean[d] \in S_) => Chosen(clean, D) \in Seq(S_)
        /\ \A n \in DOMAIN Chosen(clean, D) : \E d \in D : Chosen(clean, D)[n] = clean[d]
    BY <1>3, ChosenElements, Zenon
  <2> QED BY <1>5, <2>1, <2>2, Zenon
<1>8. \A d \in D : \E n \in DOMAIN k : k[n] = clean[d]
  <2>1. PICK h : Placing(h, clean, D)
    BY <1>3, ChosenPlaces, Zenon
  <2> QED BY <1>5, <1>7, <2>1 DEF Placing
<1>10. \A n \in DOMAIN k : CleanGroup(k[n]) /\ k[n].operation = op
  BY <1>4, <1>6, <1>7
<1>11. Ranked(k, Rank(op), Rank(op))
  <2> DEFINE r == Rank(op)
  <2>1. \A n \in DOMAIN k : Rank(k[n].operation) = r
    BY <1>10
  <2>2. r \in r .. r /\ r <= r
    OBVIOUS
  <2>3. Listed(k)
    BY <1>7 DEF Listed
  <2> HIDE DEF r
  <2>4. \A i \in DOMAIN k : CleanGroup(k[i]) /\ Rank(k[i].operation) \in r .. r
    BY <1>10, <2>1, <2>2
  <2>5. \A i, j \in DOMAIN k : i < j => Rank(k[i].operation) <= Rank(k[j].operation)
    BY <2>1, <2>2
  <2>6. Ranked(k, r, r)
    BY <2>3, <2>4, <2>5 DEF Ranked
  <2> QED BY <2>6 DEF r
<1>12. ASSUME NEW p, In(ts, op, p), Complete(op, p)
       PROVE  \E g \in Range(k) : g.operation = op /\ Index(p.key, g.paths) # {}
  <2>1. PICK d \in D : Index(p.key, clean[d].paths) # {}
    BY <1>9, <1>12
  <2>2. PICK n \in DOMAIN k : k[n] = clean[d]
    BY <1>8
  <2>3. k[n] \in Range(k) /\ k[n].operation = op
    BY <1>10 DEF Range
  <2> QED BY <2>1, <2>2, <2>3
<1> QED BY <1>11, <1>12 DEF k

LEMMA WipeIsClean ==
    /\ Ranked(<<Wipe>>, 3, 3) /\ Wipe \in Range(<<Wipe>>)
    /\ Wipe.operation = "delete" /\ Index(<<>>, Wipe.paths) # {}
<1> DEFINE p == Path(<<>>, <<>>)
           ps == <<p>>
<1>1. Wipe.operation = "delete" /\ Wipe.paths = ps /\ Wipe = Group(Wipe.operation, Wipe.paths)
  BY DEF Wipe, Group
<1>2. ps \in Seq({p}) /\ DOMAIN ps = {1} /\ ps[1] = p /\ p.key = <<>>
  BY DEF Path
<1> HIDE DEF p, ps
<1>3. Grouped(Wipe)
  BY <1>1, <1>2 DEF Grouped, Listed, Ops
<1>4. CleanGroup(Wipe)
  BY <1>1, <1>2, <1>3, RankOf DEF CleanGroup, IsInjective, Range
<1>5. Index(<<>>, Wipe.paths) # {}
  BY <1>1, <1>2 DEF Index
<1> DEFINE w == <<Wipe>>
<1>6. w \in Seq({Wipe}) /\ DOMAIN w = {1} /\ w[1] = Wipe
  OBVIOUS
<1> HIDE DEF w
<1>7. Ranked(w, 3, 3)
  BY <1>1, <1>4, <1>6, RankOf DEF Ranked, Listed
<1>8. Wipe \in Range(w)
  BY <1>6 DEF Range
<1> QED BY <1>1, <1>5, <1>7, <1>8 DEF w

(* `rearrange': the list is in order and clean, and nothing complete is lost but to a wipe. *)
LEMMA Rearranged ==
    ASSUME NEW ts, IsText(ts)
    PROVE  /\ IsText(Rearrange(ts)) /\ Normal(Rearrange(ts))
           /\ \A op \in Ops : \A p : In(ts, op, p) /\ Complete(op, p) => Kept(Rearrange(ts), op, p.key)
<1> DEFINE wiped == \E i \in DOMAIN ts : ts[i].operation = "delete" /\ Index(<<>>, Cleaned(ts)[i].paths) # {}
           a == OfKind(ts, "parse")
           b == OfKind(ts, "store")
           c == IF wiped THEN <<Wipe>> ELSE OfKind(ts, "delete")
           d == OfKind(ts, "add")
           e == OfKind(ts, "shift")
           r == Rearrange(ts)
<1>1. r = a \o b \o c \o d \o e
  BY DEF Rearrange, OfKind, Cleaned
<1>2. {"parse", "store", "delete", "add", "shift"} = Ops
  BY DEF Ops
<1>3. ASSUME NEW op \in Ops
      PROVE  /\ Ranked(OfKind(ts, op), Rank(op), Rank(op))
             /\ \A p : In(ts, op, p) /\ Complete(op, p)
                   => \E g \in Range(OfKind(ts, op)) : g.operation = op /\ Index(p.key, g.paths) # {}
  <2>1. Rank(op) \in Nat
    BY <1>2, RankOf
  <2> QED BY <2>1, KindIsClean
<1>4. /\ Ranked(a, 1, 1) /\ Ranked(b, 2, 2) /\ Ranked(OfKind(ts, "delete"), 3, 3)
      /\ Ranked(d, 4, 4) /\ Ranked(e, 5, 5)
  BY <1>2, <1>3, RankOf
<1>5. Ranked(c, 3, 3)
  BY <1>4, WipeIsClean
<1>6. ASSUME NEW op \in Ops, NEW p, In(ts, op, p), Complete(op, p)
      PROVE  \/ \E g \in Range(a) \cup Range(b) \cup Range(c) \cup Range(d) \cup Range(e) :
                    g.operation = op /\ Index(p.key, g.paths) # {}
             \/ op = "delete" /\ \E g \in Range(c) : g.operation = op /\ Index(<<>>, g.paths) # {}
  <2>1. PICK g \in Range(OfKind(ts, op)) : g.operation = op /\ Index(p.key, g.paths) # {}
    BY <1>3, <1>6
  <2>2. CASE op = "delete" /\ wiped
    BY <2>2, WipeIsClean
  <2>3. CASE op # "delete" \/ ~wiped
    BY <1>2, <2>1, <2>3
  <2> QED BY <2>2, <2>3
<1> HIDE DEF a, b, c, d, e, r, wiped
<1> DEFINE f == a \o b
           g == f \o c
           h == g \o d
<1>7. Ranked(f, 1, 2) /\ Range(a) \subseteq Range(f) /\ Range(b) \subseteq Range(f)
  BY <1>4, JoinedLists
<1> HIDE DEF f
<1>8. Ranked(g, 1, 3) /\ Range(f) \subseteq Range(g) /\ Range(c) \subseteq Range(g)
  BY <1>5, <1>7, JoinedLists
<1> HIDE DEF g
<1>9. Ranked(h, 1, 4) /\ Range(g) \subseteq Range(h) /\ Range(d) \subseteq Range(h)
  BY <1>4, <1>8, JoinedLists
<1> HIDE DEF h
<1>10. r = h \o e
  BY <1>1 DEF f, g, h
<1>11. Ranked(h \o e, 1, 5) /\ Range(h) \subseteq Range(h \o e) /\ Range(e) \subseteq Range(h \o e)
  BY <1>4, <1>9, JoinedLists
<1>12. Ranked(r, 1, 5) /\ Range(a) \cup Range(b) \cup Range(c) \cup Range(d) \cup Range(e) \subseteq Range(r)
  BY <1>7, <1>8, <1>9, <1>10, <1>11
<1>13. IsText(r) /\ Normal(r)
  BY <1>12 DEF Ranked, CleanGroup, IsText, Normal
<1>14. \A o, k : (\E x \in Range(r) : x.operation = o /\ Index(k, x.paths) # {}) => Holds(r, o, k)
  BY DEF Holds, Range
<1>15. ASSUME NEW op \in Ops, NEW p, In(ts, op, p), Complete(op, p)
       PROVE  Kept(r, op, p.key)
  <2>1. \/ \E x \in Range(r) : x.operation = op /\ Index(p.key, x.paths) # {}
        \/ op = "delete" /\ \E x \in Range(r) : x.operation = op /\ Index(<<>>, x.paths) # {}
    BY <1>6, <1>12, <1>15
  <2> QED BY <1>14, <2>1 DEF Kept
<1> QED BY <1>13, <1>15 DEF r

(* The transformation in its view is junk or a list of groups, and an operation that is    *)
(* under way is one of the five.                                               *)
IsOp(s) == s.origin = "transformationOperation" => s.line \in Ops
Working == /\ text = Junk \/ IsText(text)
           /\ sending # <<>> => IsOp(sending[1])
           /\ IsOp(proc.signal)
           /\ proc.pc \in {"input", "apply"} => proc.signal.origin = "transformationOperation"

LEMMA NoText == IsText(<<>>)
<1>1. <<>> \in Seq({}) /\ DOMAIN <<>> = {}
  OBVIOUS
<1> QED BY <1>1 DEF IsText, Listed

(* Transformations as the manifest has them, or as the user writes them.         *)
LEMMA AnyText ==
    ASSUME NEW ts \in Seq(GroupType)
    PROVE  IsText(ts)
<1>1. ASSUME NEW i \in DOMAIN ts
      PROVE  Grouped(ts[i])
  <2>1. ts[i] \in GroupType
    BY Elements, Zenon
  <2>2. ts[i] = [operation |-> ts[i].operation, paths |-> ts[i].paths] /\ ts[i].operation \in Ops
        /\ ts[i].paths \in Seq(PathType)
    BY <2>1 DEF GroupType
  <2> QED BY <2>2 DEF Grouped, Listed, Group
<1> QED BY <1>1 DEF IsText, Listed

LEMMA WrittenText == ASSUME NEW ts \in Edits PROVE IsText(ts)
BY EditsAssumption, AnyText

(* What the manifest has for a pair.                                            *)
LEMMA KnownText ==
    ASSUME NEW s, NEW t
    PROVE  IsText(ExistingTransformation(s, t, Known).spec)
<1> DEFINE l == Label(s, t)
           has == {i \in DOMAIN Manifest : l \in Manifest[i].contexts}
           all == {Manifest[i].contexts : i \in DOMAIN Manifest}
           R == [role : STRING, name : STRING, types : SUBSET (STRING \ {""}),
                 contexts : SUBSET Seq(STRING), data : Seq(GroupType)]
<1>1. Manifest \in Seq(R)
  BY ManifestAssumption
<1>2. Len(Manifest) \in Nat /\ DOMAIN Manifest = 1 .. Len(Manifest) /\ \A i \in DOMAIN Manifest : Manifest[i] \in R
  <2> HIDE DEF R
  <2> QED BY <1>1, Elements, Zenon
<1>3. DOMAIN Known = UNION all
  BY DEF Known, Transformations
<1>4. CASE l \notin DOMAIN Known
  <2>1. ExistingTransformation(s, t, Known) = [name |-> "", spec |-> <<>>]
    BY <1>4 DEF ExistingTransformation
  <2> DEFINE r == [name |-> "", spec |-> <<>>]
  <2>2. r.spec = <<>>
    OBVIOUS
  <2> HIDE DEF r
  <2>3. IsText(r.spec)
    BY <2>2, NoText
  <2> QED BY <2>1, <2>3 DEF r
<1>5. CASE l \in DOMAIN Known
  <2>1. ExistingTransformation(s, t, Known).spec = Manifest[Max(has)].data
    <3>1. Known[l] = [name |-> Manifest[Max(has)].name, spec |-> Manifest[Max(has)].data]
      BY <1>3, <1>5 DEF Known, Transformations
    <3>2. ExistingTransformation(s, t, Known) = Known[l]
      BY <1>5 DEF ExistingTransformation
    <3> QED BY <3>1, <3>2
  <2>2. has # {}
    BY <1>3, <1>5
  <2>3. has \in SUBSET (0 .. Len(Manifest))
    <3>1. has \subseteq 1 .. Len(Manifest)
      BY <1>2
    <3> HIDE DEF has
    <3> QED BY <1>2, <3>1, FirstPlaces, Zenon
  <2>4. Max(has) \in has
    <3> HIDE DEF has
    <3> QED BY <1>2, <2>2, <2>3, Greatest, Zenon
  <2>5. Manifest[Max(has)] \in R
    BY <1>2, <2>4
  <2> DEFINE ts == Manifest[Max(has)].data
  <2>6. ts \in Seq(GroupType)
    BY <2>5
  <2> HIDE DEF ts, has, R
  <2>7. IsText(ts)
    BY <2>6, AnyText
  <2> QED BY <2>1, <2>7 DEF ts
<1> QED BY <1>4, <1>5

(* What handlers do to it.                                                      *)
LEMMA HandlersTell ==
    ASSUME Typed, Working, Handlers
    PROVE  Working'
<1>1. ASSUME NEW view, NEW where, SendSignal(view, where)
      PROVE  text' = text /\ (sending' # <<>> => IsOp(sending'[1]))
  <2>1. text' = text
    BY <1>1 DEF SendSignal, MoveCursors, ui
  <2>2. CASE view \notin Lists
    <3>1. PICK op \in Operations : sending' = <<Signal(view, op)>>
      BY <1>1, <2>2 DEF SendSignal, MoveCursors
    <3>2. IsOp(Signal(view, op))
      BY OperationsAssumption DEF IsOp, Signal
    <3>3. sending'[1] = Signal(view, op)
      BY <3>1
    <3> QED BY <2>1, <3>2, <3>3
  <2>3. CASE view \in Lists
    <3>1. (\E line : sending' = <<Signal(view, line)>>) \/ sending' = sending
      BY <1>1, <2>3 DEF SendSignal, MoveCursors
    <3>2. \A line : IsOp(Signal(view, line))
      BY <2>3 DEF IsOp, Signal
    <3>3. \A line : sending' = <<Signal(view, line)>> => sending'[1] = Signal(view, line)
      OBVIOUS
    <3> QED BY <2>1, <3>1, <3>2, <3>3, Zenon DEF Working
  <2> QED BY <2>2, <2>3
<1>2. ASSUME text' \in {text, <<>>}, sending' # <<>> => IsOp(sending'[1]), UNCHANGED proc
      PROVE  Working'
  BY <1>2, NoText DEF Working
<1>3. sending' = sending => (sending' # <<>> => IsOp(sending'[1]))
  BY DEF Working
<1>4. ASSUME NEW s, IsOp(s), sending' = <<s>>
      PROVE  sending' # <<>> => IsOp(sending'[1])
  <2>1. sending'[1] = s
    BY <1>4
  <2> QED BY <1>4, <2>1
<1>5. CASE CloseWindow \/ CloseName \/ CloseInput \/ SwitchToTransformation \/ ResetTransformation
           \/ Pop("popOperationsView", "transformationOperation")
           \/ Pop("popTransformationNameView", "transformationName")
  BY <1>2, <1>3, <1>5 DEF CloseWindow, CloseName, CloseInput, SwitchToTransformation, ResetTransformation, Pop, End, Rest
<1>6. CASE SelectOperation
  BY <1>1, <1>2, <1>6 DEF SelectOperation, Rest
<1>7. CASE SwitchTo("switchToSources", "sources") \/ SwitchTo("switchToTargets", "targets")
  <2>1. PICK h, view : SwitchTo(h, view)
    BY <1>7
  <2>2. /\ UNCHANGED proc
        /\ SendSignal(view, at) \/ UNCHANGED <<text, sending>>
    BY <2>1 DEF SwitchTo, Rest
  <2> QED BY <1>1, <1>2, <1>3, <2>2
<1>8. CASE SourceCursorRight
  <2>1. /\ UNCHANGED proc
        /\ SendSignal("sourceEvent", at) \/ UNCHANGED <<text, sending>>
    BY <1>8 DEF SourceCursorRight, Rest
  <2> QED BY <1>1, <1>2, <1>3, <2>1
<1>9. CASE SourceEventCursorLeft
  BY <1>1, <1>2, <1>9 DEF SourceEventCursorLeft, Rest
<1>10. CASE CursorList("cursorUp", -1) \/ CursorList("cursorDown", 1)
  <2>1. PICK h, step : CursorList(h, step)
    BY <1>10
  <2>2. /\ UNCHANGED proc
        /\ (\E where : SendSignal(current, where)) \/ UNCHANGED <<text, sending>>
    BY <2>1 DEF CursorList, End, Rest
  <2> QED BY <1>1, <1>2, <1>3, <2>2
<1>11. CASE CursorEventSample("cursorUpEventSample", -1) \/ CursorEventSample("cursorDownEventSample", 1)
  <2>1. PICK h, step : CursorEventSample(h, step)
    BY <1>11
  <2>2. /\ UNCHANGED proc
        /\ (\E where : SendSignal(current, where)) \/ UNCHANGED <<text, sending>>
    BY <2>1 DEF CursorEventSample, Rest
  <2> QED BY <1>1, <1>2, <1>3, <2>2
<1>12. CASE WipeData
  <2> DEFINE s == [origin |-> "transformationOperation", line |-> "delete", isHotKey |-> TRUE]
  <2>1. sending' = <<s>> /\ UNCHANGED <<proc, text>>
    BY <1>12 DEF WipeData, Rest
  <2>2. IsOp(s)
    BY DEF IsOp, Ops
  <2> HIDE DEF s
  <2> QED BY <1>2, <1>4, <2>1, <2>2
<1>13. CASE SaveAndExit
  <2>1. sending' = <<Signal("createAndExit", "name")>> /\ UNCHANGED <<proc, text>>
    BY <1>13 DEF SaveAndExit, Rest
  <2>2. IsOp(Signal("createAndExit", "name"))
    BY DEF IsOp, Signal
  <2> QED BY <1>2, <1>4, <2>1, <2>2
<1>14. CASE InputEnter
  <2>1. UNCHANGED <<proc, text>> /\ ((\E v \in Values : sending' = <<Signal("inputValue", v)>>) \/ UNCHANGED sending)
    BY <1>14 DEF InputEnter, Rest
  <2>2. \A v \in Values : IsOp(Signal("inputValue", v))
    BY DEF IsOp, Signal
  <2> QED BY <1>2, <1>3, <1>4, <2>1, <2>2
<1>15. CASE InputClose
  <2>1. UNCHANGED <<sending, text>>
    BY <1>15 DEF InputClose, End
  <2>2. \/ proc' = proc
        \/ proc.pc = "input" /\ proc' = [proc EXCEPT !.pc = "apply", !.path = <<>>, !.value = <<>>]
    BY <1>15 DEF InputClose
  <2>3. proc' = proc \/ (proc.pc = "input" /\ proc'.pc = "apply" /\ proc'.signal = proc.signal)
    BY <2>2 DEF Typed, Signals
  <2> QED BY <1>3, <2>1, <2>3 DEF Working
<1> QED BY <1>5, <1>6, <1>7, <1>8, <1>9, <1>10, <1>11, <1>12, <1>13, <1>14, <1>15 DEF Handlers

LEMMA UpdatedText ==
    ASSUME Working, proc.pc = "apply", text # Junk
    PROVE  LET op == proc.signal.line
               e  == Entry(op, proc.path, proc.value)
           IN /\ IsText(Updated) /\ Normal(Updated)
              /\ \A i \in DOMAIN text : \A p \in Range(text[i].paths) :
                   Complete(text[i].operation, p) => Kept(Updated, text[i].operation, p.key)
              /\ Complete(op, e) => Kept(Updated, op, e.key)
<1> DEFINE op == proc.signal.line
           e  == Entry(op, proc.path, proc.value)
           u  == UpdateTransformations(text, op, proc.path, proc.value)
<1>1. IsText(text) /\ op \in Ops
  BY DEF Working, IsOp
<1>2. IsText(u) /\ In(u, op, e) /\ \A o, p : In(text, o, p) => In(u, o, p)
  BY <1>1, UpdateAdds
<1>3. Updated = Rearrange(u)
  BY DEF Updated
<1> HIDE DEF u, e, op
<1>4. /\ IsText(Updated) /\ Normal(Updated)
      /\ \A o \in Ops : \A p : In(u, o, p) /\ Complete(o, p) => Kept(Updated, o, p.key)
  BY <1>2, <1>3, Rearranged
<1>5. ASSUME NEW i \in DOMAIN text, NEW p \in Range(text[i].paths), Complete(text[i].operation, p)
      PROVE  Kept(Updated, text[i].operation, p.key)
  <2>1. text[i].operation \in Ops
    BY <1>1 DEF IsText, Grouped
  <2>2. In(text, text[i].operation, p)
    BY DEF In
  <2> QED BY <1>2, <1>4, <1>5, <2>1, <2>2
<1>6. Complete(op, e) => Kept(Updated, op, e.key)
  BY <1>1, <1>2, <1>4
<1> QED BY <1>4, <1>5, <1>6 DEF e, op

LEMMA ProcessorWorks ==
    ASSUME Typed, Working, ProcessKeystrokes
    PROVE  Working'
<1>1. proc = [pc |-> proc.pc, signal |-> proc.signal, path |-> proc.path, value |-> proc.value]
  BY DEF Typed, Signals
<1>2. Idle.pc = "idle" /\ IsOp(Idle.signal)
  BY DEF Idle, Signal, IsOp
<1>3. sending' \in {sending, <<>>}
  BY DEF ProcessKeystrokes, Receive, SelectSource, SelectTarget, WalkSample, ReadOperation, ReceiveInput, Apply
<1>4. sending' # <<>> => IsOp(sending'[1])
  BY <1>3 DEF Working
<1>5. ASSUME NEW s, NEW t, NEW other, other \in {text, <<>>}, Show(s, t, other)
      PROVE  text' = Junk \/ IsText(text')
  BY <1>5, KnownText, NoText DEF Show, Working
<1>6. ASSUME proc' = Idle, text' = Junk \/ IsText(text')
      PROVE  Working'
  <2>1. proc'.pc = "idle" /\ IsOp(proc'.signal)
    BY <1>2, <1>6
  <2> QED BY <1>4, <1>6, <2>1 DEF Working
<1>7. text' = text => text' = Junk \/ IsText(text')
  BY DEF Working
<1>8. CASE Receive
  <2>1. /\ sending # <<>> /\ text' = text /\ proc.pc = "idle"
        /\ proc' = [proc EXCEPT !.pc = "got", !.signal = sending[1]] \/ proc' = proc
    BY <1>8 DEF Receive, ToProcessor
  <2>2. (proc'.pc = "got" /\ proc'.signal = sending[1]) \/ proc' = proc
    BY <1>1, <2>1
  <2> QED BY <1>4, <1>7, <2>1, <2>2 DEF Working
<1>9. CASE SelectSource
  <2>1. /\ proc' = Idle
        /\ text' = text \/ Show(source', target, <<>>)
    BY <1>9 DEF SelectSource
  <2>2. <<>> \in {text, <<>>}
    OBVIOUS
  <2>3. ASSUME Show(source', target, <<>>)
        PROVE  text' = Junk \/ IsText(text')
    <3>1. ASSUME NEW s, Show(s, target, <<>>)
          PROVE  text' = Junk \/ IsText(text')
      BY <1>5, <2>2, <3>1
    <3> QED BY <2>3, <3>1
  <2> QED BY <1>6, <1>7, <2>1, <2>3
<1>10. CASE SelectTarget
  <2>1. /\ proc' = Idle
        /\ text' = text \/ Show(source, target', text)
    BY <1>10 DEF SelectTarget
  <2>2. ASSUME NEW t, Show(source, t, text)
        PROVE  text' = Junk \/ IsText(text')
    BY <1>5, <2>2
  <2> QED BY <1>6, <1>7, <2>1, <2>2
<1>11. CASE WalkSample
  <2>1. text' = text /\ (proc' = Idle \/ proc' = proc)
    BY <1>11 DEF WalkSample
  <2> QED BY <1>4, <1>6, <1>7, <2>1 DEF Working
<1>12. CASE ReadOperation
  <2>1. /\ text' = text /\ proc.signal.origin = "transformationOperation"
        /\ \/ \E p : proc' = [proc EXCEPT !.pc = "apply", !.path = p]
           \/ \E p : proc' = [proc EXCEPT !.pc = "input", !.path = p]
    BY <1>12 DEF ReadOperation, Got
  <2>2. proc'.signal = proc.signal
    BY <1>1, <2>1
  <2> QED BY <1>4, <1>7, <2>1, <2>2 DEF Working
<1>13. CASE ReceiveInput
  <2>1. /\ text' = text /\ proc.pc = "input"
        /\ \E v, p : proc' = [proc EXCEPT !.pc = "apply", !.value = v, !.path = p]
    BY <1>13 DEF ReceiveInput
  <2>2. proc'.signal = proc.signal
    BY <1>1, <2>1
  <2> QED BY <1>4, <1>7, <2>1, <2>2 DEF Working
<1>14. CASE Apply
  <2>1. proc.pc = "apply" /\ proc' = Idle /\ text' = IF text = Junk \/ Updated = <<>> THEN text ELSE Updated
    BY <1>14 DEF Apply
  <2>2. text # Junk => IsText(Updated)
    BY <2>1, UpdatedText
  <2> QED BY <1>6, <1>7, <2>1, <2>2
<1> QED BY <1>8, <1>9, <1>10, <1>11, <1>12, <1>13, <1>14 DEF ProcessKeystrokes

LEMMA WorkingHolds ==
    /\ Init => Working
    /\ Typed /\ Working /\ [Next]_vars => Working'
<1>1. ASSUME Init
      PROVE  Working
  <2>1. Idle.pc = "idle" /\ IsOp(Idle.signal)
    BY DEF Idle, Signal, IsOp
  <2>2. text = <<>> /\ sending = <<>> /\ proc = Idle
    BY <1>1 DEF Init
  <2> QED BY <2>1, <2>2, NoText DEF Working
<1>2. ASSUME Typed, Working, [Next]_vars
      PROVE  Working'
  <2>1. CASE UNCHANGED vars \/ (\E k \in Keys : Press(k)) \/ ReceiveName \/ PopTargetWarning \/ Save
    <3>1. UNCHANGED <<text, proc>> /\ sending' \in {sending, <<>>}
      BY <2>1 DEF vars, Press, ReceiveName, PopTargetWarning, Save
    <3> QED BY <1>2, <3>1 DEF Working
  <2>2. CASE Edit
    <3>1. UNCHANGED <<sending, proc>> /\ text' \in {Junk, <<>>} \cup Edits
      BY <2>2 DEF Edit
    <3> QED BY <1>2, <3>1, NoText, WrittenText DEF Working
  <2> QED BY <1>2, <2>1, <2>2, HandlersTell, ProcessorWorks DEF Next
<1> QED BY <1>1, <1>2

(* Only `Apply' finishes an operation.                                          *)
LEMMA OnlyApply ==
    ASSUME Typed, [Next]_vars, proc.pc = "apply", proc'.pc = "idle"
    PROVE  Apply
<1>1. ~UNCHANGED proc
  OBVIOUS
<1>2. CASE Handlers
  <2>1. InputClose
    BY <1>1, <1>2 DEF Handlers, CloseWindow, SelectOperation, SwitchTo, SwitchToTransformation, SourceCursorRight,
         SourceEventCursorLeft, CursorList, CursorEventSample, WipeData, ResetTransformation, Pop, SaveAndExit,
         CloseName, InputEnter, CloseInput, Rest
  <2>2. proc.pc = "input" \/ UNCHANGED proc
    BY <2>1 DEF InputClose
  <2> QED BY <1>1, <2>2
<1>3. CASE ProcessKeystrokes
  <2>1. ~Receive /\ ~SelectSource /\ ~SelectTarget /\ ~WalkSample /\ ~ReadOperation /\ ~ReceiveInput
    BY DEF Receive, Got, SelectSource, SelectTarget, WalkSample, ReadOperation, ReceiveInput
  <2> QED BY <1>3, <2>1 DEF ProcessKeystrokes
<1>4. CASE UNCHANGED vars \/ (\E k \in Keys : Press(k)) \/ Edit \/ ReceiveName \/ PopTargetWarning \/ Save
  BY <1>1, <1>4 DEF vars, Press, Edit, ReceiveName, PopTargetWarning, Save
<1> QED BY <1>2, <1>3, <1>4 DEF Next

(* Each operation leaves the transformation in the order in which it is run, each key      *)
(* once and all of it complete; nothing complete is lost that was there unless all *)
(* is wiped, and the operation is in it if it is complete (applyTransformation,    *)
(* updateTransformations, rearrange, sanitize).                                *)
THEOREM OperationsAreKept == Spec => KeepsOperations
<1>1. ASSUME Typed, Working, [Next]_vars
      PROVE  [proc.pc = "apply" /\ proc'.pc = "idle" /\ text # Junk =>
                LET op == proc.signal.line
                    e  == Entry(op, proc.path, proc.value)
                IN /\ text' # text => Normal(text')
                   /\ \A i \in DOMAIN text : \A p \in Range(text[i].paths) :
                        Complete(text[i].operation, p) => Kept(text', text[i].operation, p.key)
                   /\ Complete(op, e) => Kept(text', op, e.key)]_vars
  <2> DEFINE op == proc.signal.line
             e  == Entry(op, proc.path, proc.value)
  <2>1. SUFFICES ASSUME proc.pc = "apply", proc'.pc = "idle", text # Junk
                 PROVE  /\ text' # text => Normal(text')
                        /\ \A i \in DOMAIN text : \A p \in Range(text[i].paths) :
                             Complete(text[i].operation, p) => Kept(text', text[i].operation, p.key)
                        /\ Complete(op, e) => Kept(text', op, e.key)
    OBVIOUS
  <2>2. text' = IF Updated = <<>> THEN text ELSE Updated
    BY <1>1, <2>1, OnlyApply DEF Apply
  <2>3. /\ Normal(Updated)
        /\ \A i \in DOMAIN text : \A p \in Range(text[i].paths) :
             Complete(text[i].operation, p) => Kept(Updated, text[i].operation, p.key)
        /\ Complete(op, e) => Kept(Updated, op, e.key)
    BY <1>1, <2>1, UpdatedText
  <2> HIDE DEF op, e
  <2>4. \A o, k : ~Kept(<<>>, o, k)
    BY DEF Kept, Holds
  <2>5. CASE Updated = <<>>
    BY <2>2, <2>3, <2>4, <2>5
  <2>6. CASE Updated # <<>>
    BY <2>2, <2>3, <2>6
  <2> QED BY <2>5, <2>6
<1> QED BY <1>1, TypesHold, WorkingHolds, PTL DEF Spec, KeepsOperations
=============================================================================
