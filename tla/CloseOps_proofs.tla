--------------------------- MODULE CloseOps_proofs ---------------------------
(***************************************************************************)
(* Proofs about CloseOps, for all hulls, berths, words and bounds: types,  *)
(* that the supervisor knows of every hold it placed, and that no word is  *)
(* given twice.  A plan is sound when it is made; what has to be shown is  *)
(* that it still is when its steps are filed, whatever the captain, the    *)
(* pilots and the exchange did meanwhile, and wherever it is cut short.    *)
(***************************************************************************)
EXTENDS CloseOps, FiniteSetsExt, SequenceTheorems, FiniteSetTheorems, WellFoundedInduction,
        TLAPS

-----------------------------------------------------------------------------
(* Lists: what a filter keeps, and a set laid out as one.                   *)

\* A set of naturals has a least member, and so a set that is climbed holds every one of
\* them: the induction the recursion of Only is read by.
LEMMA Least == ASSUME NEW T \in SUBSET Nat, T # {} PROVE \E n \in T : \A m \in T : n <= m
<1> DEFINE R == OpToRel(<, Nat)
<1>1. IsWellFoundedOn(R, Nat)
  BY NatLessThanWellFounded DEF OpToRel
<1>2. \A a, b \in Nat : <<a, b>> \in R <=> a < b
  BY DEF OpToRel
<1> HIDE DEF R
<1>3. PICK n \in T : \A m \in T : ~(<<m, n>> \in R)
  BY <1>1, WFMin
<1>4. \A m \in T : ~(m < n)
  BY <1>2, <1>3
<1>5. QED
  BY <1>4

LEMMA Climb ==
    ASSUME NEW G, 0 \in G, \A n \in Nat : n \in G => n + 1 \in G
    PROVE  \A n \in Nat : n \in G
<1> DEFINE T == {n \in Nat : n \notin G}
<1>1. CASE T = {}
  BY <1>1
<1>2. CASE T # {}
  <2>1. PICK n \in T : \A m \in T : n <= m
    BY <1>2, Least
  <2>2. n # 0 /\ n - 1 \in Nat /\ ~(n <= n - 1)
    BY <2>1
  <2>3. n - 1 \in G
    BY <2>1, <2>2
  <2>4. QED
    BY <2>2, <2>3
<1>3. QED
  BY <1>1, <1>2

\* Min is the least member.
LEMMA LeastOf ==
    ASSUME NEW S \in SUBSET Nat, S # {}
    PROVE  Min(S) \in S /\ \A n \in S : Min(S) <= n
<1>1. \E n \in S : \A m \in S : n <= m
  BY Least
<1>2. QED
  BY <1>1 DEF Min

\* What a list with one more ranges over.
LEMMA RangeAppend ==
    ASSUME NEW A, NEW s \in Seq(A), NEW e \in A
    PROVE  Range(Append(s, e)) = Range(s) \cup {e}
<1> DEFINE n == Len(s)
<1>1. /\ n \in Nat /\ DOMAIN s = 1..n /\ DOMAIN Append(s, e) = 1..(n + 1)
      /\ \A k \in 1..n : Append(s, e)[k] = s[k]
      /\ Append(s, e)[n + 1] = e
  BY AppendProperties, LenProperties
<1> HIDE DEF n
<1>2. 1..(n + 1) = (1..n) \cup {n + 1}
  BY <1>1
<1>3. QED
  BY <1>1, <1>2 DEF Range

\* The recursion of Only has a solution.
LEMMA OnlyRecurs ==
    ASSUME NEW s, NEW S, NEW n \in Nat, Len(s) = n
    PROVE  \E kept : /\ Only(s, S) = kept[n] /\ kept[0] = << >>
                     /\ \A k \in 1..n : kept[k] = IF s[k] \in S THEN Append(kept[k - 1], s[k])
                                                 ELSE kept[k - 1]
<1> DEFINE Next1(f, k) == IF s[k] \in S THEN Append(f[k - 1], s[k]) ELSE f[k - 1]
           Body(f, m) == [k \in 0..m |-> IF k = 0 THEN << >> ELSE Next1(f, k)]
           G == {m \in Nat : \E f : f = Body(f, m)}
<1>1. 0 \in G
  <2> DEFINE f == [k \in 0..0 |-> << >>]
  <2>1. f = Body(f, 0)
    OBVIOUS
  <2>2. QED
    BY <2>1
<1>2. ASSUME NEW m \in Nat, m \in G PROVE m + 1 \in G
  <2>1. PICK f : f = Body(f, m)
    BY <1>2
  <2> DEFINE g == [k \in 0..(m + 1) |-> IF k <= m THEN f[k] ELSE Next1(f, k)]
  <2>2. ASSUME NEW k \in 0..m PROVE g[k] = f[k] /\ f[k] = IF k = 0 THEN << >> ELSE Next1(f, k)
    <3> HIDE DEF Next1
    <3>1. k \in 0..(m + 1) /\ k <= m
      OBVIOUS
    <3>2. QED
      BY <2>1, <3>1
  <2>3. ASSUME NEW k \in 0..(m + 1) PROVE g[k] = IF k = 0 THEN << >> ELSE Next1(g, k)
    <3>1. k = 0 \/ k - 1 \in 0..m
      OBVIOUS
    <3>2. k # 0 => g[k - 1] = f[k - 1]
      BY <3>1, <2>2
    <3>3. k # 0 => Next1(g, k) = Next1(f, k)
      BY <3>2
    <3> HIDE DEF Next1
    <3>4. CASE k <= m
      BY <2>2, <3>3, <3>4
    <3>5. CASE k = m + 1
      BY <3>3, <3>5
    <3>6. QED
      BY <3>4, <3>5
  <2> HIDE DEF Next1
  <2>4. g = Body(g, m + 1)
    BY <2>3
  <2> HIDE DEF g
  <2>5. QED
    BY <2>4
<1>3. n \in G
  <2> HIDE DEF G
  <2>1. QED
    BY <1>1, <1>2, Climb
<1> DEFINE kept == CHOOSE f : f = Body(f, n)
<1>4. kept = Body(kept, n)
  BY <1>3
<1>5. Only(s, S) = kept[n]
  BY DEF Only
<1>6. kept[0] = << >> /\ \A k \in 1..n : kept[k] = Next1(kept, k)
  <2> HIDE DEF Next1, kept
  <2>1. QED
    BY <1>4
<1> HIDE DEF kept
<1>7. QED
  BY <1>5, <1>6

\* What Only keeps of a list, and that it is a list.
LEMMA OnlyKeeps ==
    ASSUME NEW A, NEW s \in Seq(A), NEW S
    PROVE  Only(s, S) \in Seq(A) /\ Range(Only(s, S)) = Range(s) \cap S
<1> DEFINE n == Len(s)
<1>1. n \in Nat /\ DOMAIN s = 1..n /\ \A k \in 1..n : s[k] \in A
  BY LenProperties, ElementOfSeq
<1> HIDE DEF n
<1>2. PICK kept : /\ Only(s, S) = kept[n] /\ kept[0] = << >>
                  /\ \A k \in 1..n : kept[k] = IF s[k] \in S THEN Append(kept[k - 1], s[k])
                                              ELSE kept[k - 1]
  <2>1. Len(s) = n
    BY DEF n
  <2>2. QED
    BY <1>1, <2>1, OnlyRecurs
<1> DEFINE G == {m \in Nat : m <= n => /\ kept[m] \in Seq(A)
                                      /\ Range(kept[m]) = {s[k] : k \in 1..m} \cap S}
<1>3. 0 \in G
  <2>1. << >> \in Seq(A) /\ Range(<< >>) = {}
    BY EmptySeq DEF Range
  <2>2. {s[k] : k \in 1..0} \cap S = {}
    OBVIOUS
  <2>3. QED
    BY <1>2, <2>1, <2>2
<1>4. ASSUME NEW m \in Nat, m \in G, m + 1 <= n PROVE m + 1 \in G
  <2>1. /\ kept[m] \in Seq(A) /\ Range(kept[m]) = {s[k] : k \in 1..m} \cap S
        /\ m + 1 \in 1..n /\ s[m + 1] \in A
    BY <1>1, <1>4
  <2>6. kept[m + 1] = IF s[m + 1] \in S THEN Append(kept[m], s[m + 1]) ELSE kept[m]
    BY <1>2, <2>1
  <2>2. {s[k] : k \in 1..(m + 1)} = {s[k] : k \in 1..m} \cup {s[m + 1]}
    <3>1. 1..(m + 1) = (1..m) \cup {m + 1}
      OBVIOUS
    <3>2. QED
      BY <3>1
  <2>3. Range(Append(kept[m], s[m + 1])) = Range(kept[m]) \cup {s[m + 1]}
    BY <2>1, RangeAppend
  <2>4. Append(kept[m], s[m + 1]) \in Seq(A)
    BY <2>1, AppendProperties
  <2>5. kept[m + 1] \in Seq(A) /\ Range(kept[m + 1]) = {s[k] : k \in 1..(m + 1)} \cap S
    BY <2>1, <2>2, <2>3, <2>4, <2>6
  <2>7. QED
    BY <2>5
<1>5. ASSUME NEW m \in Nat, m \in G PROVE m + 1 \in G
  <2>1. CASE m + 1 <= n
    BY <1>4, <1>5, <2>1
  <2>2. CASE ~(m + 1 <= n)
    BY <2>2
  <2>3. QED
    BY <2>1, <2>2
<1>6. n \in G
  <2> HIDE DEF G
  <2>1. QED
    BY <1>1, <1>3, <1>5, Climb
<1>7. Range(s) = {s[k] : k \in 1..n}
  BY <1>1 DEF Range
<1>8. QED
  BY <1>1, <1>2, <1>6, <1>7

\* What Only keeps comes from places of its own.
LEMMA OnlyPlaces ==
    ASSUME NEW A, NEW s \in Seq(A), NEW S
    PROVE  \E place : /\ \A i \in DOMAIN Only(s, S) : /\ place[i] \in DOMAIN s
                                                     /\ Only(s, S)[i] = s[place[i]]
                     /\ \A i, j \in DOMAIN Only(s, S) : place[i] = place[j] => i = j
<1> DEFINE n == Len(s)
<1>1. n \in Nat /\ DOMAIN s = 1..n /\ \A k \in 1..n : s[k] \in A
  BY LenProperties, ElementOfSeq
<1> HIDE DEF n
<1>2. PICK kept : /\ Only(s, S) = kept[n] /\ kept[0] = << >>
                  /\ \A k \in 1..n : kept[k] = IF s[k] \in S THEN Append(kept[k - 1], s[k])
                                              ELSE kept[k - 1]
  <2>1. Len(s) = n
    BY DEF n
  <2>2. QED
    BY <1>1, <2>1, OnlyRecurs
<1> DEFINE Drawn(t, m, place) ==
             /\ \A i \in DOMAIN t : place[i] \in 1..m /\ t[i] = s[place[i]]
             /\ \A i, j \in DOMAIN t : place[i] = place[j] => i = j
           G == {m \in Nat : m <= n => kept[m] \in Seq(A) /\ \E place : Drawn(kept[m], m, place)}
<1>3. 0 \in G
  <2>1. << >> \in Seq(A) /\ DOMAIN << >> = {}
    BY EmptySeq
  <2>2. Drawn(<< >>, 0, << >>)
    BY <2>1
  <2> HIDE DEF Drawn
  <2>3. QED
    BY <1>2, <2>1, <2>2
<1>4. ASSUME NEW m \in Nat, m \in G, m + 1 <= n PROVE m + 1 \in G
  <2> DEFINE t == kept[m]  e == s[m + 1]  l == Len(t)
  <2>1. /\ t \in Seq(A) /\ \E place : Drawn(t, m, place)
        /\ m + 1 \in 1..n /\ e \in A
    <3>1. m + 1 \in 1..n /\ m <= n
      BY <1>1, <1>4
    <3>2. s[m + 1] \in A
      BY <1>1, <3>1
    <3> HIDE DEF Drawn
    <3>3. kept[m] \in Seq(A) /\ \E place : Drawn(kept[m], m, place)
      BY <1>4, <3>1
    <3>4. QED
      BY <3>1, <3>2, <3>3
  <2>2. PICK place : Drawn(t, m, place)
    BY <2>1
  <2>3. kept[m + 1] = IF e \in S THEN Append(t, e) ELSE t
    BY <1>2, <2>1
  <2>4. CASE e \notin S
    <3>1. Drawn(t, m + 1, place)
      BY <2>2
    <3> HIDE DEF Drawn, t
    <3>2. QED
      BY <2>1, <2>3, <2>4, <3>1
  <2>5. CASE e \in S
    <3>1. /\ Append(t, e) \in Seq(A) /\ l \in Nat /\ DOMAIN t = 1..l
          /\ DOMAIN Append(t, e) = 1..(l + 1)
          /\ \A k \in 1..l : Append(t, e)[k] = t[k]
          /\ Append(t, e)[l + 1] = e
      BY <2>1, AppendProperties, LenProperties
    <3> DEFINE wider == [i \in 1..(l + 1) |-> IF i = l + 1 THEN m + 1 ELSE place[i]]
    <3> HIDE DEF t, l, e
    <3>2. \A i \in 1..l : i \in 1..(l + 1) /\ wider[i] = place[i] /\ place[i] \in 1..m
      BY <2>2, <3>1
    <3>3. wider[l + 1] = m + 1 /\ e = s[m + 1]
      BY <3>1 DEF e
    <3>4. 1..(l + 1) = (1..l) \cup {l + 1} /\ \A k \in 1..m : k \in 1..(m + 1) /\ k # m + 1
      BY <3>1
    <3> HIDE DEF wider
    <3>9. \A i \in 1..(l + 1) : wider[i] \in 1..(m + 1) /\ Append(t, e)[i] = s[wider[i]]
      <4>1. \A i \in 1..l : t[i] = s[place[i]]
        BY <2>2, <3>1
      <4>2. \A i \in 1..l : wider[i] \in 1..(m + 1) /\ Append(t, e)[i] = s[wider[i]]
        BY <3>1, <3>2, <3>4, <4>1
      <4>3. wider[l + 1] \in 1..(m + 1) /\ Append(t, e)[l + 1] = s[wider[l + 1]]
        BY <2>1, <3>1, <3>3
      <4>4. QED
        BY <3>4, <4>2, <4>3
    <3>10. \A i, j \in 1..(l + 1) : wider[i] = wider[j] => i = j
      <4>1. \A i, j \in 1..l : place[i] = place[j] => i = j
        BY <2>2, <3>1
      <4>2. \A i, j \in 1..l : wider[i] = wider[j] => i = j
        BY <3>2, <4>1
      <4>3. \A i \in 1..l : wider[i] # wider[l + 1]
        BY <3>2, <3>3, <3>4
      <4>4. QED
        BY <3>4, <4>2, <4>3
    <3>5. Drawn(Append(t, e), m + 1, wider)
      BY <3>1, <3>9, <3>10
    <3> HIDE DEF Drawn
    <3>6. kept[m + 1] = Append(t, e)
      BY <2>3, <2>5
    <3>7. kept[m + 1] \in Seq(A) /\ Drawn(kept[m + 1], m + 1, wider)
      BY <3>1, <3>5, <3>6
    <3>8. QED
      BY <2>1, <3>7
  <2>6. QED
    BY <2>4, <2>5
<1>5. ASSUME NEW m \in Nat, m \in G PROVE m + 1 \in G
  <2>1. CASE m + 1 <= n
    BY <1>4, <1>5, <2>1
  <2>2. CASE ~(m + 1 <= n)
    BY <2>2
  <2>3. QED
    BY <2>1, <2>2
<1>6. n \in G
  <2> HIDE DEF G
  <2>1. QED
    BY <1>1, <1>3, <1>5, Climb
<1>7. QED
  BY <1>1, <1>2, <1>6

\* A finite set laid out as a list has each of its members once.
LEMMA LaidOut ==
    ASSUME NEW S, IsFiniteSet(S)
    PROVE  /\ Cardinality(S) \in Nat
           /\ SetToSeq(S) \in [1..Cardinality(S) -> S]
           /\ \A i, j \in 1..Cardinality(S) : SetToSeq(S)[i] = SetToSeq(S)[j] => i = j
<1> DEFINE n == Cardinality(S)
<1>1. n \in Nat /\ ExistsBijection(1..n, S)
  BY FS_CardinalityType
<1> HIDE DEF n
<1>2. PICK f : f \in [1..n -> S] /\ IsInjective(f)
  BY <1>1 DEF ExistsBijection, Bijection, Injection
<1>3. SetToSeq(S) \in [1..n -> S] /\ IsInjective(SetToSeq(S))
  BY <1>2 DEF SetToSeq, n
<1>4. QED
  BY <1>1, <1>3 DEF IsInjective, n

-----------------------------------------------------------------------------
(* The invariant.                                                           *)

\* The orders that are ever on a list: a course goes to a berth or stays, and only the
\* supervisor orders a boarding, of a hull.
Words == {o \in Orders : /\ IsCourse(o) => o.to \in Berths \cup {None}
                         /\ o.verb = "board" => o.to \in Hulls /\ o.by = "closeops"}

\* The steps that are ever in a plan.
Dues == {s \in Steps : /\ s.do # "done" => s.hull \in Hulls
                       /\ s.do \in {"meet", "hold"} => s.to \in Berths \cup {None}
                       /\ s.do = "board" => s.to \in Hulls}

OrderLists == [Hulls -> Seq(Words)]

Typed == TypeOK /\ orders \in OrderLists /\ pass.steps \in Seq(Dues)

OwnOrder(o, verb) == o.verb = verb /\ o.by = "closeops"

\* The supervisor's own order of this kind is on the list.
Given(list, verb) == \E k \in DOMAIN list : OwnOrder(list[k], verb)

\* ... and not twice.
Once(list, verb) ==
    \A j, k \in DOMAIN list : OwnOrder(list[j], verb) /\ OwnOrder(list[k], verb) => j = k

\* The hulls under a hold of the supervisor's.
Holding(lists) == {h \in Hulls : Given(lists[h], "hold")}

\* A plan that ends the meeting lets every hull go before, and does nothing else.
LetsGoFirst(steps, held) ==
    \A n \in DOMAIN steps : steps[n].do = "done" =>
        /\ \A j \in 1..(n - 1) : steps[j].do = "release"
        /\ \A h \in held : \E j \in 1..(n - 1) : steps[j].hull = h

\* While it runs, a pass knows the holds the file knows: the captain's switch writes the
\* option and nothing else.
PassKnows ==
    pass.at = "planned" => pass.state.held = file.held /\ LetsGoFirst(pass.steps, file.held)

\* A boarding or repair is a plan of its own, and none is on the list or under way.
StillNew(s) ==
    s.do \in {"repair", "board"} =>
        /\ Len(pass.steps) = 1
        /\ ~Given(orders[s.hull], s.do)
        /\ s.do = "board" => moving = None \/ moving.from # s.hull

\* The ship change under way is of an order that has left its list, and is remembered.
MovingIsSettling ==
    moving # None => ~Given(orders[moving.from], "board") /\ "board" \in settling[moving.from]

GivenOnce == \A h \in Hulls : Once(orders[h], "repair") /\ Once(orders[h], "board")

PlanIsNew == pass.at = "planned" => \A k \in DOMAIN pass.steps : StillNew(pass.steps[k])

CloseInv ==
    /\ Typed
    /\ HoldsKnown /\ PassKnows
    /\ GivenOnce /\ MovingIsSettling /\ PlanIsNew
-----------------------------------------------------------------------------
(* A list and what is left of it.                                           *)

\* Every order of the one list is one of the other's, but for whether it waits.
DrawnFrom(t, s) ==
    \E place : /\ \A i \in DOMAIN t : /\ place[i] \in DOMAIN s
                                      /\ t[i].verb = s[place[i]].verb /\ t[i].by = s[place[i]].by
               /\ \A i, j \in DOMAIN t : place[i] = place[j] => i = j

LEMMA DrawnKeeps ==
    ASSUME NEW s, NEW t, DrawnFrom(t, s), NEW verb
    PROVE  (Given(t, verb) => Given(s, verb)) /\ (Once(s, verb) => Once(t, verb))
<1>1. PICK place : /\ \A i \in DOMAIN t : /\ place[i] \in DOMAIN s
                                          /\ t[i].verb = s[place[i]].verb
                                          /\ t[i].by = s[place[i]].by
                   /\ \A i, j \in DOMAIN t : place[i] = place[j] => i = j
  BY DEF DrawnFrom
<1>2. \A i \in DOMAIN t : OwnOrder(t[i], verb) => OwnOrder(s[place[i]], verb)
  BY <1>1 DEF OwnOrder
<1>3. QED
  BY <1>1, <1>2 DEF Given, Once

\* Taking one order off a list.
LEMMA TakenOff ==
    ASSUME NEW list \in Seq(Words), NEW i \in 1..Len(list)
    PROVE  /\ RemoveAt(list, i) \in Seq(Words)
           /\ \A k \in DOMAIN RemoveAt(list, i) :
                 LET p == IF k < i THEN k ELSE k + 1
                 IN  p \in DOMAIN list /\ p # i /\ RemoveAt(list, i)[k] = list[p]
<1> DEFINE n == Len(list)
           front == SubSeq(list, 1, i - 1)
           back == SubSeq(list, i + 1, n)
<1>1. n \in Nat /\ i \in Int /\ 1 <= i /\ i <= n /\ DOMAIN list = 1..n
  BY LenProperties
<1>2. \A k \in 1..n : list[k] \in Words
  BY ElementOfSeq
<1>3. /\ front \in Seq(Words) /\ Len(front) = i - 1
      /\ \A k \in 1..(i - 1) : front[k] = list[k]
  <2>1. \A k \in 1..(i - 1) : list[k] \in Words
    BY <1>1, <1>2
  <2>2. QED
    BY <1>1, <2>1, SubSeqProperties
<1>4. /\ back \in Seq(Words) /\ Len(back) = n - i
      /\ \A k \in 1..(n - i) : back[k] = list[k + i]
  <2>1. \A k \in (i + 1)..n : list[k] \in Words
    BY <1>1, <1>2
  <2>2. /\ back \in Seq(Words)
        /\ Len(back) = IF i + 1 <= n THEN n - (i + 1) + 1 ELSE 0
        /\ \A k \in 1..(n - (i + 1) + 1) : back[k] = list[(i + 1) + k - 1]
    BY <1>1, <2>1, SubSeqProperties
  <2>3. \A k \in 1..(n - i) : (i + 1) + k - 1 = k + i
    BY <1>1
  <2>4. QED
    BY <1>1, <2>2, <2>3
<1>5. RemoveAt(list, i) = front \o back
  BY DEF RemoveAt
<1> HIDE DEF front, back, n
<1>6. /\ front \o back \in Seq(Words)
      /\ DOMAIN (front \o back) = 1..(n - 1)
      /\ \A k \in 1..(n - 1) : (front \o back)[k] = IF k <= i - 1 THEN front[k] ELSE back[k - (i - 1)]
  BY <1>1, <1>3, <1>4, ConcatProperties, LenProperties
<1>7. ASSUME NEW k \in 1..(n - 1)
      PROVE  LET p == IF k < i THEN k ELSE k + 1
             IN  p \in DOMAIN list /\ p # i /\ (front \o back)[k] = list[p]
  <2>1. CASE k < i
    <3>1. k \in 1..(i - 1) /\ k \in 1..n /\ k <= i - 1
      BY <1>1, <2>1
    <3>2. QED
      BY <1>1, <1>3, <1>6, <2>1, <3>1
  <2>2. CASE ~(k < i)
    <3>1. /\ k - (i - 1) \in 1..(n - i) /\ k - (i - 1) + i = k + 1
          /\ k + 1 \in 1..n /\ k + 1 # i /\ ~(k <= i - 1)
      BY <1>1, <2>2
    <3>2. QED
      BY <1>1, <1>4, <1>6, <2>2, <3>1
  <2>3. QED
    BY <2>1, <2>2
<1>8. QED
  BY <1>5, <1>6, <1>7

\* ... so the rest is drawn from it, and what was there once and is taken is gone.
LEMMA Leaving ==
    ASSUME NEW list \in Seq(Words), NEW i \in 1..Len(list)
    PROVE  /\ RemoveAt(list, i) \in Seq(Words)
           /\ DrawnFrom(RemoveAt(list, i), list)
           /\ \A verb : Once(list, verb) /\ OwnOrder(list[i], verb) => ~Given(RemoveAt(list, i), verb)
<1> DEFINE r == RemoveAt(list, i)
           n == Len(list)
           place == [k \in DOMAIN r |-> IF k < i THEN k ELSE k + 1]
<1>0. i \in Nat /\ n \in Nat /\ DOMAIN list = 1..n /\ i \in DOMAIN list
  BY LenProperties
<1>1. r \in Seq(Words)
  BY TakenOff
<1>2. \A k \in DOMAIN r : place[k] \in DOMAIN list /\ place[k] # i /\ r[k] = list[place[k]]
  BY TakenOff
<1>3. DOMAIN r \subseteq Nat
  BY <1>1, LenProperties
<1> HIDE DEF r, n
<1>4. \A j, k \in DOMAIN r : place[j] = place[k] => j = k
  BY <1>0, <1>3
<1> HIDE DEF place
<1>5. DrawnFrom(r, list)
  BY <1>2, <1>4 DEF DrawnFrom
<1>6. ASSUME NEW verb, Once(list, verb), OwnOrder(list[i], verb) PROVE ~Given(r, verb)
  BY <1>0, <1>2, <1>6 DEF Once, Given
<1>7. QED
  BY <1>1, <1>5, <1>6 DEF r

\* What a filter leaves.
LEMMA Filtered ==
    ASSUME NEW list \in Seq(Words), NEW S
    PROVE  /\ Only(list, S) \in Seq(Words) /\ DrawnFrom(Only(list, S), list)
           /\ \A k \in DOMAIN Only(list, S) : Only(list, S)[k] \in S
<1>1. Only(list, S) \in Seq(Words) /\ Range(Only(list, S)) = Range(list) \cap S
  BY OnlyKeeps
<1>2. PICK place : /\ \A i \in DOMAIN Only(list, S) : /\ place[i] \in DOMAIN list
                                                     /\ Only(list, S)[i] = list[place[i]]
                   /\ \A i, j \in DOMAIN Only(list, S) : place[i] = place[j] => i = j
  BY OnlyPlaces
<1>3. DrawnFrom(Only(list, S), list)
  BY <1>2 DEF DrawnFrom
<1>4. QED
  BY <1>1, <1>3 DEF Range

\* A repair marked as waiting is the same order.
LEMMA Marked ==
    ASSUME NEW list \in Seq(Words), NEW i \in 1..Len(list)
    PROVE  /\ [list EXCEPT ![i].waits = TRUE] \in Seq(Words)
           /\ DrawnFrom([list EXCEPT ![i].waits = TRUE], list)
<1> DEFINE o == [list[i] EXCEPT !.waits = TRUE]
           r == [list EXCEPT ![i] = o]
<1>1. list[i] \in Words
  BY ElementOfSeq
<1>2. o \in Words /\ o.verb = list[i].verb /\ o.by = list[i].by
  BY <1>1 DEF Words, Orders, IsCourse
<1>3. [list EXCEPT ![i].waits = TRUE] = r
  OBVIOUS
<1> HIDE DEF o
<1>4. /\ r \in Seq(Words) /\ Len(r) = Len(list)
      /\ \A j \in 1..Len(list) : r[j] = IF j = i THEN o ELSE list[j]
  BY <1>2, ExceptSeq
<1> HIDE DEF r
<1>5. DOMAIN r = 1..Len(list) /\ DOMAIN list = 1..Len(list)
  BY <1>4, LenProperties
<1> DEFINE place == [j \in 1..Len(list) |-> j]
<1>6. \A j \in DOMAIN r : place[j] \in DOMAIN list /\ r[j].verb = list[place[j]].verb
                          /\ r[j].by = list[place[j]].by
  BY <1>2, <1>4, <1>5
<1>7. \A j, k \in DOMAIN r : place[j] = place[k] => j = k
  BY <1>5
<1> HIDE DEF place
<1>8. DrawnFrom(r, list)
  BY <1>6, <1>7 DEF DrawnFrom
<1>9. QED
  BY <1>3, <1>4, <1>8

\* One order more.
LEMMA Added ==
    ASSUME NEW list \in Seq(Words), NEW o \in Words
    PROVE  /\ Append(list, o) \in Seq(Words)
           /\ \A verb : Given(Append(list, o), verb) => Given(list, verb) \/ OwnOrder(o, verb)
           /\ \A verb : Once(list, verb) /\ ~(Given(list, verb) /\ OwnOrder(o, verb))
                           => Once(Append(list, o), verb)
<1> DEFINE n == Len(list)
           r == Append(list, o)
<1>1. /\ n \in Nat /\ DOMAIN list = 1..n /\ r \in Seq(Words) /\ DOMAIN r = 1..(n + 1)
      /\ \A k \in 1..n : r[k] = list[k]
      /\ r[n + 1] = o
  BY AppendProperties, LenProperties
<1> HIDE DEF n, r
<1>2. 1..(n + 1) = (1..n) \cup {n + 1}
  BY <1>1
<1>3. ASSUME NEW verb, Given(r, verb) PROVE Given(list, verb) \/ OwnOrder(o, verb)
  BY <1>1, <1>2, <1>3 DEF Given
<1>4. ASSUME NEW verb, Once(list, verb), ~(Given(list, verb) /\ OwnOrder(o, verb))
      PROVE  Once(r, verb)
  BY <1>1, <1>2, <1>4 DEF Given, Once
<1>5. QED
  BY <1>1, <1>3, <1>4 DEF r

\* Placing an order leaves part of the list and adds the order.
LEMMA Placing ==
    ASSUME NEW list \in Seq(Words), NEW o \in Words
    PROVE  /\ Placed(list, o) \in Seq(Words)
           /\ \A verb : Given(Placed(list, o), verb) => Given(list, verb) \/ OwnOrder(o, verb)
           /\ \A verb : Once(list, verb) /\ ~(Given(list, verb) /\ OwnOrder(o, verb))
                           => Once(Placed(list, o), verb)
<1> DEFINE S == {p \in Range(list) : ~IsCourse(p) \/ GoesWith(p, o)}
           t == IF IsCourse(o) THEN Only(list, S) ELSE list
<1>1. Placed(list, o) = Append(t, o)
  BY DEF Placed
<1> HIDE DEF S
<1>2. t \in Seq(Words) /\ \A verb : /\ Given(t, verb) => Given(list, verb)
                                    /\ Once(list, verb) => Once(t, verb)
  <2>1. CASE IsCourse(o)
    <3>1. Only(list, S) \in Seq(Words) /\ DrawnFrom(Only(list, S), list)
      BY Filtered
    <3>2. QED
      BY <2>1, <3>1, DrawnKeeps
  <2>2. CASE ~IsCourse(o)
    BY <2>2
  <2>3. QED
    BY <2>1, <2>2
<1> HIDE DEF t
<1>3. QED
  BY <1>1, <1>2, Added

\* Resuming leaves no hold.
LEMMA Resuming ==
    ASSUME NEW list \in Seq(Words)
    PROVE  /\ Resumed(list) \in Seq(Words) /\ DrawnFrom(Resumed(list), list)
           /\ ~Given(Resumed(list), "hold")
<1> DEFINE S == {o \in Range(list) : ~IsCourse(o)}
<1>1. Resumed(list) = Only(list, S)
  BY DEF Resumed
<1>2. \A o \in S : ~OwnOrder(o, "hold")
  BY DEF IsCourse, OwnOrder
<1> HIDE DEF S
<1>3. QED
  BY <1>1, <1>2, Filtered DEF Given

-----------------------------------------------------------------------------
(* What a plan is made of.                                                  *)

Stands == Berths \cup {None}

\* What the pass reads of the hulls that answer.
Reading(seen) ==
    /\ DOMAIN seen \subseteq Hulls
    /\ \A h \in DOMAIN seen : /\ seen[h].wear \in 0..MaxWear
                              /\ seen[h].docked \in Stands /\ seen[h].boundFor \in Stands

\* A sound plan: its steps are due, it ends no meeting before all are let go, and a boarding
\* or a repair is all there is to it and none is pending on the hull it is for.
Sound(plan, held, seen, stands) ==
    /\ plan \in Seq(Dues)
    /\ LetsGoFirst(plan, held)
    /\ \A k \in DOMAIN plan : plan[k].do \in {"repair", "board"} =>
          /\ Len(plan) = 1
          /\ plan[k].hull \in DOMAIN seen /\ plan[k].do \notin seen[plan[k].hull].pending

LEMMA NoPlan ==
    ASSUME NEW held, NEW seen, NEW stands
    PROVE  Sound(<< >>, held, seen, stands)
<1>1. << >> \in Seq(Dues) /\ DOMAIN << >> = {}
  BY EmptySeq
<1>2. QED
  BY <1>1 DEF Sound, LetsGoFirst

LEMMA OneStep ==
    ASSUME NEW s \in Dues, NEW held, NEW seen, NEW stands, s.do # "done",
           s.do \in {"repair", "board"} => s.hull \in DOMAIN seen /\ s.do \notin seen[s.hull].pending
    PROVE  Sound(<<s>>, held, seen, stands)
<1>1. <<s>> \in Seq(Dues) /\ Len(<<s>>) = 1 /\ <<s>>[1] = s
  OBVIOUS
<1>2. DOMAIN <<s>> = {1}
  OBVIOUS
<1>3. QED
  BY <1>1, <1>2 DEF Sound, LetsGoFirst

LEMMA TwoSteps ==
    ASSUME NEW s \in Dues, NEW t \in Dues, NEW held, NEW seen, NEW stands,
           s.do \notin {"done", "repair", "board"}, t.do \notin {"done", "repair", "board"}
    PROVE  Sound(<<s, t>>, held, seen, stands)
<1>1. <<s, t>> \in Seq(Dues) /\ <<s, t>>[1] = s /\ <<s, t>>[2] = t
  OBVIOUS
<1>2. DOMAIN <<s, t>> = {1, 2}
  OBVIOUS
<1>3. QED
  BY <1>1, <1>2 DEF Sound, LetsGoFirst

\* Releases lets go of every hull it is given, and does nothing else.
LEMMA LettingGo ==
    ASSUME NEW held \in SUBSET Hulls
    PROVE  /\ Releases(held) \in Seq(Dues)
           /\ \A k \in DOMAIN Releases(held) : Releases(held)[k].do = "release"
           /\ \A h \in held : \E k \in DOMAIN Releases(held) : Releases(held)[k].hull = h
<1> DEFINE S == {Step("release", h, None) : h \in held}
           f == [h \in held |-> Step("release", h, None)]
<1>1. IsFiniteSet(held)
  BY CloseOpsAssumption, FS_Subset
<1>2. IsFiniteSet(S)
  <2>1. f \in Surjection(held, S)
    BY DEF Surjection
  <2> HIDE DEF f, S
  <2>2. QED
    BY <1>1, <2>1, FS_Surjection
<1>3. \A s \in S : s \in Dues /\ s.do = "release"
  BY DEF Dues, Steps, Step
<1>4. \A h \in held : \E s \in S : s.hull = h
  <2>1. \A h \in held : Step("release", h, None) \in S /\ Step("release", h, None).hull = h
    BY DEF Step
  <2>2. QED
    BY <2>1
<1>5. Releases(held) = SetToSeq(S)
  BY DEF Releases
<1> HIDE DEF S, f
<1> DEFINE n == Cardinality(S)
           g == SetToSeq(S)
<1>6. /\ n \in Nat /\ g \in [1..n -> S]
      /\ \A i, j \in 1..n : g[i] = g[j] => i = j
  BY <1>2, LaidOut
<1>7. Cardinality(1..n) = n /\ IsFiniteSet(1..n)
  BY <1>6, FS_Interval, FS_CardinalityType
<1>8. g \in Injection(1..n, S)
  BY <1>6 DEF Injection, IsInjective
<1> HIDE DEF g
<1>9. g \in Surjection(1..n, S)
  BY <1>2, <1>7, <1>8, FS_Injection
<1> HIDE DEF n
<1>10. \A s \in S : \E k \in 1..n : g[k] = s
  BY <1>9 DEF Surjection
<1>11. g \in Seq(Dues) /\ DOMAIN g = 1..n
  <2>1. g \in [1..n -> Dues]
    BY <1>3, <1>6
  <2>2. QED
    BY <1>6, <2>1, SeqDef
<1>12. QED
  BY <1>3, <1>4, <1>5, <1>6, <1>10, <1>11 DEF g

LEMMA OnlyReleases ==
    ASSUME NEW left \in SUBSET Hulls, NEW held, NEW seen, NEW stands
    PROVE  Sound(Releases(left), held, seen, stands)
<1>1. Releases(left) \in Seq(Dues) /\ \A k \in DOMAIN Releases(left) : Releases(left)[k].do = "release"
  BY LettingGo
<1>2. QED
  BY <1>1 DEF Sound, LetsGoFirst

LEMMA LettingAllGo ==
    ASSUME NEW state \in Files, NEW seen, NEW stands
    PROVE  Sound(LetGo(state), state.held, seen, stands)
<1> DEFINE r == Releases(state.held)
           d == Step("done", None, None)
           n == Len(r)
           p == Append(r, d)
<1>1. /\ r \in Seq(Dues) /\ \A k \in DOMAIN r : r[k].do = "release"
      /\ \A h \in state.held : \E k \in DOMAIN r : r[k].hull = h
  <2>1. state.held \in SUBSET Hulls
    BY DEF Files
  <2>2. QED
    BY <2>1, LettingGo
<1>2. d \in Dues /\ d.do = "done"
  BY DEF Dues, Steps, Step
<1>3. LetGo(state) = p
  BY DEF LetGo
<1> HIDE DEF r, d
<1>4. /\ n \in Nat /\ DOMAIN r = 1..n /\ p \in Seq(Dues) /\ DOMAIN p = 1..(n + 1)
      /\ \A k \in 1..n : p[k] = r[k]
      /\ p[n + 1] = d
  BY <1>1, <1>2, AppendProperties, LenProperties
<1> HIDE DEF n, p
<1>5. \A k \in 1..(n + 1) : k \in 1..n \/ (k = n + 1 /\ 1..(k - 1) = 1..n)
  BY <1>4
<1>6. \A k \in 1..n : p[k].do = "release"
  BY <1>1, <1>4
<1>7. LetsGoFirst(p, state.held)
  <2> SUFFICES ASSUME NEW k \in DOMAIN p, p[k].do = "done"
               PROVE  /\ \A j \in 1..(k - 1) : p[j].do = "release"
                      /\ \A h \in state.held : \E j \in 1..(k - 1) : p[j].hull = h
    BY DEF LetsGoFirst
  <2>1. k = n + 1 /\ 1..(k - 1) = 1..n
    BY <1>4, <1>5, <1>6
  <2>2. QED
    BY <1>1, <1>4, <1>6, <2>1
<1>8. \A k \in DOMAIN p : p[k].do \notin {"repair", "board"}
  BY <1>2, <1>4, <1>5, <1>6
<1>9. QED
  BY <1>3, <1>4, <1>7, <1>8 DEF Sound

\* Among the hulls that fit there is one most worn, and of those the first.
LEMMA FirstFit ==
    ASSUME NEW seen, Reading(seen), NEW S \in SUBSET (DOMAIN seen), S # {}
    PROVE  \E h \in S : \A g \in S : \/ seen[h].wear > seen[g].wear
                                     \/ seen[h].wear = seen[g].wear /\ h <= g
<1> DEFINE T == {MaxWear - seen[g].wear : g \in S}
<1>1. \A g \in S : g \in Nat /\ seen[g].wear \in 0..MaxWear
  BY CloseOpsAssumption DEF Reading
<1>2. MaxWear \in Nat /\ T \in SUBSET Nat /\ T # {}
  BY <1>1, CloseOpsAssumption
<1>3. PICK t \in T : \A m \in T : t <= m
  BY <1>2, Least
<1> DEFINE U == {g \in S : MaxWear - seen[g].wear = t}
<1>4. U \in SUBSET Nat /\ U # {}
  BY <1>1
<1>5. PICK h \in U : \A g \in U : h <= g
  BY <1>4, Least
<1>6. ASSUME NEW g \in S
      PROVE  seen[h].wear > seen[g].wear \/ (seen[h].wear = seen[g].wear /\ h <= g)
  <2>1. t <= MaxWear - seen[g].wear /\ MaxWear - seen[h].wear = t /\ h \in S
    BY <1>3
  <2>2. CASE g \in U
    BY <1>1, <1>2, <1>5, <2>1, <2>2
  <2>3. CASE g \notin U
    BY <1>1, <1>2, <2>1, <2>3
  <2>4. QED
    BY <2>2, <2>3
<1>7. QED
  BY <1>6

LEMMA MeetSound ==
    ASSUME NEW w \in Hulls, NEW berth \in Berths, NEW held, NEW seen, NEW stands
    PROVE  Sound(Meet(w, berth), held, seen, stands)
<1> DEFINE s == Step("meet", w, berth)
           t == Step("hold", w, berth)
<1>1. s \in Dues /\ t \in Dues /\ s.do = "meet" /\ t.do = "hold"
  BY DEF Dues, Steps, Step
<1>2. Meet(w, berth) = <<s, t>>
  BY DEF Meet
<1> HIDE DEF s, t
<1>3. QED
  BY <1>1, <1>2, TwoSteps

\* A repair of a hull the pass read, on the captain's papers, with none pending.
LEMMA RepairSound ==
    ASSUME NEW seen, Reading(seen), NEW h \in DOMAIN seen, CanRepair(seen[h]), NEW held, NEW stands
    PROVE  Sound(<<Step("repair", h, None)>>, held, seen, stands)
<1> DEFINE s == Step("repair", h, None)
<1>1. s \in Dues /\ s.do = "repair" /\ s.hull = h
  BY DEF Dues, Steps, Step, Reading
<1>2. "repair" \notin seen[h].pending
  BY DEF CanRepair
<1>3. s.hull \in DOMAIN seen /\ s.do \notin seen[s.hull].pending /\ s.do # "done"
  BY <1>1, <1>2
<1> HIDE DEF s
<1>4. Sound(<<s>>, held, seen, stands)
  BY <1>1, <1>3, OneStep
<1>5. QED
  BY <1>4 DEF s

LEMMA FetchSound ==
    ASSUME NEW seen, Reading(seen), NEW cap \in DOMAIN seen, NEW held
    PROVE  Sound(PlanFetch(seen, cap), held, seen, cap)
<1> DEFINE berth  == NextBerth(seen[cap])
           idle(w) == ~w.carrying /\ w.boundFor = None /\ w.docked # None
           fit    == {h \in DOMAIN seen \ {cap} :
                        Worn(seen[h]) /\ (NextBerth(seen[h]) = berth \/ idle(seen[h]))}
           first(h) == \A g \in fit : \/ seen[h].wear > seen[g].wear
                                      \/ seen[h].wear = seen[g].wear /\ h <= g
           w == CHOOSE h \in fit : first(h)
<1>1. PlanFetch(seen, cap) = IF berth = None \/ fit = {} THEN << >> ELSE Meet(w, berth)
  BY DEF PlanFetch
<1>2. CASE berth = None \/ fit = {}
  BY <1>1, <1>2, NoPlan
<1>3. CASE ~(berth = None \/ fit = {})
  <2>1. berth \in Berths
    BY <1>3 DEF NextBerth, Reading, Stands
  <2>2. fit \in SUBSET (DOMAIN seen) /\ fit # {}
    BY <1>3
  <2> HIDE DEF fit, berth
  <2>3. w \in fit
    BY <2>2, FirstFit
  <2>4. w \in Hulls
    BY <2>2, <2>3 DEF Reading
  <2> HIDE DEF w
  <2>5. QED
    BY <1>1, <1>3, <2>1, <2>4, MeetSound
<1>4. QED
  BY <1>2, <1>3

LEMMA MeetingSound ==
    ASSUME NEW seen, Reading(seen), NEW cap \in DOMAIN seen, NEW state \in Files,
           state.target # None
    PROVE  Sound(PlanMeeting(state, seen, cap), state.held, seen, cap)
<1> DEFINE t == state.target
           st == state.station
           left == {h \in state.held \ {t} : h \in DOMAIN seen /\ h # cap}
           P == PlanMeeting(state, seen, cap)
<1>1. t \in Hulls /\ st \in Stands /\ left \in SUBSET Hulls /\ cap \in Hulls
  BY DEF Files, Stands, Reading
<1>2. \/ P = << >> \/ P = LetGo(state) \/ P = Releases(left)
      \/ P = <<Step("repair", t, None)>> /\ t \in DOMAIN seen /\ CanRepair(seen[t])
      \/ P = <<Step("board", cap, t)>> /\ "board" \notin seen[cap].pending
      \/ P = <<Step("hold", cap, st)>>
      \/ P = Meet(t, NextBerth(seen[cap])) /\ NextBerth(seen[cap]) # None
  BY DEF PlanMeeting
<1> HIDE DEF left, P
<1>3. CASE P = <<Step("board", cap, t)>> /\ "board" \notin seen[cap].pending
  <2>1. /\ Step("board", cap, t) \in Dues /\ Step("board", cap, t).do = "board"
        /\ Step("board", cap, t).hull = cap
    BY <1>1 DEF Dues, Steps, Step
  <2>2. QED
    BY <1>3, <2>1, OneStep DEF P
<1>4. CASE P = <<Step("hold", cap, st)>>
  <2>1. Step("hold", cap, st) \in Dues /\ Step("hold", cap, st).do = "hold"
    BY <1>1 DEF Dues, Steps, Step, Stands
  <2>2. QED
    BY <1>4, <2>1, OneStep DEF P
<1>5. CASE P = Meet(t, NextBerth(seen[cap])) /\ NextBerth(seen[cap]) # None
  <2>1. NextBerth(seen[cap]) \in Berths
    BY <1>5 DEF NextBerth, Reading, Stands
  <2>2. QED
    BY <1>1, <1>5, <2>1, MeetSound DEF P
<1>6. CASE P = <<Step("repair", t, None)>> /\ t \in DOMAIN seen /\ CanRepair(seen[t])
  BY <1>6, RepairSound DEF P
<1>7. CASE P = << >> \/ P = LetGo(state) \/ P = Releases(left)
  BY <1>1, <1>7, NoPlan, LettingAllGo, OnlyReleases DEF P
<1>8. QED
  BY <1>2, <1>3, <1>4, <1>5, <1>6, <1>7

\* Whatever the pass loaded and read, its plan is sound.
LEMMA PlanSound ==
    ASSUME NEW state \in Files, NEW seen, Reading(seen), NEW stands
    PROVE  Sound(Plan(state, seen, stands), state.held, seen, stands)
<1>1. CASE ~state.on \/ stands \notin DOMAIN seen
  BY <1>1, NoPlan DEF Plan
<1>2. CASE state.on /\ stands \in DOMAIN seen
  <2>1. CASE Worn(seen[stands]) /\ CanRepair(seen[stands])
    BY <1>2, <2>1, RepairSound DEF Plan
  <2>2. CASE ~(Worn(seen[stands]) /\ CanRepair(seen[stands])) /\ state.target # None
    BY <1>2, <2>2, MeetingSound DEF Plan
  <2>3. CASE ~(Worn(seen[stands]) /\ CanRepair(seen[stands])) /\ state.target = None
    BY <1>2, <2>3, FetchSound DEF Plan
  <2>4. QED
    BY <2>1, <2>2, <2>3
<1>3. QED
  BY <1>1, <1>2

-----------------------------------------------------------------------------
(* Filing a plan.                                                           *)

\* The lists and the state as a pass leaves them.
Filings == [orders : OrderLists, state : Files]

\* A step changes the list of its hull at most.
ApplyTo(so, s, list, held) ==
    LET a == Apply(so, s)
    IN  /\ a \in Filings
        /\ a.orders = [so.orders EXCEPT ![s.hull] = list]
        /\ a.state.held = held

LEMMA ApplyMeet ==
    ASSUME NEW so \in Filings, NEW s \in Dues, s.do = "meet"
    PROVE  /\ Apply(so, s) \in Filings /\ Apply(so, s).orders = so.orders
           /\ Apply(so, s).state.held = so.state.held
<1>1. Apply(so, s) = [so EXCEPT !.state.target = s.hull, !.state.station = s.to]
  BY DEF Apply
<1>2. s.hull \in Hulls /\ s.to \in Berths \cup {None}
  BY DEF Dues
<1>3. so.state \in Files /\ so.orders \in OrderLists
  BY DEF Filings
<1> DEFINE met == [so.state EXCEPT !.target = s.hull, !.station = s.to]
<1>4. Apply(so, s) = [orders |-> so.orders, state |-> met]
  BY <1>1 DEF Filings, Files
<1>5. met \in Files
  BY <1>2, <1>3 DEF Files
<1>6. met.held = so.state.held
  BY <1>3 DEF Files
<1> HIDE DEF met
<1>7. QED
  BY <1>3, <1>4, <1>5, <1>6 DEF Filings

LEMMA ApplyDone ==
    ASSUME NEW so \in Filings, NEW s \in Dues, s.do = "done"
    PROVE  /\ Apply(so, s) \in Filings /\ Apply(so, s).orders = so.orders
           /\ Apply(so, s).state.held = {}
<1>1. Apply(so, s) = [so EXCEPT !.state = Fresh(so.state.on)]
  BY DEF Apply
<1>2. so.state \in Files /\ so.orders \in OrderLists
  BY DEF Filings
<1>3. Fresh(so.state.on) \in Files /\ Fresh(so.state.on).held = {}
  BY <1>2 DEF Files, Fresh
<1>4. Apply(so, s) = [orders |-> so.orders, state |-> Fresh(so.state.on)]
  BY <1>1 DEF Filings
<1>5. QED
  BY <1>2, <1>3, <1>4 DEF Filings

\* The other steps file on a list, and may change who is held.
Filed(so, h, list, held) == [so EXCEPT !.orders[h] = list, !.state.held = held]

LEMMA OnAList ==
    ASSUME NEW so \in Filings, NEW h \in Hulls, NEW list \in Seq(Words), NEW held \in SUBSET Hulls
    PROVE  /\ Filed(so, h, list, held) \in Filings
           /\ Filed(so, h, list, held).orders = [so.orders EXCEPT ![h] = list]
           /\ Filed(so, h, list, held).state.held = held
<1> DEFINE lists == [so.orders EXCEPT ![h] = list]
           state == [so.state EXCEPT !.held = held]
<1>1. so.state \in Files /\ so.orders \in OrderLists
  BY DEF Filings
<1>2. [so EXCEPT !.orders[h] = list] = [orders |-> lists, state |-> so.state]
  BY DEF Filings
<1>3. [[orders |-> lists, state |-> so.state] EXCEPT !.state.held = held]
         = [orders |-> lists, state |-> state]
  OBVIOUS
<1>4. Filed(so, h, list, held) = [orders |-> lists, state |-> state]
  BY <1>2, <1>3 DEF Filed
<1>5. state \in Files /\ state.held = held
  BY <1>1 DEF Files
<1>6. lists \in OrderLists
  BY <1>1 DEF OrderLists
<1> HIDE DEF state
<1>7. QED
  BY <1>4, <1>5, <1>6 DEF Filings

LEMMA ApplyHold ==
    ASSUME NEW so \in Filings, NEW s \in Dues, s.do = "hold"
    PROVE  ApplyTo(so, s, Placed(so.orders[s.hull], NewOrder("hold", s.to, "closeops")),
                   so.state.held \cup {s.hull})
<1> DEFINE o == NewOrder("hold", s.to, "closeops")
           list == Placed(so.orders[s.hull], o)
           held == so.state.held \cup {s.hull}
<1>1. Apply(so, s) = [so EXCEPT !.orders[s.hull] = Placed(@, o), !.state.held = @ \cup {s.hull}]
  BY DEF Apply
<1>2. Apply(so, s) = Filed(so, s.hull, list, held)
  BY <1>1 DEF Filings, Filed
<1>3. s.hull \in Hulls /\ so.orders[s.hull] \in Seq(Words) /\ held \in SUBSET Hulls
  BY DEF Dues, Filings, OrderLists, Files
<1>4. o \in Words
  BY DEF Dues, Words, Orders, NewOrder, IsCourse
<1>5. list \in Seq(Words)
  BY <1>3, <1>4, Placing
<1> HIDE DEF list, held
<1>6. ApplyTo(so, s, list, held)
  BY <1>2, <1>3, <1>5, OnAList DEF ApplyTo
<1>7. QED
  BY <1>6 DEF list, held

LEMMA ApplyWord ==
    ASSUME NEW so \in Filings, NEW s \in Dues, s.do \in {"board", "repair"}
    PROVE  ApplyTo(so, s, Placed(so.orders[s.hull], NewOrder(s.do, s.to, "closeops")), so.state.held)
<1> DEFINE o == NewOrder(s.do, s.to, "closeops")
           list == Placed(so.orders[s.hull], o)
           held == so.state.held
<1>1. Apply(so, s) = [so EXCEPT !.orders[s.hull] = Placed(@, o)]
  BY DEF Apply
<1>2. Apply(so, s) = Filed(so, s.hull, list, held)
  BY <1>1 DEF Filings, Files, Filed
<1>3. s.hull \in Hulls /\ so.orders[s.hull] \in Seq(Words) /\ held \in SUBSET Hulls
  BY DEF Dues, Filings, OrderLists, Files
<1>4. o \in Words
  BY DEF Dues, Steps, Words, Orders, NewOrder, IsCourse
<1>5. list \in Seq(Words)
  BY <1>3, <1>4, Placing
<1> HIDE DEF list, held
<1>6. ApplyTo(so, s, list, held)
  BY <1>2, <1>3, <1>5, OnAList DEF ApplyTo
<1>7. QED
  BY <1>6 DEF list, held

\* What is left of a list whose hull is let go.
Freed(list) == IF \E k \in DOMAIN list : OwnHold(list[k]) THEN Resumed(list) ELSE list

LEMMA Freeing ==
    ASSUME NEW list \in Seq(Words)
    PROVE  /\ Freed(list) \in Seq(Words) /\ ~Given(Freed(list), "hold")
           /\ \A verb : /\ Given(Freed(list), verb) => Given(list, verb)
                        /\ Once(list, verb) => Once(Freed(list), verb)
<1>1. CASE \E k \in DOMAIN list : OwnHold(list[k])
  BY <1>1, Resuming, DrawnKeeps DEF Freed
<1>2. CASE ~\E k \in DOMAIN list : OwnHold(list[k])
  BY <1>2 DEF Freed, Given, OwnOrder, OwnHold
<1>3. QED
  BY <1>1, <1>2

LEMMA ApplyRelease ==
    ASSUME NEW so \in Filings, NEW s \in Dues, s.do = "release"
    PROVE  ApplyTo(so, s, Freed(so.orders[s.hull]), so.state.held \ {s.hull})
<1> DEFINE list == Freed(so.orders[s.hull])
           held == so.state.held \ {s.hull}
<1>1. Apply(so, s) = [so EXCEPT !.orders[s.hull] = Freed(@), !.state.held = @ \ {s.hull}]
  BY DEF Apply, Freed
<1>2. Apply(so, s) = Filed(so, s.hull, list, held)
  BY <1>1 DEF Filings, Filed
<1>3. s.hull \in Hulls /\ so.orders[s.hull] \in Seq(Words) /\ held \in SUBSET Hulls
  BY DEF Dues, Filings, OrderLists, Files
<1>5. list \in Seq(Words)
  BY <1>3, Freeing
<1> HIDE DEF list, held
<1>6. ApplyTo(so, s, list, held)
  BY <1>2, <1>3, <1>5, OnAList DEF ApplyTo
<1>7. QED
  BY <1>6 DEF list, held

\* The recursion of AfterSteps has a solution.
LEMMA StepByStep ==
    ASSUME NEW n \in Nat
    PROVE  \E after : /\ AfterSteps(n) = after[n]
                      /\ after[0] = [orders |-> orders, state |-> pass.state]
                      /\ \A k \in 1..n : after[k] = Apply(after[k - 1], pass.steps[k])
<1> DEFINE Next1(f, k) == Apply(f[k - 1], pass.steps[k])
           first == [orders |-> orders, state |-> pass.state]
           Body(f, m) == [k \in 0..m |-> IF k = 0 THEN first ELSE Next1(f, k)]
           G == {m \in Nat : \E f : f = Body(f, m)}
<1>1. 0 \in G
  <2> DEFINE f == [k \in 0..0 |-> first]
  <2> HIDE DEF first
  <2>1. f = Body(f, 0)
    OBVIOUS
  <2>2. QED
    BY <2>1
<1>2. ASSUME NEW m \in Nat, m \in G PROVE m + 1 \in G
  <2> HIDE DEF first
  <2>1. PICK f : f = Body(f, m)
    BY <1>2
  <2> DEFINE g == [k \in 0..(m + 1) |-> IF k <= m THEN f[k] ELSE Next1(f, k)]
  <2>2. ASSUME NEW k \in 0..m PROVE g[k] = f[k] /\ f[k] = IF k = 0 THEN first ELSE Next1(f, k)
    <3> HIDE DEF Next1
    <3>1. k \in 0..(m + 1) /\ k <= m
      OBVIOUS
    <3>2. QED
      BY <2>1, <3>1
  <2>3. ASSUME NEW k \in 0..(m + 1) PROVE g[k] = IF k = 0 THEN first ELSE Next1(g, k)
    <3>1. k = 0 \/ k - 1 \in 0..m
      OBVIOUS
    <3>2. k # 0 => g[k - 1] = f[k - 1]
      BY <3>1, <2>2
    <3>3. k # 0 => Next1(g, k) = Next1(f, k)
      BY <3>2
    <3> HIDE DEF Next1
    <3>4. CASE k <= m
      BY <2>2, <3>3, <3>4
    <3>5. CASE k = m + 1
      BY <3>3, <3>5
    <3>6. QED
      BY <3>4, <3>5
  <2> HIDE DEF Next1
  <2>4. g = Body(g, m + 1)
    BY <2>3
  <2> HIDE DEF g
  <2>5. QED
    BY <2>4
<1>3. n \in G
  <2> HIDE DEF G
  <2>1. QED
    BY <1>1, <1>2, Climb
<1> DEFINE after == CHOOSE f : f = Body(f, n)
<1>4. after = Body(after, n)
  BY <1>3
<1>5. AfterSteps(n) = after[n]
  BY DEF AfterSteps
<1>6. after[0] = first /\ \A k \in 1..n : after[k] = Next1(after, k)
  <2> HIDE DEF Next1, after, first
  <2>1. QED
    BY <1>4
<1> HIDE DEF after
<1>7. QED
  BY <1>5, <1>6

\* The lists and the state when the first k steps of the plan are filed: every hold is known
\* to the pass or was orphaned, the hulls let go are, and no word is there twice.
AsFiled(so, k) ==
    /\ so \in Filings
    /\ Holding(so.orders) \subseteq so.state.held \cup orphans
    /\ (\A j \in 1..k : pass.steps[j].do = "release")
          => \A h \in so.state.held : h \in file.held /\ \A j \in 1..k : pass.steps[j].hull # h
    /\ \A h \in Hulls : Once(so.orders[h], "repair") /\ Once(so.orders[h], "board")
    /\ moving # None => ~Given(so.orders[moving.from], "board")

\* One list changes, and what it may hold by then.
LEMMA HoldsAfter ==
    ASSUME NEW so \in Filings, NEW h \in Hulls, NEW list, NEW held, NEW X,
           Holding(so.orders) \subseteq so.state.held \cup X,
           so.state.held \ {h} \subseteq held,
           Given(list, "hold") => h \in held \/ h \in X
    PROVE  Holding([so.orders EXCEPT ![h] = list]) \subseteq held \cup X
<1>1. so.orders \in OrderLists
  BY DEF Filings
<1>2. ASSUME NEW g \in Holding([so.orders EXCEPT ![h] = list]) PROVE g \in held \cup X
  <2>1. CASE g = h
    BY <1>1, <1>2, <2>1 DEF Holding, OrderLists
  <2>2. CASE g # h
    BY <1>1, <1>2, <2>2 DEF Holding, OrderLists
  <2>3. QED
    BY <2>1, <2>2
<1>3. QED
  BY <1>2

LEMMA FileHold ==
    ASSUME Typed, NEW so, NEW s \in Dues, NEW k \in Nat, s = pass.steps[k + 1],
           AsFiled(so, k), s.do = "hold"
    PROVE  AsFiled(Apply(so, s), k + 1)
<1> DEFINE o == NewOrder("hold", s.to, "closeops")
           list == Placed(so.orders[s.hull], o)
           held == so.state.held \cup {s.hull}
           a == Apply(so, s)
<1>0. so \in Filings /\ s.hull \in Hulls
  BY DEF AsFiled, Dues
<1>1. a \in Filings /\ a.orders = [so.orders EXCEPT ![s.hull] = list] /\ a.state.held = held
  BY <1>0, ApplyHold DEF ApplyTo
<1>2. so.orders \in OrderLists /\ so.orders[s.hull] \in Seq(Words)
  BY <1>0 DEF Filings, OrderLists
<1>3. o \in Words /\ ~OwnOrder(o, "repair") /\ ~OwnOrder(o, "board")
  BY DEF Dues, Words, Orders, NewOrder, IsCourse, OwnOrder
<1> HIDE DEF o
<1>4. /\ Once(so.orders[s.hull], "repair") => Once(list, "repair")
      /\ Once(so.orders[s.hull], "board") => Once(list, "board")
      /\ Given(list, "board") => Given(so.orders[s.hull], "board")
  BY <1>2, <1>3, Placing
<1>5. k + 1 \in 1..(k + 1) /\ pass.steps[k + 1].do # "release"
  OBVIOUS
<1> HIDE DEF list, a
<1>6. Holding(a.orders) \subseteq held \cup orphans
  <2>1. s.hull \in held /\ so.state.held \ {s.hull} \subseteq held
    OBVIOUS
  <2> HIDE DEF held
  <2>2. QED
    BY <1>0, <1>1, <2>1, HoldsAfter DEF AsFiled
<1>7. \A h \in Hulls : Once(a.orders[h], "repair") /\ Once(a.orders[h], "board")
  BY <1>0, <1>1, <1>2, <1>4 DEF AsFiled, OrderLists
<1>8. moving # None => ~Given(a.orders[moving.from], "board")
  <2>1. moving # None => moving.from \in Hulls
    BY DEF Typed, TypeOK
  <2>2. QED
    BY <1>0, <1>1, <1>2, <1>4, <2>1 DEF AsFiled, OrderLists
<1>9. (\A j \in 1..(k + 1) : pass.steps[j].do = "release")
         => \A h \in a.state.held : h \in file.held /\ \A j \in 1..(k + 1) : pass.steps[j].hull # h
  BY <1>5
<1>11. Holding(a.orders) \subseteq a.state.held \cup orphans
  BY <1>1, <1>6
<1>13. QED
  BY <1>1, <1>7, <1>8, <1>9, <1>11 DEF AsFiled, a

LEMMA FileRelease ==
    ASSUME Typed, NEW so, NEW s \in Dues, NEW k \in Nat, s = pass.steps[k + 1],
           AsFiled(so, k), s.do = "release"
    PROVE  AsFiled(Apply(so, s), k + 1)
<1> DEFINE list == Freed(so.orders[s.hull])
           held == so.state.held \ {s.hull}
           a == Apply(so, s)
<1>0. so \in Filings /\ s.hull \in Hulls
  BY DEF AsFiled, Dues
<1>1. a \in Filings /\ a.orders = [so.orders EXCEPT ![s.hull] = list] /\ a.state.held = held
  BY <1>0, ApplyRelease DEF ApplyTo
<1>2. so.orders \in OrderLists /\ so.orders[s.hull] \in Seq(Words)
  BY <1>0 DEF Filings, OrderLists
<1>4. /\ Once(so.orders[s.hull], "repair") => Once(list, "repair")
      /\ Once(so.orders[s.hull], "board") => Once(list, "board")
      /\ Given(list, "board") => Given(so.orders[s.hull], "board")
      /\ ~Given(list, "hold")
  BY <1>2, Freeing
<1> HIDE DEF list, a
<1>5. (\A j \in 1..(k + 1) : pass.steps[j].do = "release")
         => \A h \in held : h \in file.held /\ \A j \in 1..(k + 1) : pass.steps[j].hull # h
  <2>1. \A j \in 1..(k + 1) : j \in 1..k \/ j = k + 1
    OBVIOUS
  <2>2. \A j \in 1..k : j \in 1..(k + 1)
    OBVIOUS
  <2>3. QED
    BY <2>1, <2>2 DEF AsFiled
<1>6. Holding(a.orders) \subseteq held \cup orphans
  <2>1. so.state.held \ {s.hull} \subseteq held
    OBVIOUS
  <2> HIDE DEF held
  <2>2. QED
    BY <1>0, <1>1, <1>4, <2>1, HoldsAfter DEF AsFiled
<1>7. \A h \in Hulls : Once(a.orders[h], "repair") /\ Once(a.orders[h], "board")
  BY <1>0, <1>1, <1>2, <1>4 DEF AsFiled, OrderLists
<1>8. moving # None => ~Given(a.orders[moving.from], "board")
  <2>1. moving # None => moving.from \in Hulls
    BY DEF Typed, TypeOK
  <2>2. QED
    BY <1>0, <1>1, <1>2, <1>4, <2>1 DEF AsFiled, OrderLists
<1>9. Holding(a.orders) \subseteq a.state.held \cup orphans
  BY <1>1, <1>6
<1> HIDE DEF held
<1>11. QED
  BY <1>1, <1>5, <1>7, <1>8, <1>9 DEF AsFiled, a

\* A boarding or repair is the whole of its plan, so it meets the lists as they stand.
LEMMA FileWord ==
    ASSUME CloseInv, pass.at = "planned", NEW so, NEW s \in Dues, NEW k \in Nat,
           k + 1 \in DOMAIN pass.steps, s = pass.steps[k + 1],
           k = 0 => so.orders = orders,
           AsFiled(so, k), s.do \in {"repair", "board"}
    PROVE  AsFiled(Apply(so, s), k + 1)
<1> DEFINE o == NewOrder(s.do, s.to, "closeops")
           list == Placed(so.orders[s.hull], o)
           held == so.state.held
           a == Apply(so, s)
<1>0. so \in Filings /\ s.hull \in Hulls /\ Typed
  BY DEF AsFiled, Dues, CloseInv
<1>1. a \in Filings /\ a.orders = [so.orders EXCEPT ![s.hull] = list] /\ a.state.held = held
  BY <1>0, ApplyWord DEF ApplyTo
<1>2. so.orders \in OrderLists /\ so.orders[s.hull] \in Seq(Words)
  BY <1>0 DEF Filings, OrderLists
<1>10. StillNew(s)
  BY DEF CloseInv, PlanIsNew
<1>11. k = 0
  <2>1. Len(pass.steps) = 1 /\ DOMAIN pass.steps = 1..Len(pass.steps)
    BY <1>0, <1>10, LenProperties DEF StillNew, Typed
  <2>2. QED
    BY <2>1
<1>12. ~Given(so.orders[s.hull], s.do)
  BY <1>10, <1>11 DEF StillNew
<1>3. /\ o \in Words /\ ~OwnOrder(o, "hold")
      /\ OwnOrder(o, "repair") => s.do = "repair"
      /\ OwnOrder(o, "board") => s.do = "board"
  BY DEF Dues, Steps, Words, Orders, NewOrder, IsCourse, OwnOrder
<1> HIDE DEF o
<1>4. /\ Once(so.orders[s.hull], "repair") => Once(list, "repair")
      /\ Once(so.orders[s.hull], "board") => Once(list, "board")
      /\ Given(list, "board") => Given(so.orders[s.hull], "board") \/ s.do = "board"
      /\ Given(list, "hold") => Given(so.orders[s.hull], "hold")
  BY <1>2, <1>3, <1>12, Placing
<1>5. k + 1 \in 1..(k + 1) /\ pass.steps[k + 1].do # "release"
  OBVIOUS
<1> HIDE DEF list, a
<1>6. Holding(a.orders) \subseteq held \cup orphans
  <2>1. Given(list, "hold") => s.hull \in so.state.held \cup orphans
    BY <1>0, <1>4 DEF AsFiled, Holding
  <2>2. so.state.held \ {s.hull} \subseteq held /\ Holding(so.orders) \subseteq so.state.held \cup orphans
    BY DEF AsFiled
  <2>3. Given(list, "hold") => s.hull \in held \/ s.hull \in orphans
    BY <2>1
  <2> HIDE DEF held
  <2>4. QED
    <3>1. Holding([so.orders EXCEPT ![s.hull] = list]) \subseteq held \cup orphans
      <4>1. so \in Filings /\ s.hull \in Hulls
        BY <1>0
      <4>2. QED
        BY <2>2, <2>3, <4>1, HoldsAfter
    <3>2. QED
      BY <1>1, <3>1
<1>7. \A h \in Hulls : Once(a.orders[h], "repair") /\ Once(a.orders[h], "board")
  BY <1>0, <1>1, <1>2, <1>4 DEF AsFiled, OrderLists
<1>8. moving # None => ~Given(a.orders[moving.from], "board")
  <2>1. moving # None => moving.from \in Hulls
    BY <1>0 DEF Typed, TypeOK
  <2>2. moving # None /\ s.do = "board" => moving.from # s.hull
    BY <1>10 DEF StillNew
  <2>3. QED
    BY <1>0, <1>1, <1>2, <1>4, <2>1, <2>2 DEF AsFiled, OrderLists
<1>9. (\A j \in 1..(k + 1) : pass.steps[j].do = "release")
         => \A h \in a.state.held : h \in file.held /\ \A j \in 1..(k + 1) : pass.steps[j].hull # h
  BY <1>5
<1>14. Holding(a.orders) \subseteq a.state.held \cup orphans
  BY <1>1, <1>6
<1>13. QED
  BY <1>1, <1>7, <1>8, <1>9, <1>14 DEF AsFiled, a

LEMMA FileMeet ==
    ASSUME NEW so, NEW s \in Dues, NEW k \in Nat, s = pass.steps[k + 1], AsFiled(so, k), s.do = "meet"
    PROVE  AsFiled(Apply(so, s), k + 1)
<1>1. /\ Apply(so, s) \in Filings /\ Apply(so, s).orders = so.orders
      /\ Apply(so, s).state.held = so.state.held
  BY ApplyMeet DEF AsFiled
<1>2. k + 1 \in 1..(k + 1) /\ pass.steps[k + 1].do # "release"
  OBVIOUS
<1>3. QED
  BY <1>1, <1>2 DEF AsFiled

\* The meeting ends when every hull it held was let go.
LEMMA FileDone ==
    ASSUME CloseInv, pass.at = "planned", NEW so, NEW s \in Dues, NEW k \in Nat,
           k + 1 \in DOMAIN pass.steps, s = pass.steps[k + 1], AsFiled(so, k), s.do = "done"
    PROVE  AsFiled(Apply(so, s), k + 1)
<1>1. /\ Apply(so, s) \in Filings /\ Apply(so, s).orders = so.orders
      /\ Apply(so, s).state.held = {}
  BY ApplyDone DEF AsFiled
<1>2. k + 1 \in 1..(k + 1) /\ pass.steps[k + 1].do # "release" /\ (k + 1) - 1 = k
  OBVIOUS
<1>3. /\ \A j \in 1..k : pass.steps[j].do = "release"
      /\ \A h \in file.held : \E j \in 1..k : pass.steps[j].hull = h
  BY <1>2 DEF CloseInv, PassKnows, LetsGoFirst
<1>4. so.state.held = {}
  BY <1>3 DEF AsFiled
<1>5. QED
  BY <1>1, <1>2, <1>4 DEF AsFiled

\* So it is however many of the steps are filed.
LEMMA Filing ==
    ASSUME CloseInv, pass.at = "planned", NEW n \in 0..Len(pass.steps)
    PROVE  AsFiled(AfterSteps(n), n)
<1>0. /\ Typed /\ Len(pass.steps) \in Nat /\ n \in Nat
      /\ DOMAIN pass.steps = 1..Len(pass.steps)
      /\ \A k \in 1..Len(pass.steps) : pass.steps[k] \in Dues
  BY LenProperties, ElementOfSeq DEF CloseInv, Typed
<1>1. PICK after : /\ AfterSteps(n) = after[n]
                   /\ after[0] = [orders |-> orders, state |-> pass.state]
                   /\ \A k \in 1..n : after[k] = Apply(after[k - 1], pass.steps[k])
  BY <1>0, StepByStep
<1> DEFINE G == {k \in Nat : k <= n => AsFiled(after[k], k)}
<1>2. 0 \in G
  <2>1. after[0] \in Filings /\ after[0].orders = orders /\ after[0].state = pass.state
    BY <1>0, <1>1 DEF Typed, TypeOK, Filings
  <2>2. Holding(orders) \subseteq pass.state.held \cup orphans
    BY DEF CloseInv, HoldsKnown, PassKnows, Holding, Given, OwnHold, OwnOrder
  <2>3. \A h \in pass.state.held : h \in file.held /\ \A j \in 1..0 : pass.steps[j].hull # h
    BY DEF CloseInv, PassKnows
  <2>4. AsFiled(after[0], 0)
    BY <2>1, <2>2, <2>3 DEF AsFiled, CloseInv, GivenOnce, MovingIsSettling
  <2>5. QED
    BY <2>4
<1>3. ASSUME NEW k \in Nat, k \in G, k + 1 <= n PROVE AsFiled(after[k + 1], k + 1)
  <2> DEFINE so == after[k]
             s == pass.steps[k + 1]
  <2>1. k + 1 \in 1..n /\ k + 1 \in DOMAIN pass.steps /\ s \in Dues /\ (k + 1) - 1 = k
    BY <1>0, <1>3
  <2>2. after[k + 1] = Apply(so, s)
    BY <1>1, <2>1
  <2>3. AsFiled(so, k)
    BY <1>0, <1>3
  <2>4. k = 0 => so.orders = orders
    BY <1>1
  <2>5. s.do \in {"meet", "hold", "board", "repair", "release", "done"}
    BY <2>1 DEF Dues, Steps
  <2> HIDE DEF so, G
  <2>6. AsFiled(Apply(so, s), k + 1)
    BY <1>0, <2>1, <2>3, <2>4, <2>5, FileHold, FileRelease, FileWord, FileMeet, FileDone
  <2>7. QED
    BY <2>2, <2>6
<1>4. ASSUME NEW k \in Nat, k \in G PROVE k + 1 \in G
  BY <1>3, <1>4
<1>5. n \in G
  <2> HIDE DEF G
  <2>1. QED
    BY <1>0, <1>2, <1>4, Climb
<1>6. QED
  BY <1>1, <1>5

-----------------------------------------------------------------------------
(* The start.                                                               *)

\* The closer types are the declared ones.
LEMMA Widened ==
    /\ \A lists \in OrderLists : lists \in [Hulls -> Seq(Orders)]
    /\ \A plan \in Seq(Dues) : plan \in Seq(Steps)
<1>1. Words \subseteq Orders /\ Dues \subseteq Steps
  BY DEF Words, Dues
<1>2. \A list \in Seq(Words) : list \in Seq(Orders)
  BY <1>1, SeqMonotonic
<1>3. \A plan \in Seq(Dues) : plan \in Seq(Steps)
  BY <1>1, SeqMonotonic
<1>4. QED
  BY <1>2, <1>3 DEF OrderLists

LEMMA AtRest == Resting.state \in Files /\ Resting.steps = << >> /\ Resting.steps \in Seq(Dues)
                /\ Resting.at = "idle"
                /\ Resting \in [at : {"idle", "planned"}, state : Files, steps : Seq(Steps), ticked : BOOLEAN]
<1>1. << >> \in Seq(Dues) /\ << >> \in Seq(Steps)
  BY EmptySeq
<1>2. QED
  BY <1>1 DEF Resting, Files, Fresh

LEMMA InitClose == Init => CloseInv
<1> SUFFICES ASSUME Init PROVE CloseInv
  OBVIOUS
<1>1. orders \in OrderLists
  <2>1. << >> \in Seq(Words)
    BY EmptySeq
  <2>2. QED
    BY <2>1 DEF Init, OrderLists
<1>2. pass \in [at : {"idle", "planned"}, state : Files, steps : Seq(Steps), ticked : BOOLEAN]
      /\ pass.steps \in Seq(Dues) /\ pass.at = "idle"
  BY AtRest DEF Init
<1>3. orders \in [Hulls -> Seq(Orders)]
  BY <1>1, Widened
<1>4. TypeOK
  <2>1. wear \in [Hulls -> 0..MaxWear] /\ aboard \in Hulls /\ turns \in 0..MaxTurns
    BY CloseOpsAssumption DEF Init
  <2>2. docked \in [Hulls -> Berths \cup {None}] /\ bound \in [Hulls -> Berths \cup {None}]
    BY DEF Init
  <2>3. line \in [Hulls -> Papers] /\ settling \in [Hulls -> SUBSET {"board", "repair"}]
    BY DEF Init, Papers
  <2>4. file \in Files
    BY DEF Init, Fresh, Files
  <2>5. moving \in [from : Hulls, to : Hulls] \cup {None} /\ repairing \subseteq Hulls
        /\ orphans \subseteq Hulls
    BY DEF Init
  <2>6. QED
    BY <1>2, <1>3, <2>1, <2>2, <2>3, <2>4, <2>5 DEF TypeOK
<1>5. \A h \in Hulls : DOMAIN orders[h] = {}
  BY DEF Init
<1>6. HoldsKnown /\ GivenOnce
  BY <1>5 DEF HoldsKnown, GivenOnce, Once
<1>7. PassKnows /\ PlanIsNew
  BY <1>2 DEF PassKnows, PlanIsNew
<1>8. MovingIsSettling
  BY DEF Init, MovingIsSettling
<1>9. QED
  BY <1>1, <1>2, <1>4, <1>6, <1>7, <1>8 DEF CloseInv, Typed

-----------------------------------------------------------------------------
(* The pass.                                                                *)

LEMMA StepBegin == CloseInv /\ BeginPass => CloseInv'
<1> SUFFICES ASSUME CloseInv, BeginPass PROVE CloseInv'
  OBVIOUS
<1>0. Typed /\ file \in Files
  BY DEF CloseInv, Typed, TypeOK
<1>1. PICK answering \in SUBSET Hulls, laden \in SUBSET Hulls :
         LET steps == Plan(file, View(answering, laden), aboard)
         IN  /\ IF answering = Hulls THEN UNCHANGED turns ELSE Turn
             /\ pass' = [at |-> "planned", state |-> file, steps |-> steps, ticked |-> FALSE]
  BY DEF BeginPass
<1> DEFINE seen == View(answering, laden)
           steps == Plan(file, seen, aboard)
<1>2. /\ DOMAIN seen = answering
      /\ \A h \in answering : /\ seen[h].pending = PendingVerbs(h)
                              /\ seen[h].wear = wear[AnswersFor(h)]
                              /\ seen[h].docked = docked[AnswersFor(h)]
                              /\ seen[h].boundFor = bound[AnswersFor(h)]
  BY DEF View
<1>3. Reading(seen)
  <2>1. \A h \in answering : AnswersFor(h) \in Hulls
    BY <1>0 DEF AnswersFor, Typed, TypeOK
  <2> HIDE DEF seen
  <2>2. QED
    BY <1>0, <1>2, <2>1 DEF Reading, Typed, TypeOK, Stands
<1> HIDE DEF seen
<1>4. Sound(steps, file.held, seen, aboard)
  BY <1>0, <1>3, PlanSound
<1> HIDE DEF steps
<1>5. pass' = [at |-> "planned", state |-> file, steps |-> steps, ticked |-> FALSE]
      /\ (turns' = turns \/ Turn)
  BY <1>1 DEF steps, seen
<1>6. UNCHANGED <<exchange, orders, settling, line, file, orphans>>
  BY DEF BeginPass
<1>7. Typed'
  <2>1. steps \in Seq(Dues) /\ steps \in Seq(Steps)
    BY <1>4, Widened DEF Sound
  <2>2. turns' \in 0..MaxTurns
    BY <1>0, <1>5, CloseOpsAssumption DEF Turn, Typed, TypeOK
  <2>3. pass' \in [at : {"idle", "planned"}, state : Files, steps : Seq(Steps), ticked : BOOLEAN]
        /\ pass'.steps \in Seq(Dues)
    BY <1>0, <1>5, <2>1
  <2>4. QED
    BY <1>0, <1>6, <2>2, <2>3 DEF Typed, TypeOK, exchange
<1>8. HoldsKnown' /\ GivenOnce' /\ MovingIsSettling'
  BY <1>6 DEF CloseInv, HoldsKnown, GivenOnce, MovingIsSettling, exchange
<1>9. PassKnows'
  <2>1. pass'.state = file /\ pass'.steps = steps
    BY <1>5
  <2>2. QED
    BY <1>4, <1>6, <2>1 DEF PassKnows, Sound
<1>10. PlanIsNew'
  <2> SUFFICES ASSUME NEW k \in DOMAIN steps, steps[k].do \in {"repair", "board"}
               PROVE  /\ Len(steps) = 1 /\ ~Given(orders[steps[k].hull], steps[k].do)
                      /\ steps[k].do = "board" => moving = None \/ moving.from # steps[k].hull
    <3>1. pass'.steps = steps /\ orders' = orders /\ moving' = moving
      BY <1>5, <1>6 DEF exchange
    <3>2. QED
      BY <3>1 DEF PlanIsNew, StillNew
  <2> DEFINE h == steps[k].hull
             v == steps[k].do
  <2>1. Len(steps) = 1 /\ h \in answering /\ v \notin PendingVerbs(h)
    BY <1>2, <1>4 DEF Sound
  <2> HIDE DEF h, v
  <2>2. ~Given(orders[h], v) /\ v \notin settling[h]
    BY <2>1 DEF PendingVerbs, Given, OwnOrder
  <2>3. v = "board" => moving = None \/ moving.from # h
    BY <2>2 DEF CloseInv, MovingIsSettling
  <2>4. QED
    BY <2>1, <2>2, <2>3 DEF h, v
<1>11. QED
  BY <1>7, <1>8, <1>9, <1>10 DEF CloseInv

\* What both ends of a pass leave: some of its steps filed, and the pass at rest.
LEMMA StepFiled ==
    ASSUME CloseInv, pass.at = "planned", NEW n \in 0..Len(pass.steps),
           orders' = AfterSteps(n).orders, pass' = Resting,
           file' \in Files, orphans' \in SUBSET Hulls, turns' \in 0..MaxTurns,
           AfterSteps(n).state.held \cup orphans \subseteq file'.held \cup orphans',
           UNCHANGED <<exchange, settling, line>>
    PROVE  CloseInv'
<1>1. AsFiled(AfterSteps(n), n)
  BY Filing
<1> DEFINE so == AfterSteps(n)
<1> HIDE DEF so
<1>2. so \in Filings /\ orders' = so.orders /\ so.orders \in OrderLists
  BY <1>1 DEF so, AsFiled, Filings
<1>3. Typed'
  <2>1. orders' \in [Hulls -> Seq(Orders)]
    BY <1>2, Widened
  <2>2. pass' \in [at : {"idle", "planned"}, state : Files, steps : Seq(Steps), ticked : BOOLEAN]
        /\ pass'.steps \in Seq(Dues)
    BY AtRest
  <2>3. QED
    BY <1>2, <2>1, <2>2 DEF CloseInv, Typed, TypeOK, exchange
<1>4. PassKnows' /\ PlanIsNew'
  BY AtRest DEF PassKnows, PlanIsNew
<1>5. Holding(so.orders) \subseteq file'.held \cup orphans'
  BY <1>1 DEF so, AsFiled
<1>6. HoldsKnown'
  BY <1>2, <1>5 DEF HoldsKnown, Holding, Given, OwnHold, OwnOrder
<1>7. \A h \in Hulls : Once(so.orders[h], "repair") /\ Once(so.orders[h], "board")
  BY <1>1 DEF so, AsFiled
<1>8. GivenOnce'
  BY <1>2, <1>7 DEF GivenOnce
<1>9. moving # None => ~Given(so.orders[moving.from], "board")
  BY <1>1 DEF so, AsFiled
<1>10. MovingIsSettling'
  BY <1>2, <1>9 DEF CloseInv, MovingIsSettling, exchange
<1>11. QED
  BY <1>3, <1>4, <1>6, <1>8, <1>10 DEF CloseInv

LEMMA StepFiles == CloseInv /\ FilesPass => CloseInv'
<1> SUFFICES ASSUME CloseInv, FilesPass PROVE CloseInv'
  OBVIOUS
<1> DEFINE n == Len(pass.steps)
           so == AfterSteps(n)
<1>1. n \in 0..n /\ Typed
  BY LenProperties DEF CloseInv, Typed
<1>2. /\ pass.at = "planned" /\ orders' = so.orders /\ file' = so.state
      /\ orphans' = orphans \ so.state.held
      /\ pass' = Resting /\ UNCHANGED <<exchange, settling, line>> /\ turns' = turns
  BY DEF FilesPass
<1>3. AsFiled(so, n)
  BY <1>1, <1>2, Filing
<1> HIDE DEF so, n
<1>4. file' \in Files /\ orphans' \in SUBSET Hulls /\ turns' \in 0..MaxTurns
  BY <1>1, <1>2, <1>3 DEF AsFiled, Filings, Typed, TypeOK
<1>5. so.state.held \cup orphans \subseteq file'.held \cup orphans'
  BY <1>2
<1>6. QED
  BY <1>1, <1>2, <1>4, <1>5, StepFiled DEF n, so

LEMMA StepDies == CloseInv /\ Dies => CloseInv'
<1> SUFFICES ASSUME CloseInv, Dies PROVE CloseInv'
  OBVIOUS
<1>1. PICK n \in 0..Len(pass.steps) :
         /\ orders' = AfterSteps(n).orders
         /\ orphans' = orphans \cup (AfterSteps(n).state.held \ pass.state.held)
  BY DEF Dies
<1> DEFINE so == AfterSteps(n)
<1>2. /\ pass.at = "planned" /\ file' = file /\ Turn
      /\ pass' = Resting /\ UNCHANGED <<exchange, settling, line>>
  BY DEF Dies
<1>3. AsFiled(so, n) /\ Typed /\ pass.state.held = file.held
  BY <1>2, Filing DEF CloseInv, PassKnows
<1> HIDE DEF so
<1>4. file' \in Files /\ turns' \in 0..MaxTurns
  BY <1>2, <1>3, CloseOpsAssumption DEF Typed, TypeOK, Turn
<1>5. orphans' \in SUBSET Hulls
  BY <1>1, <1>3 DEF so, AsFiled, Filings, Files, Typed, TypeOK
<1>6. so.state.held \cup orphans \subseteq file'.held \cup orphans'
  BY <1>1, <1>2, <1>3 DEF so
<1>7. QED
  BY <1>1, <1>2, <1>4, <1>5, <1>6, StepFiled DEF so

-----------------------------------------------------------------------------
(* Everyone else: lists shrink, but for what the captain orders.            *)

Kinds == {"hold", "repair", "board"}

\* No order of the supervisor's that was not there, and none twice that was there once.
Shrinks(old, new) ==
    \A verb \in Kinds : /\ Given(new, verb) => Given(old, verb)
                        /\ Once(old, verb) => Once(new, verb)

LEMMA SameShrinks == \A list : Shrinks(list, list)
BY DEF Shrinks

LEMMA DrawnShrinks == ASSUME NEW s, NEW t, DrawnFrom(t, s) PROVE Shrinks(s, t)
BY DrawnKeeps DEF Shrinks

\* One list shrinks, or none does.
ListsShrink(lists) == lists \in OrderLists /\ \A h \in Hulls : Shrinks(orders[h], lists[h])

LEMMA OneShrinks ==
    ASSUME Typed, NEW h \in Hulls, NEW list \in Seq(Words), Shrinks(orders[h], list)
    PROVE  ListsShrink([orders EXCEPT ![h] = list])
<1>1. orders \in OrderLists
  BY DEF Typed
<1>2. [orders EXCEPT ![h] = list] \in OrderLists
  BY <1>1 DEF OrderLists
<1>3. ASSUME NEW g \in Hulls PROVE Shrinks(orders[g], [orders EXCEPT ![h] = list][g])
  BY <1>1, SameShrinks DEF OrderLists
<1>4. QED
  BY <1>2, <1>3 DEF ListsShrink

LEMMA NoneShrinks == Typed => ListsShrink(orders)
BY SameShrinks DEF ListsShrink, Typed

\* What else a step of theirs keeps to: the file's holds, the pass and its plan; a ship
\* change begins with an order that leaves its list for good.
KeepsPass == /\ file'.held = file.held /\ orphans' = orphans
             /\ pass'.at = pass.at /\ pass'.state = pass.state /\ pass'.steps = pass.steps

MovesByOrder(lists) ==
    moving' # None => /\ moving'.from \in Hulls
                      /\ ~Given(lists[moving'.from], "board") /\ "board" \in settling'[moving'.from]
                      /\ moving' = moving \/ Given(orders[moving'.from], "board")

LEMMA Undisturbing ==
    ASSUME CloseInv, NEW lists, orders' = lists, ListsShrink(lists), KeepsPass, MovesByOrder(lists)
    PROVE  /\ HoldsKnown' /\ PassKnows' /\ GivenOnce' /\ MovingIsSettling' /\ PlanIsNew'
<1>0. Kinds = {"hold", "repair", "board"}
  BY DEF Kinds
<1>1. \A h \in Hulls : /\ Given(lists[h], "hold") => Given(orders[h], "hold")
                       /\ Given(lists[h], "repair") => Given(orders[h], "repair")
                       /\ Given(lists[h], "board") => Given(orders[h], "board")
                       /\ Once(orders[h], "repair") => Once(lists[h], "repair")
                       /\ Once(orders[h], "board") => Once(lists[h], "board")
  BY <1>0 DEF ListsShrink, Shrinks
<1>2. HoldsKnown'
  <2>1. \A h \in Hulls : Given(orders[h], "hold") => h \in file.held \cup orphans
    BY DEF CloseInv, HoldsKnown, Given, OwnHold, OwnOrder
  <2>2. \A h \in Hulls : Given(lists[h], "hold") => h \in file'.held \cup orphans'
    BY <1>1, <2>1 DEF KeepsPass
  <2>3. QED
    BY <2>2 DEF HoldsKnown, Given, OwnHold, OwnOrder
<1>3. PassKnows'
  BY DEF CloseInv, PassKnows, KeepsPass
<1>4. GivenOnce'
  BY <1>1 DEF CloseInv, GivenOnce
<1>5. MovingIsSettling'
  BY DEF MovesByOrder, MovingIsSettling
<1>6. PlanIsNew'
  <2> SUFFICES ASSUME pass.at = "planned", NEW k \in DOMAIN pass.steps,
                      pass.steps[k].do \in {"repair", "board"}
               PROVE  /\ Len(pass.steps) = 1
                      /\ ~Given(lists[pass.steps[k].hull], pass.steps[k].do)
                      /\ pass.steps[k].do = "board" => moving' = None \/ moving'.from # pass.steps[k].hull
    BY DEF PlanIsNew, StillNew, KeepsPass
  <2> DEFINE h == pass.steps[k].hull
             v == pass.steps[k].do
  <2>1. pass.steps[k] \in Dues
    BY LenProperties, ElementOfSeq DEF CloseInv, Typed
  <2>2. h \in Hulls
    BY <2>1 DEF Dues
  <2>3. /\ Len(pass.steps) = 1 /\ ~Given(orders[h], v)
        /\ v = "board" => moving = None \/ moving.from # h
    BY DEF CloseInv, PlanIsNew, StillNew
  <2> HIDE DEF h, v
  <2>4. v \in {"repair", "board"}
    BY DEF v
  <2>5. ~Given(lists[h], v)
    BY <1>1, <2>2, <2>3, <2>4
  <2>6. v = "board" => moving' = None \/ moving'.from # h
    BY <2>3 DEF MovesByOrder
  <2>7. QED
    BY <2>3, <2>5, <2>6 DEF h, v
<1>7. QED
  BY <1>2, <1>3, <1>4, <1>5, <1>6

\* A step that begins no ship change.
LEMMA NoNewMove ==
    ASSUME CloseInv, NEW lists, ListsShrink(lists), moving' \in {moving, None},
           moving # None => "board" \in settling'[moving.from]
    PROVE  MovesByOrder(lists)
<1>1. moving # None => moving.from \in Hulls
  BY DEF CloseInv, Typed, TypeOK
<1>2. moving # None => ~Given(orders[moving.from], "board")
  BY DEF CloseInv, MovingIsSettling
<1>3. \A h \in Hulls : Given(lists[h], "board") => Given(orders[h], "board")
  BY DEF ListsShrink, Shrinks, Kinds
<1>4. QED
  BY <1>1, <1>2, <1>3 DEF MovesByOrder

\* Typed is kept by what keeps the types of its parts.
LEMMA TypesKept ==
    ASSUME docked' \in [Hulls -> Stands], bound' \in [Hulls -> Stands],
           wear' \in [Hulls -> 0..MaxWear], aboard' \in Hulls,
           moving' \in [from : Hulls, to : Hulls] \cup {None}, repairing' \subseteq Hulls,
           orders' \in OrderLists, settling' \in [Hulls -> SUBSET {"board", "repair"}],
           line' \in [Hulls -> Papers], file' \in Files,
           pass' \in [at : {"idle", "planned"}, state : Files, steps : Seq(Steps), ticked : BOOLEAN],
           pass'.steps \in Seq(Dues), orphans' \subseteq Hulls, turns' \in 0..MaxTurns
    PROVE  Typed'
<1>1. orders' \in [Hulls -> Seq(Orders)]
  BY Widened
<1>2. QED
  BY <1>1 DEF Typed, TypeOK, Stands

LEMMA TypesHeld ==
    ASSUME CloseInv
    PROVE  /\ docked \in [Hulls -> Stands] /\ bound \in [Hulls -> Stands]
           /\ wear \in [Hulls -> 0..MaxWear] /\ aboard \in Hulls
           /\ moving \in [from : Hulls, to : Hulls] \cup {None} /\ repairing \subseteq Hulls
           /\ orders \in OrderLists /\ settling \in [Hulls -> SUBSET {"board", "repair"}]
           /\ line \in [Hulls -> Papers] /\ file \in Files
           /\ pass \in [at : {"idle", "planned"}, state : Files, steps : Seq(Steps), ticked : BOOLEAN]
           /\ pass.steps \in Seq(Dues) /\ orphans \subseteq Hulls /\ turns \in 0..MaxTurns
BY DEF CloseInv, Typed, TypeOK, Stands

\* The pass and the file untouched.
PassAside == UNCHANGED <<file, pass, orphans>>

\* A step about no list and no ship change.
LEMMA ListsAside ==
    ASSUME CloseInv, Typed', KeepsPass, orders' = orders,
           moving' \in {moving, None}, moving # None => "board" \in settling'[moving.from]
    PROVE  CloseInv'
<1>1. ListsShrink(orders)
  BY NoneShrinks DEF CloseInv
<1>2. MovesByOrder(orders)
  BY <1>1, NoNewMove
<1>3. QED
  BY <1>1, <1>2, Undisturbing DEF CloseInv

LEMMA StillSettling ==
    ASSUME CloseInv, settling' = settling PROVE moving # None => "board" \in settling'[moving.from]
BY DEF CloseInv, MovingIsSettling

\* One list changed, and nothing begun.
LEMMA OneListShrinks ==
    ASSUME CloseInv, Typed', KeepsPass, NEW h \in Hulls, NEW list \in Seq(Words),
           Shrinks(orders[h], list), orders' = [orders EXCEPT ![h] = list],
           moving' = moving, moving # None => "board" \in settling'[moving.from]
    PROVE  CloseInv'
<1>1. ListsShrink([orders EXCEPT ![h] = list])
  BY OneShrinks DEF CloseInv
<1>2. MovesByOrder([orders EXCEPT ![h] = list])
  BY <1>1, NoNewMove
<1>3. QED
  BY <1>1, <1>2, Undisturbing DEF CloseInv

-----------------------------------------------------------------------------
(* The captain.                                                             *)

LEMMA MoreTurns == ASSUME CloseInv, Turn PROVE turns' \in 0..MaxTurns
BY CloseOpsAssumption, TypesHeld DEF Turn

LEMMA StepSwitch == ASSUME CloseInv, NEW on \in BOOLEAN, Switch(on) PROVE CloseInv'
<1>1. /\ file' = [file EXCEPT !.on = on] /\ Turn
      /\ UNCHANGED <<exchange, orders, settling, line, pass, orphans>>
  BY DEF Switch
<1>2. file' \in Files /\ file'.held = file.held
  BY <1>1, TypesHeld DEF Files
<1>3. KeepsPass
  BY <1>1, <1>2 DEF KeepsPass
<1>4. Typed'
  BY <1>1, <1>2, TypesHeld, TypesKept, MoreTurns DEF exchange
<1>5. QED
  BY <1>1, <1>3, <1>4, ListsAside, StillSettling DEF exchange

LEMMA StepGives ==
    ASSUME CloseInv, NEW h \in Hulls, NEW word \in HandWords, GivesOrder(h, word) PROVE CloseInv'
<1> DEFINE o == NewOrder(word.verb, word.to, "captain")
           list == Placed(orders[h], o)
<1>1. /\ orders' = [orders EXCEPT ![h] = list] /\ Turn
      /\ UNCHANGED <<exchange, settling, line, file, pass, orphans>>
  BY TypesHeld DEF GivesOrder, Places, OrderLists
<1>2. o \in Words /\ \A verb : ~OwnOrder(o, verb)
  BY CloseOpsAssumption DEF Words, Orders, NewOrder, IsCourse, OwnOrder
<1>3. orders[h] \in Seq(Words) /\ orders \in OrderLists
  BY TypesHeld DEF OrderLists
<1> HIDE DEF o
<1>4. list \in Seq(Words) /\ Shrinks(orders[h], list)
  BY <1>2, <1>3, Placing DEF Shrinks
<1> HIDE DEF list
<1>5. orders' \in OrderLists
  BY <1>1, <1>3, <1>4 DEF OrderLists
<1>6. Typed'
  BY <1>1, <1>5, TypesHeld, TypesKept, MoreTurns DEF exchange
<1>7. KeepsPass
  BY <1>1 DEF KeepsPass
<1>8. QED
  BY <1>1, <1>4, <1>6, <1>7, OneListShrinks, StillSettling DEF exchange

LEMMA StepResumes == ASSUME CloseInv, NEW h \in Hulls, Resumes(h) PROVE CloseInv'
<1> DEFINE list == Resumed(orders[h])
<1>1. /\ orders' = [orders EXCEPT ![h] = list] /\ Turn
      /\ UNCHANGED <<exchange, settling, line, file, pass, orphans>>
  BY TypesHeld DEF Resumes, OrderLists
<1>3. orders[h] \in Seq(Words) /\ orders \in OrderLists
  BY TypesHeld DEF OrderLists
<1>4. list \in Seq(Words) /\ Shrinks(orders[h], list)
  BY <1>3, Resuming, DrawnShrinks
<1> HIDE DEF list
<1>5. orders' \in OrderLists
  BY <1>1, <1>3, <1>4 DEF OrderLists
<1>6. Typed'
  BY <1>1, <1>5, TypesHeld, TypesKept, MoreTurns DEF exchange
<1>7. KeepsPass
  BY <1>1 DEF KeepsPass
<1>8. QED
  BY <1>1, <1>4, <1>6, <1>7, OneListShrinks, StillSettling DEF exchange

LEMMA StepBoards == ASSUME CloseInv, NEW to \in Hulls, BoardsByHand(to) PROVE CloseInv'
<1>1. /\ aboard' = to /\ Turn
      /\ UNCHANGED <<docked, bound, wear, moving, repairing, orders, settling, line,
                     file, pass, orphans>>
  BY DEF BoardsByHand
<1>2. Typed'
  BY <1>1, TypesHeld, TypesKept, MoreTurns
<1>3. KeepsPass
  BY <1>1 DEF KeepsPass
<1>4. QED
  BY <1>1, <1>2, <1>3, ListsAside, StillSettling

-----------------------------------------------------------------------------
(* The pilots.                                                              *)

LEMMA LineKept == ASSUME CloseInv, NEW h \in Hulls, Chooses(h) PROVE line' \in [Hulls -> Papers]
<1>1. line \in [Hulls -> Papers] /\ PapersFor(h) \in Papers \cup {None}
  BY TypesHeld DEF PapersFor, Papers
<1>2. QED
  BY <1>1 DEF Chooses

\* The pilot's papers and the rest of the state, apart from what it does.
FoldAside == line' \in [Hulls -> Papers] /\ UNCHANGED <<file, pass, orphans, turns>>

\* What leaving a berth leaves of the types.
LEMMA DepartTypes ==
    ASSUME CloseInv, NEW h \in Hulls, NEW to \in Stands, Departs(h, to)
    PROVE  /\ docked' \in [Hulls -> Stands] /\ bound' \in [Hulls -> Stands]
           /\ UNCHANGED <<wear, aboard, moving, repairing>>
BY TypesHeld DEF Departs, Stands

LEMMA FoldNothing ==
    ASSUME CloseInv, FoldAside, UNCHANGED <<exchange, orders, settling>> PROVE CloseInv'
<1>1. Typed'
  BY TypesHeld, TypesKept DEF FoldAside, exchange
<1>2. KeepsPass
  BY DEF KeepsPass, FoldAside
<1>3. QED
  BY <1>1, <1>2, ListsAside, StillSettling DEF exchange

LEMMA FoldFlies ==
    ASSUME CloseInv, NEW h \in Hulls, FoldAside, FliesToHold(h) PROVE CloseInv'
<1>1. PICK to \in HoldElsewhere(h) : Departs(h, to)
  BY DEF FliesToHold
<1>2. to \in Stands
  <2>1. PICK k \in DOMAIN orders[h] : to = orders[h][k].to /\ orders[h][k].verb = "hold"
    BY DEF HoldElsewhere, Courses
  <2>2. orders[h] \in Seq(Words)
    BY TypesHeld DEF OrderLists
  <2>3. orders[h][k] \in Words
    BY <2>2, LenProperties, ElementOfSeq
  <2>4. QED
    BY <2>1, <2>3 DEF Words, IsCourse, Stands
<1>3. UNCHANGED <<orders, settling>>
  BY DEF FliesToHold
<1>4. /\ docked' \in [Hulls -> Stands] /\ bound' \in [Hulls -> Stands]
      /\ UNCHANGED <<wear, aboard, moving, repairing>>
  BY <1>1, <1>2, DepartTypes
<1>5. Typed'
  BY <1>3, <1>4, TypesHeld, TypesKept DEF FoldAside
<1>6. KeepsPass
  BY DEF KeepsPass, FoldAside
<1>7. QED
  BY <1>3, <1>4, <1>5, <1>6, ListsAside, StillSettling

LEMMA FoldDoctrine ==
    ASSUME CloseInv, NEW h \in Hulls, FoldAside, Doctrine(h) PROVE CloseInv'
<1>1. UNCHANGED <<orders, settling>>
  BY DEF Doctrine
<1>2. KeepsPass
  BY DEF KeepsPass, FoldAside
<1>3. CASE \E to \in Berths \ {docked[h]} : Departs(h, to)
  <2>1. PICK to \in Berths : Departs(h, to)
    BY <1>3
  <2>2. to \in Stands
    BY DEF Stands
  <2>3. /\ docked' \in [Hulls -> Stands] /\ bound' \in [Hulls -> Stands]
        /\ UNCHANGED <<wear, aboard, moving, repairing>>
    BY <2>1, <2>2, DepartTypes
  <2>4. Typed'
    BY <1>1, <2>3, TypesHeld, TypesKept DEF FoldAside
  <2>5. QED
    BY <1>1, <1>2, <2>3, <2>4, ListsAside, StillSettling
<1>4. CASE repairing' = repairing \cup {h} /\ UNCHANGED <<docked, bound, wear, aboard, moving>>
  <2>1. Typed'
    BY <1>1, <1>4, TypesHeld, TypesKept DEF FoldAside
  <2>2. QED
    BY <1>1, <1>2, <1>4, <2>1, ListsAside, StillSettling
<1>5. QED
  BY <1>3, <1>4 DEF Doctrine

\* The first order that is ready, and what becomes of the list without it.
LEMMA FirstReady ==
    ASSUME CloseInv, NEW h \in Hulls, Ready(h) # {}
    PROVE  /\ Min(Ready(h)) \in 1..Len(orders[h]) /\ orders[h][Min(Ready(h))] \in Words
           /\ orders[h] \in Seq(Words)
<1>1. orders[h] \in Seq(Words)
  BY TypesHeld DEF OrderLists
<1>2. Ready(h) \in SUBSET (1..Len(orders[h])) /\ Len(orders[h]) \in Nat
  BY <1>1, LenProperties DEF Ready
<1>3. Min(Ready(h)) \in Ready(h)
  BY <1>2, LeastOf
<1>4. QED
  BY <1>1, <1>2, <1>3, ElementOfSeq

\* An order that leaves its list, of whatever kind, when no ship change begins.
LEMMA FoldLeaves ==
    ASSUME CloseInv, NEW h \in Hulls, FoldAside, NEW k \in 1..Len(orders[h]), Leaves(h, k),
           docked' \in [Hulls -> Stands], bound' \in [Hulls -> Stands],
           repairing' \subseteq Hulls, UNCHANGED <<wear, aboard, moving>>,
           settling' \in [Hulls -> SUBSET {"board", "repair"}],
           \A g \in Hulls : settling[g] \subseteq settling'[g]
    PROVE  CloseInv'
<1> DEFINE list == RemoveAt(orders[h], k)
<1>1. orders \in OrderLists /\ orders[h] \in Seq(Words)
  BY TypesHeld DEF OrderLists
<1>2. list \in Seq(Words) /\ Shrinks(orders[h], list)
  BY <1>1, Leaving, DrawnShrinks
<1>3. orders' = [orders EXCEPT ![h] = list]
  BY <1>1 DEF Leaves, OrderLists
<1> HIDE DEF list
<1>4. orders' \in OrderLists
  BY <1>1, <1>2, <1>3 DEF OrderLists
<1>5. Typed'
  BY <1>4, TypesHeld, TypesKept DEF FoldAside
<1>6. KeepsPass
  BY DEF KeepsPass, FoldAside
<1>7. moving # None => "board" \in settling'[moving.from]
  BY TypesHeld DEF CloseInv, MovingIsSettling
<1>8. QED
  BY <1>2, <1>3, <1>5, <1>6, <1>7, OneListShrinks

\* A boarding carried out: the order leaves, the ship change begins and is remembered.
LEMMA FoldBoards ==
    ASSUME CloseInv, NEW h \in Hulls, FoldAside, NEW k \in 1..Len(orders[h]), Leaves(h, k),
           orders[h][k].verb = "board", moving' = [from |-> h, to |-> orders[h][k].to],
           settling' = [settling EXCEPT ![h] = @ \cup {"board"}],
           UNCHANGED <<docked, bound, wear, aboard, repairing>>
    PROVE  CloseInv'
<1> DEFINE list == RemoveAt(orders[h], k)
           o == orders[h][k]
<1>1. orders \in OrderLists /\ orders[h] \in Seq(Words)
  BY TypesHeld DEF OrderLists
<1>2. o \in Words /\ k \in DOMAIN orders[h]
  BY <1>1, ElementOfSeq, LenProperties
<1>3. o.to \in Hulls /\ OwnOrder(o, "board")
  BY <1>2 DEF Words, OwnOrder
<1>4. list \in Seq(Words) /\ Shrinks(orders[h], list)
  BY <1>1, Leaving, DrawnShrinks
<1>5. ~Given(list, "board")
  BY <1>1, <1>3, Leaving DEF CloseInv, GivenOnce
<1>6. orders' = [orders EXCEPT ![h] = list]
  BY <1>1 DEF Leaves, OrderLists
<1>7. Given(orders[h], "board")
  BY <1>2, <1>3 DEF Given
<1> HIDE DEF list, o
<1> DEFINE lists == [orders EXCEPT ![h] = list]
<1>8. orders' = lists /\ ListsShrink(lists) /\ lists[h] = list
  BY <1>1, <1>4, <1>6, OneShrinks DEF CloseInv, OrderLists
<1> HIDE DEF lists
<1>9. settling' \in [Hulls -> SUBSET {"board", "repair"}] /\ "board" \in settling'[h]
  BY TypesHeld
<1>10. moving' \in [from : Hulls, to : Hulls] /\ moving'.from = h
  BY <1>3 DEF o
<1>11. Typed'
  <2>1. orders' \in OrderLists
    BY <1>8 DEF ListsShrink
  <2>2. QED
    BY <1>9, <1>10, <2>1, TypesHeld, TypesKept DEF FoldAside
<1>12. KeepsPass
  BY DEF KeepsPass, FoldAside
<1>13. MovesByOrder(lists)
  BY <1>5, <1>7, <1>8, <1>9, <1>10 DEF MovesByOrder
<1>14. QED
  BY <1>8, <1>11, <1>12, <1>13, Undisturbing DEF CloseInv

\* A repair that finds no berth or the wrong papers waits.
LEMMA FoldWaits ==
    ASSUME CloseInv, NEW h \in Hulls, FoldAside, NEW k \in 1..Len(orders[h]), WaitsForGood(h, k),
           UNCHANGED <<exchange, settling>>
    PROVE  CloseInv'
<1> DEFINE list == [orders[h] EXCEPT ![k].waits = TRUE]
<1>1. orders \in OrderLists /\ orders[h] \in Seq(Words)
  BY TypesHeld DEF OrderLists
<1>2. list \in Seq(Words) /\ Shrinks(orders[h], list)
  BY <1>1, Marked, DrawnShrinks
<1>3. orders' = [orders EXCEPT ![h] = list]
  BY <1>1 DEF WaitsForGood, OrderLists
<1> HIDE DEF list
<1>4. orders' \in OrderLists
  BY <1>1, <1>2, <1>3 DEF OrderLists
<1>5. Typed'
  BY <1>4, TypesHeld, TypesKept DEF FoldAside, exchange
<1>6. KeepsPass
  BY DEF KeepsPass, FoldAside
<1>7. QED
  BY <1>2, <1>3, <1>5, <1>6, OneListShrinks, StillSettling DEF exchange

LEMMA FoldCarries ==
    ASSUME CloseInv, NEW h \in Hulls, FoldAside, CarriesOut(h) PROVE CloseInv'
<1> DEFINE k == Min(Ready(h))
           o == orders[h][k]
<1>1. k \in 1..Len(orders[h]) /\ o \in Words
  BY FirstReady DEF CarriesOut
<1>2. \/ /\ o.verb = "travel" /\ docked[h] # None /\ Leaves(h, k)
         /\ IF o.to = docked[h] THEN UNCHANGED exchange ELSE Departs(h, o.to)
         /\ UNCHANGED settling
      \/ /\ o.verb = "board" /\ CanBoard(h, o) /\ Leaves(h, k)
         /\ moving' = [from |-> h, to |-> o.to]
         /\ settling' = [settling EXCEPT ![h] = @ \cup {"board"}]
         /\ UNCHANGED <<docked, bound, wear, aboard, repairing>>
      \/ /\ o.verb = "repair" /\ PapersFor(h) = "captain" /\ Leaves(h, k)
         /\ repairing' = repairing \cup {h}
         /\ settling' = [settling EXCEPT ![h] = @ \cup {"repair"}]
         /\ UNCHANGED <<docked, bound, wear, aboard, moving>>
      \/ /\ o.verb = "repair" /\ WaitsForGood(h, k)
         /\ UNCHANGED <<exchange, settling>>
  BY DEF CarriesOut
<1> HIDE DEF k
<1>3. CASE /\ o.verb = "travel" /\ Leaves(h, k)
           /\ IF o.to = docked[h] THEN UNCHANGED exchange ELSE Departs(h, o.to)
           /\ UNCHANGED settling
  <2>1. o.to \in Stands
    BY <1>1, <1>3 DEF Words, IsCourse, Stands
  <2> HIDE DEF o
  <2>2. /\ docked' \in [Hulls -> Stands] /\ bound' \in [Hulls -> Stands]
        /\ UNCHANGED <<wear, aboard, moving, repairing>>
    <3>1. CASE o.to = docked[h]
      BY <1>3, <3>1, TypesHeld DEF exchange
    <3>2. CASE o.to # docked[h]
      BY <1>3, <2>1, <3>2, DepartTypes
    <3>3. QED
      BY <3>1, <3>2
  <2>3. QED
    BY <1>1, <1>3, <2>2, TypesHeld, FoldLeaves
<1>4. CASE /\ o.verb = "board" /\ Leaves(h, k)
           /\ moving' = [from |-> h, to |-> o.to]
           /\ settling' = [settling EXCEPT ![h] = @ \cup {"board"}]
           /\ UNCHANGED <<docked, bound, wear, aboard, repairing>>
  BY <1>1, <1>4, FoldBoards
<1>5. CASE /\ o.verb = "repair" /\ Leaves(h, k)
           /\ repairing' = repairing \cup {h}
           /\ settling' = [settling EXCEPT ![h] = @ \cup {"repair"}]
           /\ UNCHANGED <<docked, bound, wear, aboard, moving>>
  <2>1. /\ settling' \in [Hulls -> SUBSET {"board", "repair"}]
        /\ \A g \in Hulls : settling[g] \subseteq settling'[g]
    BY <1>5, TypesHeld
  <2>2. repairing' \subseteq Hulls /\ docked' \in [Hulls -> Stands] /\ bound' \in [Hulls -> Stands]
    BY <1>5, TypesHeld
  <2> HIDE DEF o
  <2>3. QED
    BY <1>1, <1>5, <2>1, <2>2, FoldLeaves
<1>6. CASE o.verb = "repair" /\ WaitsForGood(h, k) /\ UNCHANGED <<exchange, settling>>
  BY <1>1, <1>6, FoldWaits
<1>7. QED
  BY <1>2, <1>3, <1>4, <1>5, <1>6

LEMMA StepFold == ASSUME CloseInv, NEW h \in Hulls, Fold(h) PROVE CloseInv'
<1>1. FoldAside
  BY LineKept DEF Fold, FoldAside
<1>2. QED
  BY <1>1, FoldNothing, FoldFlies, FoldCarries, FoldDoctrine DEF Fold

-----------------------------------------------------------------------------
(* The exchange, and time.                                                  *)

LEMMA Ticking ==
    ASSUME CloseInv, Tick, UNCHANGED <<file, orphans>>
    PROVE  /\ KeepsPass /\ pass'.steps \in Seq(Dues)
           /\ pass' \in [at : {"idle", "planned"}, state : Files, steps : Seq(Steps), ticked : BOOLEAN]
BY TypesHeld DEF Tick, KeepsPass

LEMMA StepArrives == ASSUME CloseInv, NEW h \in Hulls, Arrives(h) PROVE CloseInv'
<1>1. PICK w \in {wear[h], wear[h] + 1} : w <= MaxWear /\ wear' = [wear EXCEPT ![h] = w]
  BY DEF Arrives
<1>2. /\ Tick /\ docked' = [docked EXCEPT ![h] = bound[h]] /\ bound' = [bound EXCEPT ![h] = None]
      /\ UNCHANGED <<aboard, moving, repairing, orders, settling, line, file, orphans, turns>>
  BY DEF Arrives
<1>3. wear' \in [Hulls -> 0..MaxWear]
  <2>1. wear[h] \in 0..MaxWear /\ MaxWear \in Nat
    BY TypesHeld, CloseOpsAssumption
  <2>2. w \in 0..MaxWear
    BY <1>1, <2>1
  <2>3. QED
    BY <1>1, <2>2, TypesHeld
<1>4. docked' \in [Hulls -> Stands] /\ bound' \in [Hulls -> Stands]
  BY <1>2, TypesHeld DEF Stands
<1>5. Typed'
  BY <1>2, <1>3, <1>4, Ticking, TypesHeld, TypesKept
<1>6. QED
  BY <1>2, <1>5, Ticking, ListsAside, StillSettling

LEMMA StepShip == ASSUME CloseInv, ShipChanges PROVE CloseInv'
<1>1. /\ Tick /\ moving # None /\ moving' = None
      /\ aboard' = aboard \/ aboard' = moving.to
      /\ UNCHANGED <<docked, bound, wear, repairing, orders, settling, line, file, orphans, turns>>
  BY DEF ShipChanges
<1>2. aboard' \in Hulls
  BY <1>1, TypesHeld
<1>3. Typed'
  BY <1>1, <1>2, Ticking, TypesHeld, TypesKept
<1>4. QED
  BY <1>1, <1>3, Ticking, ListsAside, StillSettling

LEMMA StepRepaired == ASSUME CloseInv, NEW h \in Hulls, Repaired(h) PROVE CloseInv'
<1>1. /\ Tick /\ repairing' = repairing \ {h}
      /\ wear' = IF docked[h] # None THEN [wear EXCEPT ![h] = 0] ELSE wear
      /\ UNCHANGED <<docked, bound, aboard, moving, orders, settling, line, file, orphans, turns>>
  BY DEF Repaired
<1>2. wear' \in [Hulls -> 0..MaxWear] /\ repairing' \subseteq Hulls
  BY <1>1, TypesHeld, CloseOpsAssumption
<1>3. Typed'
  BY <1>1, <1>2, Ticking, TypesHeld, TypesKept
<1>4. QED
  BY <1>1, <1>3, Ticking, ListsAside, StillSettling

\* What was done lately is forgotten once the hull is done with it, so never while its ship
\* change is under way.
LEMMA StepSettles == ASSUME CloseInv, NEW h \in Hulls, Settles(h) PROVE CloseInv'
<1>1. /\ ~Busy(h) /\ settling' = [settling EXCEPT ![h] = {}]
      /\ UNCHANGED <<exchange, orders, line, file, pass, orphans, turns>>
  BY DEF Settles
<1>2. settling' \in [Hulls -> SUBSET {"board", "repair"}]
  BY <1>1, TypesHeld
<1>3. moving # None => moving.from # h
  BY <1>1 DEF Busy
<1>4. moving # None => "board" \in settling'[moving.from]
  BY <1>1, <1>3, TypesHeld DEF CloseInv, MovingIsSettling
<1>5. Typed'
  BY <1>1, <1>2, TypesHeld, TypesKept DEF exchange
<1>6. KeepsPass
  BY <1>1 DEF KeepsPass
<1>7. QED
  BY <1>1, <1>4, <1>5, <1>6, ListsAside DEF exchange

-----------------------------------------------------------------------------

LEMMA StepClose == CloseInv /\ [Next]_vars => CloseInv'
<1> SUFFICES ASSUME CloseInv, [Next]_vars PROVE CloseInv'
  OBVIOUS
<1>1. CASE Supervisor
  BY <1>1, StepBegin, StepFiles DEF Supervisor
<1>2. CASE Dies
  BY <1>2, StepDies
<1>3. CASE Captain
  BY <1>3, StepSwitch, StepResumes, StepBoards, StepGives DEF Captain
<1>4. CASE ShipChanges
  BY <1>4, StepShip
<1>5. ASSUME NEW h \in Hulls, Fold(h) \/ World(h) PROVE CloseInv'
  BY <1>5, StepFold, StepArrives, StepRepaired, StepSettles DEF World
<1>6. CASE UNCHANGED vars
  <2>1. FoldAside /\ UNCHANGED <<exchange, orders, settling>>
    BY <1>6, TypesHeld DEF vars, exchange, FoldAside
  <2>2. QED
    BY <2>1, FoldNothing
<1>7. QED
  BY <1>1, <1>2, <1>3, <1>4, <1>5, <1>6 DEF Next

\* At every step of every behaviour.
THEOREM CloseInvariance == Spec => []CloseInv
BY InitClose, StepClose, PTL DEF Spec

\* The exchange, the lists, the journals, the file and the pass keep their types, whatever
\* is planned from readings that are late or missing: no step without the hull it is for, and
\* no meeting anywhere but at a berth.
THEOREM TypeCorrect == Spec => []TypeOK
<1>1. CloseInv => TypeOK
  BY DEF CloseInv, Typed
<1>2. QED
  BY <1>1, CloseInvariance, PTL

\* A hull under a hold of the supervisor's is in its file, or the supervisor died between
\* the hold and the file: nobody waits for a meeting that nobody will end (close_ops.rs).
THEOREM NobodyLeftWaiting == Spec => []HoldsKnown
<1>1. CloseInv => HoldsKnown
  BY DEF CloseInv
<1>2. QED
  BY <1>1, CloseInvariance, PTL

\* What is on a list once is counted once.
LEMMA CountOnce ==
    ASSUME Typed, NEW h \in Hulls, NEW verb, Once(orders[h], verb)
    PROVE  /\ OwnCount(h, verb) \in {0, 1}
           /\ ~Given(orders[h], verb) => OwnCount(h, verb) = 0
<1> DEFINE K == {k \in DOMAIN orders[h] : orders[h][k].verb = verb /\ orders[h][k].by = "closeops"}
<1>1. OwnCount(h, verb) = Cardinality(K)
  BY DEF OwnCount
<1>2. \A j, k \in K : j = k
  BY DEF Once, OwnOrder
<1>3. K # {} <=> Given(orders[h], verb)
  BY DEF Given, OwnOrder
<1> HIDE DEF K
<1>4. CASE K = {}
  BY <1>1, <1>4, FS_EmptySet
<1>5. CASE K # {}
  <2>1. PICK k : K = {k}
    BY <1>2, <1>5
  <2>2. QED
    BY <1>1, <1>3, <1>5, <2>1, FS_Singleton
<1>6. QED
  BY <1>3, <1>4, <1>5

\* Wherever the captain stands one boarding at most is ordered or under way, and a hull has
\* one repair ordered at most, however late the pass's readings and however often it is cut
\* short (close_ops.rs, SETTLE_SECS).
THEOREM NoWordTwice == Spec => []OneOfEach
<1>1. CloseInv => OneOfEach
  <2> SUFFICES ASSUME CloseInv PROVE OneOfEach
    OBVIOUS
  <2>1. Typed /\ aboard \in Hulls
    BY TypesHeld DEF CloseInv
  <2>2. \A h \in Hulls : OwnCount(h, "repair") \in {0, 1} /\ OwnCount(h, "board") \in {0, 1}
    BY <2>1, CountOnce DEF CloseInv, GivenOnce
  <2>3. OneRepair
    BY <2>2 DEF OneRepair
  <2>4. moving # None /\ moving.from = aboard => OwnCount(aboard, "board") = 0
    BY <2>1, CountOnce DEF CloseInv, GivenOnce, MovingIsSettling
  <2>5. OneBoarding
    BY <2>1, <2>2, <2>4 DEF OneBoarding
  <2>6. QED
    BY <2>3, <2>5 DEF OneOfEach
<1>2. QED
  BY <1>1, CloseInvariance, PTL

=============================================================================
