---------------------------- MODULE Papers_proofs ----------------------------
(***************************************************************************)
(* For any hulls, keys and desks, and however commands overlap, keys go    *)
(* off the books, answers are lost and the captain changes ship: a fold    *)
(* files for its own hull within its papers, and what is signed and stored *)
(* is carried, unless signings overlap.                                    *)
(***************************************************************************)
EXTENDS Papers, SequencesExt, FiniteSetsExt, SequenceTheorems, FiniteSetTheorems,
        WellFoundedInduction, TLAPS

-----------------------------------------------------------------------------
(* Lists: what a filter keeps, and a set laid out as one.                   *)

\* A set of naturals has a least member, and so a set that is climbed holds every one of
\* them: the induction the recursion of Only is read by.
LEMMA Least == ASSUME NEW T \in SUBSET Nat, T # {} PROVE \E n \in T : \A m \in T : n <= m
<1> DEFINE R == OpToRel(<, Nat)
<1>1. IsWellFoundedOn(R, Nat)
  BY NatLessThanWellFounded DEF OpToRel
<1>2. \A a, b \in Nat : <<a, b>> \in R <=> a < b
  BY DEF OpToRel
<1> HIDE DEF R
<1>3. PICK n \in T : \A m \in T : ~(<<m, n>> \in R)
  BY <1>1, WFMin
<1>4. \A m \in T : ~(m < n)
  BY <1>2, <1>3
<1>5. QED
  BY <1>4

LEMMA Climb ==
    ASSUME NEW G, 0 \in G, \A n \in Nat : n \in G => n + 1 \in G
    PROVE  \A n \in Nat : n \in G
<1> DEFINE T == {n \in Nat : n \notin G}
<1>1. CASE T = {}
  BY <1>1
<1>2. CASE T # {}
  <2>1. PICK n \in T : \A m \in T : n <= m
    BY <1>2, Least
  <2>2. n # 0 /\ n - 1 \in Nat /\ ~(n <= n - 1)
    BY <2>1
  <2>3. n - 1 \in G
    BY <2>1, <2>2
  <2>4. QED
    BY <2>2, <2>3
<1>3. QED
  BY <1>1, <1>2

\* What a list with one more ranges over.
LEMMA RangeAppend ==
    ASSUME NEW A, NEW s \in Seq(A), NEW e \in A
    PROVE  Range(Append(s, e)) = Range(s) \cup {e}
<1> DEFINE n == Len(s)
<1>1. /\ n \in Nat /\ DOMAIN s = 1..n /\ DOMAIN Append(s, e) = 1..(n + 1)
      /\ \A k \in 1..n : Append(s, e)[k] = s[k]
      /\ Append(s, e)[n + 1] = e
  BY AppendProperties, LenProperties
<1> HIDE DEF n
<1>2. 1..(n + 1) = (1..n) \cup {n + 1}
  BY <1>1
<1>3. QED
  BY <1>1, <1>2 DEF Range

\* The recursion of Only has a solution.
LEMMA OnlyRecurs ==
    ASSUME NEW s, NEW S, NEW n \in Nat, Len(s) = n
    PROVE  \E kept : /\ Only(s, S) = kept[n] /\ kept[0] = << >>
                     /\ \A k \in 1..n : kept[k] = IF s[k] \in S THEN Append(kept[k - 1], s[k])
                                                 ELSE kept[k - 1]
<1> DEFINE Next1(f, k) == IF s[k] \in S THEN Append(f[k - 1], s[k]) ELSE f[k - 1]
           Body(f, m) == [k \in 0..m |-> IF k = 0 THEN << >> ELSE Next1(f, k)]
           G == {m \in Nat : \E f : f = Body(f, m)}
<1>1. 0 \in G
  <2> DEFINE f == [k \in 0..0 |-> << >>]
  <2>1. f = Body(f, 0)
    OBVIOUS
  <2>2. QED
    BY <2>1
<1>2. ASSUME NEW m \in Nat, m \in G PROVE m + 1 \in G
  <2>1. PICK f : f = Body(f, m)
    BY <1>2
  <2> DEFINE g == [k \in 0..(m + 1) |-> IF k <= m THEN f[k] ELSE Next1(f, k)]
  <2>2. ASSUME NEW k \in 0..m PROVE g[k] = f[k] /\ f[k] = IF k = 0 THEN << >> ELSE Next1(f, k)
    <3> HIDE DEF Next1
    <3>1. k \in 0..(m + 1) /\ k <= m
      OBVIOUS
    <3>2. QED
      BY <2>1, <3>1
  <2>3. ASSUME NEW k \in 0..(m + 1) PROVE g[k] = IF k = 0 THEN << >> ELSE Next1(g, k)
    <3>1. k = 0 \/ k - 1 \in 0..m
      OBVIOUS
    <3>2. k # 0 => g[k - 1] = f[k - 1]
      BY <3>1, <2>2
    <3>3. k # 0 => Next1(g, k) = Next1(f, k)
      BY <3>2
    <3> HIDE DEF Next1
    <3>4. CASE k <= m
      BY <2>2, <3>3, <3>4
    <3>5. CASE k = m + 1
      BY <3>3, <3>5
    <3>6. QED
      BY <3>4, <3>5
  <2> HIDE DEF Next1
  <2>4. g = Body(g, m + 1)
    BY <2>3
  <2> HIDE DEF g
  <2>5. QED
    BY <2>4
<1>3. n \in G
  <2> HIDE DEF G
  <2>1. QED
    BY <1>1, <1>2, Climb
<1> DEFINE kept == CHOOSE f : f = Body(f, n)
<1>4. kept = Body(kept, n)
  BY <1>3
<1>5. Only(s, S) = kept[n]
  BY DEF Only
<1>6. kept[0] = << >> /\ \A k \in 1..n : kept[k] = Next1(kept, k)
  <2> HIDE DEF Next1, kept
  <2>1. QED
    BY <1>4
<1> HIDE DEF kept
<1>7. QED
  BY <1>5, <1>6

\* What Only keeps of a list, and that it is a list.
LEMMA OnlyKeeps ==
    ASSUME NEW A, NEW s \in Seq(A), NEW S
    PROVE  Only(s, S) \in Seq(A) /\ Range(Only(s, S)) = Range(s) \cap S
<1> DEFINE n == Len(s)
<1>1. n \in Nat /\ DOMAIN s = 1..n /\ \A k \in 1..n : s[k] \in A
  BY LenProperties, ElementOfSeq
<1> HIDE DEF n
<1>2. PICK kept : /\ Only(s, S) = kept[n] /\ kept[0] = << >>
                  /\ \A k \in 1..n : kept[k] = IF s[k] \in S THEN Append(kept[k - 1], s[k])
                                              ELSE kept[k - 1]
  <2>1. Len(s) = n
    BY DEF n
  <2>2. QED
    BY <1>1, <2>1, OnlyRecurs
<1> DEFINE G == {m \in Nat : m <= n => /\ kept[m] \in Seq(A)
                                      /\ Range(kept[m]) = {s[k] : k \in 1..m} \cap S}
<1>3. 0 \in G
  <2>1. << >> \in Seq(A) /\ Range(<< >>) = {}
    BY EmptySeq DEF Range
  <2>2. {s[k] : k \in 1..0} \cap S = {}
    OBVIOUS
  <2>3. QED
    BY <1>2, <2>1, <2>2
<1>4. ASSUME NEW m \in Nat, m \in G, m + 1 <= n PROVE m + 1 \in G
  <2>1. /\ kept[m] \in Seq(A) /\ Range(kept[m]) = {s[k] : k \in 1..m} \cap S
        /\ m + 1 \in 1..n /\ s[m + 1] \in A
    BY <1>1, <1>4
  <2>6. kept[m + 1] = IF s[m + 1] \in S THEN Append(kept[m], s[m + 1]) ELSE kept[m]
    BY <1>2, <2>1
  <2>2. {s[k] : k \in 1..(m + 1)} = {s[k] : k \in 1..m} \cup {s[m + 1]}
    <3>1. 1..(m + 1) = (1..m) \cup {m + 1}
      OBVIOUS
    <3>2. QED
      BY <3>1
  <2>3. Range(Append(kept[m], s[m + 1])) = Range(kept[m]) \cup {s[m + 1]}
    BY <2>1, RangeAppend
  <2>4. Append(kept[m], s[m + 1]) \in Seq(A)
    BY <2>1, AppendProperties
  <2>5. kept[m + 1] \in Seq(A) /\ Range(kept[m + 1]) = {s[k] : k \in 1..(m + 1)} \cap S
    BY <2>1, <2>2, <2>3, <2>4, <2>6
  <2>7. QED
    BY <2>5
<1>5. ASSUME NEW m \in Nat, m \in G PROVE m + 1 \in G
  <2>1. CASE m + 1 <= n
    BY <1>4, <1>5, <2>1
  <2>2. CASE ~(m + 1 <= n)
    BY <2>2
  <2>3. QED
    BY <2>1, <2>2
<1>6. n \in G
  <2> HIDE DEF G
  <2>1. QED
    BY <1>1, <1>3, <1>5, Climb
<1>7. Range(s) = {s[k] : k \in 1..n}
  BY <1>1 DEF Range
<1>8. QED
  BY <1>1, <1>2, <1>6, <1>7

\* What Only keeps comes from places of its own.
LEMMA OnlyPlaces ==
    ASSUME NEW A, NEW s \in Seq(A), NEW S
    PROVE  \E place : /\ \A i \in DOMAIN Only(s, S) : /\ place[i] \in DOMAIN s
                                                     /\ Only(s, S)[i] = s[place[i]]
                     /\ \A i, j \in DOMAIN Only(s, S) : place[i] = place[j] => i = j
<1> DEFINE n == Len(s)
<1>1. n \in Nat /\ DOMAIN s = 1..n /\ \A k \in 1..n : s[k] \in A
  BY LenProperties, ElementOfSeq
<1> HIDE DEF n
<1>2. PICK kept : /\ Only(s, S) = kept[n] /\ kept[0] = << >>
                  /\ \A k \in 1..n : kept[k] = IF s[k] \in S THEN Append(kept[k - 1], s[k])
                                              ELSE kept[k - 1]
  <2>1. Len(s) = n
    BY DEF n
  <2>2. QED
    BY <1>1, <2>1, OnlyRecurs
<1> DEFINE Drawn(t, m, place) ==
             /\ \A i \in DOMAIN t : place[i] \in 1..m /\ t[i] = s[place[i]]
             /\ \A i, j \in DOMAIN t : place[i] = place[j] => i = j
           G == {m \in Nat : m <= n => kept[m] \in Seq(A) /\ \E place : Drawn(kept[m], m, place)}
<1>3. 0 \in G
  <2>1. << >> \in Seq(A) /\ DOMAIN << >> = {}
    BY EmptySeq
  <2>2. Drawn(<< >>, 0, << >>)
    BY <2>1
  <2> HIDE DEF Drawn
  <2>3. QED
    BY <1>2, <2>1, <2>2
<1>4. ASSUME NEW m \in Nat, m \in G, m + 1 <= n PROVE m + 1 \in G
  <2> DEFINE t == kept[m]  e == s[m + 1]  l == Len(t)
  <2>1. /\ t \in Seq(A) /\ \E place : Drawn(t, m, place)
        /\ m + 1 \in 1..n /\ e \in A
    <3>1. m + 1 \in 1..n /\ m <= n
      BY <1>1, <1>4
    <3>2. s[m + 1] \in A
      BY <1>1, <3>1
    <3> HIDE DEF Drawn
    <3>3. kept[m] \in Seq(A) /\ \E place : Drawn(kept[m], m, place)
      BY <1>4, <3>1
    <3>4. QED
      BY <3>1, <3>2, <3>3
  <2>2. PICK place : Drawn(t, m, place)
    BY <2>1
  <2>3. kept[m + 1] = IF e \in S THEN Append(t, e) ELSE t
    BY <1>2, <2>1
  <2>4. CASE e \notin S
    <3>1. Drawn(t, m + 1, place)
      BY <2>2
    <3> HIDE DEF Drawn, t
    <3>2. QED
      BY <2>1, <2>3, <2>4, <3>1
  <2>5. CASE e \in S
    <3>1. /\ Append(t, e) \in Seq(A) /\ l \in Nat /\ DOMAIN t = 1..l
          /\ DOMAIN Append(t, e) = 1..(l + 1)
          /\ \A k \in 1..l : Append(t, e)[k] = t[k]
          /\ Append(t, e)[l + 1] = e
      BY <2>1, AppendProperties, LenProperties
    <3> DEFINE wider == [i \in 1..(l + 1) |-> IF i = l + 1 THEN m + 1 ELSE place[i]]
    <3> HIDE DEF t, l, e
    <3>2. \A i \in 1..l : i \in 1..(l + 1) /\ wider[i] = place[i] /\ place[i] \in 1..m
      BY <2>2, <3>1
    <3>3. wider[l + 1] = m + 1 /\ e = s[m + 1]
      BY <3>1 DEF e
    <3>4. 1..(l + 1) = (1..l) \cup {l + 1} /\ \A k \in 1..m : k \in 1..(m + 1) /\ k # m + 1
      BY <3>1
    <3> HIDE DEF wider
    <3>9. \A i \in 1..(l + 1) : wider[i] \in 1..(m + 1) /\ Append(t, e)[i] = s[wider[i]]
      <4>1. \A i \in 1..l : t[i] = s[place[i]]
        BY <2>2, <3>1
      <4>2. \A i \in 1..l : wider[i] \in 1..(m + 1) /\ Append(t, e)[i] = s[wider[i]]
        BY <3>1, <3>2, <3>4, <4>1
      <4>3. wider[l + 1] \in 1..(m + 1) /\ Append(t, e)[l + 1] = s[wider[l + 1]]
        BY <2>1, <3>1, <3>3
      <4>4. QED
        BY <3>4, <4>2, <4>3
    <3>10. \A i, j \in 1..(l + 1) : wider[i] = wider[j] => i = j
      <4>1. \A i, j \in 1..l : place[i] = place[j] => i = j
        BY <2>2, <3>1
      <4>2. \A i, j \in 1..l : wider[i] = wider[j] => i = j
        BY <3>2, <4>1
      <4>3. \A i \in 1..l : wider[i] # wider[l + 1]
        BY <3>2, <3>3, <3>4
      <4>4. QED
        BY <3>4, <4>2, <4>3
    <3>5. Drawn(Append(t, e), m + 1, wider)
      BY <3>1, <3>9, <3>10
    <3> HIDE DEF Drawn
    <3>6. kept[m + 1] = Append(t, e)
      BY <2>3, <2>5
    <3>7. kept[m + 1] \in Seq(A) /\ Drawn(kept[m + 1], m + 1, wider)
      BY <3>1, <3>5, <3>6
    <3>8. QED
      BY <2>1, <3>7
  <2>6. QED
    BY <2>4, <2>5
<1>5. ASSUME NEW m \in Nat, m \in G PROVE m + 1 \in G
  <2>1. CASE m + 1 <= n
    BY <1>4, <1>5, <2>1
  <2>2. CASE ~(m + 1 <= n)
    BY <2>2
  <2>3. QED
    BY <2>1, <2>2
<1>6. n \in G
  <2> HIDE DEF G
  <2>1. QED
    BY <1>1, <1>3, <1>5, Climb
<1>7. QED
  BY <1>1, <1>2, <1>6

\* A finite set laid out as a list has each of its members once.
LEMMA LaidOut ==
    ASSUME NEW S, IsFiniteSet(S)
    PROVE  /\ Cardinality(S) \in Nat
           /\ SetToSeq(S) \in [1..Cardinality(S) -> S]
           /\ \A i, j \in 1..Cardinality(S) : SetToSeq(S)[i] = SetToSeq(S)[j] => i = j
<1> DEFINE n == Cardinality(S)
<1>1. n \in Nat /\ ExistsBijection(1..n, S)
  BY FS_CardinalityType
<1> HIDE DEF n
<1>2. PICK f : f \in [1..n -> S] /\ IsInjective(f)
  BY <1>1 DEF ExistsBijection, Bijection, Injection
<1>3. SetToSeq(S) \in [1..n -> S] /\ IsInjective(SetToSeq(S))
  BY <1>2 DEF SetToSeq, n
<1>4. QED
  BY <1>1, <1>3 DEF IsInjective, n

-----------------------------------------------------------------------------
(* The inductive invariant.                                                 *)

\* A candidate that is what the pilot takes it for, if it takes it for anything.
Sound == {c \in Candidates : /\ c.captain = TRUE => c.key \in CaptainKeys
                             /\ c.captain = FALSE => c.key \in CoPilots}

PilotStates == [at : {"idle", "asking", "flying"}, asks : Seq(Sound), heard : Seq(Answers),
                flying : Keys \cup {None}, denied : BOOLEAN, moved : BOOLEAN]

DeskStates == [at : {"idle", "loaded", "gathered", "filed", "checked", "waiting", "minted", "stored"},
               copy : Seq(Papers), target : Hulls \cup {None}, replace : BOOLEAN,
               key : Keys \cup {None}, new : CoPilots \cup {None}, clean : BOOLEAN]

Typed ==
    /\ aboard \in Hulls /\ live \subseteq Keys /\ bound \in [CoPilots -> Hulls \cup {None}]
    /\ licence \in [Hulls -> {"none", "pending", "active", "refused"}]
    /\ copilot \in [Hulls -> CoPilots \cup {None}]
    /\ pilot \in [Piloted -> PilotStates] /\ desk \in [Desks -> DeskStates]
    /\ overlapped \in BOOLEAN /\ signedOver \in BOOLEAN

\* A live co-pilot is of a hull, and that hull holds a licence.
Licensed ==
    \A c \in CoPilots \cap live : bound[c] # None /\ licence[bound[c]] = "active"

\* A record, on file or on a desk: a key once, each as what it is, and minted.
OnceEach(r) == \A i, j \in DOMAIN r : r[i].key = r[j].key => i = j

AsItIs(r, minted) ==
    \A i \in DOMAIN r : /\ r[i].captain <=> r[i].key \in CaptainKeys
                        /\ r[i].key \in CoPilots => r[i].key \in minted

Recorded(r, minted) == r \in Seq(Papers) /\ OnceEach(r) /\ AsItIs(r, minted)

Minted == {c \in CoPilots : bound[c] # None}

\* A key that is taken for the captain's is one.
Known(p) ==
    /\ Len(p.heard) <= Len(p.asks)
    /\ \A i \in DOMAIN p.heard : p.heard[i].captain => p.asks[i].key \in CaptainKeys

\* What a key has answered for this fold it still answers for, if the captain has stayed.
Current(p) ==
    p.at = "asking" /\ ~p.moved =>
        \A i \in DOMAIN p.heard : p.heard[i].hull \in {None, AnswersFor(p.asks[i].key)}

\* The verbs are those of the papers it flies on, and the papers those of its hull.
Flies(h, p) ==
    /\ p.flying # None => p.flying \in CaptainKeys \/ p.denied
    /\ p.at = "flying" => /\ \E i \in DOMAIN p.asks : p.asks[i].key = p.flying
                          /\ p.moved \/ AnswersFor(p.flying) = h

PilotsKnow == \A h \in Piloted : Known(pilot[h]) /\ Current(pilot[h]) /\ Flies(h, pilot[h])

\* What a desk holds at its place in a signing.
AtDesk(s, minted) ==
    /\ Recorded(s.copy, minted)
    /\ s.at \in {"idle", "filed"} => s.copy = << >>
    /\ s.at \notin {"idle", "loaded", "gathered"} => s.target \in Hulls
    /\ Signing(s.at) => s.key \in CaptainKeys
    /\ s.at \in {"minted", "stored"} => s.new \in minted /\ ~Holds(s.copy, s.new)

DesksHold == \A d \in Desks : AtDesk(desk[d], Minted)

\* A signing nobody disturbs: the captain stays, no co-pilot is retired unasked, and the new
\* key is its hull's only one.
Undisturbed(s) ==
    /\ s.at \in {"checked", "waiting"} /\ s.clean => aboard = s.target
    /\ s.at = "waiting" /\ s.clean /\ ~s.replace => CoPilotsOf(s.target) = {}
    /\ s.at = "minted" => /\ bound[s.new] = s.target
                          /\ \A c \in signed \cap live : bound[c] # s.target

SignsApart ==
    /\ \A d, e \in Desks : Signing(desk[d].at) /\ Signing(desk[e].at) => d = e
    /\ \A d \in Desks : Undisturbed(desk[d])
    /\ ~signedOver
    /\ \A c \in signed \cap live : copilot[bound[c]] = c

PapersInv ==
    /\ Typed /\ Licensed /\ Recorded(record, Minted) /\ PilotsKnow /\ DesksHold
    /\ signed \subseteq Minted
    /\ overlapped \/ SignsApart

-----------------------------------------------------------------------------
(* What the exchange says of a key.                                         *)

\* A key names a captain's or a co-pilot, and answers for a hull once it was minted.
LEMMA KeyAnswers ==
    ASSUME Typed
    PROVE  /\ \A k \in Keys : AnswersFor(k) \in Hulls \cup {None}
           /\ \A k \in CaptainKeys : k \in Keys /\ k \notin CoPilots /\ AnswersFor(k) = aboard
           /\ \A c \in CoPilots : c \in Keys /\ c \notin CaptainKeys /\ AnswersFor(c) = bound[c]
           /\ \A h \in Hulls : Own[h] \in CaptainKeys
           /\ None \notin Hulls /\ None \notin Keys
BY PapersAssumption DEF Typed, Keys, CaptainKeys, AnswersFor

\* No key is bound to another hull than it was.
Bound == \A c \in Minted : bound'[c] = bound[c]

\* A captain who stays and keys that stay bound: what answered for a hull still does.
LEMMA StillAnswers ==
    ASSUME Typed, aboard' = aboard, Bound, NEW k \in Keys, AnswersFor(k) # None
    PROVE  AnswersFor(k)' = AnswersFor(k)
BY DEF Typed, Keys, AnswersFor, Bound, Minted

LEMMA MintedGrows == ASSUME Typed, Bound PROVE Minted \subseteq Minted'
BY PapersAssumption DEF Typed, Bound, Minted

-----------------------------------------------------------------------------
(* The captain's record.                                                    *)

LEMMA RecordedGrows ==
    ASSUME NEW r, NEW m, NEW n, m \subseteq n, Recorded(r, m)
    PROVE  Recorded(r, n)
BY DEF Recorded, AsItIs

LEMMA NothingRecorded == ASSUME NEW m PROVE Recorded(<< >>, m)
BY EmptySeq DEF Recorded, OnceEach, AsItIs

\* What is struck leaves a record.
LEMMA RecordedOnly ==
    ASSUME NEW r, NEW m, Recorded(r, m), NEW S
    PROVE  Recorded(Only(r, S), m)
<1> DEFINE t == Only(r, S)
<1>1. r \in Seq(Papers) /\ t \in Seq(Papers)
  BY OnlyKeeps DEF Recorded
<1>2. PICK place : /\ \A i \in DOMAIN t : place[i] \in DOMAIN r /\ t[i] = r[place[i]]
                   /\ \A i, j \in DOMAIN t : place[i] = place[j] => i = j
  BY <1>1, OnlyPlaces
<1> HIDE DEF t
<1>3. OnceEach(t)
  BY <1>2 DEF Recorded, OnceEach
<1>4. AsItIs(t, m)
  BY <1>2 DEF Recorded, AsItIs
<1>5. Recorded(t, m)
  BY <1>1, <1>3, <1>4 DEF Recorded
<1>6. QED
  BY <1>5 DEF t

\* A key that is not on a record yet joins it.
LEMMA RecordedAppend ==
    ASSUME NEW r, NEW m, Recorded(r, m), NEW p \in Papers, ~Holds(r, p.key),
           p.captain <=> p.key \in CaptainKeys, p.key \in CoPilots => p.key \in m
    PROVE  Recorded(Append(r, p), m)
<1> DEFINE n == Len(r)  t == Append(r, p)
<1>1. /\ n \in Nat /\ DOMAIN r = 1..n /\ t \in Seq(Papers) /\ DOMAIN t = 1..(n + 1)
      /\ \A k \in 1..n : t[k] = r[k]
      /\ t[n + 1] = p
  BY AppendProperties, LenProperties DEF Recorded
<1> HIDE DEF n, t
<1>2. 1..(n + 1) = (1..n) \cup {n + 1}
  BY <1>1
<1>3. \A k \in 1..n : t[k].key # p.key
  BY <1>1 DEF Holds
<1>4. OnceEach(t)
  BY <1>1, <1>2, <1>3 DEF Recorded, OnceEach
<1>5. AsItIs(t, m)
  BY <1>1, <1>2 DEF Recorded, AsItIs
<1>6. QED
  BY <1>1, <1>4, <1>5 DEF Recorded, t

\* The ship stores hold finitely many keys.
LEMMA StoredFinite == ASSUME NEW silent PROVE IsFiniteSet(Stored(silent))
<1> DEFINE own == [h \in Hulls |-> Own[h]]  second == [h \in Hulls |-> copilot[h]]
           A == {Own[h] : h \in Hulls}  B == {copilot[h] : h \in Hulls}
<1>1. own \in Surjection(Hulls, A) /\ second \in Surjection(Hulls, B)
  BY DEF Surjection
<1>2. IsFiniteSet(A) /\ IsFiniteSet(B)
  BY <1>1, FS_Surjection, PapersAssumption
<1>3. IsFiniteSet(A \cup B)
  BY <1>2, FS_Union
<1>4. Stored(silent) \in SUBSET (A \cup B)
  BY DEF Stored
<1> HIDE DEF A, B
<1>5. QED
  BY <1>3, <1>4, FS_Subset

\* Gathering adds what answers and is not on the record.
LEMMA RecordedGathered ==
    ASSUME Typed, Licensed, NEW r, Recorded(r, Minted), NEW silent
    PROVE  Recorded(Gathered(r, silent), Minted)
<1> DEFINE keys == {k \in Stored(silent) : ~Holds(r, k)}
           order == SetToSeq(keys)
           l == Cardinality(keys)
           Entry(k) == [key |-> k, captain |-> k \in CaptainKeys, hull |-> AnswersFor(k)]
           new == [i \in 1..l |-> Entry(order[i])]
           n == Len(r)
           t == r \o new
<1>1. IsFiniteSet(keys)
  <2>1. keys \in SUBSET Stored(silent)
    OBVIOUS
  <2>2. QED
    BY <2>1, StoredFinite, FS_Subset
<1>2. l \in Nat /\ order \in [1..l -> keys] /\ \A i, j \in 1..l : order[i] = order[j] => i = j
  <2> HIDE DEF keys
  <2>1. QED
    BY <1>1, LaidOut
<1>3. ASSUME NEW k \in keys
      PROVE  /\ Entry(k) \in Papers /\ Entry(k).key = k /\ ~Holds(r, k)
             /\ Entry(k).captain <=> k \in CaptainKeys
             /\ k \in CoPilots => k \in Minted
  <2>1. k \in live /\ k # None /\ ~Holds(r, k) /\ k \in Keys
    BY <1>3 DEF Stored, Typed
  <2>2. k \in CoPilots => k \in Minted
    BY <2>1 DEF Licensed, Minted
  <2>3. AnswersFor(k) \in Hulls
    BY <2>1, <2>2 DEF Typed, Keys, AnswersFor, Minted
  <2>4. (k \in CaptainKeys) \in BOOLEAN
    OBVIOUS
  <2>5. Entry(k) \in Papers
    BY <2>1, <2>3, <2>4 DEF Papers
  <2>6. Entry(k).key = k /\ (Entry(k).captain <=> k \in CaptainKeys)
    OBVIOUS
  <2>7. QED
    BY <2>1, <2>2, <2>5, <2>6
<1> HIDE DEF keys, order, l, Entry
<1>4. /\ new \in Seq(Papers) /\ Len(new) = l /\ \A i \in 1..l : new[i] = Entry(order[i])
  <2>1. new \in [1..l -> Papers]
    BY <1>2, <1>3
  <2>2. new \in Seq(Papers)
    BY <1>2, <2>1, SeqDef
  <2>3. DOMAIN new = 1..l
    OBVIOUS
  <2>4. Len(new) = l
    BY <1>2, <2>1, <2>2, <2>3, LenProperties
  <2>5. QED
    BY <2>2, <2>4
<1> HIDE DEF new
<1>5. /\ t \in Seq(Papers) /\ n \in Nat /\ DOMAIN t = 1..(n + l) /\ DOMAIN r = 1..n
      /\ \A i \in 1..n : t[i] = r[i]
      /\ \A i \in 1..(n + l) : i \notin 1..n => i - n \in 1..l /\ t[i] = Entry(order[i - n])
  <2>0. r \in Seq(Papers) /\ n \in Nat /\ DOMAIN r = 1..n
    BY LenProperties DEF Recorded
  <2>1. /\ t \in Seq(Papers) /\ Len(t) = n + l
        /\ \A i \in 1..(n + l) : t[i] = IF i <= n THEN r[i] ELSE new[i - n]
    BY <1>2, <1>4, <2>0, ConcatProperties
  <2>2. DOMAIN t = 1..(n + l)
    BY <2>1, LenProperties
  <2> HIDE DEF t, n
  <2>3. QED
    BY <1>2, <1>4, <2>0, <2>1, <2>2
<1> HIDE DEF t, n
<1>6. OnceEach(t)
  <2> SUFFICES ASSUME NEW i \in 1..(n + l), NEW j \in 1..(n + l), t[i].key = t[j].key PROVE i = j
    BY <1>5 DEF OnceEach
  <2>1. CASE i \in 1..n /\ j \in 1..n
    BY <1>5, <2>1 DEF Recorded, OnceEach
  <2>2. CASE i \notin 1..n /\ j \notin 1..n
    <3>1. order[i - n] = order[j - n] /\ i - n \in 1..l /\ j - n \in 1..l
      BY <1>2, <1>3, <1>5, <2>2
    <3>2. i - n = j - n
      BY <1>2, <3>1
    <3>3. QED
      BY <1>2, <1>5, <3>2
  <2>3. ASSUME NEW a \in 1..n, NEW b \in 1..(n + l), b \notin 1..n PROVE t[a].key # t[b].key
    <3>1. order[b - n] \in keys /\ t[b].key = order[b - n]
      BY <1>2, <1>3, <1>5, <2>3
    <3>2. ~Holds(r, order[b - n])
      BY <1>3, <3>1
    <3>3. QED
      BY <1>5, <3>1, <3>2 DEF Holds
  <2>4. QED
    BY <2>1, <2>2, <2>3
<1>7. AsItIs(t, Minted)
  <2> SUFFICES ASSUME NEW i \in 1..(n + l)
               PROVE  /\ t[i].captain <=> t[i].key \in CaptainKeys
                      /\ t[i].key \in CoPilots => t[i].key \in Minted
    BY <1>5 DEF AsItIs
  <2>1. CASE i \in 1..n
    BY <1>5, <2>1 DEF Recorded, AsItIs
  <2>2. CASE i \notin 1..n
    <3>1. order[i - n] \in keys /\ t[i] = Entry(order[i - n])
      BY <1>2, <1>5, <2>2
    <3>2. QED
      BY <1>3, <3>1
  <2>3. QED
    BY <2>1, <2>2
<1>8. Gathered(r, silent) = t
  BY DEF Gathered, Entered, keys, order, l, Entry, new, t
<1>9. QED
  BY <1>5, <1>6, <1>7, <1>8 DEF Recorded

-----------------------------------------------------------------------------
(* The keys a pilot asks.                                                   *)

LEMMA One == ASSUME NEW A, NEW e \in A PROVE <<e>> \in Seq(A) /\ Len(<<e>>) = 1 /\ <<e>>[1] = e
OBVIOUS

\* Each candidate is what the pilot takes it for, and the hull's co-pilot is among them.
LEMMA CandidatesSound ==
    ASSUME Typed, Recorded(record, Minted), NEW h \in Hulls
    PROVE  /\ CandidatePapers(h) \in Seq(Sound)
           /\ copilot[h] # None =>
                 \E i \in DOMAIN CandidatePapers(h) : CandidatePapers(h)[i].key = copilot[h]
<1> DEFINE own == [key |-> Own[h], captain |-> None]
           others == Only(record, {p \in Range(record) : p.key # Own[h]})
           filed == [i \in DOMAIN others |-> [key |-> others[i].key, captain |-> others[i].captain]]
           second == [key |-> copilot[h], captain |-> FALSE]
           last == IF copilot[h] = None \/ Holds(others, copilot[h]) THEN << >> ELSE <<second>>
           n == Len(others)
<1>1. own \in Sound
  <2>1. own \in Candidates
    BY KeyAnswers DEF Candidates
  <2>2. own.captain # TRUE /\ own.captain # FALSE
    BY PapersAssumption
  <2>3. QED
    BY <2>1, <2>2 DEF Sound
<1>2. Recorded(others, Minted)
  BY RecordedOnly
<1>3. n \in Nat /\ DOMAIN others = 1..n /\ \A i \in 1..n : others[i] \in Papers
  BY <1>2, LenProperties, ElementOfSeq DEF Recorded
<1> HIDE DEF others, n, own
<1>4. ASSUME NEW i \in 1..n PROVE filed[i] \in Sound /\ filed[i].key = others[i].key
  <2> DEFINE q == others[i]  e == [key |-> q.key, captain |-> q.captain]
  <2>1. q.key \in Keys /\ q.captain \in BOOLEAN
    BY <1>3 DEF Papers
  <2>2. q.captain <=> q.key \in CaptainKeys
    BY <1>2, <1>3 DEF Recorded, AsItIs
  <2>3. filed[i] = e
    BY <1>3
  <2> HIDE DEF q
  <2>4. e \in Candidates
    BY <2>1 DEF Candidates
  <2>5. e.captain = TRUE => e.key \in CaptainKeys
    BY <2>2
  <2>6. e.captain = FALSE => e.key \in CoPilots
    BY <2>1, <2>2 DEF Keys
  <2>7. e \in Sound
    BY <2>4, <2>5, <2>6 DEF Sound
  <2>8. QED
    BY <2>3, <2>7 DEF q
<1>5. filed \in Seq(Sound) /\ Len(filed) = n
  <2>1. filed \in [1..n -> Sound]
    BY <1>3, <1>4
  <2>2. filed \in Seq(Sound)
    BY <1>3, <2>1, SeqDef
  <2>3. DOMAIN filed = 1..n
    BY <1>3
  <2>4. QED
    BY <1>3, <2>2, <2>3, LenProperties
<1>6. last \in Seq(Sound) /\ (copilot[h] # None /\ ~Holds(others, copilot[h]) =>
                                 Len(last) = 1 /\ last[1].key = copilot[h])
  <2>1. CASE copilot[h] = None \/ Holds(others, copilot[h])
    BY <2>1, EmptySeq
  <2>2. CASE copilot[h] # None /\ ~Holds(others, copilot[h])
    <3>1. copilot[h] \in CoPilots
      BY <2>2 DEF Typed
    <3>2. second \in Candidates
      BY <3>1 DEF Candidates, Keys
    <3>3. second \in Sound /\ second.key = copilot[h]
      BY <3>1, <3>2 DEF Sound
    <3> HIDE DEF second
    <3>4. QED
      BY <2>2, <3>3, One
  <2>3. QED
    BY <2>1, <2>2
<1> DEFINE head == <<own>> \o filed  all == head \o last
<1>7. head \in Seq(Sound) /\ Len(head) = n + 1 /\ \A i \in 1..n : head[i + 1] = filed[i]
  <2>1. /\ head \in Seq(Sound) /\ Len(head) = Len(<<own>>) + Len(filed)
        /\ \A i \in 1..(Len(<<own>>) + Len(filed)) :
              head[i] = IF i <= Len(<<own>>) THEN <<own>>[i] ELSE filed[i - Len(<<own>>)]
    BY <1>1, <1>5, One, ConcatProperties
  <2> HIDE DEF head, filed
  <2>2. Len(<<own>>) = 1
    OBVIOUS
  <2>3. \A i \in 1..n : i + 1 \in 1..(1 + n) /\ ~(i + 1 <= 1) /\ (i + 1) - 1 = i
    BY <1>3
  <2>4. QED
    BY <1>3, <1>5, <2>1, <2>2, <2>3
<1> HIDE DEF last, filed, head
<1>8. /\ all \in Seq(Sound) /\ Len(all) = n + 1 + Len(last)
      /\ \A i \in 1..(n + 1 + Len(last)) : all[i] = IF i <= n + 1 THEN head[i] ELSE last[i - (n + 1)]
  <2>1. /\ all \in Seq(Sound) /\ Len(all) = Len(head) + Len(last)
        /\ \A i \in 1..(Len(head) + Len(last)) :
              all[i] = IF i <= Len(head) THEN head[i] ELSE last[i - Len(head)]
    BY <1>6, <1>7, ConcatProperties
  <2> HIDE DEF all
  <2>2. QED
    BY <1>7, <2>1
<1>9. DOMAIN all = 1..(n + 1 + Len(last)) /\ Len(last) \in Nat
  BY <1>6, <1>8, LenProperties
<1>10. CandidatePapers(h) = all
  BY DEF CandidatePapers, own, others, filed, last, head
<1> HIDE DEF all
<1>11. ASSUME copilot[h] # None PROVE \E i \in DOMAIN all : all[i].key = copilot[h]
  <2>1. CASE Holds(others, copilot[h])
    <3>1. PICK i \in 1..n : others[i].key = copilot[h]
      BY <1>3, <2>1 DEF Holds
    <3>2. i + 1 \in 1..(n + 1 + Len(last)) /\ i + 1 <= n + 1
      BY <1>3, <1>9
    <3>3. all[i + 1] = filed[i]
      BY <1>7, <1>8, <3>2
    <3>4. QED
      BY <1>4, <1>9, <3>1, <3>2, <3>3
  <2>2. CASE ~Holds(others, copilot[h])
    <3>1. Len(last) = 1 /\ last[1].key = copilot[h]
      BY <1>6, <1>11, <2>2
    <3>2. n + 2 \in 1..(n + 1 + Len(last)) /\ ~(n + 2 <= n + 1) /\ (n + 2) - (n + 1) = 1
      BY <1>3, <3>1
    <3>3. all[n + 2] = last[1]
      BY <1>8, <3>2
    <3>4. QED
      BY <1>9, <3>1, <3>2, <3>3
  <2>3. QED
    BY <2>1, <2>2
<1>12. QED
  BY <1>8, <1>10, <1>11

-----------------------------------------------------------------------------
(* The steps of a pilot.                                                    *)

LEMMA InitPapers == Init => PapersInv
<1> SUFFICES ASSUME Init PROVE PapersInv
  OBVIOUS
<1>1. Grounded \in PilotStates
  <2>1. << >> \in Seq(Sound) /\ << >> \in Seq(Answers)
    BY EmptySeq
  <2>2. QED
    BY <2>1 DEF Grounded, PilotStates
<1>2. Away \in DeskStates
  BY EmptySeq DEF Away, DeskStates
<1>3. Typed
  <2>1. pilot \in [Piloted -> PilotStates] /\ desk \in [Desks -> DeskStates]
    BY <1>1, <1>2 DEF Init
  <2>2. QED
    BY <2>1 DEF Init, Typed, Keys
<1>4. Licensed
  BY PapersAssumption DEF Init, Licensed
<1>5. PilotsKnow
  BY EmptySeq DEF Init, PilotsKnow, Known, Current, Flies, Grounded
<1>6. DesksHold
  BY NothingRecorded DEF Init, DesksHold, AtDesk, Away, Signing
<1>7. SignsApart
  BY DEF Init, SignsApart, Undisturbed, Away, Signing
<1>8. QED
  BY <1>3, <1>4, <1>5, <1>6, <1>7, NothingRecorded DEF Init, PapersInv

\* What the desks and the files are goes on while a pilot moves.
LEMMA DesksStand ==
    ASSUME PapersInv, UNCHANGED <<exchange, files, desk, history>>
    PROVE  /\ Licensed' /\ Recorded(record, Minted)' /\ DesksHold'
           /\ (signed \subseteq Minted)' /\ (overlapped \/ SignsApart)'
<1> USE DEF exchange, files, history, Minted
<1>1. Licensed' /\ Recorded(record, Minted)' /\ DesksHold' /\ (signed \subseteq Minted)'
  BY DEF PapersInv, Licensed, DesksHold
<1>2. SignsApart => SignsApart'
  BY DEF SignsApart, Undisturbed, CoPilotsOf
<1>3. QED
  BY <1>1, <1>2 DEF PapersInv

\* A pilot that is left alone still knows what it knew, while the captain stays and no key
\* changes hulls.
LEMMA PilotStands ==
    ASSUME Typed, PilotsKnow, aboard' = aboard, Bound, NEW h \in Piloted, pilot'[h] = pilot[h]
    PROVE  (Known(pilot[h]) /\ Current(pilot[h]) /\ Flies(h, pilot[h]))'
<1> PICK p : p = pilot[h]
  OBVIOUS
<1>1. p \in PilotStates /\ Known(p) /\ Current(p) /\ Flies(h, p) /\ h \in Hulls
  BY PapersAssumption DEF Typed, PilotsKnow
<1>2. /\ p.asks \in Seq(Sound) /\ DOMAIN p.asks = 1..Len(p.asks) /\ DOMAIN p.heard = 1..Len(p.heard)
      /\ Len(p.asks) \in Nat /\ Len(p.heard) \in Nat /\ Len(p.heard) <= Len(p.asks)
  BY <1>1, LenProperties DEF PilotStates, Known
<1>3. \A i \in DOMAIN p.asks : p.asks[i].key \in Keys
  BY <1>2, ElementOfSeq DEF Sound, Candidates
<1>4. Known(p)'
  BY <1>1 DEF Known
<1>5. Current(p)'
  <2> SUFFICES ASSUME p.at = "asking", ~p.moved, NEW i \in DOMAIN p.heard
               PROVE  p.heard[i].hull \in {None, AnswersFor(p.asks[i].key)'}
    BY DEF Current
  <2>1. i \in DOMAIN p.asks
    BY <1>2
  <2>2. p.heard[i].hull \in {None, AnswersFor(p.asks[i].key)}
    BY <1>1 DEF Current
  <2>3. QED
    BY <1>3, <2>1, <2>2, StillAnswers
<1>6. Flies(h, p)'
  <2>1. p.at = "flying" => p.moved \/ AnswersFor(p.flying)' = h
    <3> SUFFICES ASSUME p.at = "flying", ~p.moved PROVE AnswersFor(p.flying)' = h
      OBVIOUS
    <3>1. AnswersFor(p.flying) = h /\ h # None /\ p.flying \in Keys
      BY <1>1, <1>3, KeyAnswers DEF Flies
    <3>2. QED
      BY <3>1, StillAnswers
  <2>2. QED
    BY <1>1, <2>1 DEF Flies
<1>7. QED
  BY <1>4, <1>5, <1>6

\* Whichever papers it takes up, and whether their verbs are known or not.
LEMMA Idles ==
    ASSUME NEW q \in PilotStates, NEW at \in {"idle", "asking", "flying"}
    PROVE  [q EXCEPT !.at = at] \in PilotStates
BY DEF PilotStates

LEMMA TakesOff ==
    ASSUME NEW q \in PilotStates, NEW at \in {"idle", "asking", "flying"},
           NEW k \in Keys \cup {None}, NEW b \in BOOLEAN
    PROVE  [q EXCEPT !.at = at, !.flying = k, !.denied = b] \in PilotStates
BY DEF PilotStates

\* A pilot takes its next step.
LEMMA PilotSteps ==
    ASSUME PapersInv, NEW h \in Piloted, NEW q \in PilotStates, Known(q), Current(q), Flies(h, q),
           pilot' = [pilot EXCEPT ![h] = q], UNCHANGED <<exchange, files, desk, history>>
    PROVE  PapersInv'
<1>1. aboard' = aboard /\ Bound /\ \A k : AnswersFor(k)' = AnswersFor(k)
  BY DEF exchange, Bound, AnswersFor
<1>2. Typed'
  BY DEF PapersInv, Typed, exchange, files, history
<1>3. PilotsKnow'
  <2> SUFFICES ASSUME NEW g \in Piloted
               PROVE  (Known(pilot[g]) /\ Current(pilot[g]) /\ Flies(g, pilot[g]))'
    BY DEF PilotsKnow
  <2>1. CASE g # h
    <3>1. pilot'[g] = pilot[g]
      BY <2>1 DEF PapersInv, Typed
    <3>2. QED
      BY <1>1, <3>1, PilotStands DEF PapersInv
  <2>2. CASE g = h
    <3>1. pilot'[g] = q
      BY <2>2 DEF PapersInv, Typed
    <3>2. Known(q)' /\ Current(q)' /\ Flies(h, q)'
      BY <1>1 DEF Known, Current, Flies
    <3>3. QED
      BY <2>2, <3>1, <3>2
  <2>3. QED
    BY <2>1, <2>2
<1>4. QED
  BY <1>2, <1>3, DesksStand DEF PapersInv

LEMMA PilotTyped ==
    ASSUME PapersInv, NEW h \in Piloted
    PROVE  /\ h \in Hulls /\ pilot[h] \in PilotStates /\ Known(pilot[h]) /\ Current(pilot[h])
           /\ Flies(h, pilot[h])
           /\ Len(pilot[h].asks) \in Nat /\ DOMAIN pilot[h].asks = 1..Len(pilot[h].asks)
           /\ Len(pilot[h].heard) \in Nat /\ DOMAIN pilot[h].heard = 1..Len(pilot[h].heard)
           /\ Len(pilot[h].heard) <= Len(pilot[h].asks)
           /\ \A i \in DOMAIN pilot[h].asks : pilot[h].asks[i] \in Sound
           /\ \A i \in DOMAIN pilot[h].heard : pilot[h].heard[i] \in Answers
<1> PICK p : p = pilot[h]
  OBVIOUS
<1>1. p \in PilotStates /\ Known(p) /\ Current(p) /\ Flies(h, p) /\ h \in Hulls
  BY PapersAssumption DEF PapersInv, Typed, PilotsKnow
<1>2. p.asks \in Seq(Sound) /\ p.heard \in Seq(Answers)
  BY <1>1 DEF PilotStates
<1>3. QED
  BY <1>1, <1>2, LenProperties, ElementOfSeq DEF Known

LEMMA ReadsKeep == ASSUME PapersInv, NEW h \in Piloted, Reads(h) PROVE PapersInv'
<1> DEFINE p == pilot[h]
           fresh == CandidatePapers(h)
           asks == Remembered(fresh, p.asks)
           q == [p EXCEPT !.at = "asking", !.heard = << >>, !.moved = FALSE, !.asks = asks]
<1>1. /\ p \in PilotStates /\ Flies(h, p) /\ h \in Hulls
      /\ \A i \in DOMAIN p.asks : p.asks[i] \in Sound
  BY PilotTyped
<1>2. fresh \in Seq(Sound)
  BY <1>1, CandidatesSound DEF PapersInv
<1>3. Len(fresh) \in Nat /\ DOMAIN fresh = 1..Len(fresh) /\ \A i \in DOMAIN fresh : fresh[i] \in Sound
  BY <1>2, LenProperties, ElementOfSeq
<1> HIDE DEF fresh, p
<1>4. ASSUME NEW i \in DOMAIN fresh PROVE asks[i] \in Sound
  <2>1. CASE fresh[i].captain = None /\ \E j \in DOMAIN p.asks : p.asks[j].key = fresh[i].key
    <3>1. \E c \in Range(p.asks) : c.key = fresh[i].key
      BY <2>1 DEF Range
    <3>2. asks[i] \in Range(p.asks)
      BY <2>1, <3>1 DEF Remembered
    <3>3. QED
      BY <1>1, <3>2 DEF Range
  <2>2. CASE ~(fresh[i].captain = None /\ \E j \in DOMAIN p.asks : p.asks[j].key = fresh[i].key)
    <3>1. asks[i] = fresh[i]
      BY <2>2 DEF Remembered
    <3>2. QED
      BY <1>3, <3>1
  <2>3. QED
    BY <2>1, <2>2
<1>5. asks \in Seq(Sound) /\ Len(asks) \in Nat
  <2>1. asks \in [1..Len(fresh) -> Sound]
    BY <1>3, <1>4 DEF Remembered
  <2>2. asks \in Seq(Sound)
    BY <1>3, <2>1, SeqDef
  <2>3. QED
    BY <2>2, LenProperties
<1> HIDE DEF asks
<1>6. << >> \in Seq(Answers) /\ DOMAIN << >> = {} /\ Len(<< >>) = 0
  BY EmptySeq
<1>7. /\ q \in PilotStates /\ q.at = "asking" /\ q.asks = asks /\ q.heard = << >>
      /\ q.flying = p.flying /\ q.denied = p.denied
  BY <1>1, <1>5, <1>6 DEF PilotStates
<1>8. pilot' = [pilot EXCEPT ![h] = q] /\ UNCHANGED <<exchange, files, desk, history>>
  BY DEF Reads, p, asks, fresh
<1> HIDE DEF q
<1>9. Known(q) /\ Current(q) /\ Flies(h, q)
  BY <1>1, <1>5, <1>6, <1>7 DEF Known, Current, Flies
<1>10. QED
  BY <1>7, <1>8, <1>9, PilotSteps

\* A key has been asked: what it is, and which hull it answers for, or nothing.
Heard(h, p, i, c, answer, q, r) ==
    /\ p = pilot[h] /\ p.at = "asking" /\ i = Len(p.heard) + 1 /\ i <= Len(p.asks)
    /\ c \in Sound /\ c.key = p.asks[i].key
    /\ answer \in Answers /\ (answer.captain => c.key \in CaptainKeys)
    /\ answer.hull \in {None, AnswersFor(c.key)}
    /\ q = [p EXCEPT !.asks = [@ EXCEPT ![i] = c], !.heard = Append(@, answer)]
    /\ \/ r = [q EXCEPT !.at = "idle"]
       \/ Wins(h, answer) /\ r = Flying(q, c.key, TRUE)
       \/ r = q
    /\ pilot' = [pilot EXCEPT ![h] = r] /\ UNCHANGED <<exchange, files, desk, history>>

LEMMA HearsKeeps ==
    ASSUME PapersInv, NEW h \in Piloted, NEW p, NEW i, NEW c, NEW answer, NEW q, NEW r,
           Heard(h, p, i, c, answer, q, r)
    PROVE  PapersInv'
<1> USE DEF Heard
<1> DEFINE n == Len(p.asks)  l == Len(p.heard)  k == c.key
           asks == [p.asks EXCEPT ![i] = c]
           heard == Append(p.heard, answer)
<1>1. /\ p \in PilotStates /\ Known(p) /\ Current(p) /\ Flies(h, p) /\ h \in Hulls
      /\ n \in Nat /\ DOMAIN p.asks = 1..n /\ l \in Nat /\ DOMAIN p.heard = 1..l
      /\ p.asks \in Seq(Sound) /\ p.heard \in Seq(Answers)
      /\ \A j \in 1..n : p.asks[j] \in Sound
  BY PilotTyped DEF PilotStates
<1>2. i \in 1..n /\ i = l + 1 /\ k \in Keys
  BY <1>1 DEF Sound, Candidates
<1>3. /\ asks \in Seq(Sound) /\ DOMAIN asks = 1..n /\ Len(asks) = n
      /\ \A j \in 1..n : asks[j].key = p.asks[j].key
  <2>1. asks \in Seq(Sound) /\ Len(asks) = n /\ \A j \in 1..n : asks[j] = IF j = i THEN c ELSE p.asks[j]
    BY <1>1, <1>2, ExceptSeq
  <2>2. DOMAIN asks = 1..n
    BY <1>1
  <2> HIDE DEF asks
  <2>3. QED
    BY <2>1, <2>2
<1>4. /\ heard \in Seq(Answers) /\ Len(heard) = l + 1 /\ DOMAIN heard = 1..i
      /\ \A j \in 1..l : heard[j] = p.heard[j]
      /\ heard[i] = answer
  BY <1>1, <1>2, AppendProperties, LenProperties
<1>5. /\ q \in PilotStates /\ q.asks = asks /\ q.heard = heard /\ q.at = "asking"
      /\ q.flying = p.flying /\ q.denied = p.denied /\ q.moved = p.moved
  <2> HIDE DEF asks, heard
  <2>1. q = [p EXCEPT !.asks = asks, !.heard = heard]
    BY DEF asks, heard
  <2>2. p \in PilotStates /\ asks \in Seq(Sound) /\ heard \in Seq(Answers)
    BY <1>1, <1>3, <1>4
  <2>3. q \in PilotStates
    BY <2>1, <2>2 DEF PilotStates
  <2>4. q.asks = asks
    BY <2>1, <2>2 DEF PilotStates
  <2>5. q.heard = heard /\ q.at = p.at /\ q.flying = p.flying
    BY <2>1, <2>2 DEF PilotStates
  <2>6. q.denied = p.denied
    BY <2>1, <2>2 DEF PilotStates
  <2>7. q.moved = p.moved
    BY <2>1, <2>2 DEF PilotStates
  <2>8. QED
    BY <2>3, <2>4, <2>5, <2>6, <2>7
<1> HIDE DEF asks, heard, n, l, k
<1>6. Known(q)
  <2>1. ASSUME NEW j \in 1..i, heard[j].captain PROVE asks[j].key \in CaptainKeys
    <3>1. CASE j = i
      BY <1>2, <1>3, <1>4, <2>1, <3>1
    <3>2. CASE j # i
      <4>1. j \in 1..l /\ j \in 1..n /\ p.heard[j].captain
        BY <1>1, <1>2, <1>4, <2>1, <3>2
      <4>2. QED
        BY <1>1, <1>3, <4>1 DEF Known
    <3>3. QED
      BY <3>1, <3>2
  <2>2. QED
    BY <1>1, <1>2, <1>3, <1>4, <1>5, <2>1 DEF Known
<1>7. Current(q)
  <2> SUFFICES ASSUME ~p.moved, NEW j \in 1..i PROVE heard[j].hull \in {None, AnswersFor(asks[j].key)}
    BY <1>4, <1>5 DEF Current
  <2>1. CASE j = i
    BY <1>2, <1>3, <1>4, <2>1
  <2>2. CASE j # i
    <3>1. j \in 1..l /\ j \in 1..n
      BY <1>1, <1>2, <2>2
    <3>2. QED
      BY <1>1, <1>3, <1>4, <3>1 DEF Current
  <2>3. QED
    BY <2>1, <2>2
<1>8. Flies(h, q)
  BY <1>1, <1>5 DEF Flies
<1>9. CASE r = q
  BY <1>5, <1>6, <1>7, <1>8, <1>9, PilotSteps
<1>10. CASE r = [q EXCEPT !.at = "idle"]
  <2>1. /\ r \in PilotStates /\ r.at = "idle" /\ r.asks = q.asks /\ r.heard = q.heard
        /\ r.flying = q.flying /\ r.denied = q.denied
    <3>1. "idle" \in {"idle", "asking", "flying"}
      OBVIOUS
    <3>2. r.at = "idle" /\ r.asks = q.asks /\ r.heard = q.heard /\ r.flying = q.flying
          /\ r.denied = q.denied
      BY <1>5, <1>10 DEF PilotStates
    <3>3. r \in PilotStates
      BY <1>5, <1>10, <3>1, Idles
    <3>4. QED
      BY <3>2, <3>3
  <2>2. Known(r) /\ Current(r) /\ Flies(h, r)
    BY <1>6, <1>8, <2>1 DEF Known, Current, Flies
  <2>3. QED
    BY <2>1, <2>2, PilotSteps
<1>11. CASE Wins(h, answer) /\ r = Flying(q, k, TRUE)
  <2>1. k \in CaptainKeys /\ AnswersFor(k) = h /\ k # None
    BY <1>1, <1>2, <1>11, KeyAnswers DEF Wins, PapersInv, k
  <2>2. /\ r \in PilotStates /\ r.at = "flying" /\ r.asks = q.asks /\ r.heard = q.heard
        /\ r.flying = k
    <3>1. q.denied \in BOOLEAN /\ (~TRUE) \in BOOLEAN
      BY <1>5 DEF PilotStates
    <3>2. PICK b \in BOOLEAN : r = [q EXCEPT !.at = "flying", !.flying = k, !.denied = b]
      BY <1>11, <3>1 DEF Flying
    <3>3. q \in PilotStates /\ k \in Keys \cup {None} /\ "flying" \in {"idle", "asking", "flying"}
      BY <1>2, <1>5
    <3>4. r \in PilotStates
      BY <3>2, <3>3, TakesOff
    <3>5. r.at = "flying" /\ r.asks = q.asks /\ r.heard = q.heard /\ r.flying = k
      BY <3>2, <3>3 DEF PilotStates
    <3>6. QED
      BY <3>4, <3>5
  <2>3. \E j \in DOMAIN r.asks : r.asks[j].key = k
    BY <1>2, <1>3, <1>5, <2>2 DEF k
  <2>4. Known(r) /\ Current(r) /\ Flies(h, r)
    BY <1>6, <2>1, <2>2, <2>3 DEF Known, Current, Flies
  <2>5. QED
    BY <2>2, <2>4, PilotSteps
<1>12. QED
  BY <1>9, <1>10, <1>11 DEF k

LEMMA AsksKeep == ASSUME PapersInv, NEW h \in Piloted, Asks(h) PROVE PapersInv'
<1>a. PICK p : p = pilot[h]
  OBVIOUS
<1>b. PICK i : i = Len(p.heard) + 1
  OBVIOUS
<1>c. PICK c : c = p.asks[i]
  OBVIOUS
<1> DEFINE answer(captain, hull) == [captain |-> captain = TRUE, hull |-> hull]
           asked(captain) == [key |-> c.key, captain |-> captain]
           q(captain, hull) == [p EXCEPT !.asks[i].captain = captain, !.heard = Append(@, answer(captain, hull))]
           is == IF c.captain = None THEN c.key \in CaptainKeys ELSE c.captain
           idles(hull) == i = 1 /\ hull = None /\ (c.key \in live \/ Len(p.asks) = 1)
           r(captain, hull) == IF idles(hull) THEN [q(captain, hull) EXCEPT !.at = "idle"]
                               ELSE IF Wins(h, answer(captain, hull))
                                    THEN Flying(q(captain, hull), c.key, TRUE) ELSE q(captain, hull)
           Hears(captain, hull) == pilot' = [pilot EXCEPT ![h] = r(captain, hull)]
<1>1. /\ p.at = "asking" /\ i <= Len(p.asks) /\ UNCHANGED <<exchange, files, desk, history>>
      /\ \/ Hears(is, AnswersFor(c.key)) \/ Hears(c.captain, None)
         \/ c.captain = None /\ Hears(None, AnswersFor(c.key))
         \/ Hears(is, None)
  BY <1>a, <1>b, <1>c DEF Asks
<1>2. p \in PilotStates /\ i \in DOMAIN p.asks /\ c \in Sound /\ p.asks \in Seq(Sound)
  <2>1. /\ p \in PilotStates /\ Len(p.asks) \in Nat /\ DOMAIN p.asks = 1..Len(p.asks)
        /\ Len(p.heard) \in Nat /\ \A j \in DOMAIN p.asks : p.asks[j] \in Sound
    BY <1>a, PilotTyped
  <2>2. i \in DOMAIN p.asks
    BY <1>1, <1>b, <2>1
  <2>3. p.asks \in Seq(Sound)
    BY <2>1 DEF PilotStates
  <2>4. QED
    BY <1>c, <2>1, <2>2, <2>3
<1>3. /\ c.key \in Keys /\ c.captain \in BOOLEAN \cup {None}
      /\ c.captain = TRUE => c.key \in CaptainKeys
      /\ c.captain = FALSE => c.key \in CoPilots
      /\ c = [key |-> c.key, captain |-> c.captain]
  BY <1>2 DEF Sound, Candidates
<1>4. is \in BOOLEAN \cup {None} /\ (is = TRUE => c.key \in CaptainKeys) /\ (is = FALSE => c.key \in CoPilots)
  <2>1. CASE c.captain = None
    <3>1. is = (c.key \in CaptainKeys) /\ (c.key \in CaptainKeys) \in BOOLEAN
      BY <2>1
    <3>2. c.key \notin CaptainKeys => c.key \in CoPilots
      BY <1>3 DEF Keys
    <3>3. QED
      BY <3>1, <3>2
  <2>2. CASE c.captain # None
    BY <1>3, <2>2
  <2>3. QED
    BY <2>1, <2>2
<1> HIDE DEF is
<1>5. ASSUME NEW captain \in BOOLEAN \cup {None}, NEW hull \in {None, AnswersFor(c.key)},
             captain = TRUE => c.key \in CaptainKeys, captain = FALSE => c.key \in CoPilots,
             Hears(captain, hull)
      PROVE  PapersInv'
  <2>1. asked(captain) \in Sound /\ asked(captain).key = c.key
    <3>1. asked(captain) \in Candidates
      BY <1>3 DEF Candidates
    <3>2. QED
      BY <1>5, <3>1 DEF Sound
  <2>2. answer(captain, hull) \in Answers /\ answer(captain, hull).hull = hull
    <3>1. (captain = TRUE) \in BOOLEAN /\ hull \in Hulls \cup {None}
      BY <1>3, KeyAnswers DEF PapersInv
    <3>2. QED
      BY <3>1 DEF Answers
  <2>3. answer(captain, hull).captain => c.key \in CaptainKeys
    BY <1>5
  <2>4. q(captain, hull) = [p EXCEPT !.asks = [@ EXCEPT ![i] = asked(captain)],
                                     !.heard = Append(@, answer(captain, hull))]
    <3>1. [c EXCEPT !.captain = captain] = asked(captain)
      BY <1>3
    <3> HIDE DEF answer
    <3>2. QED
      BY <1>2, <1>c, <3>1 DEF PilotStates
  <2> HIDE DEF asked, answer, q, idles
  <2>5. \/ r(captain, hull) = [q(captain, hull) EXCEPT !.at = "idle"]
        \/ Wins(h, answer(captain, hull)) /\ r(captain, hull) = Flying(q(captain, hull), c.key, TRUE)
        \/ r(captain, hull) = q(captain, hull)
    OBVIOUS
  <2>6. pilot' = [pilot EXCEPT ![h] = r(captain, hull)]
    BY <1>5
  <2> HIDE DEF r
  <2>7. PICK a : a = answer(captain, hull)
    OBVIOUS
  <2>8. PICK b : b = asked(captain)
    OBVIOUS
  <2>9. PICK s : s = q(captain, hull)
    OBVIOUS
  <2>10. PICK t : t = r(captain, hull)
    OBVIOUS
  <2>11. b \in Sound /\ b.key = c.key /\ a \in Answers /\ a.hull \in {None, AnswersFor(c.key)}
         /\ (a.captain => c.key \in CaptainKeys)
    BY <2>1, <2>2, <2>3, <2>7, <2>8
  <2>12. s = [p EXCEPT !.asks = [@ EXCEPT ![i] = b], !.heard = Append(@, a)]
    BY <2>4, <2>7, <2>8, <2>9
  <2>13. /\ t = [s EXCEPT !.at = "idle"] \/ (Wins(h, a) /\ t = Flying(s, c.key, TRUE)) \/ t = s
         /\ pilot' = [pilot EXCEPT ![h] = t]
    BY <2>5, <2>6, <2>7, <2>9, <2>10
  <2>14. b.key = p.asks[i].key /\ a.hull \in {None, AnswersFor(b.key)}
         /\ (a.captain => b.key \in CaptainKeys)
    BY <1>c, <2>11
  <2>15. t = [s EXCEPT !.at = "idle"] \/ (Wins(h, a) /\ t = Flying(s, b.key, TRUE)) \/ t = s
    BY <2>11, <2>13
  <2>16. Heard(h, p, i, b, a, s, t)
    BY <1>1, <1>a, <1>b, <2>11, <2>12, <2>13, <2>14, <2>15 DEF Heard
  <2>17. QED
    BY <2>16, HearsKeeps
<1> HIDE DEF Hears
<1>6. None # TRUE /\ None # FALSE
  BY PapersAssumption
<1>7. CASE Hears(is, AnswersFor(c.key))
  BY <1>4, <1>5, <1>7
<1>8. CASE Hears(c.captain, None)
  BY <1>3, <1>5, <1>8
<1>9. CASE c.captain = None /\ Hears(None, AnswersFor(c.key))
  BY <1>5, <1>6, <1>9
<1>10. CASE Hears(is, None)
  BY <1>4, <1>5, <1>10
<1>11. QED
  BY <1>1, <1>7, <1>8, <1>9, <1>10

LEMMA PicksKeep == ASSUME PapersInv, NEW h \in Piloted, Picks(h) PROVE PapersInv'
<1>a. PICK p : p = pilot[h]
  OBVIOUS
<1>1. /\ h \in Hulls /\ p \in PilotStates /\ Known(p) /\ Current(p) /\ Flies(h, p)
      /\ Len(p.asks) \in Nat /\ DOMAIN p.asks = 1..Len(p.asks)
      /\ DOMAIN p.heard = 1..Len(p.heard) /\ Len(p.heard) \in Nat
      /\ \A i \in DOMAIN p.asks : p.asks[i] \in Sound
  BY <1>a, PilotTyped
<1> DEFINE first == CHOOSE i \in Picked(h) : \A j \in Picked(h) : i <= j
<1>2. /\ p.at = "asking" /\ Len(p.heard) = Len(p.asks)
      /\ UNCHANGED <<exchange, files, desk, history>>
      /\ pilot' = [pilot EXCEPT ![h] =
            IF Picked(h) # {} THEN Flying(p, p.asks[first].key, FALSE)
            ELSE IF \A i \in DOMAIN p.heard : p.heard[i].hull = None THEN [p EXCEPT !.at = "idle"]
            ELSE [p EXCEPT !.at = "idle", !.flying = None]]
  BY <1>a DEF Picks
<1>3. CASE Picked(h) # {}
  <2>1. Picked(h) \in SUBSET Nat /\ \A i \in Picked(h) : i \in DOMAIN p.heard /\ p.heard[i].hull = h
    BY <1>a, <1>1 DEF Picked
  <2>2. \E i \in Picked(h) : \A j \in Picked(h) : i <= j
    BY <1>3, <2>1, Least
  <2>3. first \in Picked(h)
    BY <2>2
  <2> HIDE DEF first
  <2>4. PICK k : k = p.asks[first].key
    OBVIOUS
  <2>5. first \in DOMAIN p.heard /\ first \in DOMAIN p.asks /\ p.heard[first].hull = h /\ k \in Keys
    BY <1>1, <1>2, <2>1, <2>3, <2>4 DEF Sound, Candidates
  <2>6. k # None /\ h # None
    BY <1>1, <2>5, KeyAnswers DEF PapersInv
  <2>7. ~p.moved => AnswersFor(k) = h
    BY <1>1, <1>2, <2>4, <2>5, <2>6 DEF Current
  <2> DEFINE b == IF p.flying = k THEN p.denied ELSE TRUE
             r == [p EXCEPT !.at = "flying", !.flying = k, !.denied = b]
  <2>8. b \in BOOLEAN /\ (k \in CaptainKeys \/ b)
    BY <1>1, <2>6 DEF PilotStates, Flies
  <2> HIDE DEF b
  <2>9. /\ r \in PilotStates /\ r.at = "flying" /\ r.asks = p.asks /\ r.heard = p.heard /\ r.flying = k
    BY <1>1, <2>5, <2>8 DEF PilotStates
  <2>10. r.denied = b
    BY <1>1 DEF PilotStates
  <2>11. r.moved = p.moved
    BY <1>1 DEF PilotStates
  <2>12. pilot' = [pilot EXCEPT ![h] = r]
    BY <1>2, <1>3, <2>4 DEF Flying, b
  <2> HIDE DEF r
  <2>13. Known(r) /\ Current(r)
    BY <1>1, <2>9 DEF Known, Current
  <2>14. Flies(h, r)
    BY <2>4, <2>5, <2>7, <2>8, <2>9, <2>10, <2>11 DEF Flies
  <2>15. QED
    BY <1>2, <2>9, <2>12, <2>13, <2>14, PilotSteps
<1>4. ASSUME NEW r, r = [p EXCEPT !.at = "idle"] \/ r = [p EXCEPT !.at = "idle", !.flying = None],
             pilot' = [pilot EXCEPT ![h] = r]
      PROVE  PapersInv'
  <2>1. r \in PilotStates /\ r.at = "idle" /\ r.asks = p.asks /\ r.heard = p.heard /\ r.flying \in {p.flying, None}
    BY <1>1, <1>4 DEF PilotStates
  <2>2. r.denied = p.denied
    BY <1>1, <1>4 DEF PilotStates
  <2>3. Known(r) /\ Current(r) /\ Flies(h, r)
    BY <1>1, <2>1, <2>2 DEF Known, Current, Flies
  <2>4. QED
    BY <1>2, <1>4, <2>1, <2>3, PilotSteps
<1>5. CASE Picked(h) = {} /\ \A i \in DOMAIN p.heard : p.heard[i].hull = None
  BY <1>2, <1>4, <1>5
<1>6. CASE Picked(h) = {} /\ ~\A i \in DOMAIN p.heard : p.heard[i].hull = None
  BY <1>2, <1>4, <1>6
<1>7. QED
  BY <1>3, <1>5, <1>6

LEMMA FoldsKeep == ASSUME PapersInv, NEW h \in Piloted, Folds(h) PROVE PapersInv'
<1>a. PICK p : p = pilot[h]
  OBVIOUS
<1>1. p \in PilotStates /\ Known(p) /\ Flies(h, p)
  BY <1>a, PilotTyped
<1>b. PICK r : r = [p EXCEPT !.at = "idle"]
  OBVIOUS
<1>2. pilot' = [pilot EXCEPT ![h] = r] /\ UNCHANGED <<exchange, files, desk, history>>
  BY <1>a, <1>b DEF Folds
<1>3. r \in PilotStates /\ r.at = "idle" /\ r.asks = p.asks /\ r.heard = p.heard /\ r.flying = p.flying
  BY <1>1, <1>b DEF PilotStates
<1>4. r.denied = p.denied
  BY <1>1, <1>b DEF PilotStates
<1>5. Known(r) /\ Current(r) /\ Flies(h, r)
  BY <1>1, <1>3, <1>4 DEF Known, Current, Flies
<1>6. QED
  BY <1>2, <1>3, <1>5, PilotSteps

LEMMA RestartsKeep == ASSUME PapersInv, NEW h \in Piloted, Restarts(h) PROVE PapersInv'
<1>1. pilot' = [pilot EXCEPT ![h] = Grounded] /\ UNCHANGED <<exchange, files, desk, history>>
  BY DEF Restarts
<1>2. Grounded \in PilotStates
  <2>1. << >> \in Seq(Sound) /\ << >> \in Seq(Answers)
    BY EmptySeq
  <2>2. QED
    BY <2>1 DEF Grounded, PilotStates
<1>3. Known(Grounded) /\ Current(Grounded) /\ Flies(h, Grounded)
  BY EmptySeq DEF Known, Current, Flies, Grounded
<1>4. QED
  BY <1>1, <1>2, <1>3, PilotSteps

-----------------------------------------------------------------------------
(* The steps of the exchange.                                               *)

\* Pilots who are left alone still know what they knew.
LEMMA PilotsStand ==
    ASSUME PapersInv, aboard' = aboard, Bound, pilot' = pilot
    PROVE  PilotsKnow'
<1> SUFFICES ASSUME NEW h \in Piloted
             PROVE  (Known(pilot[h]) /\ Current(pilot[h]) /\ Flies(h, pilot[h]))'
  BY DEF PilotsKnow
<1>1. pilot'[h] = pilot[h]
  OBVIOUS
<1>2. QED
  BY <1>1, PilotStands DEF PapersInv

\* What is on file, and on the desks but for whether they were disturbed, goes on while no
\* key changes hulls.
LEMMA RecordsStand ==
    ASSUME PapersInv, Bound, UNCHANGED <<files, history>>,
           \A d \in Desks : \E b : desk'[d] = [desk[d] EXCEPT !.clean = b]
    PROVE  Recorded(record, Minted)' /\ DesksHold' /\ (signed \subseteq Minted)'
<1>1. Minted \subseteq Minted'
  BY MintedGrows DEF PapersInv
<1>2. record' = record /\ signed' = signed
  BY DEF files, history
<1>3. Recorded(record, Minted)'
  BY <1>1, <1>2, RecordedGrows DEF PapersInv
<1>4. (signed \subseteq Minted)'
  BY <1>1, <1>2 DEF PapersInv
<1>5. DesksHold'
  <2> SUFFICES ASSUME NEW d \in Desks PROVE AtDesk(desk[d], Minted)'
    BY DEF DesksHold
  <2>1. PICK s : s = desk[d]
    OBVIOUS
  <2>2. s \in DeskStates /\ AtDesk(s, Minted)
    BY <2>1 DEF PapersInv, Typed, DesksHold
  <2>3. PICK t : t = desk'[d]
    OBVIOUS
  <2>4. t.at = s.at /\ t.copy = s.copy /\ t.target = s.target /\ t.key = s.key /\ t.new = s.new
    BY <2>1, <2>2, <2>3 DEF DeskStates
  <2>5. Recorded(t.copy, Minted')
    BY <1>1, <2>2, <2>4, RecordedGrows DEF AtDesk
  <2>6. AtDesk(t, Minted')
    BY <1>1, <2>2, <2>4, <2>5 DEF AtDesk
  <2>7. QED
    BY <2>3, <2>6
<1>6. QED
  BY <1>3, <1>4, <1>5

\* Desks that were disturbed: each that was at work knows it.
Muddied == desk' = [d \in Desks |-> [desk[d] EXCEPT !.clean = desk[d].at = "idle"]]

LEMMA MuddiedDesks ==
    ASSUME PapersInv, Muddied
    PROVE  /\ desk' \in [Desks -> DeskStates]
           /\ \A d \in Desks : \E b : desk'[d] = [desk[d] EXCEPT !.clean = b]
           /\ \A d \in Desks : /\ desk'[d].at = desk[d].at /\ desk'[d].new = desk[d].new
                               /\ desk'[d].target = desk[d].target
                               /\ desk[d].at # "idle" => ~desk'[d].clean
<1>1. ASSUME NEW d \in Desks
      PROVE  /\ desk'[d] \in DeskStates /\ desk'[d] = [desk[d] EXCEPT !.clean = (desk[d].at = "idle")]
             /\ desk'[d].at = desk[d].at /\ desk'[d].new = desk[d].new
             /\ desk'[d].target = desk[d].target
             /\ desk[d].at # "idle" => ~desk'[d].clean
  <2>1. PICK s : s = desk[d]
    OBVIOUS
  <2>2. s \in DeskStates
    BY <2>1 DEF PapersInv, Typed
  <2>3. PICK b \in BOOLEAN : b = (s.at = "idle")
    OBVIOUS
  <2>4. desk'[d] = [s EXCEPT !.clean = b]
    BY <2>1, <2>3 DEF Muddied
  <2>5. [s EXCEPT !.clean = b] \in DeskStates /\ [s EXCEPT !.clean = b].clean = b
    BY <2>2 DEF DeskStates
  <2>6. /\ [s EXCEPT !.clean = b].at = s.at /\ [s EXCEPT !.clean = b].new = s.new
        /\ [s EXCEPT !.clean = b].target = s.target
    BY <2>2 DEF DeskStates
  <2>7. QED
    BY <2>1, <2>3, <2>4, <2>5, <2>6
<1>2. desk' \in [Desks -> DeskStates]
  BY <1>1 DEF Muddied
<1>3. QED
  BY <1>1, <1>2

LEMMA MovesKeep == ASSUME PapersInv, Moves PROVE PapersInv'
<1>1. /\ aboard' \in Hulls /\ Muddied /\ UNCHANGED <<live, bound, licence, files, history>>
      /\ pilot' = [h \in Piloted |-> [pilot[h] EXCEPT !.moved = pilot[h].at # "idle"]]
  BY DEF Moves, Muddied
<1>2. Bound /\ Minted' = Minted
  BY <1>1 DEF Bound, Minted
<1>3. ASSUME NEW h \in Piloted
      PROVE  /\ pilot'[h] \in PilotStates
             /\ (Known(pilot[h]) /\ Current(pilot[h]) /\ Flies(h, pilot[h]))'
  <2>1. PICK p : p = pilot[h]
    OBVIOUS
  <2>2. p \in PilotStates /\ Known(p) /\ Flies(h, p)
    BY <2>1, PilotTyped
  <2>3. PICK b \in BOOLEAN : b = (p.at # "idle")
    OBVIOUS
  <2>4. PICK r : r = [p EXCEPT !.moved = b]
    OBVIOUS
  <2>5. pilot'[h] = r
    BY <1>1, <2>1, <2>3, <2>4
  <2>6. /\ r \in PilotStates /\ r.at = p.at /\ r.asks = p.asks /\ r.heard = p.heard
        /\ r.flying = p.flying
    BY <2>2, <2>4 DEF PilotStates
  <2>7. r.denied = p.denied
    BY <2>2, <2>4 DEF PilotStates
  <2>8. p.at # "idle" => r.moved
    BY <2>2, <2>3, <2>4 DEF PilotStates
  <2>9. Known(r)' /\ Current(r)' /\ Flies(h, r)'
    BY <2>2, <2>6, <2>7, <2>8 DEF Known, Current, Flies
  <2>10. QED
    BY <2>5, <2>6, <2>9
<1>4. Typed'
  <2>1. pilot' \in [Piloted -> PilotStates]
    BY <1>1, <1>3
  <2>2. QED
    BY <1>1, <2>1, MuddiedDesks DEF PapersInv, Typed, files, history
<1>5. PilotsKnow'
  BY <1>3 DEF PilotsKnow
<1>6. Licensed'
  BY <1>1 DEF PapersInv, Licensed
<1>7. Recorded(record, Minted)' /\ DesksHold' /\ (signed \subseteq Minted)'
  BY <1>1, <1>2, MuddiedDesks, RecordsStand
<1>8. SignsApart => SignsApart'
  <2> SUFFICES ASSUME SignsApart PROVE SignsApart'
    OBVIOUS
  <2>1. \A d \in Desks : Undisturbed(desk[d])'
    BY <1>1, MuddiedDesks DEF SignsApart, Undisturbed, history
  <2>2. QED
    BY <1>1, <2>1, MuddiedDesks DEF SignsApart, files, history
<1>9. (overlapped \/ SignsApart)'
  BY <1>1, <1>8 DEF PapersInv, history
<1>10. QED
  BY <1>4, <1>5, <1>6, <1>7, <1>9 DEF PapersInv

\* A licence that is pending is decided.
LEMMA LicenceDecided ==
    ASSUME PapersInv, NEW h \in Hulls, licence[h] = "pending", NEW l \in {"active", "refused"},
           licence' = [licence EXCEPT ![h] = l],
           UNCHANGED <<aboard, live, bound, files, pilot, desk, history>>
    PROVE  PapersInv'
<1>1. Bound
  BY DEF Bound
<1>2. Typed'
  BY DEF PapersInv, Typed, files, history
<1>3. Licensed'
  BY DEF PapersInv, Licensed, Typed
<1>4. PilotsKnow'
  BY <1>1, PilotsStand
<1>5. Recorded(record, Minted)' /\ DesksHold' /\ (signed \subseteq Minted)'
  BY DEF PapersInv, files, history, Minted, DesksHold
<1>6. SignsApart => SignsApart'
  BY DEF SignsApart, Undisturbed, CoPilotsOf, files, history
<1>7. QED
  BY <1>2, <1>3, <1>4, <1>5, <1>6 DEF PapersInv, history

LEMMA RevokesKeep == ASSUME PapersInv, NEW k \in CaptainKeys, Revokes(k) PROVE PapersInv'
<1>1. /\ live' = live \ {k} /\ k \notin CoPilots
      /\ UNCHANGED <<aboard, bound, licence, files, pilot, desk, history>>
  BY KeyAnswers DEF Revokes, PapersInv
<1>2. Bound
  BY <1>1 DEF Bound
<1>3. Typed'
  BY <1>1 DEF PapersInv, Typed, files, history
<1>4. Licensed'
  BY <1>1 DEF PapersInv, Licensed
<1>5. PilotsKnow'
  BY <1>1, <1>2, PilotsStand
<1>6. Recorded(record, Minted)' /\ DesksHold' /\ (signed \subseteq Minted)'
  BY <1>1 DEF PapersInv, files, history, Minted, DesksHold
<1>7. SignsApart => SignsApart'
  <2>1. CoPilots \cap live' = CoPilots \cap live
    BY <1>1
  <2>2. \A h : CoPilotsOf(h)' = CoPilotsOf(h)
    BY <1>1, <2>1 DEF CoPilotsOf
  <2>3. signed' \cap live' \subseteq signed \cap live
    BY <1>1 DEF history
  <2>4. QED
    BY <1>1, <2>2, <2>3 DEF SignsApart, Undisturbed, files, history
<1>8. QED
  BY <1>1, <1>3, <1>4, <1>5, <1>6, <1>7 DEF PapersInv, history

\* A co-pilot is minted for a hull that holds a licence.
LEMMA Minting ==
    ASSUME PapersInv, NEW h \in Hulls, NEW c, Mint(c, h), licence'[h] = "active",
           \A g \in Hulls : licence[g] = "active" => licence'[g] = "active"
    PROVE  /\ c \in CoPilots /\ c \notin Minted /\ Bound /\ Minted' = Minted \cup {c}
           /\ bound' \in [CoPilots -> Hulls \cup {None}] /\ bound'[c] = h
           /\ live' \subseteq Keys /\ live' \subseteq live \cup {c} /\ CoPilotsOf(h) \cap live' = {}
           /\ Licensed'
<1>1. /\ c \in CoPilots /\ bound[c] = None /\ bound' = [bound EXCEPT ![c] = h]
      /\ live' = (live \ CoPilotsOf(h)) \cup {c} /\ h # None
      /\ bound \in [CoPilots -> Hulls \cup {None}] /\ live \subseteq Keys
  BY PapersAssumption DEF Mint, PapersInv, Typed
<1>2. c \notin Minted /\ c \in Keys /\ bound' \in [CoPilots -> Hulls \cup {None}] /\ bound'[c] = h
  BY <1>1 DEF Minted, Keys
<1>3. \A b \in CoPilots : b # c => bound'[b] = bound[b]
  BY <1>1
<1>4. Bound /\ Minted' = Minted \cup {c}
  BY <1>1, <1>2, <1>3 DEF Bound, Minted
<1>5. c \notin CoPilotsOf(h) /\ CoPilotsOf(h) \cap live' = {}
  BY <1>1 DEF CoPilotsOf
<1>6. ASSUME NEW b \in CoPilots \cap live' PROVE bound'[b] # None /\ licence'[bound'[b]] = "active"
  <2>1. CASE b = c
    BY <1>1, <1>2, <2>1
  <2>2. CASE b # c
    <3>1. b \in CoPilots \cap live /\ bound'[b] = bound[b]
      BY <1>1, <1>3, <1>6, <2>2
    <3>2. QED
      BY <1>1, <3>1 DEF PapersInv, Licensed
  <2>3. QED
    BY <2>1, <2>2
<1>7. QED
  BY <1>1, <1>2, <1>4, <1>5, <1>6 DEF Licensed

LEMMA HaulSignsKeeps == ASSUME PapersInv, NEW h \in Hulls, HaulSigns(h) PROVE PapersInv'
<1>1. /\ licence' = [licence EXCEPT ![h] = "active"] /\ Muddied
      /\ UNCHANGED <<aboard, files, pilot, history>>
      /\ licence \in [Hulls -> {"none", "pending", "active", "refused"}]
  BY DEF HaulSigns, Muddied, PapersInv, Typed
<1>2. PICK c : Mint(c, h)
  BY DEF HaulSigns
<1>3. licence'[h] = "active" /\ \A g \in Hulls : licence[g] = "active" => licence'[g] = "active"
  BY <1>1
<1>4. /\ c \notin Minted /\ Bound /\ Minted' = Minted \cup {c}
      /\ bound' \in [CoPilots -> Hulls \cup {None}]
      /\ live' \subseteq Keys /\ live' \subseteq live \cup {c} /\ Licensed'
  BY <1>2, <1>3, Minting
<1>5. Typed'
  BY <1>1, <1>4, MuddiedDesks DEF PapersInv, Typed, files, history
<1>6. PilotsKnow'
  BY <1>1, <1>4, PilotsStand
<1>7. Recorded(record, Minted)' /\ DesksHold' /\ (signed \subseteq Minted)'
  BY <1>1, <1>4, MuddiedDesks, RecordsStand
<1>8. SignsApart => SignsApart'
  <2> SUFFICES ASSUME SignsApart PROVE SignsApart'
    OBVIOUS
  <2>1. \A b \in signed' \cap live' : b \in signed \cap live /\ bound'[b] = bound[b]
    BY <1>1, <1>4 DEF PapersInv, history, Bound
  <2>2. \A d \in Desks : Undisturbed(desk[d])'
    <3> SUFFICES ASSUME NEW d \in Desks, NEW s, s = desk[d], NEW t, t = desk'[d]
                 PROVE  Undisturbed(t)'
      OBVIOUS
    <3>1. t.at = s.at /\ t.new = s.new /\ t.target = s.target /\ (s.at # "idle" => ~t.clean)
      BY <1>1, MuddiedDesks
    <3>2. Undisturbed(s) /\ AtDesk(s, Minted)
      BY DEF SignsApart, PapersInv, DesksHold
    <3>3. t.at = "minted" => /\ bound'[t.new] = t.target
                             /\ \A b \in signed' \cap live' : bound'[b] # t.target
      BY <1>4, <2>1, <3>1, <3>2 DEF Undisturbed, AtDesk, Bound
    <3>4. QED
      BY <3>1, <3>3 DEF Undisturbed
  <2>3. QED
    BY <1>1, <2>1, <2>2, MuddiedDesks DEF SignsApart, files, history
<1>9. QED
  BY <1>1, <1>4, <1>5, <1>6, <1>7, <1>8 DEF PapersInv, history

-----------------------------------------------------------------------------
(* The steps of a desk.                                                     *)

LEMMA AwayFits == Away \in DeskStates /\ AtDesk(Away, Minted) /\ ~Signing(Away.at)
<1>1. Away \in DeskStates
  BY EmptySeq DEF Away, DeskStates
<1>2. AtDesk(Away, Minted) /\ ~Signing(Away.at)
  BY NothingRecorded DEF AtDesk, Away, Signing
<1>3. QED
  BY <1>1, <1>2

\* A desk takes a step that leaves the keys and the captain where they are.
DeskStep(d, s) ==
    /\ s \in DeskStates /\ AtDesk(s, Minted) /\ desk' = [desk EXCEPT ![d] = s]
    /\ UNCHANGED <<aboard, live, bound, pilot>>

LEMMA DeskSteps ==
    ASSUME PapersInv, NEW d \in Desks, NEW s, DeskStep(d, s)
    PROVE  /\ Bound /\ Minted' = Minted /\ PilotsKnow' /\ DesksHold'
           /\ desk' \in [Desks -> DeskStates] /\ desk'[d] = s
           /\ \A e \in Desks : e # d => desk'[e] = desk[e]
           /\ \A h : CoPilotsOf(h)' = CoPilotsOf(h)
<1>1. /\ s \in DeskStates /\ AtDesk(s, Minted) /\ desk' = [desk EXCEPT ![d] = s]
      /\ UNCHANGED <<aboard, live, bound, pilot>> /\ desk \in [Desks -> DeskStates]
  BY DEF DeskStep, PapersInv, Typed
<1>2. Bound /\ Minted' = Minted /\ \A h : CoPilotsOf(h)' = CoPilotsOf(h)
  BY <1>1 DEF Bound, Minted, CoPilotsOf
<1>3. PilotsKnow'
  BY <1>1, <1>2, PilotsStand
<1>4. /\ desk' \in [Desks -> DeskStates] /\ desk'[d] = s
      /\ \A e \in Desks : e # d => desk'[e] = desk[e]
  BY <1>1
<1>5. DesksHold'
  <2> SUFFICES ASSUME NEW e \in Desks, NEW t, t = desk'[e] PROVE AtDesk(t, Minted')
    BY DEF DesksHold
  <2>1. AtDesk(t, Minted)
    BY <1>1, <1>4 DEF PapersInv, DesksHold
  <2>2. QED
    BY <1>2, <2>1
<1>6. QED
  BY <1>2, <1>3, <1>4, <1>5

\* Signings stay apart and undisturbed when a desk joins no signing, or goes on with its own.
LEMMA StaysApart ==
    ASSUME PapersInv, NEW d \in Desks, NEW s, DeskStep(d, s), SignsApart, Undisturbed(s),
           Signing(s.at) => \A e \in Desks : Signing(desk[e].at) => e = d,
           UNCHANGED <<copilot, signed, signedOver>>
    PROVE  SignsApart'
<1>1. /\ desk'[d] = s /\ \A e \in Desks : e # d => desk'[e] = desk[e]
      /\ \A h : CoPilotsOf(h)' = CoPilotsOf(h)
  BY DeskSteps
<1>2. aboard' = aboard /\ live' = live /\ bound' = bound
  BY DEF DeskStep
<1>3. \A t : Undisturbed(t) => Undisturbed(t)'
  BY <1>1, <1>2 DEF Undisturbed
<1>4. ASSUME NEW e \in Desks PROVE Undisturbed(desk[e])'
  <2>1. PICK t : t = desk'[e]
    OBVIOUS
  <2>2. Undisturbed(t)
    BY <1>1, <2>1 DEF SignsApart
  <2>3. QED
    BY <1>3, <2>1, <2>2
<1>5. ASSUME NEW e \in Desks, NEW g \in Desks, Signing(desk'[e].at), Signing(desk'[g].at) PROVE e = g
  BY <1>1, <1>5 DEF SignsApart
<1>6. (\A e, g \in Desks : Signing(desk[e].at) /\ Signing(desk[g].at) => e = g)'
  BY <1>5
<1>7. QED
  BY <1>2, <1>4, <1>6 DEF SignsApart

\* A desk that signs nothing after its step, whatever it files.
LEMMA QuietSteps ==
    ASSUME PapersInv, NEW d \in Desks, NEW s, DeskStep(d, s), ~Signing(s.at),
           Recorded(record', Minted), UNCHANGED <<licence, copilot, history>>
    PROVE  PapersInv'
<1>1. /\ Minted' = Minted /\ PilotsKnow' /\ DesksHold' /\ desk' \in [Desks -> DeskStates]
  BY DeskSteps
<1>2. /\ UNCHANGED <<aboard, live, bound, pilot, signed, overlapped, signedOver>>
  BY DEF DeskStep, history
<1>3. Typed' /\ Licensed'
  BY <1>1, <1>2 DEF PapersInv, Typed, Licensed
<1>4. SignsApart => SignsApart'
  <2>1. Undisturbed(s)
    BY DEF Undisturbed, Signing
  <2>2. QED
    BY <1>2, <2>1, StaysApart
<1>5. QED
  BY <1>1, <1>2, <1>3, <1>4 DEF PapersInv

LEMMA EndsKeep ==
    ASSUME PapersInv, NEW d \in Desks, Ends(d), UNCHANGED <<exchange, files, pilot, history>>
    PROVE  PapersInv'
<1>1. DeskStep(d, Away)
  BY AwayFits DEF Ends, Goes, DeskStep, exchange
<1>2. Recorded(record', Minted)
  BY DEF files, PapersInv
<1>3. QED
  BY <1>1, <1>2, AwayFits, QuietSteps DEF exchange, files

\* Where a command stands once the stores are on the record.
LEMMA FiledFits ==
    ASSUME PapersInv, NEW d \in Desks
    PROVE  Filed(d) \in DeskStates /\ AtDesk(Filed(d), Minted) /\ ~Signing(Filed(d).at)
<1>1. PICK s : s = desk[d]
  OBVIOUS
<1>2. s \in DeskStates
  BY <1>1 DEF PapersInv, Typed
<1>3. CASE s.target = None
  BY <1>1, <1>3, AwayFits DEF Filed
<1>4. CASE s.target # None
  <2>1. PICK t : t = [s EXCEPT !.at = "filed", !.copy = << >>]
    OBVIOUS
  <2>2. Filed(d) = t
    BY <1>1, <1>4, <2>1 DEF Filed
  <2>3. << >> \in Seq(Papers)
    BY EmptySeq
  <2>4. t \in DeskStates /\ t.at = "filed" /\ t.copy = << >> /\ t.target = s.target
    BY <1>2, <2>1, <2>3 DEF DeskStates
  <2>5. t.target \in Hulls
    BY <1>2, <1>4, <2>4 DEF DeskStates
  <2>6. AtDesk(t, Minted) /\ ~Signing(t.at)
    BY <2>4, <2>5, NothingRecorded DEF AtDesk, Signing
  <2>7. QED
    BY <2>2, <2>4, <2>6
<1>5. QED
  BY <1>3, <1>4

LEMMA BeginsKeeps == ASSUME PapersInv, NEW d \in Desks, Begins(d) PROVE PapersInv'
<1>1. PICK target \in Hulls \cup {None}, replace \in BOOLEAN :
         desk' = [desk EXCEPT ![d] = [Away EXCEPT !.at = "loaded", !.copy = record, !.target = target,
                                                  !.replace = replace]]
  BY DEF Begins, Goes
<1>2. PICK s : s = [Away EXCEPT !.at = "loaded", !.copy = record, !.target = target, !.replace = replace]
  OBVIOUS
<1>3. Recorded(record, Minted)
  BY DEF PapersInv
<1>4. s \in DeskStates /\ s.at = "loaded" /\ s.copy = record
  BY <1>2, <1>3, AwayFits DEF DeskStates, Recorded, Away
<1>5. AtDesk(s, Minted) /\ ~Signing(s.at)
  BY <1>3, <1>4 DEF AtDesk, Signing
<1>6. UNCHANGED <<exchange, files, pilot, history>>
  BY DEF Begins
<1>7. DeskStep(d, s)
  BY <1>1, <1>2, <1>4, <1>5, <1>6 DEF DeskStep, exchange
<1>8. Recorded(record', Minted)
  BY <1>3, <1>6 DEF files
<1>9. QED
  BY <1>5, <1>6, <1>7, <1>8, QuietSteps DEF exchange, files

LEMMA GathersKeeps == ASSUME PapersInv, NEW d \in Desks, Gathers(d) PROVE PapersInv'
<1>a. PICK s : s = desk[d]
  OBVIOUS
<1>1. s \in DeskStates /\ AtDesk(s, Minted)
  BY <1>a DEF PapersInv, Typed, DesksHold
<1>2. PICK silent : desk' = [desk EXCEPT ![d] = IF Gathered(s.copy, silent) = s.copy THEN Filed(d)
                                  ELSE [s EXCEPT !.at = "gathered", !.copy = Gathered(s.copy, silent)]]
  BY <1>a DEF Gathers, Goes
<1>3. UNCHANGED <<exchange, files, pilot, history>>
  BY DEF Gathers
<1>4. Recorded(record', Minted)
  BY <1>3 DEF files, PapersInv
<1>5. PICK all : all = Gathered(s.copy, silent)
  OBVIOUS
<1>6. Recorded(all, Minted)
  BY <1>1, <1>5, RecordedGathered DEF AtDesk, PapersInv
<1>b. PICK t : t = [s EXCEPT !.at = "gathered", !.copy = all]
  OBVIOUS
<1>7. t \in DeskStates /\ t.at = "gathered" /\ t.copy = all
  BY <1>1, <1>6, <1>b DEF DeskStates, Recorded
<1>8. AtDesk(t, Minted) /\ ~Signing(t.at)
  BY <1>6, <1>7 DEF AtDesk, Signing
<1>9. CASE all = s.copy
  <2>1. DeskStep(d, Filed(d))
    BY <1>2, <1>3, <1>5, <1>9, FiledFits DEF DeskStep, exchange
  <2>2. QED
    BY <1>3, <1>4, <2>1, FiledFits, QuietSteps DEF exchange, files
<1>10. CASE all # s.copy
  <2>1. DeskStep(d, t)
    BY <1>2, <1>3, <1>5, <1>b, <1>7, <1>8, <1>10 DEF DeskStep, exchange
  <2>2. QED
    BY <1>3, <1>4, <1>8, <2>1, QuietSteps DEF exchange, files
<1>11. QED
  BY <1>9, <1>10

LEMMA SavesKeeps == ASSUME PapersInv, NEW d \in Desks, Saves(d) PROVE PapersInv'
<1>1. /\ desk' = [desk EXCEPT ![d] = Filed(d)] /\ record' = desk[d].copy
      /\ UNCHANGED <<exchange, copilot, pilot, history>>
  BY DEF Saves, Goes
<1>2. Recorded(record', Minted)
  BY <1>1 DEF PapersInv, DesksHold, AtDesk
<1>3. DeskStep(d, Filed(d))
  BY <1>1, FiledFits DEF DeskStep, exchange
<1>4. QED
  BY <1>1, <1>2, <1>3, FiledFits, QuietSteps DEF exchange

LEMMA ChecksKeep == ASSUME PapersInv, NEW d \in Desks, Checks(d) PROVE PapersInv'
<1>a. PICK s : s = desk[d]
  OBVIOUS
<1>1. s \in DeskStates /\ AtDesk(s, Minted)
  BY <1>a DEF PapersInv, Typed, DesksHold
<1> DEFINE struck == Only(record, {p \in Range(record) : ~(~p.captain /\ p.hull = s.target)})
<1>2. /\ s.at = "filed" /\ UNCHANGED <<exchange, files, pilot, signed, signedOver>>
      /\ \/ Ends(d) /\ UNCHANGED overlapped
         \/ \E k \in CaptainKeys :
               /\ aboard = s.target
               /\ desk' = [desk EXCEPT ![d] = [s EXCEPT !.at = "checked", !.copy = struck, !.key = k]]
               /\ overlapped' = (overlapped \/ \E e \in Desks \ {d} : Signing(desk[e].at))
  BY <1>a DEF Checks, Goes
<1>3. CASE Ends(d) /\ UNCHANGED overlapped
  BY <1>2, <1>3, EndsKeep DEF history
<1>4. ASSUME NEW k \in CaptainKeys, aboard = s.target,
             desk' = [desk EXCEPT ![d] = [s EXCEPT !.at = "checked", !.copy = struck, !.key = k]],
             overlapped' = (overlapped \/ \E e \in Desks \ {d} : Signing(desk[e].at))
      PROVE  PapersInv'
  <2>1. Recorded(struck, Minted)
    BY RecordedOnly DEF PapersInv
  <2> HIDE DEF struck
  <2>2. PICK t : t = [s EXCEPT !.at = "checked", !.copy = struck, !.key = k]
    OBVIOUS
  <2>3. k \in Keys /\ struck \in Seq(Papers)
    BY <2>1, KeyAnswers DEF PapersInv, Recorded
  <2>4. t \in DeskStates /\ t.at = "checked" /\ t.copy = struck /\ t.key = k /\ t.target = s.target
    BY <1>1, <2>2, <2>3 DEF DeskStates
  <2>5. s.target \in Hulls
    BY <1>1, <1>2 DEF AtDesk
  <2>6. AtDesk(t, Minted) /\ Undisturbed(t)
    BY <1>4, <2>1, <2>4, <2>5 DEF AtDesk, Undisturbed
  <2>7. DeskStep(d, t)
    BY <1>2, <1>4, <2>2, <2>4, <2>6 DEF DeskStep, exchange
  <2>8. Minted' = Minted /\ PilotsKnow' /\ DesksHold' /\ desk' \in [Desks -> DeskStates]
    BY <2>7, DeskSteps
  <2>9. Typed' /\ Licensed'
    BY <1>2, <1>4, <2>8 DEF PapersInv, Typed, Licensed, exchange, files
  <2>10. ~overlapped' => SignsApart'
    <3>1. ~overlapped' => SignsApart /\ \A e \in Desks : Signing(desk[e].at) => e = d
      BY <1>4 DEF PapersInv
    <3>2. QED
      BY <1>2, <2>6, <2>7, <3>1, StaysApart DEF files
  <2>11. QED
    BY <1>2, <2>8, <2>9, <2>10 DEF PapersInv, files
<1>5. QED
  BY <1>2, <1>3, <1>4

LEMMA LicensesKeeps == ASSUME PapersInv, NEW d \in Desks, Licenses(d) PROVE PapersInv'
<1>a. PICK s : s = desk[d]
  OBVIOUS
<1>1. s \in DeskStates /\ AtDesk(s, Minted) /\ s.at = "checked"
  BY <1>a DEF PapersInv, Typed, DesksHold, Licenses
<1>2. s.key \in CaptainKeys /\ AnswersFor(s.key) = aboard /\ s.target \in Hulls /\ aboard \in Hulls
  BY <1>1, KeyAnswers DEF AtDesk, Signing, PapersInv, Typed
<1>3. UNCHANGED <<aboard, live, bound, files, pilot, history>>
  BY DEF Licenses
<1>4. CASE Ends(d) /\ UNCHANGED licence
  BY <1>3, <1>4, EndsKeep DEF exchange
<1>5. CASE /\ licence[aboard] = "active" => s.replace
           /\ desk' = [desk EXCEPT ![d] = [s EXCEPT !.at = "waiting"]]
           /\ licence' = [licence EXCEPT ![aboard] = IF @ \in {"none", "refused"} THEN "pending" ELSE @]
  <2>1. PICK t : t = [s EXCEPT !.at = "waiting"]
    OBVIOUS
  <2>2. /\ t \in DeskStates /\ t.at = "waiting" /\ t.copy = s.copy /\ t.key = s.key
        /\ t.target = s.target
    BY <1>1, <2>1 DEF DeskStates
  <2>3. t.replace = s.replace
    BY <1>1, <2>1 DEF DeskStates
  <2>4. t.clean = s.clean
    BY <1>1, <2>1 DEF DeskStates
  <2>5. AtDesk(t, Minted)
    BY <1>1, <1>2, <2>2 DEF AtDesk
  <2>6. DeskStep(d, t)
    BY <1>3, <1>5, <2>1, <2>2, <2>5 DEF DeskStep
  <2>7. Minted' = Minted /\ PilotsKnow' /\ DesksHold' /\ desk' \in [Desks -> DeskStates]
    BY <2>6, DeskSteps
  <2>8. /\ licence' \in [Hulls -> {"none", "pending", "active", "refused"}]
        /\ \A h \in Hulls : licence[h] = "active" => licence'[h] = "active"
    BY <1>2, <1>5 DEF PapersInv, Typed
  <2>9. Typed'
    BY <1>3, <2>7, <2>8 DEF PapersInv, Typed, files, history
  <2>10. Licensed'
    BY <1>3, <2>8 DEF PapersInv, Typed, Licensed
  <2>11. SignsApart => SignsApart'
    <3> SUFFICES ASSUME SignsApart PROVE SignsApart'
      OBVIOUS
    <3>1. Undisturbed(s)
      BY <1>a DEF SignsApart
    <3>2. t.clean => aboard = t.target
      BY <1>1, <2>2, <2>4, <3>1 DEF Undisturbed
    <3>3. ~t.replace => CoPilotsOf(aboard) = {}
      BY <1>5, <2>3 DEF PapersInv, Licensed, CoPilotsOf
    <3>4. Undisturbed(t)
      BY <2>2, <3>2, <3>3 DEF Undisturbed
    <3>5. \A e \in Desks : Signing(desk[e].at) => e = d
      BY <1>a, <1>1 DEF SignsApart, Signing
    <3>6. QED
      BY <1>3, <2>6, <3>4, <3>5, StaysApart DEF files, history
  <2>12. QED
    BY <1>3, <2>7, <2>9, <2>10, <2>11 DEF PapersInv, files, history
<1>6. QED
  BY <1>a, <1>2, <1>4, <1>5 DEF Licenses, Goes

\* A desk that keeps its place and what it holds, while more keys are minted.
LEMMA DeskGoesOn ==
    ASSUME NEW s, NEW t, NEW m, NEW n, m \subseteq n, AtDesk(s, m),
           t.at = s.at, t.copy = s.copy, t.target = s.target, t.key = s.key, t.new = s.new
    PROVE  AtDesk(t, n)
<1>1. Recorded(t.copy, n)
  BY RecordedGrows DEF AtDesk
<1>2. QED
  BY <1>1 DEF AtDesk

LEMMA MintsKeeps == ASSUME PapersInv, NEW d \in Desks, Mints(d) PROVE PapersInv'
<1>a. PICK s : s = desk[d]
  OBVIOUS
<1>1. s \in DeskStates /\ AtDesk(s, Minted) /\ s.at = "waiting" /\ desk \in [Desks -> DeskStates]
  BY <1>a DEF PapersInv, Typed, DesksHold, Mints
<1>2. s.key \in CaptainKeys /\ AnswersFor(s.key) = aboard /\ s.target \in Hulls /\ aboard \in Hulls
  BY <1>1, KeyAnswers DEF AtDesk, Signing, PapersInv, Typed
<1>3. PICK c : /\ Mint(c, aboard)
               /\ \/ desk' = [e \in Desks |-> IF e = d THEN [s EXCEPT !.at = "minted", !.new = c]
                                              ELSE [desk[e] EXCEPT !.clean = desk[e].at = "idle"]]
                  \/ desk' = [desk EXCEPT ![d] = Away]
  BY <1>a, <1>2 DEF Mints, Ends, Goes
<1>4. /\ licence[aboard] = "active" /\ UNCHANGED <<aboard, licence, files, pilot, signed>>
      /\ signedOver' = (signedOver \/ (CoPilotsOf(aboard) # {} /\ ~s.replace))
      /\ overlapped' = (overlapped \/ ~s.clean)
  BY <1>a, <1>2 DEF Mints
<1>5. /\ c \in CoPilots /\ c \notin Minted /\ Bound /\ Minted' = Minted \cup {c}
      /\ bound' \in [CoPilots -> Hulls \cup {None}] /\ bound'[c] = aboard
      /\ live' \subseteq Keys /\ live' \subseteq live \cup {c} /\ CoPilotsOf(aboard) \cap live' = {}
      /\ Licensed'
  BY <1>2, <1>3, <1>4, Minting
<1>6. PilotsKnow'
  BY <1>4, <1>5, PilotsStand
<1>b. PICK t : t = desk'[d]
  OBVIOUS
<1>7. /\ t \in DeskStates /\ AtDesk(t, Minted') /\ t.at \in {"minted", "idle"}
      /\ t.at = "minted" => t.new = c /\ t.target = s.target
  <2>1. CASE desk' = [desk EXCEPT ![d] = Away]
    <3>1. t = Away
      BY <1>1, <1>b, <2>1
    <3>2. AtDesk(Away, Minted') /\ Away \in DeskStates /\ Away.at = "idle"
      BY AwayFits, NothingRecorded DEF AtDesk, Away, Signing
    <3>3. QED
      BY <3>1, <3>2
  <2>2. CASE desk' = [e \in Desks |-> IF e = d THEN [s EXCEPT !.at = "minted", !.new = c]
                                      ELSE [desk[e] EXCEPT !.clean = desk[e].at = "idle"]]
    <3>1. t = [s EXCEPT !.at = "minted", !.new = c]
      BY <1>b, <2>2
    <3>2. /\ t \in DeskStates /\ t.at = "minted" /\ t.copy = s.copy /\ t.target = s.target
          /\ t.key = s.key /\ t.new = c
      BY <1>1, <1>5, <3>1 DEF DeskStates
    <3>3. Recorded(s.copy, Minted') /\ ~Holds(s.copy, c)
      <4>1. Recorded(s.copy, Minted)
        BY <1>1 DEF AtDesk
      <4>2. Recorded(s.copy, Minted')
        BY <1>5, <4>1, RecordedGrows
      <4>3. ~Holds(s.copy, c)
        BY <1>5, <4>1 DEF Recorded, AsItIs, Holds
      <4>4. QED
        BY <4>2, <4>3
    <3>4. AtDesk(t, Minted')
      BY <1>2, <1>5, <3>2, <3>3 DEF AtDesk
    <3>5. QED
      BY <3>2, <3>4
  <2>3. QED
    BY <1>3, <2>1, <2>2
<1>8. ASSUME NEW e \in Desks, e # d, NEW u, u = desk'[e], NEW r, r = desk[e]
      PROVE  /\ u \in DeskStates /\ u.at = r.at /\ AtDesk(u, Minted')
  <2>1. r \in DeskStates /\ AtDesk(r, Minted) /\ (r.at = "idle") \in BOOLEAN
    BY <1>1, <1>8 DEF PapersInv, DesksHold
  <2>2. u = r \/ \E b \in BOOLEAN : u = [r EXCEPT !.clean = b]
    BY <1>1, <1>3, <1>8, <2>1
  <2>3. /\ u \in DeskStates /\ u.at = r.at /\ u.copy = r.copy /\ u.target = r.target
        /\ u.key = r.key /\ u.new = r.new
    BY <2>1, <2>2 DEF DeskStates
  <2>4. AtDesk(u, Minted')
    BY <1>5, <2>1, <2>3, DeskGoesOn
  <2>5. QED
    BY <2>3, <2>4
<1>9. desk' \in [Desks -> DeskStates]
  <2>1. \A e \in Desks : desk'[e] \in DeskStates
    BY <1>b, <1>7, <1>8
  <2>2. \E f : desk' = [e \in Desks |-> f[e]]
    BY <1>1, <1>3
  <2>3. QED
    BY <2>1, <2>2
<1>10. DesksHold'
  <2>1. \A e \in Desks : AtDesk(desk'[e], Minted')
    BY <1>b, <1>7, <1>8
  <2>2. QED
    BY <2>1 DEF DesksHold
<1>11. Typed'
  BY <1>4, <1>5, <1>9 DEF PapersInv, Typed, files
<1>12. Recorded(record, Minted)' /\ (signed \subseteq Minted)'
  <2>1. record' = record /\ signed' = signed /\ Recorded(record, Minted) /\ signed \subseteq Minted
    BY <1>4 DEF files, PapersInv
  <2>2. Recorded(record, Minted')
    BY <1>5, <2>1, RecordedGrows
  <2>3. QED
    BY <1>5, <2>1, <2>2
<1>13. ~overlapped' => SignsApart'
  <2> SUFFICES ASSUME ~overlapped, s.clean PROVE SignsApart'
    BY <1>4
  <2>1. SignsApart /\ Undisturbed(s)
    BY <1>a DEF PapersInv, SignsApart
  <2>2. aboard = s.target /\ (~s.replace => CoPilotsOf(aboard) = {})
    BY <1>1, <2>1 DEF Undisturbed
  <2>3. ~signedOver'
    BY <1>4, <2>1, <2>2 DEF SignsApart
  <2>4. \A b \in signed' \cap live' :
           b \in signed \cap live /\ b # c /\ bound'[b] = bound[b] /\ bound[b] # aboard
    BY <1>4, <1>5 DEF PapersInv, Bound, CoPilotsOf, Minted
  <2>5. \A e \in Desks : e # d => ~Signing(desk'[e].at)
    BY <1>a, <1>1, <1>8, <2>1 DEF SignsApart, Signing
  <2>6. Undisturbed(t)'
    BY <1>4, <1>5, <1>7, <2>2, <2>4 DEF Undisturbed
  <2>7. \A e \in Desks : Undisturbed(desk[e])'
    <3> SUFFICES ASSUME NEW e \in Desks, NEW u, u = desk'[e] PROVE Undisturbed(u)'
      OBVIOUS
    <3>1. CASE e = d
      BY <1>b, <2>6, <3>1
    <3>2. CASE e # d
      BY <2>5, <3>2 DEF Undisturbed, Signing
    <3>3. QED
      BY <3>1, <3>2
  <2>8. \A b \in signed' \cap live' : copilot'[bound'[b]] = b
    BY <1>4, <2>1, <2>4 DEF SignsApart, files
  <2>9. QED
    BY <2>3, <2>5, <2>7, <2>8 DEF SignsApart
<1>14. QED
  BY <1>5, <1>6, <1>10, <1>11, <1>12, <1>13 DEF PapersInv

LEMMA StoresKeeps == ASSUME PapersInv, NEW d \in Desks, Stores(d) PROVE PapersInv'
<1>a. PICK s : s = desk[d]
  OBVIOUS
<1>1. s \in DeskStates /\ AtDesk(s, Minted) /\ s.at = "minted" /\ copilot \in [Hulls -> CoPilots \cup {None}]
  BY <1>a DEF PapersInv, Typed, DesksHold, Stores
<1>2. s.target \in Hulls /\ s.new \in Minted /\ s.new \in CoPilots
  BY <1>1 DEF AtDesk, Minted
<1>b. PICK t : t = [s EXCEPT !.at = "stored"]
  OBVIOUS
<1>3. /\ copilot' = [copilot EXCEPT ![s.target] = s.new] /\ desk' = [desk EXCEPT ![d] = t]
      /\ signed' = signed \cup {s.new}
      /\ UNCHANGED <<aboard, live, bound, licence, record, pilot, overlapped, signedOver>>
  BY <1>a, <1>b DEF Stores, Goes, exchange
<1>4. /\ t \in DeskStates /\ t.at = "stored" /\ t.copy = s.copy /\ t.target = s.target
      /\ t.key = s.key /\ t.new = s.new
  BY <1>1, <1>b DEF DeskStates
<1>5. AtDesk(t, Minted)
  BY <1>1, <1>4 DEF AtDesk, Signing
<1>6. DeskStep(d, t)
  BY <1>3, <1>4, <1>5 DEF DeskStep
<1>7. /\ Minted' = Minted /\ PilotsKnow' /\ DesksHold' /\ desk' \in [Desks -> DeskStates]
      /\ desk'[d] = t /\ \A e \in Desks : e # d => desk'[e] = desk[e]
  BY <1>6, DeskSteps
<1>8. Typed'
  BY <1>1, <1>2, <1>3, <1>7 DEF PapersInv, Typed
<1>9. Licensed' /\ Recorded(record, Minted)' /\ (signed \subseteq Minted)'
  BY <1>2, <1>3, <1>7 DEF PapersInv, Licensed
<1>10. SignsApart => SignsApart'
  <2> SUFFICES ASSUME SignsApart PROVE SignsApart'
    OBVIOUS
  <2>1. /\ bound[s.new] = s.target /\ \A c \in signed \cap live : bound[c] # s.target
        /\ \A c \in signed \cap live : copilot[bound[c]] = c
    BY <1>a, <1>1 DEF SignsApart, Undisturbed
  <2>2. \A e \in Desks : Signing(desk'[e].at) => e = d
    BY <1>a, <1>1, <1>7 DEF SignsApart, Signing
  <2>3. \A e \in Desks : Undisturbed(desk[e])'
    <3> SUFFICES ASSUME NEW e \in Desks, NEW u, u = desk'[e] PROVE Undisturbed(u)'
      OBVIOUS
    <3>1. u.at \notin {"checked", "waiting", "minted"}
      BY <1>4, <1>7, <2>2 DEF Signing
    <3>2. QED
      BY <3>1 DEF Undisturbed
  <2>4. \A c \in signed' \cap live' : copilot'[bound'[c]] = c
    <3>1. \A c \in signed \cap live : c \in CoPilots /\ bound[c] \in Hulls
      BY DEF PapersInv, Typed, Minted
    <3>2. QED
      BY <1>1, <1>2, <1>3, <2>1, <3>1
  <2>5. QED
    BY <1>3, <2>2, <2>3, <2>4 DEF SignsApart
<1>11. QED
  BY <1>3, <1>7, <1>8, <1>9, <1>10 DEF PapersInv

LEMMA RecordsKeeps == ASSUME PapersInv, NEW d \in Desks, Records(d) PROVE PapersInv'
<1>a. PICK s : s = desk[d]
  OBVIOUS
<1>1. s \in DeskStates /\ AtDesk(s, Minted) /\ s.at = "stored"
  BY <1>a DEF PapersInv, Typed, DesksHold, Records
<1> DEFINE p == [key |-> s.new, captain |-> FALSE, hull |-> s.target]
<1>2. record' = Append(s.copy, p) /\ Ends(d) /\ UNCHANGED <<exchange, copilot, pilot, history>>
  BY <1>a DEF Records
<1>3. s.new \in Minted /\ s.new \in CoPilots /\ s.new \in Keys /\ s.new \notin CaptainKeys
  BY <1>1, KeyAnswers DEF AtDesk, Minted, PapersInv
<1>4. p \in Papers /\ p.key = s.new /\ p.captain = FALSE
  BY <1>1, <1>3 DEF AtDesk, Papers
<1> HIDE DEF p
<1>5. Recorded(s.copy, Minted) /\ ~Holds(s.copy, p.key)
  BY <1>1, <1>4 DEF AtDesk
<1>6. Recorded(record', Minted)
  BY <1>2, <1>3, <1>4, <1>5, RecordedAppend
<1>7. DeskStep(d, Away)
  BY <1>2, AwayFits DEF Ends, Goes, DeskStep, exchange
<1>8. QED
  BY <1>2, <1>6, <1>7, AwayFits, QuietSteps DEF exchange

-----------------------------------------------------------------------------
(* The invariant, and what it gives.                                        *)

LEMMA PapersStep == ASSUME PapersInv, [Next]_vars PROVE PapersInv'
<1>1. CASE Moves
  BY <1>1, MovesKeep
<1>2. ASSUME NEW h \in Hulls, Decides(h) PROVE PapersInv'
  BY <1>2, LicenceDecided DEF Decides
<1>3. ASSUME NEW h \in Hulls, RefusesLicence(h) PROVE PapersInv'
  BY <1>3, LicenceDecided DEF RefusesLicence
<1>4. ASSUME NEW h \in Hulls, HaulSigns(h) PROVE PapersInv'
  BY <1>4, HaulSignsKeeps
<1>5. ASSUME NEW k \in CaptainKeys, Revokes(k) PROVE PapersInv'
  BY <1>5, RevokesKeep
<1>6. ASSUME NEW h \in Piloted, Reads(h) \/ Asks(h) \/ Picks(h) \/ Folds(h) \/ Restarts(h)
      PROVE  PapersInv'
  BY <1>6, ReadsKeep, AsksKeep, PicksKeep, FoldsKeep, RestartsKeep
<1>7. ASSUME NEW d \in Desks, Begins(d) \/ Gathers(d) \/ Saves(d) \/ Checks(d) \/ Licenses(d)
      PROVE  PapersInv'
  BY <1>7, BeginsKeeps, GathersKeeps, SavesKeeps, ChecksKeep, LicensesKeeps
<1>8. ASSUME NEW d \in Desks, Mints(d) \/ Stores(d) \/ Records(d) PROVE PapersInv'
  BY <1>8, MintsKeeps, StoresKeeps, RecordsKeeps
<1>9. ASSUME NEW d \in Desks, GivesUp(d) PROVE PapersInv'
  BY <1>9, EndsKeep DEF GivesUp
<1>10. ASSUME NEW d \in Desks, Dies(d) PROVE PapersInv'
  BY <1>10, EndsKeep DEF Dies
<1>11. CASE UNCHANGED vars
  <2> USE <1>11 DEF vars, exchange, files, history
  <2>1. Minted' = Minted /\ \A k : AnswersFor(k)' = AnswersFor(k)
    BY DEF Minted, AnswersFor
  <2>2. \A h : CoPilotsOf(h)' = CoPilotsOf(h)
    BY DEF CoPilotsOf
  <2>3. Bound
    BY DEF Bound
  <2>4. PilotsKnow'
    BY <2>3, PilotsStand
  <2>5. Typed' /\ Licensed' /\ Recorded(record, Minted)' /\ DesksHold' /\ (signed \subseteq Minted)'
    BY <2>1 DEF PapersInv, Typed, Licensed, DesksHold
  <2>6. SignsApart => SignsApart'
    BY <2>2 DEF SignsApart, Undisturbed
  <2>7. QED
    BY <2>4, <2>5, <2>6 DEF PapersInv
<1>12. QED
  BY <1>1, <1>2, <1>3, <1>4, <1>5, <1>6, <1>7, <1>8, <1>9, <1>10, <1>11 DEF Next

LEMMA PapersAlways == Spec => []PapersInv
<1>1. Init => PapersInv
  BY InitPapers
<1>2. PapersInv /\ [Next]_vars => PapersInv'
  BY PapersStep
<1>3. QED
  BY <1>1, <1>2, PTL DEF Spec

\* Every key, paper and desk has its type: the record names a key once, what was signed and
\* stored was minted, and a desk at rest keeps no copy of the record (papers.rs).
THEOREM TypeCorrect == Spec => []TypeOK
<1>1. ASSUME PapersInv PROVE TypeOK
  <2>1. ASSUME NEW h \in Piloted
        PROVE  /\ pilot[h].at \in {"idle", "asking", "flying"} /\ pilot[h].asks \in Seq(Candidates)
               /\ pilot[h].heard \in Seq(Answers) /\ Len(pilot[h].heard) <= Len(pilot[h].asks)
               /\ pilot[h].flying \in Keys \cup {None}
               /\ {pilot[h].denied, pilot[h].moved} \subseteq BOOLEAN
               /\ pilot[h].at = "flying" =>
                     \E i \in DOMAIN pilot[h].asks : pilot[h].asks[i].key = pilot[h].flying
    <3>1. PICK p : p = pilot[h]
      OBVIOUS
    <3>2. p \in PilotStates /\ Known(p) /\ Flies(h, p)
      BY <1>1, <3>1, PilotTyped
    <3>3. p.asks \in Seq(Candidates)
      <4>1. p.asks \in Seq(Sound) /\ Sound \subseteq Candidates
        BY <3>2 DEF PilotStates, Sound
      <4>2. QED
        BY <4>1
    <3>4. p.denied \in BOOLEAN /\ p.moved \in BOOLEAN
      BY <3>2 DEF PilotStates
    <3>5. /\ p.at \in {"idle", "asking", "flying"} /\ p.heard \in Seq(Answers)
          /\ p.flying \in Keys \cup {None}
      BY <3>2 DEF PilotStates
    <3>6. QED
      BY <3>1, <3>2, <3>3, <3>4, <3>5 DEF Known, Flies
  <2>2. ASSUME NEW d \in Desks
        PROVE  desk[d].copy \in Seq(Papers) /\ (desk[d].at \in {"idle", "filed"} => desk[d].copy = << >>)
    BY <1>1 DEF PapersInv, DesksHold, AtDesk, Recorded
  <2>3. record \in Seq(Papers) /\ \A i, j \in DOMAIN record : record[i].key = record[j].key => i = j
    BY <1>1 DEF PapersInv, Recorded, OnceEach
  <2>4. QED
    BY <1>1, <2>1, <2>2, <2>3 DEF PapersInv, Typed, TypeOK, Minted
<1>2. QED
  BY <1>1, PapersAlways, PTL

\* A fold files for the hull its pilot flies and within the papers it flies on, whatever keys
\* are revoked, retired, signed or silent, unless the captain changes ship during the fold
\* (main.rs:1240, store.rs:225).
THEOREM Within == Spec => []WithinItsPapers
<1>1. ASSUME PapersInv PROVE WithinItsPapers
  <2> SUFFICES ASSUME NEW h \in Piloted, pilot[h].at = "flying", ~pilot[h].moved
               PROVE  /\ AnswersFor(pilot[h].flying) = h
                      /\ pilot[h].flying \in CaptainKeys \/ pilot[h].denied
    BY DEF WithinItsPapers
  <2>1. PICK p : p = pilot[h]
    OBVIOUS
  <2>2. Flies(h, p) /\ \A i \in DOMAIN p.asks : p.asks[i].key \in Keys
    BY <1>1, <2>1, PilotTyped DEF Sound, Candidates
  <2>3. p.flying # None
    BY <1>1, <2>1, <2>2, KeyAnswers DEF Flies, PapersInv
  <2>4. QED
    BY <2>1, <2>2, <2>3 DEF Flies
<1>2. QED
  BY <1>1, PapersAlways, PTL

\* Unless another signs or the captain changes ship in the midst of it, a signing retires no
\* co-pilot unasked; and what it stored and the exchange honours, its hull's pilot will ask,
\* whatever stale copies of the record are saved (papers.rs:267, papers.rs:370).
THEOREM Carried == Spec => []SignedIsCarried
<1>1. ASSUME PapersInv PROVE SignedIsCarried
  <2> SUFFICES ASSUME ~overlapped
               PROVE  /\ ~signedOver
                      /\ \A c \in signed \cap live :
                            \E i \in DOMAIN CandidatePapers(bound[c]) :
                               CandidatePapers(bound[c])[i].key = c
    BY DEF SignedIsCarried
  <2>1. SignsApart
    BY <1>1 DEF PapersInv
  <2>2. ASSUME NEW c \in signed \cap live
        PROVE  \E i \in DOMAIN CandidatePapers(bound[c]) : CandidatePapers(bound[c])[i].key = c
    <3>1. c \in CoPilots /\ bound[c] \in Hulls /\ c # None /\ copilot[bound[c]] = c
      BY <1>1, <2>1, PapersAssumption DEF PapersInv, Typed, Minted, SignsApart, Keys
    <3>2. QED
      BY <1>1, <3>1, CandidatesSound DEF PapersInv
  <2>3. QED
    BY <2>1, <2>2 DEF SignsApart
<1>2. QED
  BY <1>1, PapersAlways, PTL

=============================================================================
