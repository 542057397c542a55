----------------------- MODULE FreightMerchant_proofs -----------------------
(***************************************************************************)
(* What a hull carries for others. For every board, bay and bound:         *)
(* whatever replies are lost, whenever the pilot dies and whatever the     *)
(* captain books meanwhile, no act of the pilot's on a contract is in      *)
(* flight twice, it decides on contracts that are its own, and collects    *)
(* what it is owed. The second part rests on what the trails tell of the   *)
(* board, and what a fold has read of them.                                *)
(*                                                                         *)
(* And what it carries on its own account, for every market and purse: one *)
(* position at a time, on the book at what was paid for it.                *)
(***************************************************************************)
EXTENDS Freight, Merchant, SequencesExt, FiniteSetsExt, SequenceTheorems, FiniteSetTheorems,
        WellFoundedInduction, TLAPS

-----------------------------------------------------------------------------
(* Lists: their ends, and what a filter keeps.                              *)

\* A set of naturals has a least member, and so a set that is climbed holds every one of
\* them: the induction the recursion of Only is read by.
LEMMA Least == ASSUME NEW T \in SUBSET Nat, T # {} PROVE \E n \in T : \A m \in T : n <= m
<1> DEFINE R == OpToRel(<, Nat)
<1>1. IsWellFoundedOn(R, Nat)
  BY NatLessThanWellFounded DEF OpToRel
<1>2. \A a, b \in Nat : <<a, b>> \in R <=> a < b
  BY DEF OpToRel
<1> HIDE DEF R
<1>3. PICK n \in T : \A m \in T : ~(<<m, n>> \in R)
  BY <1>1, WFMin
<1>4. \A m \in T : ~(m < n)
  BY <1>2, <1>3
<1>5. QED
  BY <1>4

LEMMA Climb ==
    ASSUME NEW G, 0 \in G, \A n \in Nat : n \in G => n + 1 \in G
    PROVE  \A n \in Nat : n \in G
<1> DEFINE T == {n \in Nat : n \notin G}
<1>1. CASE T = {}
  BY <1>1
<1>2. CASE T # {}
  <2>1. PICK n \in T : \A m \in T : n <= m
    BY <1>2, Least
  <2>2. n # 0 /\ n - 1 \in Nat /\ ~(n <= n - 1)
    BY <2>1
  <2>3. n - 1 \in G
    BY <2>1, <2>2
  <2>4. QED
    BY <2>2, <2>3
<1>3. QED
  BY <1>1, <1>2

\* Min is the least member.
LEMMA LeastOf ==
    ASSUME NEW S \in SUBSET Nat, S # {}
    PROVE  Min(S) \in S /\ \A n \in S : Min(S) <= n
<1>1. \E n \in S : \A m \in S : n <= m
  BY Least
<1>2. QED
  BY <1>1 DEF Min

\* What a list with one more ranges over.
LEMMA RangeAppend ==
    ASSUME NEW A, NEW s \in Seq(A), NEW e \in A
    PROVE  Range(Append(s, e)) = Range(s) \cup {e}
<1> DEFINE n == Len(s)
<1>1. /\ n \in Nat /\ DOMAIN s = 1..n /\ DOMAIN Append(s, e) = 1..(n + 1)
      /\ \A k \in 1..n : Append(s, e)[k] = s[k]
      /\ Append(s, e)[n + 1] = e
  BY AppendProperties, LenProperties
<1> HIDE DEF n
<1>2. 1..(n + 1) = (1..n) \cup {n + 1}
  BY <1>1
<1>3. QED
  BY <1>1, <1>2 DEF Range

\* The recursion of Only has a solution.
LEMMA OnlyRecurs ==
    ASSUME NEW s, NEW S, NEW n \in Nat, Len(s) = n
    PROVE  \E sifted : /\ Only(s, S) = sifted[n] /\ sifted[0] = << >>
                     /\ \A k \in 1..n : sifted[k] = IF s[k] \in S THEN Append(sifted[k - 1], s[k])
                                                 ELSE sifted[k - 1]
<1> DEFINE Next1(f, k) == IF s[k] \in S THEN Append(f[k - 1], s[k]) ELSE f[k - 1]
           Body(f, m) == [k \in 0..m |-> IF k = 0 THEN << >> ELSE Next1(f, k)]
           G == {m \in Nat : \E f : f = Body(f, m)}
<1>1. 0 \in G
  <2> DEFINE f == [k \in 0..0 |-> << >>]
  <2>1. f = Body(f, 0)
    OBVIOUS
  <2>2. QED
    BY <2>1
<1>2. ASSUME NEW m \in Nat, m \in G PROVE m + 1 \in G
  <2>1. PICK f : f = Body(f, m)
    BY <1>2
  <2> DEFINE g == [k \in 0..(m + 1) |-> IF k <= m THEN f[k] ELSE Next1(f, k)]
  <2>2. ASSUME NEW k \in 0..m PROVE g[k] = f[k] /\ f[k] = IF k = 0 THEN << >> ELSE Next1(f, k)
    <3> HIDE DEF Next1
    <3>1. k \in 0..(m + 1) /\ k <= m
      OBVIOUS
    <3>2. QED
      BY <2>1, <3>1
  <2>3. ASSUME NEW k \in 0..(m + 1) PROVE g[k] = IF k = 0 THEN << >> ELSE Next1(g, k)
    <3>1. k = 0 \/ k - 1 \in 0..m
      OBVIOUS
    <3>2. k # 0 => g[k - 1] = f[k - 1]
      BY <3>1, <2>2
    <3>3. k # 0 => Next1(g, k) = Next1(f, k)
      BY <3>2
    <3> HIDE DEF Next1
    <3>4. CASE k <= m
      BY <2>2, <3>3, <3>4
    <3>5. CASE k = m + 1
      BY <3>3, <3>5
    <3>6. QED
      BY <3>4, <3>5
  <2> HIDE DEF Next1
  <2>4. g = Body(g, m + 1)
    BY <2>3
  <2> HIDE DEF g
  <2>5. QED
    BY <2>4
<1>3. n \in G
  <2> HIDE DEF G
  <2>1. QED
    BY <1>1, <1>2, Climb
<1> DEFINE sifted == CHOOSE f : f = Body(f, n)
<1>4. sifted = Body(sifted, n)
  BY <1>3
<1>5. Only(s, S) = sifted[n]
  BY DEF Only
<1>6. sifted[0] = << >> /\ \A k \in 1..n : sifted[k] = Next1(sifted, k)
  <2> HIDE DEF Next1, sifted
  <2>1. QED
    BY <1>4
<1> HIDE DEF sifted
<1>7. QED
  BY <1>5, <1>6

\* What Only keeps of a list, and that it is a list.
LEMMA OnlyKeeps ==
    ASSUME NEW A, NEW s \in Seq(A), NEW S
    PROVE  Only(s, S) \in Seq(A) /\ Range(Only(s, S)) = Range(s) \cap S
<1> DEFINE n == Len(s)
<1>1. n \in Nat /\ DOMAIN s = 1..n /\ \A k \in 1..n : s[k] \in A
  BY LenProperties, ElementOfSeq
<1> HIDE DEF n
<1>2. PICK sifted : /\ Only(s, S) = sifted[n] /\ sifted[0] = << >>
                  /\ \A k \in 1..n : sifted[k] = IF s[k] \in S THEN Append(sifted[k - 1], s[k])
                                              ELSE sifted[k - 1]
  <2>1. Len(s) = n
    BY DEF n
  <2>2. n \in Nat
    BY <1>1
  <2>3. QED
    BY <2>1, <2>2, OnlyRecurs
<1> DEFINE G == {m \in Nat : m <= n => /\ sifted[m] \in Seq(A)
                                      /\ Range(sifted[m]) = {s[k] : k \in 1..m} \cap S}
<1>3. 0 \in G
  <2>1. << >> \in Seq(A) /\ Range(<< >>) = {}
    BY EmptySeq DEF Range
  <2>2. {s[k] : k \in 1..0} \cap S = {}
    OBVIOUS
  <2>3. QED
    BY <1>2, <2>1, <2>2
<1>4. ASSUME NEW m \in Nat, m \in G, m + 1 <= n PROVE m + 1 \in G
  <2>1. /\ sifted[m] \in Seq(A) /\ Range(sifted[m]) = {s[k] : k \in 1..m} \cap S
        /\ m + 1 \in 1..n /\ s[m + 1] \in A
    BY <1>1, <1>4
  <2>6. sifted[m + 1] = IF s[m + 1] \in S THEN Append(sifted[m], s[m + 1]) ELSE sifted[m]
    BY <1>2, <2>1
  <2>2. {s[k] : k \in 1..(m + 1)} = {s[k] : k \in 1..m} \cup {s[m + 1]}
    <3>1. 1..(m + 1) = (1..m) \cup {m + 1}
      OBVIOUS
    <3>2. QED
      BY <3>1
  <2>3. Range(Append(sifted[m], s[m + 1])) = Range(sifted[m]) \cup {s[m + 1]}
    BY <2>1, RangeAppend
  <2>4. Append(sifted[m], s[m + 1]) \in Seq(A)
    BY <2>1, AppendProperties
  <2>5. sifted[m + 1] \in Seq(A) /\ Range(sifted[m + 1]) = {s[k] : k \in 1..(m + 1)} \cap S
    BY <2>1, <2>2, <2>3, <2>4, <2>6
  <2>7. QED
    BY <2>5
<1>5. ASSUME NEW m \in Nat, m \in G PROVE m + 1 \in G
  <2>1. CASE m + 1 <= n
    BY <1>4, <1>5, <2>1
  <2>2. CASE ~(m + 1 <= n)
    BY <2>2
  <2>3. QED
    BY <2>1, <2>2
<1>6. n \in G
  <2> HIDE DEF G
  <2>1. QED
    BY <1>1, <1>3, <1>5, Climb
<1>7. Range(s) = {s[k] : k \in 1..n}
  BY <1>1 DEF Range
<1>8. QED
  BY <1>1, <1>2, <1>6, <1>7

\* What is left of a list that is not empty, without its first or its last.
LEMMA EndsOff ==
    ASSUME NEW A, NEW s \in Seq(A), s # << >>
    PROVE  /\ Head(s) \in Range(s) /\ Tail(s) \in Seq(A) /\ Range(Tail(s)) \subseteq Range(s)
           /\ Last(s) \in Range(s) /\ Front(s) \in Seq(A) /\ Range(Front(s)) \subseteq Range(s)
<1> DEFINE n == Len(s)
<1>1. /\ n \in Nat /\ n # 0 /\ DOMAIN s = 1..n /\ 1 \in 1..n /\ n \in 1..n
      /\ \A k \in 1..n : s[k] \in A
  BY LenProperties, ElementOfSeq, EmptySeq
<1>2. /\ Tail(s) \in Seq(A) /\ DOMAIN Tail(s) = 1..(n - 1) /\ Head(s) = s[1]
      /\ \A k \in 1..(n - 1) : Tail(s)[k] = s[k + 1]
  BY <1>1, HeadTailProperties, LenProperties
<1>3. /\ Front(s) \in Seq(A) /\ DOMAIN Front(s) = 1..(n - 1)
      /\ \A k \in 1..(n - 1) : Front(s)[k] = s[k]
  <2>1. Front(s) = [k \in 1..(n - 1) |-> s[k]]
    BY <1>1 DEF Front
  <2>2. QED
    BY <1>1, <2>1
<1> HIDE DEF n
<1>4. \A k \in 1..(n - 1) : k \in 1..n /\ k + 1 \in 1..n
  BY <1>1
<1>5. Last(s) = s[n]
  BY DEF Last, n
<1>6. QED
  BY <1>1, <1>2, <1>3, <1>4, <1>5 DEF Range

\* A list put before another.
LEMMA OnTop ==
    ASSUME NEW A, NEW s \in Seq(A), NEW e \in A
    PROVE  <<e>> \o s \in Seq(A)
BY ConcatProperties

\* A list contains what it ranges over.
LEMMA ContainsRange == ASSUME NEW A, NEW s \in Seq(A), NEW e PROVE Contains(s, e) <=> e \in Range(s)
BY LenProperties DEF Contains, Range

-----------------------------------------------------------------------------
(* The acts in flight as a list.                                            *)

\* A list, of whatever is in it.
Listed(s) == \E S : s \in Seq(S)

LEMMA AppendListed ==
    ASSUME NEW s, Listed(s), NEW e
    PROVE  /\ Listed(Append(s, e))
           /\ Len(s) \in Nat
           /\ DOMAIN s = 1..Len(s) /\ DOMAIN Append(s, e) = 1..(Len(s) + 1)
           /\ \A k \in 1..Len(s) : Append(s, e)[k] = s[k]
           /\ Append(s, e)[Len(s) + 1] = e
<1>1. PICK S : s \in Seq(S)
  BY DEF Listed
<1> DEFINE T == S \cup {e}
<1>2. s \in Seq(T)
  BY <1>1, SeqMonotonic
<1>3. /\ Append(s, e) \in Seq(T)
      /\ Len(Append(s, e)) = Len(s) + 1
      /\ \A k \in 1..Len(s) : Append(s, e)[k] = s[k]
      /\ Append(s, e)[Len(s) + 1] = e
  BY <1>2, AppendProperties
<1>4. Len(s) \in Nat /\ DOMAIN s = 1..Len(s)
  BY <1>1, LenProperties
<1>5. DOMAIN Append(s, e) = 1..(Len(s) + 1)
  BY <1>3, LenProperties
<1>6. QED
  BY <1>3, <1>4, <1>5 DEF Listed

LEMMA TailListed ==
    ASSUME NEW s, Listed(s), s # << >>
    PROVE  /\ Listed(Tail(s))
           /\ Len(s) \in Nat /\ DOMAIN s = 1..Len(s)
           /\ DOMAIN Tail(s) = 1..(Len(s) - 1)
           /\ \A k \in 1..(Len(s) - 1) : Tail(s)[k] = s[k + 1]
<1>1. PICK S : s \in Seq(S)
  BY DEF Listed
<1>2. /\ Tail(s) \in Seq(S) /\ Len(Tail(s)) = Len(s) - 1
      /\ \A k \in 1..Len(Tail(s)) : Tail(s)[k] = s[k + 1]
  BY <1>1, HeadTailProperties
<1>3. Len(s) \in Nat /\ DOMAIN s = 1..Len(s)
  BY <1>1, LenProperties
<1>4. DOMAIN Tail(s) = 1..(Len(s) - 1)
  BY <1>2, LenProperties
<1>5. QED
  BY <1>2, <1>3, <1>4 DEF Listed

-----------------------------------------------------------------------------
(* The inductive invariant.                                                 *)

\* A fold that may decide began with nothing of the pilot's in flight: what it filed
\* since is at most the collection of a load it does not count among its own.
DecidesOnAnEmptyLine ==
    /\ at \in {"read", "adopted"} /\ ~me.pending => PilotActs = {}
    /\ at = "boarded" => PilotActs = {}
    /\ at = "deciding" =>
          \A k \in PilotActs : inbox[k].body.verb = "collect" /\ inbox[k].body.load \notin Known

LineInv == Listed(inbox) /\ NeverTwiceInFlight /\ DecidesOnAnEmptyLine

\* Nothing is in flight when the system starts.
LEMMA InitLine == Init => LineInv
<1> SUFFICES ASSUME Init PROVE LineInv
  OBVIOUS
<1>1. inbox = << >> /\ at = "idle"
  BY DEF Init
<1>2. inbox \in Seq({}) /\ DOMAIN inbox = {}
  BY <1>1, EmptySeq
<1>3. PilotActs = {}
  BY <1>2 DEF PilotActs
<1>4. QED
  BY <1>1, <1>2, <1>3 DEF LineInv, Listed, NeverTwiceInFlight, DecidesOnAnEmptyLine

-----------------------------------------------------------------------------
(* What a step may do to the acts in flight.                                *)

\* An act joins them that is none of the pilot's in flight.
LEMMA NewAct ==
    ASSUME Listed(inbox), NeverTwiceInFlight, NEW b, Accepts(b),
           \A k \in PilotActs : inbox[k].body # b
    PROVE  /\ Listed(inbox)' /\ NeverTwiceInFlight'
           /\ \A k \in PilotActs' : \/ k \in PilotActs /\ inbox'[k] = inbox[k]
                                   \/ inbox'[k].body = b
<1> DEFINE e == [body |-> b, by |-> "pilot", logged |-> FALSE]
           n == Len(inbox)
<1>1. inbox' = Append(inbox, e)
  BY DEF Accepts
<1>2. /\ Listed(inbox)' /\ n \in Nat
      /\ DOMAIN inbox = 1..n /\ DOMAIN inbox' = 1..(n + 1)
      /\ \A k \in 1..n : inbox'[k] = inbox[k]
      /\ inbox'[n + 1] = e
  BY <1>1, AppendListed
<1> HIDE DEF n
<1>3. \A k \in PilotActs' : \/ k \in PilotActs /\ inbox'[k] = inbox[k]
                            \/ k = n + 1 /\ inbox'[k].body = b
  BY <1>2 DEF PilotActs
<1>4. NeverTwiceInFlight'
  BY <1>3 DEF NeverTwiceInFlight
<1>5. QED
  BY <1>2, <1>3, <1>4

\* The first leaves.
LEMMA ActResolves ==
    ASSUME Listed(inbox), NeverTwiceInFlight, inbox # << >>, inbox' = Tail(inbox)
    PROVE  /\ Listed(inbox)' /\ NeverTwiceInFlight'
           /\ \A k \in PilotActs' : k + 1 \in PilotActs /\ inbox'[k] = inbox[k + 1]
<1> DEFINE n == Len(inbox)
<1>1. /\ Listed(inbox)' /\ n \in Nat
      /\ DOMAIN inbox = 1..n /\ DOMAIN inbox' = 1..(n - 1)
      /\ \A k \in 1..(n - 1) : inbox'[k] = inbox[k + 1]
  BY TailListed
<1> HIDE DEF n
<1>2. \A k \in PilotActs' : /\ k + 1 \in PilotActs /\ inbox'[k] = inbox[k + 1]
                            /\ k \in Int
  BY <1>1 DEF PilotActs
<1>3. ASSUME NEW j \in PilotActs', NEW k \in PilotActs', inbox'[j].body = inbox'[k].body
      PROVE  j = k
  <2>1. j + 1 = k + 1
    BY <1>2, <1>3 DEF NeverTwiceInFlight
  <2>2. QED
    BY <1>2, <2>1
<1>4. NeverTwiceInFlight'
  BY <1>3 DEF NeverTwiceInFlight
<1>5. QED
  BY <1>1, <1>2, <1>4

\* What decides neither the line nor the fold disturbs nothing.
LEMMA LineUntouched ==
    ASSUME LineInv, UNCHANGED <<inbox, at, me, active, companions>>
    PROVE  LineInv'
BY DEF LineInv, Listed, NeverTwiceInFlight, DecidesOnAnEmptyLine, PilotActs, Known

\* Ending the fold leaves nothing to say of it.
LEMMA FoldEnds ==
    ASSUME Listed(inbox)', NeverTwiceInFlight', at' \in {"idle", "journal"}
    PROVE  LineInv'
BY DEF LineInv, DecidesOnAnEmptyLine

\* The same, while nothing is filed.
LEMMA SameLine ==
    ASSUME LineInv, UNCHANGED inbox
    PROVE  Listed(inbox)' /\ NeverTwiceInFlight' /\ PilotActs' = PilotActs
BY DEF LineInv, Listed, NeverTwiceInFlight, PilotActs

\* A load the doctrine decides to collect is among its own.
LEMMA DecidesOnItsOwn ==
    ASSUME NEW b \in Decisions
    PROVE  b.verb = "book" \/ b.load \in Known
<1>1. CASE active # NoLoad /\ Delivered(active)
  BY <1>1 DEF Decisions, Known
<1>2. CASE /\ ~(active # NoLoad /\ Delivered(active))
           /\ active # NoLoad /\ \E k \in DOMAIN companions : Delivered(companions[k])
  <2>1. PICK k \in DOMAIN companions : b = [verb |-> "collect", load |-> companions[k]]
    BY <1>2 DEF Decisions
  <2>2. QED
    BY <2>1 DEF Known, Range
<1>3. CASE /\ ~(active # NoLoad /\ Delivered(active))
           /\ ~(active # NoLoad /\ \E k \in DOMAIN companions : Delivered(companions[k]))
  <2>1. PICK S : b \in [verb : {"book"}, load : S]
    BY <1>3 DEF Decisions
  <2>2. QED
    BY <2>1
<1>4. QED
  BY <1>1, <1>2, <1>3

-----------------------------------------------------------------------------
(* Every step keeps the invariant.                                          *)

\* What the exchange and the captain do.
LEMMA LineOutside ==
    ASSUME LineInv, Resolve \/ \E l \in Loads : Moves(l) \/ CaptainBooks(l)
    PROVE  LineInv'
<1> USE DEF bay
<1>1. CASE Resolve
  <2>1. inbox # << >> /\ inbox' = Tail(inbox) /\ UNCHANGED <<at, me, active, companions>>
    BY <1>1 DEF Resolve
  <2>2. /\ Listed(inbox)' /\ NeverTwiceInFlight'
        /\ \A k \in PilotActs' : k + 1 \in PilotActs /\ inbox'[k] = inbox[k + 1]
    BY <2>1, ActResolves DEF LineInv
  <2>3. DecidesOnAnEmptyLine'
    BY <2>1, <2>2 DEF LineInv, DecidesOnAnEmptyLine, Known
  <2>4. QED
    BY <2>2, <2>3 DEF LineInv
<1>2. ASSUME NEW l \in Loads, Moves(l)
      PROVE  LineInv'
  BY <1>2, LineUntouched DEF Moves
<1>3. ASSUME NEW l \in Loads, CaptainBooks(l)
      PROVE  LineInv'
  <2> DEFINE e == [body |-> [verb |-> "book", load |-> l], by |-> "captain", logged |-> FALSE]
             n == Len(inbox)
  <2>1. inbox' = Append(inbox, e) /\ UNCHANGED <<at, me, active, companions>>
    BY <1>3 DEF CaptainBooks
  <2>2. /\ Listed(inbox)' /\ n \in Nat
        /\ DOMAIN inbox = 1..n /\ DOMAIN inbox' = 1..(n + 1)
        /\ \A k \in 1..n : inbox'[k] = inbox[k]
        /\ inbox'[n + 1] = e
    BY <2>1, AppendListed DEF LineInv
  <2> HIDE DEF n
  <2>3. \A k \in PilotActs' : k \in PilotActs /\ inbox'[k] = inbox[k]
    BY <2>2 DEF PilotActs
  <2>4. NeverTwiceInFlight'
    BY <2>3 DEF LineInv, NeverTwiceInFlight
  <2>5. DecidesOnAnEmptyLine'
    BY <2>1, <2>3 DEF LineInv, DecidesOnAnEmptyLine, Known
  <2>6. QED
    BY <2>2, <2>4, <2>5 DEF LineInv
<1>4. QED
  BY <1>1, <1>2, <1>3

\* A fold reads with nothing of the pilot's in flight, or does not come to decide.
LEMMA LineReads ==
    ASSUME LineInv, ReadHull \/ Adopt \/ Waits \/ Reconcile
    PROVE  LineInv'
<1> USE DEF exchange, bay
<1>1. CASE ReadHull
  <2>1. UNCHANGED inbox
    BY <1>1 DEF ReadHull
  <2>2. CASE UNCHANGED <<at, me>>
    BY <1>1, <2>1, <2>2, LineUntouched DEF ReadHull
  <2>3. CASE at' = "read" /\ me'.pending = InFlight
    <3>1. ~me'.pending => inbox = << >>
      BY <2>3 DEF InFlight
    <3>2. inbox = << >> => PilotActs = {}
      BY EmptySeq DEF PilotActs
    <3>3. DecidesOnAnEmptyLine'
      BY <2>3, <3>1, <3>2, <2>1, SameLine DEF DecidesOnAnEmptyLine
    <3>4. QED
      BY <2>1, <3>3, SameLine DEF LineInv
  <2>4. QED
    BY <1>1, <2>2, <2>3 DEF ReadHull
<1>2. CASE Adopt
  <2>1. at = "read" /\ at' = "adopted" /\ UNCHANGED <<inbox, me>>
    BY <1>2 DEF Adopt
  <2>2. DecidesOnAnEmptyLine'
    BY <2>1, SameLine DEF LineInv, DecidesOnAnEmptyLine
  <2>3. QED
    BY <2>1, <2>2, SameLine DEF LineInv
<1>3. CASE Waits
  BY <1>3, SameLine, FoldEnds DEF Waits, EndsFold
<1>4. CASE Reconcile
  <2>1. at = "adopted" /\ ~me.pending /\ at' = "boarded" /\ UNCHANGED inbox
    BY <1>4 DEF Reconcile
  <2>2. DecidesOnAnEmptyLine'
    BY <2>1, SameLine DEF LineInv, DecidesOnAnEmptyLine
  <2>3. QED
    BY <2>1, <2>2, SameLine DEF LineInv
<1>5. QED
  BY <1>1, <1>2, <1>3, <1>4

\* A stray's collection is filed on an empty line, and is of a load the fold does not
\* count among its own.
LEMMA LineStrays ==
    ASSUME LineInv, CollectStray
    PROVE  LineInv'
<1> USE DEF bay
<1>1. PICK l \in Strays : FilesOnce([verb |-> "collect", load |-> l])
  BY DEF CollectStray
<1> DEFINE b == [verb |-> "collect", load |-> l]
<1>2. l \notin Known /\ UNCHANGED Known
  BY DEF Strays, CollectStray, Known
<1>3. PilotActs = {}
  BY DEF CollectStray, LineInv, DecidesOnAnEmptyLine
<1>4. CASE Accepts(b)
  <2>1. /\ Listed(inbox)' /\ NeverTwiceInFlight'
        /\ \A k \in PilotActs' : inbox'[k].body = b
    BY <1>3, <1>4, NewAct DEF LineInv
  <2>2. at' \in {"journal", "deciding"}
    BY <1>1 DEF FilesOnce
  <2>3. DecidesOnAnEmptyLine'
    BY <1>2, <2>1, <2>2 DEF DecidesOnAnEmptyLine
  <2>4. QED
    BY <2>1, <2>3 DEF LineInv
<1>5. CASE UNCHANGED inbox /\ at' = "deciding"
  <2>1. DecidesOnAnEmptyLine'
    BY <1>3, <1>5, SameLine DEF DecidesOnAnEmptyLine
  <2>2. QED
    BY <1>5, <2>1, SameLine DEF LineInv
<1>6. QED
  BY <1>1, <1>4, <1>5 DEF FilesOnce

\* What the doctrine decides differs from all that is in flight.
LEMMA LineFiles ==
    ASSUME LineInv, File
    PROVE  LineInv'
<1>1. PICK b \in Decisions : Sends(b)
  BY DEF File
<1>2. at' \in {"journal", "idle"}
  BY <1>1 DEF Sends, EndsFold
<1>3. \A k \in PilotActs : inbox[k].body # b
  <2>1. CASE at = "boarded"
    BY <2>1 DEF LineInv, DecidesOnAnEmptyLine
  <2>2. CASE at = "deciding"
    BY <2>2, DecidesOnItsOwn DEF LineInv, DecidesOnAnEmptyLine
  <2>3. QED
    BY <2>1, <2>2 DEF File
<1>4. CASE Accepts(b)
  BY <1>2, <1>3, <1>4, NewAct, FoldEnds DEF LineInv
<1>5. CASE UNCHANGED inbox
  BY <1>2, <1>5, SameLine, FoldEnds
<1>6. QED
  BY <1>1, <1>4, <1>5 DEF Sends, Reaches

\* The journal marks what was answered, and changes no act.
LEMMA LineJournal ==
    ASSUME LineInv, Journal
    PROVE  LineInv'
<1> DEFINE n == Len(inbox)
<1>1. n \in Nat /\ DOMAIN inbox = 1..n
  BY LenProperties DEF LineInv, Listed
<1>2. /\ DOMAIN inbox' = DOMAIN inbox
      /\ \A k \in DOMAIN inbox : inbox'[k].body = inbox[k].body /\ inbox'[k].by = inbox[k].by
  BY DEF Journal
<1>3. Listed(inbox)'
  <2> DEFINE S == {inbox'[k] : k \in 1..n}
  <2>1. inbox' \in [1..n -> S]
    BY <1>1 DEF Journal
  <2>2. inbox' \in Seq(S)
    BY <1>1, <2>1
  <2>3. QED
    BY <2>2 DEF Listed
<1>4. NeverTwiceInFlight'
  <2>1. PilotActs' = PilotActs
    BY <1>2 DEF PilotActs
  <2>2. QED
    BY <1>2, <2>1 DEF LineInv, NeverTwiceInFlight, PilotActs
<1>5. QED
  BY <1>3, <1>4, FoldEnds DEF Journal, EndsFold

LEMMA LineStep == LineInv /\ [Next]_vars => LineInv'
<1> SUFFICES ASSUME LineInv, [Next]_vars PROVE LineInv'
  OBVIOUS
<1>1. CASE UNCHANGED vars
  BY <1>1, LineUntouched DEF vars, exchange, bay
<1>2. CASE Resolve \/ \E l \in Loads : Moves(l) \/ CaptainBooks(l)
  BY <1>2, LineOutside
<1>3. CASE ReadHull \/ Adopt \/ Waits \/ Reconcile
  BY <1>3, LineReads
<1>4. CASE CollectStray
  BY <1>4, LineStrays
<1>5. CASE File
  BY <1>5, LineFiles
<1>6. CASE Holds
  BY <1>6, SameLine, FoldEnds DEF Holds, EndsFold, exchange
<1>7. CASE Journal
  BY <1>7, LineJournal
<1>8. CASE Forget
  BY <1>8, LineUntouched DEF Forget, exchange, bay
<1>9. CASE Restart
  BY <1>9, SameLine, FoldEnds DEF Restart, EndsFold, exchange
<1>10. QED
  BY <1>1, <1>2, <1>3, <1>4, <1>5, <1>6, <1>7, <1>8, <1>9 DEF Next, Fold

-----------------------------------------------------------------------------

\* The pilot never has the same act on a contract in flight twice, whatever replies are
\* lost and whenever it dies: it decides only in a fold whose reading of /v1/me showed
\* no act pending, and what collect_stray files first in that fold is never about a load
\* the doctrine may decide on.
THEOREM NeverTwice == Spec => []NeverTwiceInFlight
<1>1. LineInv => NeverTwiceInFlight
  BY DEF LineInv
<1>2. QED
  BY InitLine, LineStep, <1>1, PTL DEF Spec

-----------------------------------------------------------------------------
(* The trail of a load.                                                     *)

\* What the trail is once an event has joined it.
Joined(t, e) == IF e = "booked" THEN <<e>>
                ELSE IF ~Contains(t, e) THEN Append(t, e)
                ELSE IF Opens(Head(t)) THEN Append(Only(t, Events \ {e}), e)
                ELSE t

LEMMA JoinedKeeps ==
    ASSUME NEW t \in Seq(Events), NEW e \in Events
    PROVE  /\ Joined(t, e) \in Seq(Events) /\ Joined(t, e) # << >>
           /\ e \in Range(Joined(t, e))
           /\ Range(Joined(t, e)) = IF e = "booked" THEN {e} ELSE Range(t) \cup {e}
<1>1. CASE e = "booked"
  <2>1. Joined(t, e) = <<e>> /\ <<e>> \in Seq(Events) /\ <<e>> # << >> /\ Range(<<e>>) = {e}
    BY <1>1 DEF Joined, Range
  <2>2. QED
    BY <1>1, <2>1
<1>2. CASE e # "booked" /\ ~Contains(t, e)
  <2>1. Joined(t, e) = Append(t, e)
    BY <1>2 DEF Joined
  <2>2. QED
    BY <1>2, <2>1, RangeAppend, AppendProperties
<1>3. CASE e # "booked" /\ Contains(t, e) /\ Opens(Head(t))
  <2> DEFINE k == Only(t, Events \ {e})
  <2>1. k \in Seq(Events) /\ Range(k) = Range(t) \cap (Events \ {e})
    BY OnlyKeeps
  <2>2. Joined(t, e) = Append(k, e)
    BY <1>3 DEF Joined
  <2>3. Range(t) \subseteq Events
    BY ElementOfSeq, LenProperties DEF Range
  <2> HIDE DEF k
  <2>4. Append(k, e) \in Seq(Events) /\ Append(k, e) # << >> /\ Range(Append(k, e)) = Range(k) \cup {e}
    BY <2>1, RangeAppend, AppendProperties
  <2>5. QED
    BY <1>3, <2>1, <2>2, <2>3, <2>4
<1>4. CASE e # "booked" /\ Contains(t, e) /\ ~Opens(Head(t))
  <2>1. Joined(t, e) = t /\ e \in Range(t)
    BY <1>4, ContainsRange DEF Joined
  <2>2. t # << >>
    BY <2>1, EmptySeq DEF Range
  <2>3. QED
    BY <1>4, <2>1, <2>2
<1>5. QED
  BY <1>1, <1>2, <1>3, <1>4

\* A payment or a revert closes a trail wherever it is on it.
LEMMA PaidCloses ==
    ASSUME NEW t \in Seq(Events), "paid" \in Range(t) \/ "reverted" \in Range(t)
    PROVE  Closed(t)
BY DEF Closed, Ends, Range

\* A rejection closes the trail it starts, and opens none that was closed.
LEMMA JoinedCloses ==
    ASSUME NEW t \in Seq(Events), NEW e \in Events, Rejects(e), t = << >> \/ Closed(t)
    PROVE  Closed(Joined(t, e))
<1>1. e # "booked"
  BY DEF Rejects
<1>2. CASE t = << >>
  <2>1. Joined(t, e) = <<e>>
    BY <1>1, <1>2 DEF Joined, Contains
  <2>2. 1 \in Ends(<<e>>)
    BY DEF Ends
  <2>3. QED
    BY <2>1, <2>2 DEF Closed
<1>3. CASE t # << >> /\ Closed(t)
  <2>1. PICK k \in DOMAIN t : \/ t[k] \in {"paid", "reverted"}
                              \/ Rejects(t[k]) /\ ~ \E j \in 1..(k - 1) : Opens(t[j])
    BY <1>3 DEF Closed, Ends
  <2>2. Joined(t, e) \in Seq(Events) /\ Range(Joined(t, e)) = Range(t) \cup {e}
    BY <1>1, JoinedKeeps
  <2>3. CASE t[k] \in {"paid", "reverted"}
    <3>1. t[k] \in Range(Joined(t, e))
      BY <2>2 DEF Range
    <3>2. QED
      BY <2>2, <2>3, <3>1, PaidCloses
  <2>4. CASE Rejects(t[k]) /\ ~ \E j \in 1..(k - 1) : Opens(t[j])
    <3>1. Len(t) \in Nat /\ DOMAIN t = 1..Len(t) /\ Head(t) = t[1]
      BY LenProperties, HeadTailProperties, <1>3
    <3>2. ~Opens(Head(t))
      <4>1. k = 1 \/ 1 \in 1..(k - 1)
        BY <3>1
      <4>2. Rejects(t[k]) => ~Opens(t[k])
        BY DEF Rejects, Opens
      <4>3. QED
        BY <2>4, <3>1, <4>1, <4>2
    <3>3. CASE Contains(t, e)
      BY <1>1, <1>3, <3>2, <3>3 DEF Joined
    <3>4. CASE ~Contains(t, e)
      <4>1. Joined(t, e) = Append(t, e)
        BY <1>1, <3>4 DEF Joined
      <4>2. /\ k \in DOMAIN Append(t, e) /\ \A j \in 1..k : Append(t, e)[j] = t[j]
        BY <3>1, AppendProperties, LenProperties
      <4>3. k \in Ends(Append(t, e))
        <5>1. k \in 1..k /\ \A j \in 1..(k - 1) : j \in 1..k
          BY <3>1
        <5>2. QED
          BY <2>4, <4>2, <5>1 DEF Ends
      <4>4. QED
        BY <4>1, <4>3 DEF Closed
    <3>5. QED
      BY <3>3, <3>4
  <2>5. QED
    BY <2>1, <2>3, <2>4
<1>4. QED
  BY <1>2, <1>3

-----------------------------------------------------------------------------
(* What the pilot's freight rests on.                                       *)

\* The trail of a load that is ours starts at its booking, and is delivered once the load
\* is; the trail of one that is not is closed, or says nothing yet.
Tells(trail, state) ==
    IF Ours(state) THEN trail # << >> /\ ("delivered" \in Range(trail) => state = "delivered")
    ELSE trail = << >> \/ Closed(trail)

TrailsTell == \A l \in Loads : Tells(trails[l], board[l])

InFold == at \in {"read", "adopted", "boarded", "deciding"}

\* The same of what a fold has read.
ReadTells ==
    InFold =>
        /\ me.due \subseteq me.mine
        /\ \A l \in Loads :
              IF l \in me.mine THEN "delivered" \in Range(me.trails[l]) => l \in me.due
              ELSE me.trails[l] = << >> \/ Closed(me.trails[l])

Booking(l) == [verb |-> "book", load |-> l]

\* The exchange has heard of a load, or will.
Reached(l) == trails[l] # << >> \/ \E k \in DOMAIN inbox : inbox[k].body = Booking(l)

\* What the pilot takes for held, or an id says the exchange took, it did take.
KnownReached ==
    /\ \A l \in Known : Reached(l)
    /\ sent.verb = "book" => Reached(sent.load)
    /\ \A l \in Loads : recent[Booking(l)] = "taken" => Reached(l)

\* A fold that saw nothing pending saw what became of everything it takes for held.
KnownRead == at \in {"read", "adopted"} /\ ~me.pending => \A l \in Known : me.trails[l] # << >>

\* What was due when the fold read is due when it decides, but for a stray it has just
\* filed for.
DueStands ==
    /\ at \in {"read", "adopted"} /\ ~me.pending => \A l \in me.due : board[l] = "delivered"
    /\ at = "boarded" => \A l \in me.due : board[l] = "delivered"
    /\ at = "deciding" => \A l \in me.due \cap Known : board[l] = "delivered"

CaptainBooksOnly == \A k \in DOMAIN inbox : inbox[k].by = "pilot" \/ inbox[k].body.verb = "book"

FoldInv == ReadTells /\ KnownRead /\ FliesOnlyItsOwn /\ DueStands

FreightInv ==
    /\ TypeOK /\ LineInv /\ TrailsTell /\ KnownReached /\ FoldInv
    /\ CaptainBooksOnly /\ CollectsWhatIsOwed

LEMMA InitFreight == Init => FreightInv
<1> SUFFICES ASSUME Init PROVE FreightInv
  OBVIOUS
<1>1. LineInv
  BY InitLine
<1>2. /\ board = [l \in Loads |-> "open"] /\ trails = [l \in Loads |-> << >>]
      /\ newest = << >> /\ inbox = << >> /\ at = "idle" /\ me = NoMe
      /\ active = NoLoad /\ companions = << >> /\ recent = [b \in Bodies |-> "none"]
      /\ sent = NoBody
  BY DEF Init
<1>3. TypeOK
  <2>1. Bays \subseteq 1..BayLimit /\ BayLimit \in 1..BayLimit /\ 0 \in 0..MaxMishaps /\ 0 \in 0..MaxCaptain
    BY FreightAssumption
  <2>2. board \in [Loads -> States] /\ trails \in [Loads -> Seq(Events)]
    BY <1>2 DEF States
  <2>3. recent \in [Bodies -> IdStates]
    BY <1>2 DEF IdStates
  <2>4. me \in [pending : BOOLEAN, trails : [Loads -> Seq(Events)], newest : Seq(Loads),
                mine : SUBSET Loads, due : SUBSET Loads, open : SUBSET Loads]
    BY <1>2 DEF NoMe
  <2>5. /\ newest \in Seq(Loads) /\ inbox \in Seq(Acts) /\ companions \in Seq(Loads)
        /\ sent \in Bodies \cup {NoBody} /\ active \in Loads \cup {NoLoad}
    BY <1>2
  <2>6. /\ world \in Bays /\ bayCap \in 1..BayLimit /\ mishaps \in 0..MaxMishaps
        /\ captains \in 0..MaxCaptain /\ adopted \in BOOLEAN /\ resuming \in BOOLEAN
        /\ lost \in SUBSET Loads
    BY <2>1 DEF Init
  <2>7. QED
    BY <1>2, <2>2, <2>3, <2>4, <2>5, <2>6 DEF TypeOK
<1>4. Known = {}
  BY <1>2, EmptySeq DEF Known, Range
<1>5. TrailsTell
  BY <1>2 DEF TrailsTell, Tells, Ours
<1>6. KnownReached
  <2>1. \A l \in Loads : Booking(l) \in Bodies
    BY DEF Booking, Bodies
  <2>2. QED
    BY <1>2, <1>4, <2>1 DEF KnownReached, NoBody
<1>7. FoldInv
  BY <1>2 DEF FoldInv, ReadTells, InFold, KnownRead, FliesOnlyItsOwn, DueStands
<1>8. DOMAIN inbox = {}
  BY <1>2, EmptySeq
<1>9. CaptainBooksOnly /\ CollectsWhatIsOwed
  BY <1>8 DEF CaptainBooksOnly, CollectsWhatIsOwed, PilotActs
<1>10. QED
  BY <1>1, <1>3, <1>5, <1>6, <1>7, <1>9 DEF FreightInv

-----------------------------------------------------------------------------
(* What the exchange does.                                                  *)

\* An event joins one trail and leaves the others.
LEMMA TrailedType ==
    ASSUME TypeOK, NEW l \in Loads, NEW e \in Events, Trailed(l, e)
    PROVE  /\ trails' \in [Loads -> Seq(Events)] /\ newest' \in Seq(Loads)
           /\ trails'[l] = Joined(trails[l], e)
           /\ \A m \in Loads : m # l => trails'[m] = trails[m]
<1>1. trails \in [Loads -> Seq(Events)] /\ newest \in Seq(Loads)
  BY DEF TypeOK
<1>2. trails' = [trails EXCEPT ![l] = Joined(trails[l], e)]
  BY <1>1 DEF Trailed, Joined
<1>3. Joined(trails[l], e) \in Seq(Events)
  BY <1>1, JoinedKeeps
<1>4. newest' \in Seq(Loads)
  <2>1. Only(newest, Loads \ {l}) \in Seq(Loads)
    BY <1>1, OnlyKeeps
  <2>2. <<l>> \o Only(newest, Loads \ {l}) \in Seq(Loads)
    BY <2>1, OnTop
  <2>3. QED
    BY <1>1, <2>2 DEF Trailed
<1>5. QED
  BY <1>1, <1>2, <1>3, <1>4

\* The events the exchange shows, and the states they lead from and to.
Happens(old, e, new) ==
    \/ old # "open" /\ e = "refused" /\ new = old
    \/ old = "open" /\ e = "full" /\ new = old
    \/ old = "open" /\ e = "booked" /\ new = "booked"
    \/ old = "booked" /\ e = "picked" /\ new = "picked"
    \/ old = "picked" /\ e = "delivered" /\ new = "delivered"
    \/ old = "booked" /\ e = "reverted" /\ new = "open"
    \/ old = "delivered" /\ e = "paid" /\ new = "paid"

LEMMA JoinedTells ==
    ASSUME NEW t \in Seq(Events), NEW old \in States, NEW e \in Events, NEW new \in States,
           Happens(old, e, new), Tells(t, old)
    PROVE  Tells(Joined(t, e), new)
<1> DEFINE j == Joined(t, e)
<1>1. /\ j \in Seq(Events) /\ j # << >> /\ e \in Range(j)
      /\ Range(j) = IF e = "booked" THEN {e} ELSE Range(t) \cup {e}
  BY JoinedKeeps
<1>2. Rejects(e) /\ (t = << >> \/ Closed(t)) => Closed(j)
  BY JoinedCloses
<1>3. e \in {"paid", "reverted"} => Closed(j)
  BY <1>1, PaidCloses
<1> HIDE DEF j
<1>4. CASE Ours(new)
  BY <1>1, <1>4 DEF Happens, Tells, Ours, j
<1>5. CASE ~Ours(new)
  <2>1. e \in {"paid", "reverted"} \/ (Rejects(e) /\ new = old)
    BY <1>5 DEF Happens, Ours, Rejects
  <2>2. QED
    BY <1>2, <1>3, <1>5, <2>1 DEF Tells, j
<1>6. QED
  BY <1>4, <1>5

\* An event that happens keeps the types, and the trails telling; no load is forgotten, and
\* one delivered stays so until it is paid.
LEMMA EventHappens ==
    ASSUME TypeOK, TrailsTell, NEW l \in Loads, NEW e \in Events, NEW new \in States,
           Happens(board[l], e, new), board' = [board EXCEPT ![l] = new], Trailed(l, e)
    PROVE  /\ board' \in [Loads -> States] /\ trails' \in [Loads -> Seq(Events)]
           /\ newest' \in Seq(Loads) /\ TrailsTell'
           /\ trails'[l] # << >>
           /\ \A m \in Loads : trails[m] # << >> => trails'[m] # << >>
           /\ \A m \in Loads : board[m] = "delivered" => board'[m] = "delivered" \/ (m = l /\ e = "paid")
<1>1. /\ board \in [Loads -> States] /\ trails \in [Loads -> Seq(Events)]
      /\ board[l] \in States /\ trails[l] \in Seq(Events)
  BY DEF TypeOK
<1>2. /\ trails' \in [Loads -> Seq(Events)] /\ newest' \in Seq(Loads)
      /\ trails'[l] = Joined(trails[l], e)
      /\ \A m \in Loads : m # l => trails'[m] = trails[m]
  BY TrailedType
<1>3. Tells(trails'[l], new) /\ trails'[l] # << >>
  BY <1>1, <1>2, JoinedTells, JoinedKeeps DEF TrailsTell
<1>4. TrailsTell'
  BY <1>1, <1>2, <1>3 DEF TrailsTell
<1>5. \A m \in Loads : board[m] = "delivered" => board'[m] = "delivered" \/ (m = l /\ e = "paid")
  BY <1>1 DEF Happens
<1>6. QED
  BY <1>1, <1>2, <1>3, <1>4, <1>5

\* What a step outside the pilot must keep for the fold to stand.
LEMMA FoldStands ==
    ASSUME FoldInv, me.due \subseteq Loads, UNCHANGED <<at, me, active, companions>>,
           \/ \A l \in Loads : board[l] = "delivered" => board'[l] = "delivered"
           \/ /\ at \in {"read", "adopted"} => me.pending
              /\ at # "boarded"
              /\ at = "deciding" =>
                    \A l \in Known : board[l] = "delivered" => board'[l] = "delivered"
    PROVE  FoldInv'
BY DEF FoldInv, ReadTells, InFold, KnownRead, FliesOnlyItsOwn, DueStands, Known

\* The rest of what is known needs only that nothing reached is forgotten.
LEMMA ReachedStands ==
    ASSUME KnownReached, Known' \subseteq Known, UNCHANGED <<sent, recent>>,
           Known \subseteq Loads, sent.verb = "book" => sent.load \in Loads,
           \A l \in Loads : Reached(l) => Reached(l)'
    PROVE  KnownReached'
BY DEF KnownReached

\* What the types say of an act in flight, of the bay and of the fold.
LEMMA InTypes ==
    ASSUME TypeOK
    PROVE  /\ Known \subseteq Loads /\ me.due \subseteq Loads /\ me.mine \subseteq Loads
           /\ sent.verb = "book" => sent.load \in Loads
           /\ Len(inbox) \in Nat /\ DOMAIN inbox = 1..Len(inbox)
           /\ \A k \in DOMAIN inbox : inbox[k] \in Acts /\ inbox[k].body \in Bodies
<1>1. companions \in Seq(Loads) /\ inbox \in Seq(Acts) /\ active \in Loads \cup {NoLoad}
  BY DEF TypeOK
<1>2. Range(companions) \subseteq Loads
  BY <1>1, ElementOfSeq, LenProperties DEF Range
<1>3. Known \subseteq Loads
  BY <1>1, <1>2 DEF Known
<1>4. /\ Len(inbox) \in Nat /\ DOMAIN inbox = 1..Len(inbox)
      /\ \A k \in DOMAIN inbox : inbox[k] \in Acts
  BY <1>1, ElementOfSeq, LenProperties
<1>5. \A e \in Acts : e.body \in Bodies
  BY DEF Acts
<1>6. sent.verb = "book" => sent.load \in Loads
  BY DEF TypeOK, Bodies, NoBody
<1>7. me.due \subseteq Loads /\ me.mine \subseteq Loads
  BY DEF TypeOK
<1>8. QED
  BY <1>3, <1>4, <1>5, <1>6, <1>7

\* A load once on the trails, or in flight, is heard of still.
LEMMA ResolveKeeps == FreightInv /\ Resolve => FreightInv'
<1> SUFFICES ASSUME FreightInv, Resolve PROVE FreightInv'
  OBVIOUS
<1> DEFINE b == inbox[1].body
           l == b.load
<1>1. /\ inbox # << >> /\ inbox' = Tail(inbox) /\ Head(inbox) = inbox[1]
      /\ UNCHANGED <<world, at, me, active, companions, bayCap, adopted, recent, lost,
                     resuming, sent, mishaps, captains>>
      /\ 1 \in DOMAIN inbox /\ inbox \in Seq(Acts)
  <2>1. inbox \in Seq(Acts) /\ inbox # << >>
    BY DEF Resolve, FreightInv, TypeOK
  <2>2. 1 \in DOMAIN inbox /\ Head(inbox) = inbox[1]
    BY <2>1, EmptySeq, LenProperties, HeadTailProperties
  <2>3. QED
    BY <2>1, <2>2 DEF Resolve, bay
<1>2. b \in Bodies /\ l \in Loads
  BY <1>1, InTypes DEF FreightInv, Bodies
<1>3. /\ inbox' \in Seq(Acts)
      /\ \A k \in DOMAIN inbox' : k \in Nat /\ k >= 1 /\ k + 1 \in DOMAIN inbox /\ inbox'[k] = inbox[k + 1]
      /\ \A k \in DOMAIN inbox : k # 1 => k - 1 \in DOMAIN inbox' /\ inbox'[k - 1] = inbox[k]
  <2>1. /\ inbox' \in Seq(Acts) /\ Len(inbox') = Len(inbox) - 1
        /\ \A k \in 1..Len(inbox') : inbox'[k] = inbox[k + 1]
    BY <1>1, HeadTailProperties
  <2>2. /\ Len(inbox) \in Nat /\ DOMAIN inbox = 1..Len(inbox)
        /\ DOMAIN inbox' = 1..(Len(inbox) - 1)
    BY <1>1, <2>1, LenProperties
  <2>3. QED
    BY <2>1, <2>2
<1>4. /\ board' \in [Loads -> States] /\ trails' \in [Loads -> Seq(Events)]
      /\ newest' \in Seq(Loads) /\ TrailsTell'
      /\ b.verb = "book" => trails'[l] # << >>
      /\ \A m \in Loads : trails[m] # << >> => trails'[m] # << >>
      /\ \A m \in Loads : board[m] = "delivered" =>
            board'[m] = "delivered" \/ (m = l /\ b.verb = "collect")
  <2> DEFINE Moved(e, new) == /\ board' = [board EXCEPT ![l] = new] /\ Trailed(l, e)
                              /\ e \in Events /\ new \in States /\ Happens(board[l], e, new)
  <2>1. TypeOK /\ TrailsTell /\ board \in [Loads -> States] /\ board[l] \in States
    BY <1>2 DEF FreightInv, TypeOK
  <2>2. CASE b.verb = "book" /\ Books(l)
    <3>1. \E e \in Events, new \in States : Moved(e, new) /\ e # "paid"
      <4>1. CASE board[l] # "open"
        <5>1. Moved("refused", board[l])
          BY <2>1, <2>2, <4>1, <1>2 DEF Books, Events, Happens
        <5>2. QED
          BY <5>1
      <4>2. CASE board[l] = "open" /\ Cardinality(Mine) < world
        <5>1. Moved("booked", "booked")
          BY <2>1, <2>2, <4>2 DEF Books, Becomes, Events, States, Happens
        <5>2. QED
          BY <5>1
      <4>3. CASE board[l] = "open" /\ ~(Cardinality(Mine) < world)
        <5>1. Moved("full", board[l])
          BY <2>1, <2>2, <4>3, <1>2 DEF Books, Events, Happens
        <5>2. QED
          BY <5>1
      <4>4. QED
        BY <4>1, <4>2, <4>3
    <3>2. PICK e \in Events, new \in States : Moved(e, new) /\ e # "paid"
      BY <3>1
    <3>3. QED
      BY <1>2, <2>1, <2>2, <3>2, EventHappens
  <2>3. CASE b.verb = "collect" /\ board[l] = "delivered" /\ Becomes(l, "paid", "paid")
    <3>1. Moved("paid", "paid")
      BY <2>3 DEF Becomes, Events, States, Happens
    <3>2. "paid" \in Events /\ "paid" \in States
      BY DEF Events, States
    <3>3. QED
      BY <1>2, <2>1, <2>3, <3>1, <3>2, EventHappens
  <2>4. CASE b.verb = "collect" /\ UNCHANGED <<board, trails, newest>>
    BY <2>1, <2>4 DEF TypeOK, TrailsTell
  <2>5. QED
    BY <1>1, <2>2, <2>3, <2>4 DEF Resolve
<1>5. LineInv'
  BY LineStep DEF Next, FreightInv
<1>6. TypeOK'
  BY <1>1, <1>3, <1>4 DEF FreightInv, TypeOK
<1>7. CaptainBooksOnly'
  BY <1>3 DEF FreightInv, CaptainBooksOnly
<1>8. b.verb = "collect" => 1 \in PilotActs
  BY <1>1 DEF FreightInv, CaptainBooksOnly, PilotActs
<1>9. CollectsWhatIsOwed'
  <2> SUFFICES ASSUME NEW k \in PilotActs', inbox'[k].body.verb = "collect"
               PROVE  board'[inbox'[k].body.load] = "delivered"
    BY DEF CollectsWhatIsOwed
  <2> DEFINE m == inbox'[k].body.load
  <2>1. /\ k + 1 \in PilotActs /\ inbox'[k] = inbox[k + 1] /\ k + 1 # 1
        /\ inbox[k + 1].body \in Bodies /\ m \in Loads
    BY <1>3, InTypes DEF PilotActs, FreightInv, Bodies
  <2>2. board[m] = "delivered"
    BY <2>1 DEF FreightInv, CollectsWhatIsOwed
  <2>3. ~(m = l /\ b.verb = "collect")
    <3>1. SUFFICES ASSUME m = l, b.verb = "collect" PROVE FALSE
      OBVIOUS
    <3>2. inbox[k + 1].body = b
      BY <1>2, <2>1, <3>1 DEF Bodies
    <3>3. k + 1 = 1
      BY <1>8, <2>1, <3>1, <3>2 DEF FreightInv, LineInv, NeverTwiceInFlight
    <3>4. QED
      BY <2>1, <3>3
  <2>4. QED
    BY <1>4, <2>1, <2>2, <2>3
<1>10. \A m \in Loads : Reached(m) => Reached(m)'
  <2> SUFFICES ASSUME NEW m \in Loads, Reached(m), trails[m] = << >>, trails'[m] = << >>
               PROVE  \E k \in DOMAIN inbox' : inbox'[k].body = Booking(m)
    BY <1>4 DEF Reached
  <2>1. PICK k \in DOMAIN inbox : inbox[k].body = Booking(m)
    BY DEF Reached
  <2>2. k # 1
    BY <1>4, <2>1 DEF Booking
  <2>3. QED
    BY <1>3, <2>1, <2>2
<1>11. KnownReached'
  <2>1. Known' = Known
    BY <1>1 DEF Known
  <2>2. QED
    BY <1>1, <1>10, <2>1, InTypes, ReachedStands DEF FreightInv
<1>12. FoldInv'
  <2>1. CASE b.verb = "book"
    BY <1>1, <1>4, <2>1, InTypes, FoldStands DEF FreightInv
  <2>2. CASE b.verb = "collect"
    <3>1. /\ at \in {"read", "adopted"} => me.pending
          /\ at # "boarded"
          /\ at = "deciding" => l \notin Known
      BY <1>8, <2>2, InTypes DEF FreightInv, TypeOK, LineInv, DecidesOnAnEmptyLine
    <3>2. \A m \in Known : board[m] = "delivered" => m = l \/ board'[m] = "delivered"
      BY <1>4, InTypes DEF FreightInv
    <3>3. QED
      BY <1>1, <3>1, <3>2, InTypes, FoldStands DEF FreightInv
  <2>3. QED
    BY <1>2, <2>1, <2>2 DEF Bodies
<1>13. QED
  BY <1>4, <1>5, <1>6, <1>7, <1>9, <1>11, <1>12 DEF FreightInv

LEMMA MovesKeep == ASSUME FreightInv, NEW l \in Loads, Moves(l) PROVE FreightInv'
<1>1. UNCHANGED <<world, inbox, at, me, active, companions, bayCap, adopted, recent, lost,
                  resuming, sent, mishaps, captains>>
  BY DEF Moves, bay
<1>2. TypeOK /\ TrailsTell /\ board \in [Loads -> States] /\ trails \in [Loads -> Seq(Events)]
  BY DEF FreightInv, TypeOK
<1>3. /\ board' \in [Loads -> States] /\ trails' \in [Loads -> Seq(Events)]
      /\ newest' \in Seq(Loads) /\ TrailsTell'
      /\ \A m \in Loads : trails[m] # << >> => trails'[m] # << >>
      /\ \A m \in Loads : board[m] = "delivered" => board'[m] = "delivered"
  <2>1. CASE \E e \in Events \ {"paid"}, new \in States :
                Happens(board[l], e, new) /\ Becomes(l, new, e)
    BY <1>2, <2>1, EventHappens DEF Becomes
  <2>2. CASE /\ UNCHANGED <<trails, newest>>
             /\ \/ board[l] = "open" /\ board' = [board EXCEPT ![l] = "taken"]
                \/ board[l] = "taken" /\ board' = [board EXCEPT ![l] = "open"]
    BY <1>2, <2>2 DEF TypeOK, States, TrailsTell, Tells, Ours
  <2>3. QED
    BY <2>1, <2>2 DEF Moves, Happens, Events, States
<1>4. LineInv'
  BY LineStep DEF Next, FreightInv
<1>5. TypeOK'
  BY <1>1, <1>3 DEF FreightInv, TypeOK
<1>6. CaptainBooksOnly'
  BY <1>1 DEF FreightInv, CaptainBooksOnly
<1>7. CollectsWhatIsOwed'
  <2>1. \A k \in PilotActs : inbox[k].body.load \in Loads
    BY InTypes DEF FreightInv, PilotActs, Bodies
  <2>2. QED
    BY <1>1, <1>3, <2>1 DEF FreightInv, CollectsWhatIsOwed, PilotActs
<1>8. Known' = Known /\ \A m \in Loads : Reached(m) => Reached(m)'
  BY <1>1, <1>3 DEF Known, Reached
<1>9. KnownReached'
  BY <1>1, <1>8, InTypes, ReachedStands DEF FreightInv
<1>10. FoldInv'
  BY <1>1, <1>3, InTypes, FoldStands DEF FreightInv
<1>11. QED
  BY <1>3, <1>4, <1>5, <1>6, <1>7, <1>9, <1>10 DEF FreightInv

\* An act that joins those in flight forgets none of them.
LEMMA ActJoins ==
    ASSUME TypeOK, NEW e \in Acts, inbox' = Append(inbox, e)
    PROVE  /\ inbox' \in Seq(Acts)
           /\ \A k \in DOMAIN inbox : k \in DOMAIN inbox' /\ inbox'[k] = inbox[k]
           /\ \A k \in DOMAIN inbox' : (k \in DOMAIN inbox /\ inbox'[k] = inbox[k]) \/ inbox'[k] = e
           /\ \E k \in DOMAIN inbox' : inbox'[k] = e
<1>1. inbox \in Seq(Acts)
  BY DEF TypeOK
<1>2. Len(inbox) \in Nat /\ DOMAIN inbox = 1..Len(inbox)
  BY InTypes
<1>3. /\ inbox' \in Seq(Acts) /\ DOMAIN inbox' = 1..(Len(inbox) + 1)
      /\ \A k \in 1..Len(inbox) : inbox'[k] = inbox[k]
      /\ inbox'[Len(inbox) + 1] = e
  BY <1>1, AppendProperties, LenProperties
<1>4. \A k \in 1..(Len(inbox) + 1) : k \in 1..Len(inbox) \/ k = Len(inbox) + 1
  BY <1>2
<1>5. Len(inbox) + 1 \in 1..(Len(inbox) + 1) /\ 1..Len(inbox) \subseteq 1..(Len(inbox) + 1)
  BY <1>2
<1>6. QED
  BY <1>2, <1>3, <1>4, <1>5

LEMMA CaptainKeeps == ASSUME FreightInv, NEW l \in Loads, CaptainBooks(l) PROVE FreightInv'
<1> DEFINE e == [body |-> Booking(l), by |-> "captain", logged |-> FALSE]
<1>1. /\ inbox' = Append(inbox, e) /\ captains < MaxCaptain /\ captains' = captains + 1
      /\ UNCHANGED <<world, board, trails, newest, at, me, active, companions, bayCap, adopted,
                     recent, lost, resuming, sent, mishaps>>
  BY DEF CaptainBooks, bay, Booking
<1>2. e \in Acts /\ e.by # "pilot" /\ e.body.verb = "book"
  BY DEF Acts, Bodies, Booking
<1> HIDE DEF e
<1>3. /\ inbox' \in Seq(Acts)
      /\ \A k \in DOMAIN inbox : k \in DOMAIN inbox' /\ inbox'[k] = inbox[k]
      /\ \A k \in DOMAIN inbox' : (k \in DOMAIN inbox /\ inbox'[k] = inbox[k]) \/ inbox'[k] = e
  BY <1>1, <1>2, ActJoins DEF FreightInv
<1>4. LineInv'
  BY LineStep DEF Next, FreightInv
<1>5. TypeOK'
  <2>1. captains' \in 0..MaxCaptain
    BY <1>1, FreightAssumption DEF FreightInv, TypeOK
  <2>2. QED
    BY <1>1, <1>3, <2>1 DEF FreightInv, TypeOK
<1>6. TrailsTell'
  BY <1>1 DEF FreightInv, TrailsTell
<1>7. CaptainBooksOnly'
  BY <1>2, <1>3 DEF FreightInv, CaptainBooksOnly
<1>8. CollectsWhatIsOwed'
  BY <1>1, <1>2, <1>3 DEF FreightInv, CollectsWhatIsOwed, PilotActs
<1>9. Known' = Known /\ \A m \in Loads : Reached(m) => Reached(m)'
  BY <1>1, <1>3 DEF Known, Reached
<1>10. KnownReached'
  BY <1>1, <1>9, InTypes, ReachedStands DEF FreightInv
<1>11. FoldInv'
  BY <1>1, InTypes, FoldStands DEF FreightInv
<1>12. QED
  BY <1>4, <1>5, <1>6, <1>7, <1>8, <1>10, <1>11 DEF FreightInv

-----------------------------------------------------------------------------
(* What the pilot does.                                                     *)

\* Between folds, and while an answer is journaled, there is nothing to say of the fold.
LEMMA Unfolded == ASSUME at' \in {"idle", "journal"} PROVE FoldInv'
BY DEF FoldInv, ReadTells, InFold, KnownRead, FliesOnlyItsOwn, DueStands

\* An act the pilot files, of a contract whose pay is owed if it collects.
LEMMA ActFiled ==
    ASSUME FreightInv, NEW b \in Bodies, UNCHANGED <<board, trails>>,
           Accepts(b) \/ UNCHANGED inbox,
           b.verb = "collect" => board[b.load] = "delivered"
    PROVE  /\ inbox' \in Seq(Acts) /\ CaptainBooksOnly' /\ CollectsWhatIsOwed' /\ TrailsTell'
           /\ \A m \in Loads : Reached(m) => Reached(m)'
           /\ Accepts(b) /\ b.verb = "book" => Reached(b.load)'
<1>1. TrailsTell'
  BY DEF FreightInv, TrailsTell
<1>2. CASE UNCHANGED inbox /\ ~Accepts(b)
  BY <1>1, <1>2 DEF FreightInv, TypeOK, CaptainBooksOnly, CollectsWhatIsOwed, PilotActs, Reached
<1>3. CASE Accepts(b)
  <2> DEFINE e == [body |-> b, by |-> "pilot", logged |-> FALSE]
  <2>1. inbox' = Append(inbox, e) /\ e \in Acts /\ e.by = "pilot" /\ e.body = b
    BY <1>3 DEF Accepts, Acts
  <2> HIDE DEF e
  <2>2. /\ inbox' \in Seq(Acts)
        /\ \A k \in DOMAIN inbox : k \in DOMAIN inbox' /\ inbox'[k] = inbox[k]
        /\ \A k \in DOMAIN inbox' : (k \in DOMAIN inbox /\ inbox'[k] = inbox[k]) \/ inbox'[k] = e
        /\ \E k \in DOMAIN inbox' : inbox'[k] = e
    BY <2>1, ActJoins DEF FreightInv
  <2>3. CaptainBooksOnly'
    BY <2>1, <2>2 DEF FreightInv, CaptainBooksOnly
  <2>4. CollectsWhatIsOwed'
    BY <2>1, <2>2 DEF FreightInv, CollectsWhatIsOwed, PilotActs
  <2>5. \A m \in Loads : Reached(m) => Reached(m)'
    BY <2>2 DEF Reached
  <2>6. b.verb = "book" => Reached(b.load)'
    BY <2>1, <2>2 DEF Reached, Booking, Bodies
  <2>7. QED
    BY <1>1, <2>2, <2>3, <2>4, <2>5, <2>6
<1>4. QED
  BY <1>2, <1>3

\* What a step of the pilot's that files nothing keeps.
LEMMA NothingFiled ==
    ASSUME FreightInv, UNCHANGED <<board, trails, inbox>>
    PROVE  /\ inbox' \in Seq(Acts) /\ CaptainBooksOnly' /\ CollectsWhatIsOwed' /\ TrailsTell'
           /\ \A m \in Loads : Reached(m)' = Reached(m)
BY DEF FreightInv, TypeOK, CaptainBooksOnly, CollectsWhatIsOwed, PilotActs, TrailsTell, Reached

\* The fold ends.
LEMMA EndKeeps == FreightInv /\ (Waits \/ Holds) => FreightInv'
<1> SUFFICES ASSUME FreightInv, Waits \/ Holds PROVE FreightInv'
  OBVIOUS
<1>1. /\ at' = "idle" /\ me' = NoMe
      /\ UNCHANGED <<world, board, trails, newest, inbox, active, companions, bayCap, adopted,
                     recent, lost, resuming, sent, mishaps, captains>>
  BY DEF Waits, Holds, EndsFold, exchange, bay
<1>2. LineInv'
  BY LineStep DEF Next, Fold, FreightInv
<1>3. NoMe \in [pending : BOOLEAN, trails : [Loads -> Seq(Events)], newest : Seq(Loads),
                mine : SUBSET Loads, due : SUBSET Loads, open : SUBSET Loads]
  BY DEF NoMe
<1>4. TypeOK'
  BY <1>1, <1>3 DEF FreightInv, TypeOK
<1>5. CaptainBooksOnly' /\ CollectsWhatIsOwed' /\ TrailsTell' /\ \A m \in Loads : Reached(m)' = Reached(m)
  BY <1>1, NothingFiled
<1>6. KnownReached'
  BY <1>1, <1>5, InTypes, ReachedStands DEF FreightInv, Known
<1>7. QED
  BY <1>1, <1>2, <1>4, <1>5, <1>6, Unfolded DEF FreightInv

\* What the fold reads is what the trails tell.
LEMMA ReadKeeps == FreightInv /\ ReadHull => FreightInv'
<1> SUFFICES ASSUME FreightInv, ReadHull PROVE FreightInv'
  OBVIOUS
<1>1. /\ UNCHANGED <<world, board, trails, newest, inbox, active, companions, bayCap, recent,
                     lost, sent, mishaps, captains>>
      /\ adopted' \in BOOLEAN
  BY DEF ReadHull, exchange, bay, FreightInv, TypeOK
<1>2. LineInv'
  BY LineStep DEF Next, Fold, FreightInv
<1>3. CaptainBooksOnly' /\ CollectsWhatIsOwed' /\ TrailsTell' /\ \A m \in Loads : Reached(m)' = Reached(m)
  BY <1>1, NothingFiled
<1>4. KnownReached' /\ Known' = Known
  BY <1>1, <1>3, InTypes, ReachedStands DEF FreightInv, Known
<1>5. CASE UNCHANGED <<at, me, resuming>>
  <2>1. TypeOK'
    BY <1>1, <1>5 DEF FreightInv, TypeOK
  <2>2. FoldInv'
    BY <1>1, <1>5, InTypes, FoldStands DEF FreightInv
  <2>3. QED
    BY <1>2, <1>3, <1>4, <2>1, <2>2 DEF FreightInv
<1>6. CASE /\ at' = "read" /\ resuming' = FALSE
           /\ me' = [pending |-> InFlight, trails |-> trails, newest |-> newest,
                     mine |-> Mine, due |-> Due, open |-> {}]
  <2>1. /\ me'.pending = (inbox # << >>) /\ me'.trails = trails /\ me'.mine = Mine /\ me'.due = Due
    BY <1>6 DEF InFlight
  <2>2. TypeOK'
    <3>1. /\ trails \in [Loads -> Seq(Events)] /\ newest \in Seq(Loads)
          /\ Mine \in SUBSET Loads /\ Due \in SUBSET Loads /\ InFlight \in BOOLEAN
      BY DEF FreightInv, TypeOK, Mine, Due, InFlight
    <3>2. me' \in [pending : BOOLEAN, trails : [Loads -> Seq(Events)], newest : Seq(Loads),
                   mine : SUBSET Loads, due : SUBSET Loads, open : SUBSET Loads]
      BY <1>6, <3>1
    <3>3. QED
      BY <1>1, <1>6, <3>2 DEF FreightInv, TypeOK
  <2>3. ReadTells'
    BY <2>1 DEF FreightInv, TrailsTell, Tells, ReadTells, Mine, Due, Ours
  <2>4. KnownRead'
    <3> SUFFICES ASSUME inbox = << >>, NEW l \in Known PROVE trails[l] # << >>
      BY <1>4, <2>1 DEF KnownRead
    <3>1. Reached(l)
      BY DEF FreightInv, KnownReached
    <3>2. DOMAIN inbox = {}
      BY EmptySeq
    <3>3. QED
      BY <3>1, <3>2 DEF Reached
  <2>5. FliesOnlyItsOwn' /\ DueStands'
    BY <1>1, <1>6, <2>1 DEF FliesOnlyItsOwn, DueStands, Due
  <2>6. QED
    BY <1>2, <1>3, <1>4, <2>2, <2>3, <2>4, <2>5 DEF FreightInv, FoldInv
<1>7. QED
  BY <1>5, <1>6 DEF ReadHull

\* What is adopted is this hull's, and is open in what the fold has read.
LEMMA AdoptKeeps == FreightInv /\ Adopt => FreightInv'
<1> SUFFICES ASSUME FreightInv, Adopt PROVE FreightInv'
  OBVIOUS
<1>1. /\ at = "read" /\ at' = "adopted" /\ adopted' = TRUE
      /\ UNCHANGED <<world, board, trails, newest, inbox, me, bayCap, recent, lost, resuming,
                     sent, captains>>
  BY DEF Adopt, exchange
<1>2. LineInv'
  BY LineStep DEF Next, Fold, FreightInv
<1>3. CaptainBooksOnly' /\ CollectsWhatIsOwed' /\ TrailsTell' /\ \A m \in Loads : Reached(m)' = Reached(m)
  BY <1>1, NothingFiled
<1> DEFINE O == OpenInRecord
<1>4. O \in Seq(Loads) /\ \A l \in Range(O) : l \in Loads /\ me.trails[l] # << >>
  <2>1. me.newest \in Seq(Loads)
    BY DEF FreightInv, TypeOK
  <2>2. /\ O \in Seq(Loads)
        /\ Range(O) = Range(me.newest) \cap {l \in Loads : StillOpen(me.trails[l])}
    BY <2>1, OnlyKeeps DEF OpenInRecord
  <2>3. QED
    BY <2>2 DEF StillOpen
<1> HIDE DEF O
<1>5. /\ mishaps' \in 0..MaxMishaps
      /\ active' \in Loads \cup {NoLoad} /\ companions' \in Seq(Loads)
      /\ \A l \in Known' : l \in Known \/ (l \in Mine /\ me.trails[l] # << >>)
  <2>1. active \in Loads \cup {NoLoad} /\ companions \in Seq(Loads) /\ mishaps \in 0..MaxMishaps
    BY DEF FreightInv, TypeOK
  <2>2. CASE UNCHANGED <<active, companions, mishaps>>
    BY <2>1, <2>2 DEF Known
  <2>3. ASSUME NEW unread \in SUBSET (Range(O) \cap Mine),
               IF unread = {} THEN UNCHANGED mishaps ELSE Mishap,
               IF O # << >> /\ Head(O) \in Mine \ unread
               THEN active' = Head(O) /\ companions' = Tail(Rows(unread))
               ELSE UNCHANGED active /\ companions' = Rows(unread)
        PROVE  /\ mishaps' \in 0..MaxMishaps
               /\ active' \in Loads \cup {NoLoad} /\ companions' \in Seq(Loads)
               /\ \A l \in Known' : l \in Known \/ (l \in Mine /\ me.trails[l] # << >>)
    <3>1. mishaps' \in 0..MaxMishaps
      BY <2>1, <2>3, FreightAssumption DEF Mishap
    <3>2. Rows(unread) \in Seq(Loads) /\ Range(Rows(unread)) = Range(O) \cap (Mine \ unread)
      BY <1>4, OnlyKeeps DEF Rows, O
    <3>3. CASE O # << >> /\ Head(O) \in Mine \ unread
      <4>1. Head(O) \in Range(O) /\ Head(O) \in Range(Rows(unread))
        BY <1>4, <3>2, <3>3, EndsOff
      <4>2. Rows(unread) # << >>
        BY <4>1, EmptySeq DEF Range
      <4>3. companions' \in Seq(Loads) /\ Range(companions') \subseteq Range(Rows(unread))
        BY <2>3, <3>2, <3>3, <4>2, EndsOff
      <4>4. active' = Head(O) /\ active' \in Loads
        BY <1>4, <2>3, <3>3, <4>1
      <4>5. QED
        BY <1>4, <3>1, <3>2, <4>1, <4>3, <4>4 DEF Known
    <3>4. CASE ~(O # << >> /\ Head(O) \in Mine \ unread)
      <4>1. active' = active /\ companions' = Rows(unread)
        BY <2>3, <3>4
      <4>2. QED
        BY <1>4, <2>1, <3>1, <3>2, <4>1 DEF Known
    <3>5. QED
      BY <3>3, <3>4
  <2>4. QED
    BY <2>2, <2>3 DEF Adopt, O
<1>6. TypeOK'
  BY <1>1, <1>5 DEF FreightInv, TypeOK
<1>7. KnownReached'
  <2>1. \A l \in Mine : l \in Loads /\ Reached(l)
    BY DEF FreightInv, TrailsTell, Tells, Mine, Reached
  <2>2. Known \subseteq Loads
    BY InTypes DEF FreightInv
  <2>3. \A l \in Known' : Reached(l)'
    BY <1>3, <1>5, <2>1, <2>2 DEF FreightInv, KnownReached
  <2>4. sent.verb = "book" => sent.load \in Loads
    BY InTypes DEF FreightInv
  <2>5. QED
    BY <1>1, <1>3, <2>3, <2>4 DEF FreightInv, KnownReached
<1>8. FoldInv'
  <2>1. ReadTells'
    BY <1>1 DEF FreightInv, FoldInv, ReadTells, InFold
  <2>2. KnownRead'
    BY <1>1, <1>5 DEF FreightInv, FoldInv, KnownRead
  <2>3. FliesOnlyItsOwn' /\ DueStands'
    BY <1>1 DEF FreightInv, FoldInv, FliesOnlyItsOwn, DueStands
  <2>4. QED
    BY <2>1, <2>2, <2>3 DEF FoldInv
<1>9. QED
  BY <1>2, <1>3, <1>6, <1>7, <1>8 DEF FreightInv

\* What the bay teaches is between one and what it was.
LEMMA CapLearnt ==
    ASSUME FreightInv, NEW gone, NEW full \in SUBSET DOMAIN companions
    PROVE  Min({Held(k, gone) : k \in full} \cup {bayCap}) \in 1..BayLimit
<1>1. /\ bayCap \in Nat /\ 1 <= bayCap /\ bayCap <= BayLimit /\ BayLimit \in Nat
      /\ companions \in Seq(Loads)
  BY FreightAssumption DEF FreightInv, TypeOK
<1>2. ASSUME NEW k \in full PROVE Held(k, gone) \in Nat /\ 1 <= Held(k, gone)
  <2>1. k \in Int
    BY <1>1, LenProperties
  <2>2. IsFiniteSet(1..k)
    BY <2>1, FS_Interval
  <2>3. {j \in 1..k : companions[j] \notin gone} \in SUBSET (1..k)
    OBVIOUS
  <2>4. Cardinality({j \in 1..k : companions[j] \notin gone}) \in Nat
    BY <2>2, <2>3, FS_Subset, FS_CardinalityType
  <2>5. QED
    BY <2>4 DEF Held
<1> DEFINE S == {Held(k, gone) : k \in full} \cup {bayCap}
<1>3. S \in SUBSET Nat /\ bayCap \in S /\ \A n \in S : 1 <= n
  BY <1>1, <1>2
<1> HIDE DEF S
<1>4. Min(S) \in S /\ Min(S) <= bayCap
  BY <1>3, LeastOf
<1>5. Min(S) \in 1..BayLimit
  <2>1. Min(S) \in Nat /\ 1 <= Min(S)
    BY <1>3, <1>4
  <2>2. QED
    BY <1>1, <1>4, <2>1
<1>6. QED
  BY <1>5 DEF S

\* Nothing joins the bay as the closed contracts leave it.
LEMMA ClosedLeave ==
    ASSUME FreightInv, DropClosed
    PROVE  /\ active' \in Loads \cup {NoLoad} /\ companions' \in Seq(Loads)
           /\ bayCap' \in 1..BayLimit /\ lost' \in SUBSET Loads /\ adopted' \in BOOLEAN
           /\ recent' \in [Bodies -> IdStates]
           /\ \A b \in Bodies : recent'[b] = "taken" => recent[b] = "taken"
           /\ \A l \in Known' : l \in Known /\ ~Closed(me.trails[l])
<1> DEFINE gone == {l \in Known : Closed(me.trails[l])}
           sifted == Only(companions, Loads \ gone)
           stays == active # NoLoad /\ active \notin gone
           full == {k \in DOMAIN companions :
                      companions[k] \in gone /\ Reason(me.trails[companions[k]]) = "full"}
<1>1. /\ lost' = lost \cup gone
      /\ recent' = [b \in Bodies |-> IF b.load \in gone THEN "none" ELSE recent[b]]
      /\ adopted' = (adopted /\ (active = NoLoad \/ stays))
      /\ bayCap' = Min({Held(k, gone) : k \in full} \cup {bayCap})
      /\ IF stays \/ sifted = << >>
         THEN active' = (IF stays THEN active ELSE NoLoad) /\ companions' = sifted
         ELSE active' = Last(sifted) /\ companions' = Front(sifted)
  BY DEF DropClosed
<1>2. /\ active \in Loads \cup {NoLoad} /\ companions \in Seq(Loads) /\ Known \subseteq Loads
      /\ recent \in [Bodies -> IdStates] /\ "none" \in IdStates /\ lost \subseteq Loads /\ adopted \in BOOLEAN
  BY InTypes DEF FreightInv, TypeOK, IdStates
<1>3. sifted \in Seq(Loads) /\ Range(sifted) = Range(companions) \cap (Loads \ gone)
  BY <1>2, OnlyKeeps
<1>4. bayCap' \in 1..BayLimit
  <2>1. full \in SUBSET DOMAIN companions
    OBVIOUS
  <2> HIDE DEF full, gone
  <2>2. QED
    BY <1>1, <2>1, CapLearnt
<1>5. gone \subseteq Known /\ \A l \in Known : l \notin gone => ~Closed(me.trails[l])
  OBVIOUS
<1> HIDE DEF gone, sifted, full
<1>6. recent' \in [Bodies -> IdStates] /\ \A b \in Bodies : recent'[b] = "taken" => recent[b] = "taken"
  BY <1>1, <1>2
<1>7. adopted' \in BOOLEAN /\ lost' \in SUBSET Loads
  BY <1>1, <1>2, <1>5
<1>8. /\ active' \in Loads \cup {NoLoad} /\ companions' \in Seq(Loads)
      /\ \A l \in Known' : l \in Known /\ l \notin gone
  <2>1. CASE stays \/ sifted = << >>
    <3>1. companions' = sifted /\ (active' = NoLoad \/ (active' = active /\ stays))
      BY <1>1, <2>1
    <3>2. QED
      BY <1>2, <1>3, <3>1 DEF Known
  <2>2. CASE ~(stays \/ sifted = << >>)
    <3>1. /\ active' \in Range(sifted) /\ companions' \in Seq(Loads)
          /\ Range(companions') \subseteq Range(sifted)
      BY <1>1, <1>3, <2>2, EndsOff
    <3>2. QED
      BY <1>2, <1>3, <3>1 DEF Known
  <2>3. QED
    BY <2>1, <2>2
<1>9. QED
  BY <1>4, <1>5, <1>6, <1>7, <1>8

\* A fold comes to decide on what it saw this hull holding, and on nothing else.
LEMMA ReconcileKeeps == FreightInv /\ Reconcile => FreightInv'
<1> SUFFICES ASSUME FreightInv, Reconcile PROVE FreightInv'
  OBVIOUS
<1>1. /\ at = "adopted" /\ ~me.pending /\ at' = "boarded" /\ DropClosed /\ ReadBoard
      /\ UNCHANGED <<world, board, trails, newest, inbox, resuming, sent, mishaps, captains>>
  BY DEF Reconcile, exchange
<1>2. LineInv'
  BY LineStep DEF Next, Fold, FreightInv
<1>3. CaptainBooksOnly' /\ CollectsWhatIsOwed' /\ TrailsTell' /\ \A m \in Loads : Reached(m)' = Reached(m)
  BY <1>1, NothingFiled
<1>4. /\ active' \in Loads \cup {NoLoad} /\ companions' \in Seq(Loads)
      /\ bayCap' \in 1..BayLimit /\ lost' \in SUBSET Loads /\ adopted' \in BOOLEAN
      /\ recent' \in [Bodies -> IdStates]
      /\ \A b \in Bodies : recent'[b] = "taken" => recent[b] = "taken"
      /\ \A l \in Known' : l \in Known /\ ~Closed(me.trails[l])
  BY <1>1, ClosedLeave
<1> DEFINE Reads == [pending : BOOLEAN, trails : [Loads -> Seq(Events)], newest : Seq(Loads),
                     mine : SUBSET Loads, due : SUBSET Loads, open : SUBSET Loads]
<1>5. /\ me' \in Reads /\ me'.trails = me.trails /\ me'.mine = me.mine /\ me'.due = me.due
  <2>1. me \in Reads
    BY DEF FreightInv, TypeOK
  <2>2. me' = me \/ \E S \in SUBSET Loads : me' = [me EXCEPT !.open = S]
    <3>1. {l \in Loads : board[l] = "open"} \ lost' \in SUBSET Loads
      OBVIOUS
    <3>2. QED
      BY <1>1, <3>1 DEF ReadBoard
  <2>3. QED
    BY <2>1, <2>2
<1>6. TypeOK'
  BY <1>1, <1>4, <1>5 DEF FreightInv, TypeOK
<1>7. Known \subseteq Loads /\ (sent.verb = "book" => sent.load \in Loads)
  BY InTypes DEF FreightInv
<1>8. KnownReached'
  <2>1. \A l \in Loads : Booking(l) \in Bodies
    BY DEF Booking, Bodies
  <2>2. QED
    BY <1>1, <1>3, <1>4, <1>7, <2>1 DEF FreightInv, KnownReached
<1>9. FoldInv'
  <2>1. FliesOnlyItsOwn'
    <3>1. \A l \in Known' : l \in me.mine
      BY <1>1, <1>4, <1>7 DEF FreightInv, FoldInv, KnownRead, ReadTells, InFold
    <3>2. QED
      BY <1>5, <3>1 DEF FliesOnlyItsOwn
  <2>2. ReadTells'
    BY <1>1, <1>5 DEF FreightInv, FoldInv, ReadTells, InFold
  <2>3. KnownRead' /\ DueStands'
    BY <1>1, <1>5 DEF FreightInv, FoldInv, KnownRead, DueStands
  <2>4. QED
    BY <2>1, <2>2, <2>3 DEF FoldInv
<1>10. QED
  BY <1>2, <1>3, <1>6, <1>8, <1>9 DEF FreightInv

\* A stray's pay was due when the fold read, and nothing of the pilot's was in flight since.
LEMMA StraysKeep == FreightInv /\ CollectStray => FreightInv'
<1> SUFFICES ASSUME FreightInv, CollectStray PROVE FreightInv'
  OBVIOUS
<1>1. PICK l \in Strays : FilesOnce([verb |-> "collect", load |-> l])
  BY DEF CollectStray
<1> DEFINE b == [verb |-> "collect", load |-> l]
<1>2. /\ at = "boarded"
      /\ UNCHANGED <<world, board, trails, newest, active, companions, bayCap, adopted, lost,
                     resuming, captains, recent>>
      /\ Accepts(b) \/ UNCHANGED inbox
      /\ \/ sent' = b /\ at' = "journal" /\ UNCHANGED <<me, mishaps>>
         \/ Mishap /\ UNCHANGED <<sent, me>> /\ at' = "deciding"
  BY <1>1 DEF CollectStray, FilesOnce, bay
<1>3. l \in Loads /\ l \in me.due /\ b \in Bodies /\ board[l] = "delivered"
  BY <1>2, InTypes DEF Strays, FreightInv, FoldInv, DueStands, Bodies
<1>4. b.verb = "collect" /\ b.load = l
  OBVIOUS
<1> HIDE DEF b
<1>5. LineInv'
  BY LineStep DEF Next, Fold, FreightInv
<1>6. /\ inbox' \in Seq(Acts) /\ CaptainBooksOnly' /\ CollectsWhatIsOwed' /\ TrailsTell'
      /\ \A m \in Loads : Reached(m) => Reached(m)'
  BY <1>2, <1>3, <1>4, ActFiled
<1>7. mishaps' \in 0..MaxMishaps
  BY <1>2, FreightAssumption DEF FreightInv, TypeOK, Mishap
<1>8. TypeOK'
  BY <1>2, <1>3, <1>6, <1>7 DEF FreightInv, TypeOK
<1>9. Known' = Known /\ Known \subseteq Loads
  BY <1>2, InTypes DEF Known, FreightInv
<1>10. KnownReached'
  <2>1. sent' = sent \/ sent'.verb # "book"
    BY <1>2, <1>4
  <2>2. sent.verb = "book" => sent.load \in Loads
    BY InTypes DEF FreightInv
  <2>3. QED
    BY <1>2, <1>6, <1>9, <2>1, <2>2 DEF FreightInv, KnownReached
<1>11. FoldInv'
  <2>1. CASE at' = "journal"
    BY <2>1, Unfolded
  <2>2. CASE at' = "deciding" /\ UNCHANGED me
    BY <1>2, <1>9, <2>2 DEF FreightInv, FoldInv, ReadTells, InFold, KnownRead, FliesOnlyItsOwn, DueStands
  <2>3. QED
    BY <1>2, <2>1, <2>2
<1>12. QED
  BY <1>5, <1>6, <1>8, <1>10, <1>11 DEF FreightInv

\* What the doctrine decides is about a contract, and where it collects, about one that is
\* due.
LEMMA DecidesWhatIsDue ==
    ASSUME FreightInv, at \in {"boarded", "deciding"}, NEW b \in Decisions
    PROVE  b \in Bodies /\ (b.verb = "collect" => board[b.load] = "delivered")
<1>1. /\ active \in Loads \cup {NoLoad} /\ companions \in Seq(Loads)
      /\ me.open \subseteq Loads /\ me.trails \in [Loads -> Seq(Events)]
  BY DEF FreightInv, TypeOK
<1>2. Known \subseteq Loads /\ Known \subseteq me.mine
  BY InTypes DEF FreightInv, FoldInv, FliesOnlyItsOwn
<1>3. ASSUME NEW l \in Known, Delivered(l), b = [verb |-> "collect", load |-> l]
      PROVE  b \in Bodies /\ board[b.load] = "delivered"
  <2>1. me.trails[l] \in Seq(Events) /\ l \in Loads
    BY <1>1, <1>2
  <2>2. Contains(me.trails[l], "delivered")
    BY <1>3 DEF Delivered, Word
  <2>3. "delivered" \in Range(me.trails[l])
    BY <2>1, <2>2, ContainsRange
  <2>4. l \in me.due
    BY <1>2, <2>1, <2>3 DEF FreightInv, FoldInv, ReadTells, InFold
  <2>5. board[l] = "delivered"
    BY <2>4 DEF FreightInv, FoldInv, DueStands
  <2>6. QED
    BY <1>3, <2>1, <2>5 DEF Bodies
<1>4. CASE active # NoLoad /\ Delivered(active)
  <2>1. active \in Known /\ b = [verb |-> "collect", load |-> active]
    BY <1>4 DEF Decisions, Known
  <2>2. QED
    BY <1>3, <1>4, <2>1
<1>5. CASE /\ ~(active # NoLoad /\ Delivered(active))
           /\ active # NoLoad /\ \E k \in DOMAIN companions : Delivered(companions[k])
  <2>1. PICK k \in DOMAIN companions : /\ Delivered(companions[k])
                                       /\ b = [verb |-> "collect", load |-> companions[k]]
    BY <1>5 DEF Decisions
  <2>2. companions[k] \in Known
    BY DEF Known, Range
  <2>3. QED
    BY <1>3, <2>1, <2>2
<1>6. CASE /\ ~(active # NoLoad /\ Delivered(active))
           /\ ~(active # NoLoad /\ \E k \in DOMAIN companions : Delivered(companions[k]))
  <2>1. PICK S \in SUBSET Loads : b \in [verb : {"book"}, load : S]
    <3>1. me.open \in SUBSET Loads /\ me.open \ Known \in SUBSET Loads /\ {} \in SUBSET Loads
      BY <1>1
    <3>2. \/ b \in [verb : {"book"}, load : me.open]
          \/ b \in [verb : {"book"}, load : me.open \ Known]
      BY <1>6 DEF Decisions
    <3>3. QED
      BY <3>1, <3>2
  <2>2. QED
    BY <2>1 DEF Bodies
<1>7. QED
  BY <1>4, <1>5, <1>6

LEMMA FileKeeps == FreightInv /\ File => FreightInv'
<1> SUFFICES ASSUME FreightInv, File PROVE FreightInv'
  OBVIOUS
<1>1. PICK b \in Decisions : Sends(b)
  BY DEF File
<1>2. /\ at \in {"boarded", "deciding"}
      /\ UNCHANGED <<world, board, trails, newest, active, companions, bayCap, adopted, lost,
                     resuming, captains>>
  BY DEF File, bay
<1>3. b \in Bodies /\ (b.verb = "collect" => board[b.load] = "delivered")
  BY <1>2, DecidesWhatIsDue
<1>4. LineInv'
  BY LineStep DEF Next, Fold, FreightInv
<1>5. Accepts(b) \/ UNCHANGED inbox
  BY <1>1 DEF Sends, Reaches
<1>6. /\ inbox' \in Seq(Acts) /\ CaptainBooksOnly' /\ CollectsWhatIsOwed' /\ TrailsTell'
      /\ \A m \in Loads : Reached(m) => Reached(m)'
      /\ Accepts(b) /\ b.verb = "book" => Reached(b.load)'
  BY <1>2, <1>3, <1>5, ActFiled
<1>7. recent \in [Bodies -> IdStates] /\ mishaps \in 0..MaxMishaps /\ sent \in Bodies \cup {NoBody}
  BY DEF FreightInv, TypeOK
<1>8. /\ at' \in {"journal", "idle"} /\ mishaps' \in 0..MaxMishaps
      /\ me' = me \/ me' = NoMe
      /\ sent' = sent \/ (sent' = b /\ Reaches(b))
  BY <1>1, <1>7, FreightAssumption DEF Sends, EndsFold, Mishap
<1>9. \E i \in IdStates : /\ recent' = [recent EXCEPT ![b] = i]
                          /\ i = "taken" => recent[b] = "taken" \/ Reaches(b)
  <2>1. CASE Reaches(b)
    <3>1. "acked" \in IdStates /\ "taken" \in IdStates /\ "unheard" \in IdStates
      BY DEF IdStates
    <3>2. CASE recent' = [recent EXCEPT ![b] = IF recent[b] = "none" THEN "unheard" ELSE recent[b]]
      <4> DEFINE i == IF recent[b] = "none" THEN "unheard" ELSE recent[b]
      <4>1. i \in IdStates /\ recent' = [recent EXCEPT ![b] = i]
        BY <1>3, <1>7, <3>1, <3>2
      <4>2. QED
        BY <2>1, <4>1
    <3>3. QED
      BY <1>1, <1>3, <1>7, <2>1, <3>1, <3>2 DEF Sends
  <2>2. CASE ~Reaches(b)
    <3> DEFINE i == IF recent[b] = "none" THEN "unheard" ELSE recent[b]
    <3>1. i \in IdStates /\ (i = "taken" => recent[b] = "taken")
      BY <1>3, <1>7 DEF IdStates
    <3>2. recent' = [recent EXCEPT ![b] = i]
      BY <1>1, <1>3, <1>7, <2>2 DEF Sends
    <3> HIDE DEF i
    <3>3. QED
      BY <3>1, <3>2
  <2>3. QED
    BY <2>1, <2>2
<1>10. PICK i \in IdStates : /\ recent' = [recent EXCEPT ![b] = i]
                             /\ i = "taken" => recent[b] = "taken" \/ Reaches(b)
  BY <1>9
<1>11. TypeOK'
  <2>1. NoMe \in [pending : BOOLEAN, trails : [Loads -> Seq(Events)], newest : Seq(Loads),
                  mine : SUBSET Loads, due : SUBSET Loads, open : SUBSET Loads]
    BY DEF NoMe
  <2>2. me' \in [pending : BOOLEAN, trails : [Loads -> Seq(Events)], newest : Seq(Loads),
                 mine : SUBSET Loads, due : SUBSET Loads, open : SUBSET Loads]
    BY <1>8, <2>1 DEF FreightInv, TypeOK
  <2>3. recent' \in [Bodies -> IdStates] /\ sent' \in Bodies \cup {NoBody}
    BY <1>3, <1>7, <1>8, <1>10
  <2>4. QED
    BY <1>2, <1>6, <1>8, <2>2, <2>3 DEF FreightInv, TypeOK
<1>12. KnownReached'
  <2>1. Known' = Known /\ Known \subseteq Loads /\ (sent.verb = "book" => sent.load \in Loads)
    BY <1>2, InTypes DEF Known, FreightInv
  <2>2. ASSUME b.verb = "book" PROVE b = Booking(b.load) /\ b.load \in Loads
    BY <1>3, <2>2 DEF Booking, Bodies
  <2>3. b.verb = "book" /\ recent[b] = "taken" => Reached(b.load)'
    BY <1>6, <2>2 DEF FreightInv, KnownReached
  <2>4. b.verb = "book" /\ Reaches(b) => Reached(b.load)'
    BY <1>6, <2>3 DEF Reaches
  <2>5. (sent.verb = "book" => Reached(sent.load))'
    <3>1. CASE sent' = sent
      <4> SUFFICES ASSUME sent.verb = "book" PROVE Reached(sent.load)'
        BY <3>1
      <4>1. PICK l \in Loads : l = sent.load
        BY <2>1
      <4>2. Reached(l)'
        BY <1>6, <4>1 DEF FreightInv, KnownReached
      <4>3. QED
        BY <3>1, <4>1, <4>2 DEF Reached
    <3>2. CASE sent' = b /\ Reaches(b)
      BY <2>4, <3>2 DEF Reached
    <3>3. QED
      BY <1>8, <3>1, <3>2
  <2>6. ASSUME NEW l \in Loads, recent'[Booking(l)] = "taken" PROVE Reached(l)'
    <3>1. Booking(l) \in Bodies /\ Booking(l).verb = "book" /\ Booking(l).load = l
      BY DEF Booking, Bodies
    <3>2. CASE Booking(l) = b
      BY <1>7, <1>10, <2>3, <2>4, <2>6, <3>1, <3>2
    <3>3. CASE Booking(l) # b
      BY <1>6, <1>7, <1>10, <2>6, <3>1, <3>3 DEF FreightInv, KnownReached
    <3>4. QED
      BY <3>2, <3>3
  <2>7. \A l \in Known : Reached(l)'
    BY <1>6, <2>1 DEF FreightInv, KnownReached
  <2>8. QED
    BY <2>1, <2>5, <2>6, <2>7 DEF KnownReached
<1>13. QED
  BY <1>4, <1>6, <1>8, <1>11, <1>12, Unfolded DEF FreightInv

\* A booking joins the bay on the exchange's word: it has reached the exchange.
LEMMA JournalKeeps == FreightInv /\ Journal => FreightInv'
<1> SUFFICES ASSUME FreightInv, Journal PROVE FreightInv'
  OBVIOUS
<1> DEFINE n == Len(inbox)
           Mark(k) == [body |-> inbox[k].body, by |-> inbox[k].by,
                       logged |-> inbox[k].logged \/ (inbox[k].body = sent /\ inbox[k].by = "pilot")]
<1>1. /\ inbox' = [k \in DOMAIN inbox |-> Mark(k)]
      /\ sent' = NoBody /\ at' = "idle" /\ me' = NoMe
      /\ UNCHANGED <<world, board, trails, newest, bayCap, adopted, recent, lost, resuming, mishaps, captains>>
  BY DEF Journal, EndsFold
<1>2. LineInv'
  BY LineStep DEF Next, Fold, FreightInv
<1>3. /\ n \in Nat /\ DOMAIN inbox = 1..n
      /\ \A k \in DOMAIN inbox : inbox[k] \in Acts /\ inbox[k].body \in Bodies
  BY InTypes DEF FreightInv
<1> HIDE DEF n
<1>4. \A k \in 1..n : Mark(k) \in Acts
  <2>1. \A e \in Acts : /\ e.by \in {"pilot", "captain"} /\ e.logged \in BOOLEAN
    BY DEF Acts
  <2>2. QED
    BY <1>3, <2>1 DEF Acts
<1>5. inbox' \in Seq(Acts)
  <2> HIDE DEF Mark
  <2>1. inbox' \in [1..n -> Acts]
    BY <1>1, <1>3, <1>4
  <2>2. QED
    BY <1>3, <2>1
<1>6. /\ DOMAIN inbox' = DOMAIN inbox
      /\ \A k \in DOMAIN inbox : inbox'[k].body = inbox[k].body /\ inbox'[k].by = inbox[k].by
  BY <1>1
<1> HIDE DEF Mark
<1>7. CaptainBooksOnly' /\ CollectsWhatIsOwed' /\ TrailsTell' /\ \A m \in Loads : Reached(m)' = Reached(m)
  BY <1>1, <1>6 DEF FreightInv, CaptainBooksOnly, CollectsWhatIsOwed, PilotActs, TrailsTell, Reached
<1>8. /\ active' \in Loads \cup {NoLoad} /\ companions' \in Seq(Loads)
      /\ \A l \in Known' : l \in Known \/ (sent.verb = "book" /\ l = sent.load)
  <2>1. /\ active \in Loads \cup {NoLoad} /\ companions \in Seq(Loads)
        /\ sent.verb = "book" => sent.load \in Loads
    BY InTypes DEF FreightInv, TypeOK
  <2>2. CASE sent.verb = "book" /\ active # NoLoad
    <3>1. companions' = Append(companions, sent.load) /\ active' = active
      BY <2>2 DEF Journal
    <3>2. companions' \in Seq(Loads) /\ Range(companions') = Range(companions) \cup {sent.load}
      BY <2>1, <2>2, <3>1, RangeAppend, AppendProperties
    <3>3. QED
      BY <2>1, <2>2, <3>1, <3>2 DEF Known
  <2>3. CASE ~(sent.verb = "book" /\ active # NoLoad)
    <3>1. /\ companions' = companions
          /\ active' = active \/ (sent.verb = "book" /\ active' = sent.load)
      BY <2>3 DEF Journal
    <3>2. QED
      BY <2>1, <3>1 DEF Known
  <2>4. QED
    BY <2>2, <2>3
<1>9. TypeOK'
  <2>1. NoMe \in [pending : BOOLEAN, trails : [Loads -> Seq(Events)], newest : Seq(Loads),
                  mine : SUBSET Loads, due : SUBSET Loads, open : SUBSET Loads]
    BY DEF NoMe
  <2>2. QED
    BY <1>1, <1>5, <1>8, <2>1 DEF FreightInv, TypeOK
<1>10. KnownReached'
  <2>1. Known \subseteq Loads /\ (sent.verb = "book" => sent.load \in Loads) /\ NoBody.verb # "book"
    BY InTypes DEF FreightInv, NoBody
  <2>2. QED
    BY <1>1, <1>7, <1>8, <2>1 DEF FreightInv, KnownReached
<1>11. QED
  BY <1>1, <1>2, <1>5, <1>7, <1>9, <1>10, Unfolded DEF FreightInv

\* Forgetting an id, or a whole life, forgets no act of the exchange's.
LEMMA ForgetKeeps == FreightInv /\ (Forget \/ Restart \/ UNCHANGED vars) => FreightInv'
<1> SUFFICES ASSUME FreightInv, Forget \/ Restart \/ UNCHANGED vars PROVE FreightInv'
  OBVIOUS
<1>1. /\ UNCHANGED <<world, board, trails, newest, inbox, captains>>
  BY DEF Forget, Restart, vars, exchange
<1>2. LineInv'
  BY LineStep DEF Next, FreightInv
<1>3. CaptainBooksOnly' /\ CollectsWhatIsOwed' /\ TrailsTell' /\ \A m \in Loads : Reached(m)' = Reached(m)
  BY <1>1, NothingFiled
<1>4. /\ recent \in [Bodies -> IdStates] /\ "none" \in IdStates
      /\ \A l \in Loads : Booking(l) \in Bodies
  BY DEF FreightInv, TypeOK, IdStates, Booking, Bodies
<1>5. /\ recent' \in [Bodies -> IdStates]
      /\ \A b \in Bodies : recent'[b] = "taken" => recent[b] = "taken"
  BY <1>4 DEF Forget, Restart, vars
<1>6. CASE Forget \/ UNCHANGED vars
  <2>1. UNCHANGED <<at, me, active, companions, bayCap, adopted, resuming, sent, mishaps>>
    BY <1>6 DEF Forget, vars, bay
  <2>2. lost' \in SUBSET Loads
    BY <1>6 DEF Forget, vars, FreightInv, TypeOK
  <2>3. TypeOK'
    BY <1>1, <1>5, <2>1, <2>2 DEF FreightInv, TypeOK
  <2>4. FoldInv'
    BY <1>1, <2>1, InTypes, FoldStands DEF FreightInv
  <2>5. Known' = Known /\ Known \subseteq Loads /\ (sent.verb = "book" => sent.load \in Loads)
    BY <2>1, InTypes DEF Known, FreightInv
  <2>6. KnownReached'
    BY <1>3, <1>4, <1>5, <2>1, <2>5 DEF FreightInv, KnownReached
  <2>7. QED
    BY <1>2, <1>3, <2>3, <2>4, <2>6 DEF FreightInv
<1>7. CASE Restart
  <2>1. /\ active' = NoLoad /\ companions' = << >> /\ bayCap' = BayLimit /\ adopted' = FALSE
        /\ resuming' = TRUE /\ lost' = {} /\ sent' = NoBody /\ at' = "idle" /\ me' = NoMe /\ Mishap
    BY <1>7 DEF Restart, EndsFold
  <2>2. TypeOK'
    <3>1. /\ NoMe \in [pending : BOOLEAN, trails : [Loads -> Seq(Events)], newest : Seq(Loads),
                       mine : SUBSET Loads, due : SUBSET Loads, open : SUBSET Loads]
          /\ mishaps' \in 0..MaxMishaps /\ BayLimit \in 1..BayLimit /\ << >> \in Seq(Loads)
      BY <2>1, FreightAssumption DEF NoMe, Mishap, FreightInv, TypeOK
    <3>2. QED
      BY <1>1, <1>5, <2>1, <3>1 DEF FreightInv, TypeOK
  <2>3. Known' = {} /\ NoBody.verb # "book"
    BY <2>1, EmptySeq DEF Known, Range, NoBody
  <2>4. KnownReached'
    BY <1>3, <1>4, <1>5, <2>1, <2>3 DEF FreightInv, KnownReached
  <2>5. QED
    BY <1>2, <1>3, <2>1, <2>2, <2>4, Unfolded DEF FreightInv
<1>8. QED
  BY <1>6, <1>7

LEMMA FreightStep == FreightInv /\ [Next]_vars => FreightInv'
<1>1. ASSUME FreightInv, Fold PROVE FreightInv'
  BY <1>1, ReadKeeps, AdoptKeeps, EndKeeps, ReconcileKeeps, StraysKeep, FileKeeps, JournalKeeps DEF Fold
<1>2. QED
  BY <1>1, ResolveKeeps, MovesKeep, CaptainKeeps, ForgetKeeps DEF Next

LEMMA FreightAlways == Spec => []FreightInv
<1>1. QED
  BY InitFreight, FreightStep, PTL DEF Spec

-----------------------------------------------------------------------------

\* Whatever the exchange, the captain and the pilot do, every part of the state keeps its
\* type: what the pilot learns of the world's bay stays between one and its own limit.
THEOREM TypeCorrect == Spec => []TypeOK
<1>1. FreightInv => TypeOK
  BY DEF FreightInv
<1>2. QED
  BY <1>1, FreightAlways, PTL

\* When a fold comes to decide, every contract it takes for held is one the exchange showed
\* this hull as holding in that fold: a booking refused, lost or reverted has left the bay.
THEOREM ItsOwn == Spec => []FliesOnlyItsOwn
<1>1. FreightInv => FliesOnlyItsOwn
  BY DEF FreightInv, FoldInv
<1>2. QED
  BY <1>1, FreightAlways, PTL

\* Every collection in flight is of a load delivered and not yet paid, whoever saw to it,
\* the doctrine or the walk over strays, and whatever died or was lost meanwhile.
THEOREM OwedOnly == Spec => []CollectsWhatIsOwed
<1>1. FreightInv => CollectsWhatIsOwed
  BY DEF FreightInv
<1>2. QED
  BY <1>1, FreightAlways, PTL

-----------------------------------------------------------------------------
(* The merchant: sets of naturals.                                          *)

LEMMA LesserOf ==
    ASSUME NEW a \in Int, NEW b \in Int
    PROVE  Min({a, b}) = IF a <= b THEN a ELSE b
<1>1. CASE a <= b
  <2>1. a \in {a, b} /\ \A y \in {a, b} : a <= y
    BY <1>1
  <2>2. QED
    BY <1>1, <2>1 DEF Min
<1>2. CASE ~(a <= b)
  <2>1. b \in {a, b} /\ \A y \in {a, b} : b <= y
    BY <1>2
  <2>2. QED
    BY <1>2, <2>1 DEF Min
<1>3. QED
  BY <1>1, <1>2

LEMMA GreaterOf ==
    ASSUME NEW a \in Int, NEW b \in Int
    PROVE  Max({a, b}) = IF a <= b THEN b ELSE a
<1>1. CASE a <= b
  <2>1. b \in {a, b} /\ \A y \in {a, b} : b >= y
    BY <1>1
  <2>2. QED
    BY <1>1, <2>1 DEF Max
<1>2. CASE ~(a <= b)
  <2>1. a \in {a, b} /\ \A y \in {a, b} : a >= y
    BY <1>2
  <2>2. QED
    BY <1>2, <2>1 DEF Max
<1>3. QED
  BY <1>1, <1>2

\* The most of a finite set of naturals.
LEMMA MostOf ==
    ASSUME NEW S \in SUBSET Nat, IsFiniteSet(S), S # {}
    PROVE  Max(S) \in S /\ \A x \in S : x <= Max(S)
<1> DEFINE n == Cardinality(S)
<1>1. n \in Nat /\ ExistsBijection(1..n, S)
  BY FS_CardinalityType
<1> HIDE DEF n
<1>2. PICK f : f \in [1..n -> S] /\ \A x \in S : \E k \in 1..n : f[k] = x
  BY <1>1 DEF ExistsBijection, Bijection, Surjection
<1> DEFINE Under(m) == \E top \in Nat : \A k \in 1..m : f[k] <= top
           G == {m \in Nat : m <= n => Under(m)}
<1>3. 0 \in G
  OBVIOUS
<1>4. ASSUME NEW m \in Nat, m \in G PROVE m + 1 \in G
  <2>1. CASE m + 1 <= n
    <3>0. Under(m)
      <4> HIDE DEF Under
      <4>1. m <= n
        BY <1>1, <2>1
      <4>2. QED
        BY <1>4, <4>1
    <3>1. PICK top \in Nat : \A k \in 1..m : f[k] <= top
      BY <3>0
    <3>2. m + 1 \in 1..n /\ f[m + 1] \in Nat /\ \A k \in 1..m : f[k] \in Nat
      <4>1. m + 1 \in 1..n /\ \A k \in 1..m : k \in 1..n
        BY <1>1, <2>1
      <4>2. QED
        BY <1>2, <4>1
    <3>3. PICK more \in Nat : top <= more /\ f[m + 1] <= more
      BY <3>2
    <3>4. \A k \in 1..(m + 1) : k \in 1..m \/ k = m + 1
      OBVIOUS
    <3>5. \A k \in 1..(m + 1) : f[k] <= more
      BY <3>1, <3>2, <3>3, <3>4
    <3>6. Under(m + 1)
      BY <3>3, <3>5
    <3> HIDE DEF Under
    <3>7. QED
      BY <3>6
  <2>2. QED
    BY <2>1
<1>5. n \in G
  <2> HIDE DEF G
  <2>1. QED
    BY <1>1, <1>3, <1>4, Climb
<1>6. PICK top \in Nat : \A x \in S : x <= top
  <2>1. Under(n)
    <3> HIDE DEF Under
    <3>1. QED
      BY <1>1, <1>5
  <2>2. QED
    BY <1>2, <2>1
<1> DEFINE T == {top - x : x \in S}
<1>7. T \in SUBSET Nat /\ T # {}
  <2>1. \A x \in S : top - x \in Nat
    BY <1>6
  <2>2. QED
    BY <2>1
<1>8. PICK t \in T : \A y \in T : t <= y
  BY <1>7, Least
<1>9. PICK m \in S : t = top - m
  BY DEF T
<1>10. \A x \in S : top - x \in T /\ x \in Nat
  OBVIOUS
<1>11. \A x \in S : m >= x
  BY <1>8, <1>9, <1>10
<1>12. QED
  BY <1>11 DEF Max

\* What many of a kind come to.
LEMMA TimesGrows ==
    ASSUME NEW a \in Nat, NEW b \in Nat, NEW c \in Nat, a <= b
    PROVE  a * c <= b * c /\ a * c \in Nat /\ b * c \in Nat
<1>1. PICK d \in Nat : b = a + d
  BY b - a \in Nat
<1>2. b * c = a * c + d * c /\ d * c \in Nat
  BY <1>1
<1>3. QED
  BY <1>2

-----------------------------------------------------------------------------
(* What a hold carries.                                                     *)

OneOf(s) == CHOOSE x \in s : TRUE

LEMMA AnyIn == ASSUME NEW s, s # {} PROVE OneOf(s) \in s
BY DEF OneOf

\* A property of the empty set that a set has when it has it without one element is one of
\* every subset of a finite set.
LEMMA SubsetsOf ==
    ASSUME NEW S, IsFiniteSet(S), NEW G, {} \in G,
           \A s \in SUBSET S : s # {} /\ (s \ {OneOf(s)}) \in G => s \in G
    PROVE  \A s \in SUBSET S : s \in G
<1> DEFINE H == {n \in Nat : \A s \in SUBSET S : Cardinality(s) = n => s \in G}
<1>1. \A s \in SUBSET S : IsFiniteSet(s) /\ Cardinality(s) \in Nat
  BY FS_Subset, FS_CardinalityType
<1>2. 0 \in H
  BY <1>1, FS_EmptySet
<1>3. ASSUME NEW n \in Nat, n \in H PROVE n + 1 \in H
  <2>1. ASSUME NEW s \in SUBSET S, Cardinality(s) = n + 1 PROVE s \in G
    <3>1. s # {}
      BY <2>1, FS_EmptySet
    <3>2. OneOf(s) \in s
      BY <3>1, AnyIn
    <3>3. s \ {OneOf(s)} \in SUBSET S /\ Cardinality(s \ {OneOf(s)}) = n
      BY <1>1, <2>1, <3>2, FS_RemoveElement
    <3>4. s \ {OneOf(s)} \in G
      BY <1>3, <3>3
    <3>5. QED
      BY <3>1, <3>4
  <2>2. QED
    BY <2>1
<1>4. \A n \in Nat : n \in H
  <2> HIDE DEF H
  <2>1. QED
    BY <1>2, <1>3, Climb
<1>5. QED
  BY <1>1, <1>4

\* The sum is built up a good at a time.
LEMMA LoadSums ==
    ASSUME NEW cargo
    PROVE  \E sums : /\ Load(cargo) = sums[Goods] /\ sums[{}] = 0
                     /\ \A s \in SUBSET Goods :
                           s # {} => sums[s] = cargo[OneOf(s)] + sums[s \ {OneOf(s)}]
<1> DEFINE Upto(n) == {s \in SUBSET Goods : Cardinality(s) <= n}
           One(f, s) == cargo[OneOf(s)] + f[s \ {OneOf(s)}]
           Body(f, D) == [s \in D |-> IF s = {} THEN 0 ELSE One(f, s)]
           G == {n \in Nat : \E f : f = Body(f, Upto(n))}
<1>1. IsFiniteSet(Goods) /\ \A s \in SUBSET Goods : IsFiniteSet(s) /\ Cardinality(s) \in Nat
  BY MerchantAssumption, FS_Subset, FS_CardinalityType
<1>2. 0 \in G
  <2> DEFINE f == [s \in Upto(0) |-> 0]
  <2>1. \A s \in Upto(0) : s = {}
    <3>1. ASSUME NEW s \in Upto(0) PROVE s = {}
      BY <1>1, FS_EmptySet
    <3>2. QED
      BY <3>1
  <2> HIDE DEF Upto
  <2>2. f = Body(f, Upto(0))
    BY <2>1
  <2> HIDE DEF f
  <2>3. QED
    BY <2>2
<1>3. ASSUME NEW n \in Nat, n \in G PROVE n + 1 \in G
  <2>1. PICK f : f = Body(f, Upto(n))
    BY <1>3
  <2> DEFINE g == [s \in Upto(n + 1) |-> IF s \in Upto(n) THEN f[s] ELSE One(f, s)]
  <2>2. \A s \in Upto(n) : s \in Upto(n + 1)
    BY <1>1
  <2>3. \A s \in Upto(n + 1) : s # {} => s \ {OneOf(s)} \in Upto(n)
    <3>1. ASSUME NEW s \in Upto(n + 1), s # {} PROVE s \ {OneOf(s)} \in Upto(n)
      <4>1. OneOf(s) \in s
        BY <3>1, AnyIn
      <4>2. Cardinality(s \ {OneOf(s)}) = Cardinality(s) - 1 /\ s \ {OneOf(s)} \in SUBSET Goods
        BY <1>1, <4>1, FS_RemoveElement
      <4>3. QED
        BY <1>1, <4>2
    <3>2. QED
      BY <3>1
  <2>0. {} \in Upto(n)
    BY FS_EmptySet
  <2> HIDE DEF Upto
  <2>4. \A s \in Upto(n) : g[s] = f[s]
    BY <2>2
  <2>5. \A s \in Upto(n + 1) : s # {} => One(g, s) = One(f, s)
    BY <2>3, <2>4
  <2>6. \A s \in Upto(n) : f[s] = IF s = {} THEN 0 ELSE One(f, s)
    <3> HIDE DEF One
    <3>1. QED
      BY <2>1
  <2> HIDE DEF One
  <2>7. \A s \in Upto(n + 1) : g[s] = IF s = {} THEN 0 ELSE One(g, s)
    BY <2>0, <2>5, <2>6
  <2>8. g = Body(g, Upto(n + 1))
    BY <2>7
  <2> HIDE DEF g
  <2>9. QED
    BY <2>8
<1>4. Cardinality(Goods) \in G
  <2> HIDE DEF G
  <2>1. QED
    BY <1>1, <1>2, <1>3, Climb
<1>5. Upto(Cardinality(Goods)) = SUBSET Goods
  BY <1>1, FS_Subset
<1> DEFINE sums == CHOOSE f : f = Body(f, SUBSET Goods)
<1>6. sums = Body(sums, SUBSET Goods)
  BY <1>4, <1>5
<1>7. Load(cargo) = sums[Goods]
  BY DEF Load, MapThenSumSet, MapThenFoldSet, OneOf
<1>8. \A s \in SUBSET Goods : sums[s] = IF s = {} THEN 0 ELSE One(sums, s)
  <2> HIDE DEF One, sums
  <2>1. QED
    BY <1>6
<1> HIDE DEF sums
<1>9. QED
  BY <1>7, <1>8

\* No good is more than the load of all, and an empty hold carries nothing.
LEMMA LoadBounds ==
    ASSUME NEW cargo \in [Goods -> Nat]
    PROVE  /\ Load(cargo) \in Nat /\ \A g \in Goods : cargo[g] <= Load(cargo)
           /\ (\A g \in Goods : cargo[g] = 0) => Load(cargo) = 0
<1>1. PICK sums : /\ Load(cargo) = sums[Goods] /\ sums[{}] = 0
                  /\ \A s \in SUBSET Goods :
                        s # {} => sums[s] = cargo[OneOf(s)] + sums[s \ {OneOf(s)}]
  BY LoadSums
<1> DEFINE G == {s \in SUBSET Goods : /\ sums[s] \in Nat /\ \A g \in s : cargo[g] <= sums[s]
                                      /\ (\A g \in Goods : cargo[g] = 0) => sums[s] = 0}
<1>2. {} \in G
  BY <1>1
<1>3. ASSUME NEW s \in SUBSET Goods, s # {}, (s \ {OneOf(s)}) \in G PROVE s \in G
  <2>1. sums[s] = cargo[OneOf(s)] + sums[s \ {OneOf(s)}] /\ OneOf(s) \in Goods /\ cargo[OneOf(s)] \in Nat
    BY <1>1, <1>3, AnyIn
  <2>2. /\ sums[s \ {OneOf(s)}] \in Nat /\ \A g \in s \ {OneOf(s)} : cargo[g] <= sums[s \ {OneOf(s)}]
        /\ (\A g \in Goods : cargo[g] = 0) => sums[s \ {OneOf(s)}] = 0
    BY <1>3
  <2>3. sums[s] \in Nat /\ cargo[OneOf(s)] <= sums[s] /\ sums[s \ {OneOf(s)}] <= sums[s]
    BY <2>1, <2>2
  <2>4. \A g \in s : cargo[g] <= sums[s]
    <3>1. ASSUME NEW g \in s PROVE cargo[g] <= sums[s]
      <4>1. CASE g = OneOf(s)
        BY <2>3, <4>1
      <4>2. CASE g # OneOf(s)
        <5>1. cargo[g] <= sums[s \ {OneOf(s)}] /\ cargo[g] \in Nat
          BY <2>2, <4>2
        <5>2. QED
          BY <5>1, <2>2, <2>3
      <4>3. QED
        BY <4>1, <4>2
    <3>2. QED
      BY <3>1
  <2>5. (\A g \in Goods : cargo[g] = 0) => sums[s] = 0
    BY <2>1, <2>2
  <2>6. QED
    BY <2>3, <2>4, <2>5
<1>4. Goods \in G
  <2>1. \A s \in SUBSET Goods : s # {} /\ (s \ {OneOf(s)}) \in G => s \in G
    BY <1>3
  <2>2. IsFiniteSet(Goods)
    BY MerchantAssumption
  <2> HIDE DEF G
  <2>3. \A s \in SUBSET Goods : s \in G
    BY <1>2, <2>1, <2>2, SubsetsOf
  <2>4. QED
    BY <2>3
<1>5. QED
  BY <1>1, <1>4

\* Of a hold that differs in one good the load differs by as much.
LEMMA LoadMoves ==
    ASSUME NEW cargo \in [Goods -> Nat], NEW other \in [Goods -> Nat], NEW g \in Goods,
           \A h \in Goods : h # g => other[h] = cargo[h]
    PROVE  Load(other) + cargo[g] = Load(cargo) + other[g]
<1>1. PICK sums : /\ Load(cargo) = sums[Goods] /\ sums[{}] = 0
                  /\ \A s \in SUBSET Goods :
                        s # {} => sums[s] = cargo[OneOf(s)] + sums[s \ {OneOf(s)}]
  BY LoadSums
<1>2. PICK tots : /\ Load(other) = tots[Goods] /\ tots[{}] = 0
                  /\ \A s \in SUBSET Goods :
                        s # {} => tots[s] = other[OneOf(s)] + tots[s \ {OneOf(s)}]
  BY LoadSums
<1> DEFINE G == {s \in SUBSET Goods : /\ sums[s] \in Nat /\ tots[s] \in Nat
                                      /\ g \notin s => tots[s] = sums[s]
                                      /\ g \in s => tots[s] + cargo[g] = sums[s] + other[g]}
<1>3. {} \in G
  BY <1>1, <1>2
<1>4. ASSUME NEW s \in SUBSET Goods, s # {}, (s \ {OneOf(s)}) \in G PROVE s \in G
  <2> DEFINE a == OneOf(s)
             r == s \ {a}
  <2>1. /\ sums[s] = cargo[a] + sums[r] /\ tots[s] = other[a] + tots[r]
        /\ a \in s /\ a \in Goods /\ cargo[a] \in Nat /\ other[a] \in Nat
        /\ cargo[g] \in Nat /\ other[g] \in Nat
    BY <1>1, <1>2, <1>4, AnyIn
  <2>2. /\ sums[r] \in Nat /\ tots[r] \in Nat
        /\ g \notin r => tots[r] = sums[r]
        /\ g \in r => tots[r] + cargo[g] = sums[r] + other[g]
    BY <1>4
  <2>3. g \in r <=> g \in s /\ g # a
    OBVIOUS
  <2> HIDE DEF a, r
  <2>4. CASE a = g
    BY <2>1, <2>2, <2>3, <2>4
  <2>5. CASE a # g
    <3>1. other[a] = cargo[a]
      BY <2>1, <2>5
    <3>2. QED
      BY <2>1, <2>2, <2>3, <2>5, <3>1
  <2>6. QED
    BY <2>4, <2>5
<1>5. Goods \in G
  <2>1. \A s \in SUBSET Goods : s # {} /\ (s \ {OneOf(s)}) \in G => s \in G
    BY <1>4
  <2>2. IsFiniteSet(Goods)
    BY MerchantAssumption
  <2> HIDE DEF G
  <2>3. \A s \in SUBSET Goods : s \in G
    BY <1>3, <2>1, <2>2, SubsetsOf
  <2>4. QED
    BY <2>3
<1>6. QED
  BY <1>1, <1>2, <1>5

-----------------------------------------------------------------------------
(* The inductive invariant.                                                 *)

\* A buy was filed whose receipt is not read.
Awaited == trade # None /\ trade.side = "buy" /\ ~astray

\* What is in flight is what the pilot filed last.
Filed == queue # None /\ ~astray => trade = queue

\* While a receipt is awaited the lot of that buy is the only one, and it is aboard only once
\* the receipt is there that says what it cost.
OnBook ==
    Awaited => /\ book[trade.good] # None /\ bets \subseteq {trade.good}
               /\ bets # {} => /\ queue = None
                               /\ receipt = [outcome |-> "filled",
                                             total |-> trade.units * paid[trade.good]]

Booked == ~astray => \A g \in bets : book[g] # None

Priced == ~astray /\ ~Awaited => \A g \in bets : book[g].basis >= paid[g]

MerchantInv == MerchantTypeOK /\ Filed /\ OnBook /\ Booked /\ Priced /\ OneAtATime

-----------------------------------------------------------------------------
(* The constants.                                                           *)

LEMMA MerchantFigures ==
    /\ IsFiniteSet(Stations) /\ IsFiniteSet(Goods) /\ Pumps \subseteq Stations
    /\ Fuel \in [Stations \X Stations -> Nat] /\ Ticks \in [Stations \X Stations -> Nat]
    /\ Mid \in [Stations \X Goods -> Nat] /\ Ask \in [Stations \X Goods -> Nat]
    /\ Bid \in [Stations \X Goods -> Nat]
    /\ Capacity \in Nat \ {0} /\ Tank \in Nat \ {0} /\ MinHold \in Nat \ {0}
    /\ MaxHand \in Nat /\ MaxFaults \in Nat /\ Contract \in Nat
    /\ Purses \subseteq Nat /\ Caps \subseteq Nat
    /\ None \notin Stations /\ None \notin Goods
<1>1. IsFiniteSet(Stations) /\ IsFiniteSet(Goods) /\ Pumps \subseteq Stations
  BY MerchantAssumption
<1>2. \A f \in {Fuel, Ticks} : f \in [Stations \X Stations -> Nat]
  BY MerchantAssumption
<1>3. \A f \in {Mid, Ask, Bid} : f \in [Stations \X Goods -> Nat]
  BY MerchantAssumption
<1>4. {Capacity, Tank, MinHold, TicksPerDay} \subseteq Nat \ {0}
  BY MerchantAssumption
<1>5. {Posting, DailyCost, FuelPrice, Contract, MaxHand, MaxFaults} \subseteq Nat
  BY MerchantAssumption
<1>6. Purses \subseteq Nat /\ Caps \subseteq Nat
  BY MerchantAssumption
<1>7. None \notin Stations /\ None \notin Goods
  BY ChainAssumption
<1>8. QED
  BY <1>1, <1>2, <1>3, <1>4, <1>5, <1>6, <1>7

Flights == {Ticks[p] : p \in Stations \X Stations}

\* The values of a function on a finite set are finitely many.
LEMMA FiniteImage ==
    ASSUME NEW S, IsFiniteSet(S), NEW f, DOMAIN f = S
    PROVE  IsFiniteSet({f[x] : x \in S})
<1> DEFINE T == {f[x] : x \in S}
           g == [x \in S |-> f[x]]
<1>1. g \in Surjection(S, T)
  BY DEF Surjection
<1> HIDE DEF T, g
<1>2. IsFiniteSet(T)
  BY <1>1, FS_Surjection
<1>3. QED
  BY <1>2 DEF T

LEMMA FlightsBound ==
    ASSUME Stations # {}
    PROVE  /\ Max(Flights) \in Nat
           /\ \A s, r \in Stations : Ticks[<<s, r>>] \in 0..Max(Flights)
<1>1. Flights \in SUBSET Nat /\ \A s, r \in Stations : Ticks[<<s, r>>] \in Flights
  <2>1. \A p \in Stations \X Stations : Ticks[p] \in Nat
    BY MerchantFigures
  <2>2. QED
    BY <2>1 DEF Flights
<1>2. IsFiniteSet(Flights)
  <2>1. IsFiniteSet(Stations \X Stations)
    BY MerchantFigures, FS_Product
  <2>2. DOMAIN Ticks = Stations \X Stations
    BY MerchantFigures
  <2>3. QED
    BY <2>1, <2>2, FiniteImage DEF Flights
<1>3. Flights # {}
  BY <1>1
<1>4. Max(Flights) \in Flights /\ \A x \in Flights : x <= Max(Flights)
  BY <1>1, <1>2, <1>3, MostOf
<1> DEFINE top == Max(Flights)
<1>5. top \in Nat
  BY <1>1, <1>4
<1>6. ASSUME NEW s \in Stations, NEW r \in Stations PROVE Ticks[<<s, r>>] \in 0..top
  <2>1. Ticks[<<s, r>>] \in Flights
    BY <1>1
  <2>2. Ticks[<<s, r>>] \in Nat /\ Ticks[<<s, r>>] <= top
    BY <1>1, <1>4, <2>1
  <2> HIDE DEF top
  <2>3. QED
    BY <1>5, <2>2
<1>7. QED
  BY <1>5, <1>6

LEMMA NoneApart ==
    /\ \A h \in Positions : h # None
    /\ \A d \in Trades : d # None
    /\ \A r \in Receipts : r # None
BY NoneAssumption

-----------------------------------------------------------------------------
(* Arithmetic.                                                              *)

\* What a unit of a filled buy cost, rounded up.
LEMMA UnitCost ==
    ASSUME NEW units \in Nat \ {0}, NEW price \in Nat
    PROVE  /\ (units * price + units - 1) \div units \in Nat
           /\ (units * price + units - 1) \div units >= price
<1> DEFINE n == units * price + units - 1
           q == n \div units
<1>0. units * price \in Nat
  OBVIOUS
<1>1. n \in Nat /\ n >= units * price
  BY <1>0
<1> HIDE DEF n
<1>2. q \in Nat /\ q * units <= n /\ n < (q + 1) * units
  BY <1>1
<1> HIDE DEF q
<1>3. CASE q < price
  <2>1. (q + 1) * units <= price * units
    BY <1>2, <1>3, TimesGrows
  <2>2. price * units = units * price
    OBVIOUS
  <2>3. (q + 1) * units \in Nat
    BY <1>2
  <2>4. QED
    BY <1>0, <1>1, <1>2, <2>1, <2>2, <2>3
<1>4. QED
  BY <1>2, <1>3 DEF n, q

LEMMA LeastOfThree ==
    ASSUME NEW a \in Int, NEW b \in Int, NEW c \in Int
    PROVE  /\ Min({a, b, c}) \in {a, b, c} /\ Min({a, b, c}) <= a
           /\ Min({a, b, c}) <= b /\ Min({a, b, c}) <= c
<1> DEFINE S == {a, b, c}
<1>1. \E x \in S : \A y \in S : x <= y
  <2>1. PICK l \in {a, b} : l <= a /\ l <= b
    OBVIOUS
  <2>2. PICK x \in {l, c} : x <= l /\ x <= c
    OBVIOUS
  <2>3. x \in S /\ x <= a /\ x <= b /\ x <= c
    BY <2>1, <2>2
  <2>4. QED
    BY <2>3
<1>2. QED
  BY <1>1 DEF Min

-----------------------------------------------------------------------------
(* What the judgment names.                                                 *)

Bookings == [Goods -> Positions \cup {None}]

LEMMA OnwardIsNat ==
    ASSUME NEW s \in Stations
    PROVE  OnwardToPump(s) \in Nat
<1> DEFINE costs == {Fuel[<<s, p>>] : p \in Pumps}
<1>1. \A p \in Pumps : Fuel[<<s, p>>] \in Nat
  BY MerchantFigures
<1>2. CASE Pumps = {} \/ s \in Pumps
  BY <1>2 DEF OnwardToPump
<1>3. CASE ~(Pumps = {} \/ s \in Pumps)
  <2>1. costs \in SUBSET Nat /\ costs # {}
    BY <1>1, <1>3
  <2>2. OnwardToPump(s) = Min(costs)
    BY <1>3 DEF OnwardToPump
  <2> HIDE DEF costs
  <2>3. PICK n \in costs : \A m \in costs : n <= m
    BY <2>1, Least
  <2>4. Min(costs) \in costs
    BY <2>3 DEF Min
  <2>5. QED
    BY <2>1, <2>2, <2>4
<1>4. QED
  BY <1>2, <1>3

LEMMA DearestType ==
    ASSUME NEW g \in Goods, NEW stations \in SUBSET Stations, NEW map \in BOOLEAN
    PROVE  Dearest(g, stations, map) \in Stations \cup {None}
<1> DEFINE paying == {s \in stations : Mid[<<s, g>>] > 0}
           mids == {Mid[<<s, g>>] : s \in paying}
           on == [s \in paying |-> Mid[<<s, g>>]]
<1>1. CASE ~map \/ paying = {}
  BY <1>1 DEF Dearest
<1>2. CASE ~(~map \/ paying = {})
  <2>1. \A s \in Stations : Mid[<<s, g>>] \in Nat
    BY MerchantFigures
  <2>2. IsFiniteSet(paying)
    BY MerchantFigures, FS_Subset
  <2>3. DOMAIN on = paying /\ mids = {on[s] : s \in paying}
    OBVIOUS
  <2>4. IsFiniteSet(mids)
    <3> HIDE DEF on, mids, paying
    <3>1. QED
      BY <2>2, <2>3, FiniteImage
  <2>5. mids \in SUBSET Nat /\ mids # {}
    BY <1>2, <2>1
  <2>6. Max(mids) \in mids /\ \A x \in mids : x <= Max(mids)
    <3> HIDE DEF mids
    <3>1. QED
      BY <2>4, <2>5, MostOf
  <2>7. PICK s \in paying : Max(mids) = Mid[<<s, g>>]
    BY <2>6
  <2>8. \A r \in paying : Mid[<<r, g>>] <= Mid[<<s, g>>]
    BY <2>6, <2>7
  <2>9. Dearest(g, stations, map) = CHOOSE t \in paying : \A r \in paying : Mid[<<r, g>>] <= Mid[<<t, g>>]
    BY <1>2 DEF Dearest
  <2>10. Dearest(g, stations, map) \in paying
    BY <2>8, <2>9
  <2>11. QED
    BY <2>10
<1>3. QED
  BY <1>1, <1>2

LEMMA CarriesFlyable ==
    ASSUME NEW kept \in Bookings, NEW in, berth \in Stations, tank \in Nat,
           NEW s \in Carries(kept, in)
    PROVE  s \in Stations /\ FuelTo(s) \in Nat /\ FuelTo(s) <= tank
<1> DEFINE ready == {g \in Goods : kept[g] # None /\ kept[g].clock = 0 /\ kept[g].target # None}
           lastTold == {g \in ready : \A other \in ready : kept[g].age <= kept[other].age}
<1>1. PICK g \in lastTold : s = kept[g].target
  BY DEF Carries
<1>2. s \in Stations
  <2>1. kept[g] # None /\ kept[g] \in Positions \cup {None} /\ kept[g].target # None
    BY DEF Bookings
  <2>2. QED
    BY <1>1, <2>1 DEF Positions
<1>3. CarryFlyable(FuelTo(s) + OnwardToPump(s), tank)
  BY DEF Carries
<1>4. FuelTo(s) \in Nat /\ OnwardToPump(s) \in Nat /\ Tank \in Nat \ {0}
  BY <1>2, MerchantFigures, OnwardIsNat DEF FuelTo
<1>5. (tank - (FuelTo(s) + OnwardToPump(s))) * 20 >= Tank
  BY <1>3 DEF CarryFlyable
<1>6. QED
  BY <1>2, <1>4, <1>5

LEMMA SellsType ==
    ASSUME NEW kept \in Bookings, NEW in \in Readings, berth \in Stations,
           NEW d \in Sells(kept, in)
    PROVE  d \in Trades /\ d.side = "sell"
<1>1. PICK g \in Goods : /\ kept[g] # None /\ in.cap > 0
                         /\ d = [side |-> "sell", good |-> g, units |-> Min({kept[g].units, in.cap}),
                                 ask |-> AskHere(g)]
  BY DEF Sells
<1>2. kept[g].units \in 1..Capacity
  BY <1>1 DEF Bookings, Positions
<1>3. in.cap \in Nat /\ Capacity \in Nat
  BY MerchantFigures DEF Readings
<1>4. Min({kept[g].units, in.cap}) \in 1..Capacity
  BY <1>1, <1>2, <1>3, LesserOf
<1>5. AskHere(g) \in Nat
  BY MerchantFigures DEF AskHere
<1>6. QED
  BY <1>1, <1>4, <1>5 DEF Trades

LEMMA SpareBound ==
    ASSUME NEW in \in Readings, hold \in [Goods -> Nat], Load(hold) <= Capacity
    PROVE  SpareHold(in, hold) \in 0..Capacity
<1>1. Load(hold) \in Nat /\ Capacity \in Nat /\ Contract \in Nat
  BY LoadBounds, MerchantFigures
<1> DEFINE room == Capacity - Load(hold) - IF in.contract = "picked" THEN Contract ELSE 0
<1>2. room \in Int /\ room <= Capacity
  BY <1>1
<1>3. SpareHold(in, hold) = Max({0, room})
  BY DEF SpareHold
<1> HIDE DEF room
<1>4. QED
  BY <1>1, <1>2, <1>3, GreaterOf

LEMMA BuysType ==
    ASSUME NEW kept \in Bookings, NEW in \in Readings, berth \in Stations,
           hold \in [Goods -> Nat], Load(hold) <= Capacity, NEW d \in Buys(kept, in)
    PROVE  d \in Trades /\ d.side = "buy" /\ kept = Nothing
<1> DEFINE units(g) == Min({Bps(in.credits, 2500) \div AskHere(g), Bps(SpareHold(in, hold), 5000), in.cap})
<1>1. kept = Nothing /\ d \in Runs(in)
  BY DEF Buys
<1>2. \E s \in Stations, g \in Goods :
         /\ AskHere(g) > 0 /\ units(g) > 0
         /\ d = [side |-> "buy", good |-> g, units |-> units(g), ask |-> AskHere(g), target |-> s]
  <2> DEFINE fuel == FuelAvailable(in.credits)
             cost(s) == FuelTo(s) + OnwardToPump(s)
             when(s) == Max({TicksTo(s), MinHold})
             net(s, g) == UnitValue(s, g, when(s)) * Surviving(g, units(g), when(s))
                          - AskHere(g) * units(g) - cost(s) * FuelPrice
             margin(value, g) == value - AskHere(g) >= Max({1, Bps(AskHere(g), 2000)})
             sold == {g \in Goods : in.board /\ AskHere(g) > 0 /\ in.cap > 0}
             ceiling(s, g) == IF <<s, g>> \in DOMAIN Forecast THEN 2 * Spot(s, g) ELSE Spot(s, g)
             Open(r) == /\ in.map /\ in.answers /\ Mid[r] > 0 /\ margin(ceiling(r[1], r[2]), r[2])
                        /\ CarryAffordable(cost(r[1]), fuel)
                        /\ margin(UnitValue(r[1], r[2], when(r[1])), r[2])
                        /\ units(r[2]) > 0 /\ net(r[1], r[2]) >= 150
             all == {r \in (Stations \ {berth}) \X sold : Open(r)}
             best == {r \in all : \A q \in all : net(q[1], q[2]) <= net(r[1], r[2])}
  <2>1. Runs(in) = {[side |-> "buy", good |-> r[2], units |-> units(r[2]), ask |-> AskHere(r[2]),
                     target |-> r[1]] : r \in best}
    BY DEF Runs
  <2>2. \A r \in best : r \in (Stations \ {berth}) \X sold /\ units(r[2]) > 0
    <3> HIDE DEF net, margin, sold, ceiling, units, cost, when, fuel
    <3>1. QED
      OBVIOUS
  <2> HIDE DEF best, units
  <2>3. PICK r \in best : d = [side |-> "buy", good |-> r[2], units |-> units(r[2]),
                              ask |-> AskHere(r[2]), target |-> r[1]]
    BY <1>1, <2>1
  <2>4. r \in (Stations \ {berth}) \X sold /\ units(r[2]) > 0
    BY <2>2
  <2>5. r[1] \in Stations /\ r[2] \in Goods /\ AskHere(r[2]) > 0
    BY <2>4
  <2>6. QED
    BY <2>3, <2>4, <2>5
<1> HIDE DEF units
<1>3. PICK s \in Stations, g \in Goods :
         /\ AskHere(g) > 0 /\ units(g) > 0
         /\ d = [side |-> "buy", good |-> g, units |-> units(g), ask |-> AskHere(g), target |-> s]
  BY <1>2
<1>4. AskHere(g) \in Nat \ {0} /\ Capacity \in Nat
  BY <1>3, MerchantFigures DEF AskHere
<1>5. in.credits \in Nat /\ in.cap \in Nat
  BY MerchantFigures DEF Readings
<1> DEFINE a == Bps(in.credits, 2500) \div AskHere(g)
           b == Bps(SpareHold(in, hold), 5000)
           c == in.cap
<1>6. Bps(in.credits, 2500) \in Nat
  BY <1>5 DEF Bps
<1>7. a \in Nat
  BY <1>4, <1>6
<1>8. b \in Nat /\ b <= Capacity
  <2>1. SpareHold(in, hold) \in Nat /\ SpareHold(in, hold) <= Capacity
    BY <1>4, SpareBound
  <2>2. QED
    BY <1>4, <2>1 DEF Bps
<1>9. units(g) = Min({a, b, c}) /\ c \in Nat
  BY <1>5 DEF units
<1> HIDE DEF a, b, c
<1>10. units(g) \in 1..Capacity
  <2>1. Min({a, b, c}) \in {a, b, c} /\ Min({a, b, c}) <= b
    <3>1. a \in Int /\ b \in Int /\ c \in Int
      BY <1>7, <1>8, <1>9
    <3>2. QED
      BY <3>1, LeastOfThree
  <2>2. QED
    BY <1>3, <1>4, <1>7, <1>8, <1>9, <2>1
<1>11. d \in Trades /\ d.side = "buy"
  BY <1>3, <1>4, <1>10 DEF Trades
<1>12. QED
  BY <1>1, <1>11

\* A decision is one to sell, or one to buy with nothing on the book.
LEMMA DecisionsType ==
    ASSUME NEW kept \in Bookings, NEW in \in Readings, berth \in Stations,
           hold \in [Goods -> Nat], Load(hold) <= Capacity, NEW d \in DecideTrade(kept, in)
    PROVE  /\ d \in Trades /\ d.side \in {"sell", "buy"}
           /\ d.side = "buy" => kept = Nothing
<1>1. d \in Sells(kept, in) \/ d \in Buys(kept, in)
  BY DEF DecideTrade
<1>2. CASE d \in Sells(kept, in)
  BY <1>2, SellsType
<1>3. CASE d \in Buys(kept, in)
  BY <1>3, BuysType
<1>4. QED
  BY <1>1, <1>2, <1>3

\* What a berth at the other end takes of a buy is a buy.
LEMMA SizedType ==
    ASSUME NEW d \in Trades, d.side = "buy", NEW takes \in Caps \ {0}
    PROVE  Sized(d, takes) \in Trades /\ Sized(d, takes).side = "buy"
<1>1. d \in [side : {"buy"}, good : Goods, units : 1..Capacity, ask : Nat, target : Stations]
  BY DEF Trades
<1>2. takes \in Nat \ {0} /\ Capacity \in Nat
  BY MerchantFigures
<1>3. Min({d.units, takes}) \in 1..Capacity
  BY <1>1, <1>2, LesserOf
<1>4. QED
  BY <1>1, <1>3 DEF Sized, Trades

-----------------------------------------------------------------------------
(* What the steps of a fold make of the book.                               *)

LEMMA PositionFields ==
    ASSUME NEW h \in Positions
    PROVE  /\ \A n \in Nat : [h EXCEPT !.basis = n] \in Positions /\ [h EXCEPT !.basis = n].basis = n
           /\ \A n \in 0..MinHold : /\ [h EXCEPT !.clock = n] \in Positions
                                    /\ [h EXCEPT !.clock = n].basis = h.basis
           /\ \A n \in 1..Capacity : /\ [h EXCEPT !.units = n] \in Positions
                                     /\ [h EXCEPT !.units = n].basis = h.basis
           /\ \A s \in Stations \cup {None} : /\ [h EXCEPT !.target = s] \in Positions
                                              /\ [h EXCEPT !.target = s].basis = h.basis
BY DEF Positions

\* The same lots on two books, judged by the same bases.
Alike(one, other) ==
    \A g \in Goods : /\ one[g] = None <=> other[g] = None
                     /\ one[g] # None => other[g].basis = one[g].basis

\* A filled buy whose receipt is read back.
ReadsFill(kept, read) ==
    /\ trade # None /\ read /\ receipt # None /\ kept[trade.good] # None
    /\ receipt.outcome = "filled" /\ trade.side = "buy"

LEMMA ReadBackKeeps ==
    ASSUME NEW kept \in Bookings, NEW read \in BOOLEAN,
           trade \in Trades \cup {None}, receipt \in Receipts \cup {None}
    PROVE  /\ ReadBack(kept, read) \in Bookings
           /\ ~ReadsFill(kept, read) => Alike(kept, ReadBack(kept, read))
           /\ ReadsFill(kept, read) =>
                 /\ \A g \in Goods : kept[g] = None <=> ReadBack(kept, read)[g] = None
                 /\ ReadBack(kept, read)[trade.good].basis >= (receipt.total + trade.units - 1) \div trade.units
<1> DEFINE rb == ReadBack(kept, read)
           x == trade.good
           Named == ~(trade = None \/ ~read \/ receipt = None \/ kept[x] = None)
<1>1. \A g \in Goods : kept[g] # None => kept[g] \in Positions
  BY DEF Bookings
<1>2. CASE ~Named
  <2>1. rb = kept /\ ~ReadsFill(kept, read)
    BY <1>2 DEF ReadBack, ReadsFill
  <2>2. QED
    BY <2>1 DEF Alike
<1>3. CASE Named
  <2>1. /\ trade \in Trades /\ receipt \in Receipts /\ x \in Goods /\ trade.units \in Nat \ {0}
        /\ trade.ask \in Nat /\ trade.side \in {"sell", "buy"}
    <3>1. trade \in Trades /\ receipt \in Receipts
      BY <1>3
    <3>2. QED
      BY <3>1, MerchantFigures DEF Trades
  <2>2. kept[x] \in Positions /\ kept[x] # None
    BY <1>1, <1>3, <2>1
  <2>3. CASE ReadsFill(kept, read)
    <3> DEFINE unit == (receipt.total + trade.units - 1) \div trade.units
               b == Max({unit, trade.ask})
               h == [kept[x] EXCEPT !.basis = b]
    <3>1. receipt.total \in Nat
      BY <2>1, <2>3 DEF ReadsFill, Receipts
    <3>2. unit \in Nat
      <4>1. receipt.total + trade.units - 1 \in Nat
        BY <2>1, <3>1
      <4>2. QED
        BY <2>1, <4>1
    <3>3. rb = [kept EXCEPT ![x] = h]
      BY <1>3, <2>3 DEF ReadBack, ReadsFill
    <3> HIDE DEF unit
    <3>4. b \in Nat /\ b >= unit
      BY <2>1, <3>2, GreaterOf
    <3> HIDE DEF b
    <3>5. h \in Positions /\ h.basis = b
      BY <2>2, <3>4, PositionFields
    <3>6. h # None
      BY <3>5, NoneApart
    <3> HIDE DEF h, rb
    <3>7. rb \in Bookings /\ rb[x] = h /\ \A g \in Goods : g # x => rb[g] = kept[g]
      BY <2>1, <3>3, <3>5 DEF Bookings
    <3>8. \A g \in Goods : kept[g] = None <=> rb[g] = None
      BY <2>2, <3>6, <3>7
    <3>9. rb[x].basis >= unit
      BY <3>4, <3>5, <3>7
    <3>10. QED
      BY <2>3, <3>7, <3>8, <3>9 DEF rb, unit
  <2>4. CASE ~ReadsFill(kept, read) /\ receipt.outcome = "minimum hold"
    <3> DEFINE h == [kept[x] EXCEPT !.clock = receipt.ripe]
    <3>1. receipt.ripe \in 0..MinHold
      BY <2>1, <2>4 DEF Receipts
    <3>2. rb = [kept EXCEPT ![x] = h]
      BY <1>3, <2>4 DEF ReadBack
    <3>3. h \in Positions /\ h.basis = kept[x].basis
      BY <2>2, <3>1, PositionFields
    <3>4. h # None
      BY <3>3, NoneApart
    <3> HIDE DEF h, rb
    <3>5. rb \in Bookings /\ rb[x] = h /\ \A g \in Goods : g # x => rb[g] = kept[g]
      BY <2>1, <3>2, <3>3 DEF Bookings
    <3>6. Alike(kept, rb)
      BY <2>2, <3>3, <3>4, <3>5 DEF Alike
    <3>7. QED
      BY <2>4, <3>5, <3>6 DEF rb
  <2>5. CASE ~ReadsFill(kept, read) /\ receipt.outcome # "minimum hold"
    <3>1. rb = kept
      BY <1>3, <2>5 DEF ReadBack, ReadsFill
    <3>2. QED
      BY <2>5, <3>1 DEF Alike
  <2>6. QED
    BY <2>3, <2>4, <2>5
<1>4. QED
  BY <1>2, <1>3

LEMMA ClocksKeep ==
    ASSUME NEW kept \in Bookings, ripe \in [Goods -> 0..MinHold]
    PROVE  AdoptClocks(kept) \in Bookings /\ Alike(kept, AdoptClocks(kept))
<1> DEFINE now == AdoptClocks(kept)
<1>1. ASSUME NEW g \in Goods
      PROVE  /\ now[g] \in Positions \cup {None} /\ (kept[g] = None <=> now[g] = None)
             /\ kept[g] # None => now[g].basis = kept[g].basis
  <2>1. CASE kept[g] # None /\ hold[g] > 0
    <3>1. kept[g] \in Positions /\ ripe[g] \in 0..MinHold
      BY <2>1 DEF Bookings
    <3>2. now[g] = [kept[g] EXCEPT !.clock = ripe[g]]
      BY <2>1 DEF AdoptClocks
    <3> HIDE DEF now
    <3>3. now[g] \in Positions /\ now[g].basis = kept[g].basis
      BY <3>1, <3>2, PositionFields
    <3>4. QED
      BY <2>1, <3>3, NoneApart
  <2>2. CASE ~(kept[g] # None /\ hold[g] > 0)
    <3>1. now[g] = kept[g]
      BY <2>2 DEF AdoptClocks
    <3>2. QED
      BY <3>1 DEF Bookings
  <2>3. QED
    BY <2>1, <2>2
<1>2. now = [g \in Goods |-> now[g]]
  BY DEF AdoptClocks
<1> HIDE DEF now
<1>3. now \in Bookings /\ Alike(kept, now)
  BY <1>1, <1>2 DEF Bookings, Alike
<1>4. QED
  BY <1>3 DEF now

LEMMA AdoptedType ==
    ASSUME NEW g \in Goods, NEW s \in Stations \cup {None}, hold \in [Goods -> 0..Capacity], hold[g] # 0
    PROVE  Adopted(g, s) \in Positions
<1>1. hold[g] \in 1..Capacity
  BY MerchantFigures
<1>2. s # None => Mid[<<s, g>>] \in Nat
  BY MerchantFigures
<1>3. 0 \in 0..(Stale + 1) /\ 0 \in 0..MinHold
  BY MerchantFigures DEF Stale
<1> DEFINE n == IF s = None THEN 0 ELSE Mid[<<s, g>>]
<1>4. n \in Nat /\ Adopted(g, s) = [units |-> hold[g], basis |-> n, target |-> s, age |-> 0, clock |-> 0]
  BY <1>2 DEF Adopted
<1> HIDE DEF n
<1>5. QED
  BY <1>1, <1>3, <1>4 DEF Positions

\* What is aboard is on the book, and nothing else.
LEMMA ReconciledKeeps ==
    ASSUME NEW kept \in Bookings, NEW map \in BOOLEAN, hold \in [Goods -> 0..Capacity]
    PROVE  /\ Reconciled(kept, map) \in Bookings
           /\ \A g \in Goods : /\ Reconciled(kept, map)[g] = None <=> hold[g] = 0
                               /\ hold[g] # 0 /\ kept[g] # None =>
                                     Reconciled(kept, map)[g].basis = kept[g].basis
<1> DEFINE now == Reconciled(kept, map)
<1>1. ASSUME NEW g \in Goods
      PROVE  /\ now[g] \in Positions \cup {None} /\ (now[g] = None <=> hold[g] = 0)
             /\ hold[g] # 0 /\ kept[g] # None => now[g].basis = kept[g].basis
  <2>1. CASE hold[g] = 0
    BY <2>1 DEF Reconciled
  <2>2. CASE hold[g] # 0 /\ kept[g] # None
    <3>1. kept[g] \in Positions /\ hold[g] \in 1..Capacity
      BY <2>2, MerchantFigures DEF Bookings
    <3>2. now[g] = [kept[g] EXCEPT !.units = hold[g]]
      BY <2>2 DEF Reconciled
    <3> HIDE DEF now
    <3>3. now[g] \in Positions /\ now[g].basis = kept[g].basis
      BY <3>1, <3>2, PositionFields
    <3>4. QED
      BY <2>2, <3>3, NoneApart
  <2>3. CASE hold[g] # 0 /\ kept[g] = None
    <3>1. now[g] = Adopted(g, Dearest(g, Stations, map))
      BY <2>3 DEF Reconciled
    <3>2. now[g] \in Positions
      BY <2>3, <3>1, DearestType, AdoptedType
    <3>3. QED
      BY <2>3, <3>2, NoneApart
  <2>4. QED
    BY <2>1, <2>2, <2>3
<1>2. now = [g \in Goods |-> now[g]]
  BY DEF Reconciled
<1> HIDE DEF now
<1>3. now \in Bookings
  BY <1>1, <1>2 DEF Bookings
<1>4. QED
  BY <1>1, <1>3 DEF now

LEMMA RetargetedKeeps ==
    ASSUME NEW kept \in Bookings, NEW map \in BOOLEAN
    PROVE  Retargeted(kept, map) \in Bookings /\ Alike(kept, Retargeted(kept, map))
<1> DEFINE now == Retargeted(kept, map)
<1>1. ASSUME NEW g \in Goods
      PROVE  /\ now[g] \in Positions \cup {None} /\ (kept[g] = None <=> now[g] = None)
             /\ kept[g] # None => now[g].basis = kept[g].basis
  <2>1. CASE kept[g] # None /\ kept[g].target = berth /\ kept[g].clock = 0
    <3>1. kept[g] \in Positions
      BY <2>1 DEF Bookings
    <3>2. now[g] = [kept[g] EXCEPT !.target = Dearest(g, Stations \ {berth}, map)]
      BY <2>1 DEF Retargeted
    <3>3. Dearest(g, Stations \ {berth}, map) \in Stations \cup {None}
      BY DearestType
    <3> HIDE DEF now
    <3>4. now[g] \in Positions /\ now[g].basis = kept[g].basis
      BY <3>1, <3>2, <3>3, PositionFields
    <3>5. QED
      BY <2>1, <3>4, NoneApart
  <2>2. CASE ~(kept[g] # None /\ kept[g].target = berth /\ kept[g].clock = 0)
    <3>1. now[g] = kept[g]
      BY <2>2 DEF Retargeted
    <3>2. QED
      BY <3>1 DEF Bookings
  <2>3. QED
    BY <2>1, <2>2
<1>2. now = [g \in Goods |-> now[g]]
  BY DEF Retargeted
<1> HIDE DEF now
<1>3. now \in Bookings /\ Alike(kept, now)
  BY <1>1, <1>2 DEF Bookings, Alike
<1>4. QED
  BY <1>3 DEF now

LEMMA AgedKeeps ==
    ASSUME NEW kept \in Bookings
    PROVE  Aged(kept) \in Bookings /\ Alike(kept, Aged(kept))
<1> DEFINE now == Aged(kept)
<1>1. ASSUME NEW g \in Goods
      PROVE  /\ now[g] \in Positions \cup {None} /\ (kept[g] = None <=> now[g] = None)
             /\ kept[g] # None => now[g].basis = kept[g].basis
  <2>1. CASE kept[g] = None
    BY <2>1 DEF Aged
  <2>2. CASE kept[g] # None
    <3> DEFINE older == Min({kept[g].age + 1, Stale + 1})
               shorter == Max({kept[g].clock - 1, 0})
    <3>1. kept[g] \in Positions
      BY <2>2 DEF Bookings
    <3>2. now[g] = [kept[g] EXCEPT !.age = older, !.clock = shorter]
      BY <2>2 DEF Aged
    <3>3. kept[g].age \in 0..(Stale + 1) /\ kept[g].clock \in 0..MinHold /\ Stale \in Nat /\ MinHold \in Nat
      BY <3>1, MerchantFigures DEF Positions, Stale
    <3>4. older \in 0..(Stale + 1)
      BY <3>3, LesserOf
    <3>5. shorter \in 0..MinHold
      BY <3>3, GreaterOf
    <3> HIDE DEF now, older, shorter
    <3>6. now[g] \in Positions /\ now[g].basis = kept[g].basis
      BY <3>1, <3>2, <3>4, <3>5 DEF Positions
    <3>7. QED
      BY <2>2, <3>6, NoneApart
  <2>3. QED
    BY <2>1, <2>2
<1>2. now = [g \in Goods |-> now[g]]
  BY DEF Aged
<1> HIDE DEF now
<1>3. now \in Bookings /\ Alike(kept, now)
  BY <1>1, <1>2 DEF Bookings, Alike
<1>4. QED
  BY <1>3 DEF now

-----------------------------------------------------------------------------
(* A fold of the pilot.                                                     *)

KeptNow(in) == Reconciled(AdoptClocks(ReadBack(book, in.read)), in.map)

Unread(in) == astray \/ (trade # None /\ ~in.read)

\* Every bet is on the book, at no less than was paid.
Backed(kept) == \A g \in bets : kept[g] # None /\ kept[g].basis >= paid[g]

LEMMA TypeParts ==
    ASSUME MerchantTypeOK
    PROVE  /\ berth \in Stations /\ fly \in 0..Max(Flights) /\ tank \in 0..Tank
           /\ hold \in [Goods -> 0..Capacity] /\ hold \in [Goods -> Nat] /\ ripe \in [Goods -> 0..MinHold]
           /\ book \in Bookings /\ wait \in 0..2 /\ trades \in BOOLEAN
           /\ hands \in 0..MaxHand /\ faults \in 0..MaxFaults
           /\ queue \in Trades \cup {None} /\ trade \in Trades \cup {None}
           /\ receipt \in Receipts \cup {None}
           /\ bets \in SUBSET Goods /\ \A g \in bets : hold[g] > 0
           /\ paid \in [Goods -> Nat] /\ astray \in BOOLEAN /\ opened \in BOOLEAN
           /\ Load(hold) <= Capacity
<1>1. hold \in [Goods -> 0..Capacity] /\ hold \in [Goods -> Nat]
  BY DEF MerchantTypeOK
<1>2. /\ berth \in Stations /\ fly \in 0..Max(Flights) /\ tank \in 0..Tank
      /\ ripe \in [Goods -> 0..MinHold] /\ book \in Bookings /\ wait \in 0..2 /\ trades \in BOOLEAN
      /\ hands \in 0..MaxHand /\ faults \in 0..MaxFaults
  BY DEF MerchantTypeOK, Bookings, Flights
<1>3. /\ {queue, trade} \subseteq Trades \cup {None} /\ receipt \in Receipts \cup {None}
      /\ bets \subseteq {g \in Goods : hold[g] > 0}
      /\ paid \in [Goods -> Nat] /\ {astray, opened} \subseteq BOOLEAN
      /\ Load(hold) <= Capacity
  BY DEF MerchantTypeOK
<1>4. queue \in Trades \cup {None} /\ trade \in Trades \cup {None}
  BY <1>3
<1>5. astray \in BOOLEAN /\ opened \in BOOLEAN
  BY <1>3
<1>6. bets \in SUBSET Goods /\ \A g \in bets : hold[g] > 0
  BY <1>3
<1>7. QED
  BY <1>1, <1>2, <1>3, <1>4, <1>5, <1>6

LEMMA KeptBacked ==
    ASSUME MerchantInv, NEW in \in Readings, queue = None
    PROVE  /\ KeptNow(in) \in Bookings
           /\ ~Unread(in) => Backed(KeptNow(in))
           /\ KeptNow(in) = Nothing => bets = {}
<1> DEFINE rb == ReadBack(book, in.read)
           ac == AdoptClocks(rb)
           kn == Reconciled(ac, in.map)
<1>1. in.read \in BOOLEAN /\ in.map \in BOOLEAN
  BY DEF Readings
<1>2. MerchantTypeOK /\ Filed /\ OnBook /\ Booked /\ Priced
  BY DEF MerchantInv
<1>3. /\ book \in Bookings /\ trade \in Trades \cup {None} /\ receipt \in Receipts \cup {None}
      /\ hold \in [Goods -> 0..Capacity] /\ ripe \in [Goods -> 0..MinHold]
      /\ bets \in SUBSET Goods /\ \A g \in bets : hold[g] > 0
      /\ paid \in [Goods -> Nat]
  BY <1>2, TypeParts
<1>4. /\ rb \in Bookings
      /\ ~ReadsFill(book, in.read) => Alike(book, rb)
      /\ ReadsFill(book, in.read) =>
            /\ \A g \in Goods : book[g] = None <=> rb[g] = None
            /\ rb[trade.good].basis >= (receipt.total + trade.units - 1) \div trade.units
  BY <1>1, <1>3, ReadBackKeeps
<1> HIDE DEF rb
<1>5. ac \in Bookings /\ Alike(rb, ac)
  BY <1>3, <1>4, ClocksKeep
<1> HIDE DEF ac
<1>6. /\ kn \in Bookings
      /\ \A g \in Goods : /\ kn[g] = None <=> hold[g] = 0
                          /\ hold[g] # 0 /\ ac[g] # None => kn[g].basis = ac[g].basis
  BY <1>1, <1>3, <1>5, ReconciledKeeps
<1>7. kn = KeptNow(in)
  BY DEF KeptNow, ac, rb
<1> HIDE DEF kn
<1>8. ASSUME ~Unread(in), NEW g \in bets PROVE kn[g] # None /\ kn[g].basis >= paid[g]
  <2>1. g \in Goods /\ hold[g] # 0 /\ hold[g] \in Nat /\ ~astray /\ book[g] # None /\ paid[g] \in Nat
    <3>1. g \in Goods /\ hold[g] > 0 /\ hold[g] \in Nat /\ ~astray /\ paid[g] \in Nat
      BY <1>3, <1>8 DEF Unread
    <3>2. QED
      BY <1>2, <3>1 DEF Booked
  <2>2. kn[g] # None /\ (ac[g] # None => kn[g].basis = ac[g].basis)
    BY <1>6, <2>1
  <2>3. rb[g] # None => ac[g] # None /\ ac[g].basis = rb[g].basis
    BY <1>5, <2>1 DEF Alike
  <2>4. rb[g] # None /\ rb[g].basis >= paid[g]
    <3>1. CASE Awaited
      <4>1. trade # None /\ trade.side = "buy" /\ in.read
        BY <1>8, <3>1 DEF Awaited, Unread
      <4>2. /\ book[trade.good] # None /\ bets \subseteq {trade.good}
            /\ receipt = [outcome |-> "filled", total |-> trade.units * paid[trade.good]]
        BY <1>2, <1>8, <3>1 DEF OnBook
      <4>3. g = trade.good /\ trade.units \in Nat \ {0}
        <5>1. trade \in Trades
          BY <1>3, <4>1
        <5>2. QED
          BY <1>8, <4>2, <5>1, MerchantFigures DEF Trades
      <4>4. receipt # None
        <5>1. trade.units * paid[g] \in Nat
          BY <2>1, <4>3
        <5>2. receipt \in Receipts
          BY <4>2, <4>3, <5>1 DEF Receipts
        <5>3. QED
          BY <5>2, NoneApart
      <4>5. ReadsFill(book, in.read)
        BY <4>1, <4>2, <4>4 DEF ReadsFill
      <4>6. rb[g].basis >= (trade.units * paid[g] + trade.units - 1) \div trade.units
        BY <1>4, <4>2, <4>3, <4>5
      <4>7. rb[g] # None
        BY <1>4, <2>1, <4>5
      <4>8. rb[g].basis \in Nat
        BY <1>4, <2>1, <4>7 DEF Bookings, Positions
      <4>9. /\ (trade.units * paid[g] + trade.units - 1) \div trade.units \in Nat
            /\ (trade.units * paid[g] + trade.units - 1) \div trade.units >= paid[g]
        BY <2>1, <4>3, UnitCost
      <4>10. QED
        BY <2>1, <4>6, <4>7, <4>8, <4>9
    <3>2. CASE ~Awaited
      <4>1. ~ReadsFill(book, in.read)
        BY <2>1, <3>2 DEF ReadsFill, Awaited
      <4>2. book[g].basis >= paid[g]
        BY <1>2, <1>8, <2>1, <3>2 DEF Priced
      <4>3. rb[g] # None /\ rb[g].basis = book[g].basis
        BY <1>4, <2>1, <4>1 DEF Alike
      <4>4. QED
        BY <4>2, <4>3
    <3>3. QED
      BY <3>1, <3>2
  <2>5. QED
    BY <2>2, <2>3, <2>4
<1>9. ASSUME kn = Nothing PROVE bets = {}
  <2>1. ASSUME NEW g \in bets PROVE FALSE
    <3>1. g \in Goods /\ hold[g] # 0
      BY <1>3
    <3>2. kn[g] = None
      BY <1>9, <3>1 DEF Nothing
    <3>3. QED
      BY <1>6, <3>1, <3>2
  <2>2. QED
    BY <2>1
<1>10. QED
  BY <1>6, <1>7, <1>8, <1>9 DEF Backed

\* A fold that files nothing rests on a book like the one it kept, or carries.
RestsOn(b, in) ==
    /\ book' = b /\ trade' = None /\ astray' = Unread(in)
    /\ UNCHANGED <<queue, trades, faults, opened>>

\* A fold that files, files what was decided, a buy only with nothing aboard it paid for.
FilesOne(d, in) ==
    /\ Files(d, KeptNow(in), Unread(in)) /\ opened' = opened /\ UNCHANGED hull
    /\ d.side \in {"sell", "buy"}
    /\ d.side = "buy" => bets = {}

LEMMA PassStep ==
    ASSUME MerchantInv, NEW in \in Readings, Pass(in)
    PROVE  /\ queue = None /\ receipt' = None /\ UNCHANGED <<hold, ripe, hands, bets, paid>>
           /\ \/ /\ \E b \in Bookings : Alike(KeptNow(in), b) /\ RestsOn(b, in)
                 /\ wait' \in 0..2
                 /\ berth' \in Stations /\ fly' \in 0..Max(Flights) /\ tank' \in 0..Tank
              \/ \E d \in Trades : FilesOne(d, in)
<1> DEFINE kept == KeptNow(in)
           decisions == DecideTrade(kept, in)
           aimed == IF decisions = {} THEN Retargeted(kept, in.map) ELSE kept
           unread == Unread(in)
<1>1. /\ queue = None /\ wait = 0 /\ receipt' = None /\ UNCHANGED <<hold, ripe, hands, bets, paid>>
  BY DEF Pass, Settled
<1>2. /\ berth \in Stations /\ fly \in 0..Max(Flights) /\ tank \in 0..Tank /\ wait \in 0..2
      /\ hold \in [Goods -> Nat] /\ Load(hold) <= Capacity /\ opened = FALSE
  <2>1. MerchantTypeOK /\ ~opened
    BY DEF MerchantInv, OneAtATime
  <2>2. QED
    BY <2>1, TypeParts
<1>3. kept = Nothing => bets = {}
  BY <1>1, KeptBacked
<1>4. kept \in Bookings
  BY <1>1, KeptBacked
<1>5. \/ /\ ~Docked \/ decisions = {}
         /\ Rests(IF Docked THEN aimed ELSE kept)
         /\ astray' = unread
      \/ /\ Docked /\ decisions = {}
         /\ \E s \in Carries(aimed, in) :
               berth' = s /\ fly' = TicksTo(s) /\ tank' = tank - FuelTo(s)
         /\ book' = aimed /\ trade' = None /\ wait' = 2
         /\ astray' = unread
         /\ UNCHANGED <<queue, trades, faults, opened>>
      \/ /\ Docked /\ decisions # {}
         /\ Rests(kept) /\ astray' = unread
      \/ /\ Docked
         /\ \E d \in decisions, takes \in Caps \ {0} :
               /\ d.side = "buy" => in.contract # "booked"
               /\ Files(IF d.side = "buy" THEN Sized(d, takes) ELSE d, kept, unread)
               /\ opened' = (opened \/ (d.side = "buy" /\ (bets # {} \/ queue # None)))
         /\ UNCHANGED hull
  BY DEF Pass, KeptNow, Unread
<1>6. aimed \in Bookings /\ Alike(kept, aimed)
  <2>1. in.map \in BOOLEAN
    BY DEF Readings
  <2>2. Retargeted(kept, in.map) \in Bookings /\ Alike(kept, Retargeted(kept, in.map))
    BY <1>4, <2>1, RetargetedKeeps
  <2>3. Alike(kept, kept)
    BY DEF Alike
  <2>4. QED
    BY <1>4, <2>2, <2>3
<1>7. Alike(kept, kept)
  BY DEF Alike
<1>8. \A d \in decisions : /\ d \in Trades /\ d.side \in {"sell", "buy"}
                           /\ d.side = "buy" => kept = Nothing
  BY <1>2, <1>4, DecisionsType
<1> HIDE DEF kept, decisions, aimed, unread
<1>9. ASSUME NEW b \in Bookings, Alike(kept, b), Rests(b), astray' = unread
      PROVE  /\ \E c \in Bookings : Alike(KeptNow(in), c) /\ RestsOn(c, in)
             /\ wait' \in 0..2 /\ berth' \in Stations /\ fly' \in 0..Max(Flights) /\ tank' \in 0..Tank
  <2>1. RestsOn(b, in)
    BY <1>9 DEF Rests, RestsOn, unread
  <2>2. UNCHANGED <<berth, fly, tank, wait>>
    BY <1>9 DEF Rests, hull
  <2>3. QED
    BY <1>2, <1>9, <2>1, <2>2 DEF kept
<1>10. CASE /\ ~Docked \/ decisions = {}
           /\ Rests(IF Docked THEN aimed ELSE kept)
           /\ astray' = unread
  <2>1. CASE Docked
    <3>1. Rests(aimed)
      BY <1>10, <2>1
    <3>2. QED
      BY <1>1, <1>6, <1>9, <1>10, <3>1
  <2>2. CASE ~Docked
    <3>1. Rests(kept)
      BY <1>10, <2>2
    <3>2. QED
      BY <1>1, <1>4, <1>7, <1>9, <1>10, <3>1
  <2>3. QED
    BY <2>1, <2>2
<1>11. CASE /\ Docked /\ decisions = {}
            /\ \E s \in Carries(aimed, in) :
                  berth' = s /\ fly' = TicksTo(s) /\ tank' = tank - FuelTo(s)
            /\ book' = aimed /\ trade' = None /\ wait' = 2
            /\ astray' = unread
            /\ UNCHANGED <<queue, trades, faults, opened>>
  <2>1. PICK s \in Carries(aimed, in) :
           berth' = s /\ fly' = TicksTo(s) /\ tank' = tank - FuelTo(s)
    BY <1>11
  <2>2. s \in Stations /\ FuelTo(s) \in Nat /\ FuelTo(s) <= tank
    BY <1>2, <1>6, CarriesFlyable
  <2>3. TicksTo(s) \in 0..Max(Flights)
    BY <1>2, <2>2, FlightsBound DEF TicksTo
  <2>4. tank' \in 0..Tank
    BY <1>2, <2>1, <2>2, MerchantFigures
  <2>5. RestsOn(aimed, in)
    BY <1>11 DEF RestsOn, unread
  <2>6. QED
    BY <1>1, <1>6, <1>11, <2>1, <2>2, <2>3, <2>4, <2>5 DEF kept
<1>12. CASE Docked /\ decisions # {} /\ Rests(kept) /\ astray' = unread
  BY <1>1, <1>4, <1>7, <1>9, <1>12
<1>13. CASE /\ Docked
            /\ \E d \in decisions, takes \in Caps \ {0} :
                  /\ d.side = "buy" => in.contract # "booked"
                  /\ Files(IF d.side = "buy" THEN Sized(d, takes) ELSE d, kept, unread)
                  /\ opened' = (opened \/ (d.side = "buy" /\ (bets # {} \/ queue # None)))
            /\ UNCHANGED hull
  <2>1. PICK d \in decisions, takes \in Caps \ {0} :
           /\ d.side = "buy" => in.contract # "booked"
           /\ Files(IF d.side = "buy" THEN Sized(d, takes) ELSE d, kept, unread)
           /\ opened' = (opened \/ (d.side = "buy" /\ (bets # {} \/ queue # None)))
    BY <1>13
  <2>2. d \in Trades /\ d.side \in {"sell", "buy"} /\ (d.side = "buy" => bets = {})
    BY <1>3, <1>8
  <2>3. opened' = opened
    BY <1>1, <1>2, <2>1, <2>2
  <2> DEFINE e == IF d.side = "buy" THEN Sized(d, takes) ELSE d
  <2>4. e \in Trades /\ e.side = d.side
    BY <2>2, SizedType
  <2>5. Files(e, kept, unread)
    BY <2>1
  <2> HIDE DEF e
  <2>6. FilesOne(e, in)
    BY <1>13, <2>2, <2>3, <2>4, <2>5 DEF FilesOne, kept, unread
  <2>7. QED
    BY <1>1, <2>4, <2>6
<1>14. QED
  BY <1>5, <1>10, <1>11, <1>12, <1>13

LEMMA PassKeeps ==
    ASSUME MerchantInv, NEW in \in Readings, Pass(in)
    PROVE  MerchantInv'
<1>1. /\ berth \in Stations /\ fly \in 0..Max(Flights) /\ tank \in 0..Tank
      /\ hold \in [Goods -> 0..Capacity] /\ ripe \in [Goods -> 0..MinHold]
      /\ wait \in 0..2 /\ trades \in BOOLEAN
      /\ hands \in 0..MaxHand /\ faults \in 0..MaxFaults
      /\ bets \subseteq {g \in Goods : hold[g] > 0} /\ bets \in SUBSET Goods
      /\ paid \in [Goods -> Nat] /\ astray \in BOOLEAN /\ opened \in BOOLEAN /\ ~opened
      /\ Load(hold) <= Capacity
  <2>1. MerchantTypeOK /\ ~opened
    BY DEF MerchantInv, OneAtATime
  <2>2. bets \subseteq {g \in Goods : hold[g] > 0}
    BY <2>1 DEF MerchantTypeOK
  <2>3. QED
    BY <2>1, <2>2, TypeParts
<1>2. queue = None /\ receipt' = None /\ hold' = hold /\ ripe' = ripe /\ hands' = hands
      /\ bets' = bets /\ paid' = paid
  BY PassStep
<1>3. /\ KeptNow(in) \in Bookings
      /\ ~Unread(in) => Backed(KeptNow(in))
      /\ KeptNow(in) = Nothing => bets = {}
  BY <1>2, KeptBacked
<1>4. Unread(in) \in BOOLEAN
  BY <1>1 DEF Unread
<1>5. Load(hold') <= Capacity
  BY <1>1, <1>2
<1>6. CASE /\ \E b \in Bookings : Alike(KeptNow(in), b) /\ RestsOn(b, in)
           /\ wait' \in 0..2
           /\ berth' \in Stations /\ fly' \in 0..Max(Flights) /\ tank' \in 0..Tank
  <2>1. PICK b \in Bookings : Alike(KeptNow(in), b) /\ RestsOn(b, in)
    BY <1>6
  <2>2. /\ book' = b /\ trade' = None /\ astray' = Unread(in) /\ queue' = None /\ trades' = trades
        /\ faults' = faults /\ opened' = opened
    BY <1>2, <2>1 DEF RestsOn
  <2>3. MerchantTypeOK'
    BY <1>1, <1>2, <1>4, <1>5, <1>6, <2>2 DEF MerchantTypeOK, Bookings, Flights
  <2>4. ~Unread(in) => \A g \in bets : b[g] # None /\ b[g].basis >= paid[g]
    BY <1>1, <1>3, <2>1 DEF Backed, Alike
  <2>5. Filed' /\ OnBook' /\ Booked' /\ Priced'
    BY <1>2, <2>2, <2>4 DEF Filed, OnBook, Booked, Priced, Awaited
  <2>6. OneAtATime'
    BY <1>1, <2>2 DEF OneAtATime
  <2>7. QED
    BY <2>3, <2>5, <2>6 DEF MerchantInv
<1>7. CASE \E d \in Trades : FilesOne(d, in)
  <2>1. PICK d \in Trades : FilesOne(d, in)
    BY <1>7
  <2>2. /\ Files(d, KeptNow(in), Unread(in)) /\ opened' = opened
        /\ berth' = berth /\ fly' = fly /\ tank' = tank
        /\ d.side \in {"sell", "buy"}
        /\ d.side = "buy" => bets = {}
    BY <2>1 DEF FilesOne, hull
  <2>3. OneAtATime'
    BY <1>1, <2>2 DEF OneAtATime
  <2>4. ~Unread(in) => \A g \in bets : KeptNow(in)[g] # None /\ KeptNow(in)[g].basis >= paid[g]
    BY <1>3 DEF Backed
  <2> DEFINE kept == KeptNow(in)
  <2>5. kept \in Bookings
    BY <1>3
  <2>6. CASE /\ queue' = d /\ wait' = 2 /\ trade' = d
             /\ book' = IF d.side = "sell" THEN kept
                        ELSE [kept EXCEPT ![d.good] = [units |-> d.units, basis |-> d.ask, target |-> d.target,
                                                       age |-> 0, clock |-> MinHold]]
             /\ astray' = (d.side = "sell" /\ Unread(in))
             /\ UNCHANGED <<trades, faults>>
    <3>1. CASE d.side = "sell"
      <4>1. /\ queue' = d /\ wait' = 2 /\ trade' = d /\ book' = kept /\ astray' = Unread(in)
            /\ trades' = trades /\ faults' = faults
        BY <1>4, <2>6, <3>1
      <4> HIDE DEF kept
      <4>2. MerchantTypeOK'
        BY <1>1, <1>2, <1>4, <1>5, <2>2, <2>5, <4>1 DEF MerchantTypeOK, Bookings, Flights
      <4>3. Filed' /\ OnBook' /\ Booked' /\ Priced'
        BY <1>2, <2>4, <3>1, <4>1 DEF Filed, OnBook, Booked, Priced, Awaited, kept
      <4>4. QED
        BY <2>3, <4>2, <4>3 DEF MerchantInv
    <3>2. CASE d.side = "buy"
      <4> DEFINE h == [units |-> d.units, basis |-> d.ask, target |-> d.target, age |-> 0, clock |-> MinHold]
      <4>1. /\ d.units \in 1..Capacity /\ d.ask \in Nat /\ d.target \in Stations /\ d.good \in Goods
        BY <3>2 DEF Trades
      <4>2. h \in Positions
        <5>1. 0 \in 0..(Stale + 1) /\ MinHold \in 0..MinHold
          BY MerchantFigures DEF Stale
        <5>2. QED
          BY <4>1, <5>1 DEF Positions
      <4>3. /\ queue' = d /\ wait' = 2 /\ trade' = d /\ book' = [kept EXCEPT ![d.good] = h]
            /\ astray' = FALSE /\ trades' = trades /\ faults' = faults
        BY <2>6, <3>2
      <4>4. h # None
        BY <4>2, NoneApart
      <4> HIDE DEF kept, h
      <4>5. book' \in Bookings /\ book'[d.good] = h
        BY <2>5, <4>1, <4>2, <4>3 DEF Bookings
      <4>6. MerchantTypeOK'
        <5>1. /\ queue' = d /\ wait' = 2 /\ trade' = d /\ book' \in Bookings
              /\ astray' \in BOOLEAN /\ trades' = trades /\ faults' = faults
          BY <4>3, <4>5
        <5>2. QED
          BY <1>1, <1>2, <1>5, <2>2, <5>1 DEF MerchantTypeOK, Bookings, Flights
      <4>7. bets' = {}
        BY <1>2, <2>2, <3>2
      <4>8. Filed' /\ OnBook' /\ Booked' /\ Priced'
        BY <4>3, <4>4, <4>5, <4>7 DEF Filed, OnBook, Booked, Priced, Awaited
      <4>9. QED
        BY <2>3, <4>6, <4>8 DEF MerchantInv
    <3>3. QED
      BY <2>2, <3>1, <3>2
  <2>7. CASE /\ trades' \in {trades, FALSE}
             /\ book' = kept /\ trade' = None /\ astray' = Unread(in) /\ UNCHANGED <<queue, wait, faults>>
    <3>1. trades' \in BOOLEAN /\ queue' = None /\ wait' = wait /\ faults' = faults
      BY <1>1, <1>2, <2>7
    <3> HIDE DEF kept
    <3>2. MerchantTypeOK'
      BY <1>1, <1>2, <1>4, <1>5, <2>2, <2>5, <2>7, <3>1 DEF MerchantTypeOK, Bookings, Flights
    <3>3. Filed' /\ OnBook' /\ Booked' /\ Priced'
      BY <1>2, <2>4, <2>7, <3>1 DEF Filed, OnBook, Booked, Priced, Awaited, kept
    <3>4. QED
      BY <2>3, <3>2, <3>3 DEF MerchantInv
  <2>8. CASE /\ faults < MaxFaults /\ faults' = faults + 1
             /\ queue' = d /\ book' = kept /\ trade' = None /\ astray' = TRUE
             /\ UNCHANGED <<wait, trades>>
    <3>1. faults' \in 0..MaxFaults
      BY <1>1, <2>8, MerchantFigures
    <3> HIDE DEF kept
    <3>2. MerchantTypeOK'
      BY <1>1, <1>2, <1>5, <2>2, <2>5, <2>8, <3>1 DEF MerchantTypeOK, Bookings, Flights
    <3>3. Filed' /\ OnBook' /\ Booked' /\ Priced'
      BY <2>8 DEF Filed, OnBook, Booked, Priced, Awaited
    <3>4. QED
      BY <2>3, <3>2, <3>3 DEF MerchantInv
  <2>9. QED
    BY <2>2, <2>6, <2>7, <2>8 DEF Files
<1>8. QED
  BY <1>6, <1>7, PassStep

-----------------------------------------------------------------------------
(* The other steps.                                                         *)

\* All of the type invariant, but for what the exchange or the captain changes.
LEMMA Invariants ==
    ASSUME MerchantInv
    PROVE  /\ berth \in Stations /\ fly \in 0..Max(Flights) /\ tank \in 0..Tank
           /\ hold \in [Goods -> 0..Capacity] /\ ripe \in [Goods -> 0..MinHold]
           /\ book \in Bookings /\ wait \in 0..2 /\ trades \in BOOLEAN
           /\ hands \in 0..MaxHand /\ faults \in 0..MaxFaults
           /\ queue \in Trades \cup {None} /\ trade \in Trades \cup {None}
           /\ receipt \in Receipts \cup {None}
           /\ bets \subseteq {g \in Goods : hold[g] > 0}
           /\ paid \in [Goods -> Nat] /\ astray \in BOOLEAN /\ opened \in BOOLEAN
           /\ Load(hold) <= Capacity
           /\ Filed /\ OnBook /\ Booked /\ Priced /\ OneAtATime
<1>1. MerchantTypeOK /\ Filed /\ OnBook /\ Booked /\ Priced /\ OneAtATime
  BY DEF MerchantInv
<1>2. bets \subseteq {g \in Goods : hold[g] > 0}
  BY <1>1 DEF MerchantTypeOK
<1>3. QED
  BY <1>1, <1>2, TypeParts

LEMMA SeesPendingKeeps == ASSUME MerchantInv, SeesPending PROVE MerchantInv'
<1>1. /\ wait' = 2 /\ berth' = berth /\ fly' = fly /\ tank' = tank /\ hold' = hold /\ ripe' = ripe
      /\ queue' = queue /\ receipt' = receipt /\ book' = book /\ trade' = trade /\ trades' = trades
      /\ hands' = hands /\ faults' = faults /\ bets' = bets /\ paid' = paid /\ astray' = astray
      /\ opened' = opened
  BY DEF SeesPending, hull, bounds, history
<1>2. Load(hold') <= Capacity
  BY <1>1, Invariants
<1>3. MerchantTypeOK'
  BY <1>1, <1>2, Invariants DEF MerchantTypeOK, Bookings, Flights
<1>4. Filed' /\ OnBook' /\ Booked' /\ Priced' /\ OneAtATime'
  BY <1>1, Invariants DEF Filed, OnBook, Booked, Priced, Awaited, OneAtATime
<1>5. QED
  BY <1>3, <1>4 DEF MerchantInv

LEMMA RestartsKeeps == ASSUME MerchantInv, Restarts PROVE MerchantInv'
<1>1. /\ berth' = berth /\ fly' = fly /\ tank' = tank /\ hold' = hold /\ ripe' = ripe
      /\ queue' = queue /\ trades' = trades /\ hands' = hands /\ bets' = bets /\ paid' = paid
      /\ opened' = opened /\ wait' = 0 /\ trade' = None /\ receipt' = None /\ astray' = TRUE
      /\ faults' \in 0..MaxFaults
  BY Invariants, MerchantFigures DEF Restarts, hull
<1>2. book' \in Bookings
  <2>1. Nothing \in Bookings
    BY DEF Nothing, Bookings
  <2>2. QED
    BY <2>1, Invariants DEF Restarts
<1>3. Load(hold') <= Capacity
  BY <1>1, Invariants
<1>4. MerchantTypeOK'
  BY <1>1, <1>2, <1>3, Invariants DEF MerchantTypeOK, Bookings, Flights
<1>5. Filed' /\ OnBook' /\ Booked' /\ Priced' /\ OneAtATime'
  BY <1>1, Invariants DEF Filed, OnBook, Booked, Priced, Awaited, OneAtATime
<1>6. QED
  BY <1>4, <1>5 DEF MerchantInv

LEMMA HullMovesKeeps == ASSUME MerchantInv, HullMoves PROVE MerchantInv'
<1>1. /\ hold' = hold /\ ripe' = ripe /\ queue' = queue /\ receipt' = receipt /\ book' = book
      /\ wait' = wait /\ trade' = trade /\ trades' = trades /\ hands' = hands /\ faults' = faults
      /\ bets' = bets /\ paid' = paid /\ astray' = astray /\ opened' = opened
  BY DEF HullMoves, bounds, history
<1>2. berth' \in Stations /\ fly' \in 0..Max(Flights) /\ tank' \in 0..Tank
  <2>1. CASE tank' = Tank /\ UNCHANGED <<berth, fly>>
    BY <2>1, Invariants, MerchantFigures
  <2>2. CASE \E s \in Stations \ {berth} : /\ tank >= FuelTo(s) /\ tank' = tank - FuelTo(s)
                                           /\ berth' = s /\ fly' = TicksTo(s)
    <3>1. PICK s \in Stations \ {berth} : /\ tank >= FuelTo(s) /\ tank' = tank - FuelTo(s)
                                          /\ berth' = s /\ fly' = TicksTo(s)
      BY <2>2
    <3>2. FuelTo(s) \in Nat /\ tank \in 0..Tank /\ Tank \in Nat /\ berth \in Stations
      BY Invariants, MerchantFigures DEF FuelTo
    <3>3. TicksTo(s) \in 0..Max(Flights)
      BY <3>2, FlightsBound DEF TicksTo
    <3>4. QED
      BY <3>1, <3>2, <3>3
  <2>3. QED
    BY <2>1, <2>2 DEF HullMoves
<1>3. Load(hold') <= Capacity
  BY <1>1, Invariants
<1>4. MerchantTypeOK'
  BY <1>1, <1>2, <1>3, Invariants DEF MerchantTypeOK, Bookings, Flights
<1>5. Filed' /\ OnBook' /\ Booked' /\ Priced' /\ OneAtATime'
  BY <1>1, Invariants DEF Filed, OnBook, Booked, Priced, Awaited, OneAtATime
<1>6. QED
  BY <1>4, <1>5 DEF MerchantInv

\* A hold of which one good is changed is within the hull when the difference is.
LEMMA HoldMoves ==
    ASSUME hold \in [Goods -> 0..Capacity], Load(hold) <= Capacity, NEW g \in Goods, NEW n \in Nat,
           Load(hold) + n <= Capacity + hold[g]
    PROVE  [hold EXCEPT ![g] = n] \in [Goods -> 0..Capacity] /\ Load([hold EXCEPT ![g] = n]) <= Capacity
<1> DEFINE other == [hold EXCEPT ![g] = n]
<1>1. hold \in [Goods -> Nat] /\ other \in [Goods -> Nat] /\ other[g] = n
      /\ Capacity \in Nat /\ hold[g] \in Nat
  BY MerchantFigures
<1>2. \A h \in Goods : h # g => other[h] = hold[h]
  OBVIOUS
<1>3. Load(hold) \in Nat /\ hold[g] <= Load(hold)
  BY <1>1, LoadBounds
<1>4. other[g] \in 0..Capacity
  BY <1>1, <1>3
<1>5. other \in [Goods -> 0..Capacity]
  BY <1>2, <1>4
<1> HIDE DEF other
<1>6. Load(other) \in Nat /\ Load(other) + hold[g] = Load(hold) + n
  BY <1>1, <1>2, LoadBounds, LoadMoves
<1>7. Load(other) <= Capacity
  BY <1>1, <1>3, <1>6
<1>8. QED
  BY <1>5, <1>7 DEF other

LEMMA ByHandKeeps == ASSUME MerchantInv, ByHand PROVE MerchantInv'
<1>1. /\ berth' = berth /\ fly' = fly /\ tank' = tank
      /\ queue' = queue /\ receipt' = receipt /\ book' = book
      /\ wait' = wait /\ trade' = trade /\ trades' = trades /\ faults' = faults
      /\ astray' = astray /\ opened' = opened /\ hands' \in 0..MaxHand
  BY Invariants, MerchantFigures DEF ByHand, hull
<1>2. PICK g \in Goods :
         /\ \/ /\ Load(hold) < Capacity
               /\ hold' = [hold EXCEPT ![g] = @ + 1] /\ ripe' = [ripe EXCEPT ![g] = MinHold]
            \/ /\ hold[g] > 0 /\ ripe[g] = 0
               /\ hold' = [hold EXCEPT ![g] = 0] /\ UNCHANGED ripe
         /\ bets' = bets \ {g} /\ paid' = [paid EXCEPT ![g] = 0]
  BY DEF ByHand
<1>3. /\ hold \in [Goods -> 0..Capacity] /\ ripe \in [Goods -> 0..MinHold] /\ Load(hold) <= Capacity
      /\ hold[g] \in Nat /\ Load(hold) \in Nat /\ Capacity \in Nat /\ MinHold \in Nat
      /\ hold[g] <= Load(hold)
  <2>1. hold \in [Goods -> 0..Capacity] /\ hold \in [Goods -> Nat]
    BY Invariants
  <2>2. QED
    BY <2>1, Invariants, MerchantFigures, LoadBounds
<1>4. PICK n \in Nat : /\ hold' = [hold EXCEPT ![g] = n] /\ Load(hold) + n <= Capacity + hold[g]
                       /\ ripe' \in [Goods -> 0..MinHold]
  <2>1. CASE /\ Load(hold) < Capacity
             /\ hold' = [hold EXCEPT ![g] = @ + 1] /\ ripe' = [ripe EXCEPT ![g] = MinHold]
    <3>1. hold[g] + 1 \in Nat /\ hold' = [hold EXCEPT ![g] = hold[g] + 1]
          /\ Load(hold) + (hold[g] + 1) <= Capacity + hold[g]
      BY <1>3, <2>1
    <3>2. ripe' \in [Goods -> 0..MinHold]
      BY <1>3, <2>1
    <3>3. QED
      BY <3>1, <3>2
  <2>2. CASE /\ hold[g] > 0 /\ ripe[g] = 0
             /\ hold' = [hold EXCEPT ![g] = 0] /\ UNCHANGED ripe
    <3>1. 0 \in Nat /\ Load(hold) + 0 <= Capacity + hold[g] /\ ripe' \in [Goods -> 0..MinHold]
      BY <1>3, <2>2
    <3>2. QED
      BY <2>2, <3>1
  <2>3. QED
    BY <1>2, <2>1, <2>2
<1>5. hold' \in [Goods -> 0..Capacity] /\ Load(hold') <= Capacity
  BY <1>3, <1>4, HoldMoves
<1>6. \A h \in Goods : h # g => hold'[h] = hold[h] /\ paid'[h] = paid[h]
  BY <1>2, <1>3, <1>4, Invariants
<1>7. bets' \subseteq {h \in Goods : hold'[h] > 0} /\ paid' \in [Goods -> Nat]
  BY <1>2, <1>6, Invariants
<1>8. MerchantTypeOK'
  BY <1>1, <1>4, <1>5, <1>7, Invariants DEF MerchantTypeOK, Bookings, Flights
<1>9. \A h \in bets' : h \in bets /\ h \in Goods /\ h # g /\ paid'[h] = paid[h]
  BY <1>2, <1>6, Invariants
<1>10. Awaited' <=> Awaited
  BY <1>1 DEF Awaited
<1>11. OnBook'
  <2>1. ASSUME Awaited'
        PROVE  /\ book'[trade'.good] # None /\ bets' \subseteq {trade'.good}
               /\ bets' # {} => /\ queue' = None
                                /\ receipt' = [outcome |-> "filled",
                                               total |-> trade'.units * paid'[trade'.good]]
    <3>1. /\ book[trade.good] # None /\ bets \subseteq {trade.good}
          /\ bets # {} => /\ queue = None
                          /\ receipt = [outcome |-> "filled", total |-> trade.units * paid[trade.good]]
      BY <1>10, <2>1, Invariants DEF OnBook
    <3>2. bets' # {} => bets # {} /\ paid'[trade.good] = paid[trade.good]
      BY <1>9, <3>1
    <3>3. QED
      BY <1>1, <1>9, <3>1, <3>2
  <2>2. QED
    BY <2>1 DEF OnBook
<1>12. Filed' /\ Booked' /\ Priced' /\ OneAtATime'
  BY <1>1, <1>9, <1>10, Invariants DEF Filed, Booked, Priced, OneAtATime
<1>13. QED
  BY <1>8, <1>11, <1>12 DEF MerchantInv

-----------------------------------------------------------------------------
(* A fold of the exchange.                                                  *)

LEMMA RipensType ==
    ASSUME ripe \in [Goods -> 0..MinHold]
    PROVE  Ripens \in [Goods -> 0..MinHold]
<1>1. ASSUME NEW g \in Goods PROVE Max({ripe[g] - 1, 0}) \in 0..MinHold
  <2>1. ripe[g] \in 0..MinHold /\ MinHold \in Nat
    BY MerchantFigures
  <2>2. QED
    BY <2>1, GreaterOf
<1>2. QED
  BY <1>1 DEF Ripens

LEMMA TimePasses ==
    ASSUME MerchantInv, fly' = Max({fly - 1, 0}), wait' = Max({wait - 1, 0}), book' = Aged(book)
    PROVE  fly' \in 0..Max(Flights) /\ wait' \in 0..2 /\ book' \in Bookings /\ Alike(book, book')
<1>1. fly \in 0..Max(Flights) /\ wait \in 0..2 /\ book \in Bookings /\ berth \in Stations
  BY Invariants
<1>2. Max(Flights) \in Nat
  BY <1>1, FlightsBound
<1>3. fly' \in 0..Max(Flights)
  <2> DEFINE top == Max(Flights)
  <2>1. fly \in 0..top /\ top \in Nat
    BY <1>1, <1>2
  <2> HIDE DEF top
  <2>2. Max({fly - 1, 0}) \in 0..top
    BY <2>1, GreaterOf
  <2>3. QED
    BY <2>2 DEF top
<1>4. wait' \in 0..2
  BY <1>1, GreaterOf
<1>5. QED
  BY <1>1, <1>3, <1>4, AgedKeeps

LEMMA TickKeeps == ASSUME MerchantInv, Tick PROVE MerchantInv'
<1>1. /\ berth' = berth /\ tank' = tank /\ trade' = trade /\ trades' = trades
      /\ hands' = hands /\ faults' = faults /\ astray' = astray /\ opened' = opened
      /\ hold' = hold /\ queue' = queue /\ queue = None /\ receipt' = receipt /\ bets' = bets /\ paid' = paid
      /\ ripe' = Ripens
  BY DEF Tick, Passes, bounds
<1>2. fly' \in 0..Max(Flights) /\ wait' \in 0..2 /\ book' \in Bookings /\ Alike(book, book')
  BY TimePasses DEF Tick, Passes
<1>3. Load(hold') <= Capacity /\ ripe' \in [Goods -> 0..MinHold]
  BY <1>1, Invariants, RipensType
<1>4. MerchantTypeOK'
  BY <1>1, <1>2, <1>3, Invariants DEF MerchantTypeOK, Bookings, Flights
<1>5. \A g \in bets : g \in Goods
  BY Invariants
<1>6. trade # None => trade.good \in Goods
  BY Invariants DEF Trades
<1>7. Filed' /\ OneAtATime'
  BY <1>1, Invariants DEF Filed, OneAtATime
<1>8. Booked' /\ Priced'
  BY <1>1, <1>2, <1>5, Invariants DEF Booked, Priced, Awaited, Alike
<1>9. OnBook'
  BY <1>1, <1>2, <1>6, Invariants DEF OnBook, Awaited, Alike
<1>10. QED
  BY <1>4, <1>7, <1>8, <1>9 DEF MerchantInv

LEMMA FoldSellKeeps == ASSUME MerchantInv, FoldSell PROVE MerchantInv'
<1>1. /\ berth' = berth /\ tank' = tank /\ trade' = trade /\ trades' = trades
      /\ hands' = hands /\ faults' = faults /\ astray' = astray /\ opened' = opened
      /\ queue # None /\ queue.side = "sell" /\ queue' = None /\ ripe' = Ripens
  BY DEF FoldSell, Passes, bounds
<1>2. fly' \in 0..Max(Flights) /\ wait' \in 0..2 /\ book' \in Bookings /\ Alike(book, book')
  BY TimePasses DEF FoldSell, Passes
<1> DEFINE g == queue.good
<1>3. /\ g \in Goods /\ queue.units \in 1..Capacity /\ queue.units \in Nat
      /\ berth \in Stations /\ ripe \in [Goods -> 0..MinHold] /\ ripe[g] \in 0..MinHold
      /\ hold \in [Goods -> 0..Capacity] /\ hold[g] \in Nat /\ MinHold \in Nat
      /\ Load(hold) <= Capacity /\ Load(hold) \in Nat /\ Capacity \in Nat
      /\ paid \in [Goods -> Nat]
  <2>1. queue \in Trades
    BY <1>1, Invariants
  <2>2. queue.good \in Goods /\ queue.units \in 1..Capacity
    BY <2>1 DEF Trades
  <2>3. hold \in [Goods -> 0..Capacity] /\ hold \in [Goods -> Nat]
    BY Invariants
  <2>4. Load(hold) \in Nat
    BY <2>3, LoadBounds
  <2>5. QED
    BY <2>2, <2>3, <2>4, Invariants, MerchantFigures
<1>4. ripe' \in [Goods -> 0..MinHold]
  BY <1>1, <1>3, RipensType
<1>5. \/ /\ hold[g] >= queue.units /\ ripe[g] = 0
         /\ hold' = [hold EXCEPT ![g] = @ - queue.units]
         /\ bets' = IF hold'[g] = 0 THEN bets \ {g} ELSE bets
         /\ paid' = IF hold'[g] = 0 THEN [paid EXCEPT ![g] = 0] ELSE paid
         /\ receipt' = [outcome |-> "filled", total |-> queue.units * BidHere(g)]
      \/ /\ hold[g] < queue.units /\ receipt' = [outcome |-> "short"] /\ UNCHANGED <<hold, bets, paid>>
      \/ /\ hold[g] >= queue.units /\ ripe[g] > 0
         /\ receipt' = [outcome |-> "minimum hold", ripe |-> ripe[g] - 1]
         /\ UNCHANGED <<hold, bets, paid>>
  BY DEF FoldSell
<1> HIDE DEF g
<1>6. /\ receipt' \in Receipts /\ hold' \in [Goods -> 0..Capacity] /\ Load(hold') <= Capacity
      /\ bets' \subseteq {h \in Goods : hold'[h] > 0} /\ paid' \in [Goods -> Nat]
      /\ \A h \in bets' : h \in bets /\ h \in Goods /\ paid'[h] = paid[h]
  <2>1. CASE /\ hold[g] >= queue.units /\ ripe[g] = 0
             /\ hold' = [hold EXCEPT ![g] = @ - queue.units]
             /\ bets' = IF hold'[g] = 0 THEN bets \ {g} ELSE bets
             /\ paid' = IF hold'[g] = 0 THEN [paid EXCEPT ![g] = 0] ELSE paid
             /\ receipt' = [outcome |-> "filled", total |-> queue.units * BidHere(g)]
    <3> DEFINE n == hold[g] - queue.units
    <3>1. n \in Nat /\ Load(hold) + n <= Capacity + hold[g] /\ hold' = [hold EXCEPT ![g] = n]
      BY <1>3, <2>1
    <3> HIDE DEF n
    <3>2. hold' \in [Goods -> 0..Capacity] /\ Load(hold') <= Capacity
      BY <1>3, <3>1, HoldMoves
    <3>3. hold'[g] = n /\ \A h \in Goods : h # g => hold'[h] = hold[h]
      BY <1>3, <3>1
    <3>4. queue.units * BidHere(g) \in Nat
      <4>1. BidHere(g) \in Nat
        BY <1>3, MerchantFigures DEF BidHere
      <4>2. QED
        BY <1>3, <4>1
    <3>5. receipt' \in Receipts
      BY <2>1, <3>4 DEF Receipts
    <3>6. CASE n = 0
      <4>1. bets' = bets \ {g} /\ paid' = [paid EXCEPT ![g] = 0]
        BY <2>1, <3>3, <3>6
      <4>2. bets' \subseteq {h \in Goods : hold'[h] > 0} /\ paid' \in [Goods -> Nat]
        BY <1>3, <3>3, <4>1, Invariants
      <4>3. \A h \in bets' : h \in bets /\ h \in Goods /\ paid'[h] = paid[h]
        BY <1>3, <4>1, Invariants
      <4>4. QED
        BY <3>2, <3>5, <4>2, <4>3
    <3>7. CASE n # 0
      <4>1. bets' = bets /\ paid' = paid
        BY <2>1, <3>3, <3>7
      <4>2. bets' \subseteq {h \in Goods : hold'[h] > 0}
        BY <1>3, <3>1, <3>3, <3>7, <4>1, Invariants
      <4>3. QED
        BY <1>3, <3>2, <3>5, <4>1, <4>2, Invariants
    <3>8. QED
      BY <3>6, <3>7
  <2>2. CASE /\ hold[g] < queue.units /\ receipt' = [outcome |-> "short"] /\ UNCHANGED <<hold, bets, paid>>
    <3>1. receipt' \in Receipts
      BY <2>2 DEF Receipts
    <3>2. QED
      BY <1>3, <2>2, <3>1, Invariants
  <2>3. CASE /\ hold[g] >= queue.units /\ ripe[g] > 0
             /\ receipt' = [outcome |-> "minimum hold", ripe |-> ripe[g] - 1]
             /\ UNCHANGED <<hold, bets, paid>>
    <3>1. ripe[g] - 1 \in 0..MinHold
      <4>1. ripe[g] \in 0..MinHold /\ MinHold \in Nat /\ ripe[g] > 0
        BY <1>3, <2>3
      <4>2. QED
        BY <4>1
    <3>2. receipt' \in Receipts
      BY <2>3, <3>1 DEF Receipts
    <3>3. QED
      BY <1>3, <2>3, <3>2, Invariants
  <2>4. QED
    BY <1>5, <2>1, <2>2, <2>3
<1>7. MerchantTypeOK'
  BY <1>1, <1>2, <1>4, <1>6, Invariants DEF MerchantTypeOK, Bookings, Flights
\* What was sold is what the pilot filed last, so no buy's receipt is awaited.
<1>8. ~Awaited /\ ~Awaited'
  BY <1>1, Invariants DEF Filed, Awaited
<1>9. Filed' /\ OnBook' /\ OneAtATime'
  BY <1>1, <1>8, Invariants DEF Filed, OnBook, OneAtATime
<1>10. Booked' /\ Priced'
  BY <1>1, <1>2, <1>6, <1>8, Invariants DEF Booked, Priced, Alike
<1>11. QED
  BY <1>7, <1>9, <1>10 DEF MerchantInv

LEMMA FoldBuyKeeps == ASSUME MerchantInv, FoldBuy PROVE MerchantInv'
<1>1. /\ berth' = berth /\ tank' = tank /\ trade' = trade /\ trades' = trades
      /\ hands' = hands /\ faults' = faults /\ astray' = astray /\ opened' = opened
      /\ queue # None /\ queue.side = "buy" /\ queue' = None
  BY DEF FoldBuy, bounds
<1>2. fly' \in 0..Max(Flights) /\ wait' \in 0..2 /\ book' \in Bookings /\ Alike(book, book')
  BY TimePasses DEF FoldBuy
<1> DEFINE g == queue.good
<1>3. /\ g \in Goods /\ queue.units \in Nat \ {0} /\ queue.ask \in Nat
      /\ hold \in [Goods -> 0..Capacity] /\ hold[g] \in Nat /\ MinHold \in Nat \ {0}
      /\ Load(hold) <= Capacity /\ Load(hold) \in Nat /\ Capacity \in Nat
      /\ paid \in [Goods -> Nat] /\ Ripens \in [Goods -> 0..MinHold]
  <2>1. queue \in Trades
    BY <1>1, Invariants
  <2>2. queue.good \in Goods /\ queue.units \in Nat \ {0} /\ queue.ask \in Nat
    BY <2>1, MerchantFigures DEF Trades
  <2>3. hold \in [Goods -> 0..Capacity] /\ hold \in [Goods -> Nat]
    BY Invariants
  <2>4. Load(hold) \in Nat /\ Ripens \in [Goods -> 0..MinHold]
    BY <2>3, LoadBounds, RipensType, Invariants
  <2>5. QED
    BY <2>2, <2>3, <2>4, Invariants, MerchantFigures
<1>4. \/ /\ Load(hold) + queue.units <= Capacity
         /\ hold' = [hold EXCEPT ![g] = @ + queue.units]
         /\ ripe' = [Ripens EXCEPT ![g] = MinHold - 1]
         /\ \E price \in {queue.ask, queue.ask + Bps(queue.ask, 1000)} :
               /\ receipt' = [outcome |-> "filled", total |-> queue.units * price]
               /\ paid' = [paid EXCEPT ![g] = price]
         /\ bets' = IF hold[g] = 0 THEN bets \cup {g} ELSE bets
      \/ /\ receipt' = [outcome |-> "no stock"] /\ ripe' = Ripens /\ UNCHANGED <<hold, paid, bets>>
  BY DEF FoldBuy
\* What was bought is what the pilot filed last: nothing it bought was aboard before.
<1>5. ~astray => /\ Awaited /\ trade = queue /\ bets = {} /\ book[g] # None
  <2>1. ASSUME ~astray PROVE trade = queue /\ Awaited
    BY <1>1, <2>1, Invariants DEF Filed, Awaited
  <2>2. QED
    BY <1>1, <2>1, Invariants DEF OnBook
<1>6. Awaited' <=> ~astray
  BY <1>1, <1>5 DEF Awaited
<1> HIDE DEF g
<1>7. book[g] # None => book'[g] # None
  BY <1>2, <1>3 DEF Alike
<1>8. /\ receipt' \in Receipts /\ hold' \in [Goods -> 0..Capacity] /\ Load(hold') <= Capacity
      /\ ripe' \in [Goods -> 0..MinHold]
      /\ bets' \subseteq {h \in Goods : hold'[h] > 0} /\ paid' \in [Goods -> Nat]
      /\ bets = {} => /\ bets' \subseteq {g}
                      /\ bets' # {} => receipt' = [outcome |-> "filled", total |-> queue.units * paid'[g]]
  <2>1. CASE /\ Load(hold) + queue.units <= Capacity
             /\ hold' = [hold EXCEPT ![g] = @ + queue.units]
             /\ ripe' = [Ripens EXCEPT ![g] = MinHold - 1]
             /\ \E price \in {queue.ask, queue.ask + Bps(queue.ask, 1000)} :
                   /\ receipt' = [outcome |-> "filled", total |-> queue.units * price]
                   /\ paid' = [paid EXCEPT ![g] = price]
             /\ bets' = IF hold[g] = 0 THEN bets \cup {g} ELSE bets
    <3>1. PICK price \in {queue.ask, queue.ask + Bps(queue.ask, 1000)} :
             /\ receipt' = [outcome |-> "filled", total |-> queue.units * price]
             /\ paid' = [paid EXCEPT ![g] = price]
      BY <2>1
    <3>2. price \in Nat
      <4>1. Bps(queue.ask, 1000) \in Nat
        BY <1>3 DEF Bps
      <4>2. QED
        BY <1>3, <4>1
    <3> DEFINE n == hold[g] + queue.units
    <3>3. n \in Nat /\ n > 0 /\ Load(hold) + n <= Capacity + hold[g] /\ hold' = [hold EXCEPT ![g] = n]
      <4>1. Load(hold) + queue.units <= Capacity /\ hold' = [hold EXCEPT ![g] = @ + queue.units]
        BY <2>1
      <4>2. n \in Nat /\ n > 0 /\ Load(hold) + n <= Capacity + hold[g]
        BY <1>3, <4>1
      <4>3. QED
        BY <4>1, <4>2
    <3> HIDE DEF n
    <3>4. hold' \in [Goods -> 0..Capacity] /\ Load(hold') <= Capacity
      BY <1>3, <3>3, HoldMoves
    <3>5. hold'[g] > 0 /\ \A h \in Goods : h # g => hold'[h] = hold[h]
      BY <1>3, <3>3
    <3>6. receipt' \in Receipts
      <4> DEFINE total == queue.units * price
      <4>1. total \in Nat
        BY <1>3, <3>2
      <4>2. receipt' = [outcome |-> "filled", total |-> total]
        BY <3>1
      <4> HIDE DEF total
      <4>3. receipt' \in [outcome : {"filled"}, total : Nat]
        BY <4>1, <4>2
      <4>4. QED
        BY <4>3 DEF Receipts
    <3>7. paid' \in [Goods -> Nat] /\ paid'[g] = price
      BY <1>3, <3>1, <3>2
    <3>8. ripe' \in [Goods -> 0..MinHold]
      BY <1>3, <2>1
    <3>9. bets' \subseteq bets \cup {g}
      BY <2>1
    <3>10. bets' \subseteq {h \in Goods : hold'[h] > 0}
      BY <1>3, <3>5, <3>9, Invariants
    <3>11. QED
      BY <3>1, <3>4, <3>6, <3>7, <3>8, <3>9, <3>10
  <2>2. CASE receipt' = [outcome |-> "no stock"] /\ ripe' = Ripens /\ UNCHANGED <<hold, paid, bets>>
    <3>1. receipt' \in Receipts
      BY <2>2 DEF Receipts
    <3>2. QED
      BY <1>3, <2>2, <3>1, Invariants
  <2>3. QED
    BY <1>4, <2>1, <2>2
<1>9. MerchantTypeOK'
  BY <1>1, <1>2, <1>8, Invariants DEF MerchantTypeOK, Bookings, Flights
<1>10. OnBook'
  <2>1. ASSUME ~astray
        PROVE  /\ book'[trade'.good] # None /\ bets' \subseteq {trade'.good}
               /\ bets' # {} => /\ queue' = None
                                /\ receipt' = [outcome |-> "filled",
                                               total |-> trade'.units * paid'[trade'.good]]
    <3>1. trade' = queue /\ bets = {} /\ book'[g] # None
      BY <1>1, <1>5, <1>7, <2>1
    <3>2. QED
      BY <1>1, <1>8, <3>1 DEF g
  <2>2. QED
    BY <1>6, <2>1 DEF OnBook
<1>11. Booked'
  <2>1. ASSUME ~astray, NEW h \in bets' PROVE book'[h] # None
    BY <1>5, <1>7, <1>8, <2>1
  <2>2. QED
    BY <1>1, <2>1 DEF Booked
<1>12. Filed' /\ Priced' /\ OneAtATime'
  BY <1>1, <1>6, Invariants DEF Filed, Priced, OneAtATime
<1>13. QED
  BY <1>9, <1>10, <1>11, <1>12 DEF MerchantInv

-----------------------------------------------------------------------------
(* The theorems.                                                            *)

LEMMA MerchantStarts == ASSUME MerchantInit PROVE MerchantInv
<1>1. Tank \in Nat \ {0} /\ MaxHand \in Nat /\ MaxFaults \in Nat /\ MinHold \in Nat /\ Capacity \in Nat
  BY MerchantFigures
<1>2. berth \in Stations /\ fly = 0 /\ tank = Tank /\ wait = 0 /\ trades = TRUE /\ hands = 0 /\ faults = 0
  BY DEF MerchantInit
<1>3. hold = [g \in Goods |-> 0] /\ ripe = [g \in Goods |-> 0] /\ book = Nothing
      /\ queue = None /\ receipt = None /\ trade = None
      /\ bets = {} /\ paid = [g \in Goods |-> 0] /\ astray = FALSE /\ opened = FALSE
  BY DEF MerchantInit
<1>4. fly \in 0..Max(Flights)
  <2>1. Max(Flights) \in Nat
    BY <1>2, FlightsBound
  <2>2. QED
    BY <1>2, <2>1
<1>5. hold \in [Goods -> Nat] /\ hold \in [Goods -> 0..Capacity] /\ \A g \in Goods : hold[g] = 0
  BY <1>1, <1>3
<1>6. Load(hold) <= Capacity
  <2>1. Load(hold) = 0
    BY <1>5, LoadBounds
  <2>2. QED
    BY <1>1, <2>1
<1>7. book \in Bookings
  BY <1>3 DEF Nothing, Bookings
<1>8. MerchantTypeOK
  <2>1. /\ tank \in 0..Tank /\ wait \in 0..2 /\ trades \in BOOLEAN /\ hands \in 0..MaxHand
        /\ faults \in 0..MaxFaults /\ ripe \in [Goods -> 0..MinHold]
        /\ paid \in [Goods -> Nat] /\ astray \in BOOLEAN /\ opened \in BOOLEAN
        /\ bets \subseteq {g \in Goods : hold[g] > 0}
    <3>1. \A n \in Nat : 0 \in 0..n /\ n \in 0..n
      OBVIOUS
    <3>2. tank \in 0..Tank /\ hands \in 0..MaxHand /\ faults \in 0..MaxFaults /\ wait \in 0..2
      BY <1>1, <1>2, <3>1
    <3>3. ripe \in [Goods -> 0..MinHold] /\ paid \in [Goods -> Nat]
      BY <1>1, <1>3, <3>1
    <3>4. QED
      BY <1>2, <1>3, <3>2, <3>3
  <2>2. {queue, trade} \subseteq Trades \cup {None} /\ receipt \in Receipts \cup {None}
    BY <1>3
  <2>3. QED
    BY <1>2, <1>4, <1>5, <1>6, <1>7, <2>1, <2>2 DEF MerchantTypeOK, Bookings, Flights
<1>9. Filed /\ OnBook /\ Booked /\ Priced /\ OneAtATime
  BY <1>3 DEF Filed, OnBook, Booked, Priced, Awaited, OneAtATime
<1>10. QED
  BY <1>8, <1>9 DEF MerchantInv

LEMMA MerchantStutters == ASSUME MerchantInv, UNCHANGED merchantVars PROVE MerchantInv'
<1>1. /\ berth' = berth /\ fly' = fly /\ tank' = tank /\ hold' = hold /\ ripe' = ripe
      /\ queue' = queue /\ receipt' = receipt /\ book' = book /\ trade' = trade /\ trades' = trades
      /\ hands' = hands /\ faults' = faults /\ bets' = bets /\ paid' = paid /\ astray' = astray
      /\ opened' = opened /\ wait' = wait
  BY DEF merchantVars, hull, bounds, history
<1>2. Load(hold') <= Capacity
  BY <1>1, Invariants
<1>3. MerchantTypeOK'
  BY <1>1, <1>2, Invariants DEF MerchantTypeOK, Bookings, Flights
<1>4. Filed' /\ OnBook' /\ Booked' /\ Priced' /\ OneAtATime'
  BY <1>1, Invariants DEF Filed, OnBook, Booked, Priced, Awaited, OneAtATime
<1>5. QED
  BY <1>3, <1>4 DEF MerchantInv

\* Whatever the order of folds, answers, restarts, freight and the captain's own trades, the
\* book, the hold, what is in flight and what is remembered of it stay as the fold assumes.
THEOREM MerchantSafe == MerchantSpec => []MerchantInv
<1>1. ASSUME MerchantInv, [MerchantNext]_merchantVars PROVE MerchantInv'
  <2>1. CASE SeesPending
    BY <1>1, <2>1, SeesPendingKeeps
  <2>2. ASSUME NEW in \in Readings, Pass(in) PROVE MerchantInv'
    BY <1>1, <2>2, PassKeeps
  <2>3. CASE Restarts
    BY <1>1, <2>3, RestartsKeeps
  <2>4. CASE Tick
    BY <1>1, <2>4, TickKeeps
  <2>5. CASE FoldSell
    BY <1>1, <2>5, FoldSellKeeps
  <2>6. CASE FoldBuy
    BY <1>1, <2>6, FoldBuyKeeps
  <2>7. CASE ByHand
    BY <1>1, <2>7, ByHandKeeps
  <2>8. CASE HullMoves
    BY <1>1, <2>8, HullMovesKeeps
  <2>9. CASE UNCHANGED merchantVars
    BY <1>1, <2>9, MerchantStutters
  <2>10. QED
    BY <1>1, <2>1, <2>2, <2>3, <2>4, <2>5, <2>6, <2>7, <2>8, <2>9 DEF MerchantNext, ExchangeFolds
<1>2. QED
  BY MerchantStarts, <1>1, PTL DEF MerchantSpec

\* The types of the merchant's state, with a hold never loaded past what the hull carries.
THEOREM MerchantTypeCorrect == MerchantSpec => []MerchantTypeOK
<1>1. MerchantInv => MerchantTypeOK
  BY DEF MerchantInv
<1>2. QED
  BY MerchantSafe, <1>1, PTL

\* The merchant never files a buy with a lot it bought still aboard, whatever was lost and
\* whenever it restarted (trade.rs:880, main.rs:1295).
THEOREM OnePosition == MerchantSpec => []OneAtATime
<1>1. MerchantInv => OneAtATime
  BY DEF MerchantInv
<1>2. QED
  BY MerchantSafe, <1>1, PTL

\* Once its receipt was read, a lot is never judged by less than was paid (trade.rs:168).
THEOREM BasisHolds == MerchantSpec => []BasisIsPaid
<1>1. MerchantInv => BasisIsPaid
  BY DEF MerchantInv, Priced, Awaited, BasisIsPaid
<1>2. QED
  BY MerchantSafe, <1>1, PTL

-----------------------------------------------------------------------------
(* The price of a shelf, by the exchange's formula.                         *)

\* More of a kind comes to no less.
LEMMA ScalesInOrder ==
    ASSUME NEW a \in Int, NEW b \in Int, NEW c \in Nat, a <= b
    PROVE  a * c <= b * c /\ a * c \in Int /\ b * c \in Int
<1>1. PICK d \in Nat : b = a + d
  BY b - a \in Nat
<1>2. b * c = a * c + d * c /\ d * c \in Nat /\ a * c \in Int
  BY <1>1
<1>3. QED
  BY <1>2

\* A quotient and what it leaves out.
LEMMA Divides ==
    ASSUME NEW a \in Nat, NEW c \in Nat \ {0}
    PROVE  a \div c \in Nat /\ (a \div c) * c <= a /\ a < (a \div c) * c + c /\ (a \div c) * c \in Nat
<1>1. a \div c \in Nat
  OBVIOUS
<1>2. (a \div c) * c <= a
  OBVIOUS
<1>3. a < (a \div c) * c + c
  OBVIOUS
<1>4. (a \div c) * c \in Nat
  BY <1>1
<1>5. QED
  BY <1>1, <1>2, <1>3, <1>4

\* A quotient is the most that goes into what is divided.
LEMMA GoesInto ==
    ASSUME NEW a \in Nat, NEW c \in Nat \ {0}, NEW q \in Nat, q * c <= a
    PROVE  q <= a \div c
<1> DEFINE r == a \div c
<1>1. r \in Nat /\ a < r * c + c /\ r * c \in Nat
  BY Divides
<1> HIDE DEF r
<1>2. SUFFICES ASSUME ~(q <= r) PROVE FALSE
  BY DEF r
<1>3. r + 1 <= q /\ r + 1 \in Int
  BY <1>1, <1>2
<1>4. (r + 1) * c <= q * c /\ q * c \in Int
  BY <1>3, ScalesInOrder
<1>5. (r + 1) * c = r * c + c
  BY <1>1
<1>6. QED
  BY <1>1, <1>4, <1>5

LEMMA DividesGrowing ==
    ASSUME NEW a \in Nat, NEW b \in Nat, NEW c \in Nat \ {0}, a <= b
    PROVE  a \div c <= b \div c
<1> DEFINE q == a \div c
<1>1. q \in Nat /\ q * c <= a /\ q * c \in Nat
  BY Divides
<1> HIDE DEF q
<1>2. q * c <= b
  BY <1>1
<1>3. q <= b \div c
  BY <1>1, <1>2, GoesInto
<1>4. QED
  BY <1>3 DEF q

\* How far a shelf is from its equilibrium, as a share of the larger, and of which sign.
LEMMA ImbalanceIs ==
    ASSUME NEW stock \in Nat, NEW eq \in Nat \ {0}
    PROVE  /\ stock < eq => ImbalanceBps(stock, eq) = ((eq - stock) * 10000) \div eq
           /\ ~(stock < eq) => ImbalanceBps(stock, eq) = -(((stock - eq) * 10000) \div stock)
<1>1. Max({stock, eq}) = IF stock <= eq THEN eq ELSE stock
  BY GreaterOf
<1>2. Min({stock, eq}) = IF stock <= eq THEN stock ELSE eq
  BY LesserOf
<1>3. eq # 0
  OBVIOUS
<1>4. ASSUME stock < eq PROVE ImbalanceBps(stock, eq) = ((eq - stock) * 10000) \div eq
  <2>1. Max({stock, eq}) = eq /\ Min({stock, eq}) = stock
    BY <1>1, <1>2, <1>4
  <2>2. QED
    BY <1>3, <1>4, <2>1 DEF ImbalanceBps, Full
<1>5. ASSUME ~(stock < eq) PROVE ImbalanceBps(stock, eq) = -(((stock - eq) * 10000) \div stock)
  <2>1. Max({stock, eq}) = stock /\ Min({stock, eq}) = eq
    BY <1>1, <1>2, <1>5
  <2>2. QED
    BY <1>3, <1>5, <2>1 DEF ImbalanceBps, Full
<1>6. QED
  BY <1>4, <1>5

LEMMA ShareBounds ==
    ASSUME NEW part \in Nat, NEW whole \in Nat \ {0}, part <= whole
    PROVE  (part * 10000) \div whole \in Nat /\ (part * 10000) \div whole <= 10000
<1> DEFINE q == (part * 10000) \div whole
<1>1. part * 10000 \in Nat /\ part * 10000 <= whole * 10000 /\ whole * 10000 \in Nat
  OBVIOUS
<1>2. q \in Nat /\ q <= (whole * 10000) \div whole
  BY <1>1, DividesGrowing, Divides
<1>3. (whole * 10000) \div whole = 10000
  OBVIOUS
<1> HIDE DEF q
<1>4. QED
  BY <1>2, <1>3 DEF q

LEMMA ImbalanceBounds ==
    ASSUME NEW stock \in Nat, NEW eq \in Nat
    PROVE  /\ ImbalanceBps(stock, eq) \in Int
           /\ -10000 <= ImbalanceBps(stock, eq) /\ ImbalanceBps(stock, eq) <= 10000
           /\ stock < eq => ImbalanceBps(stock, eq) >= 0
           /\ ~(stock < eq) => ImbalanceBps(stock, eq) <= 0
<1>1. CASE eq = 0
  <2>1. ImbalanceBps(stock, eq) = 0
    BY <1>1 DEF ImbalanceBps
  <2>2. QED
    BY <1>1, <2>1
<1>2. CASE eq # 0 /\ stock < eq
  <2> DEFINE q == ((eq - stock) * 10000) \div eq
  <2>1. q \in Nat /\ q <= 10000
    <3>1. eq - stock \in Nat /\ eq - stock <= eq /\ eq \in Nat \ {0}
      BY <1>2
    <3>2. QED
      BY <3>1, ShareBounds
  <2>2. ImbalanceBps(stock, eq) = q
    BY <1>2, ImbalanceIs
  <2> HIDE DEF q
  <2>3. QED
    BY <1>2, <2>1, <2>2
<1>3. CASE eq # 0 /\ ~(stock < eq)
  <2> DEFINE q == ((stock - eq) * 10000) \div stock
  <2>1. q \in Nat /\ q <= 10000
    <3>1. stock - eq \in Nat /\ stock - eq <= stock /\ stock \in Nat \ {0}
      BY <1>3
    <3>2. QED
      BY <3>1, ShareBounds
  <2>2. ImbalanceBps(stock, eq) = -q
    BY <1>3, ImbalanceIs
  <2> HIDE DEF q
  <2>3. QED
    BY <1>3, <2>1, <2>2
<1>4. QED
  BY <1>1, <1>2, <1>3

\* A shelf with more on it is never shorter of its equilibrium.
LEMMA ImbalanceFalls ==
    ASSUME NEW less \in Nat, NEW more \in Nat, NEW eq \in Nat, less <= more
    PROVE  ImbalanceBps(more, eq) <= ImbalanceBps(less, eq)
<1>1. CASE eq = 0
  BY <1>1 DEF ImbalanceBps
<1>2. CASE eq # 0 /\ more < eq
  <2>1. /\ ImbalanceBps(less, eq) = ((eq - less) * 10000) \div eq
        /\ ImbalanceBps(more, eq) = ((eq - more) * 10000) \div eq
    BY <1>2, ImbalanceIs
  <2>2. (eq - more) * 10000 \in Nat /\ (eq - less) * 10000 \in Nat /\ (eq - more) * 10000 <= (eq - less) * 10000
    BY <1>2
  <2>3. QED
    BY <1>2, <2>1, <2>2, DividesGrowing
<1>3. CASE eq # 0 /\ less < eq /\ ~(more < eq)
  <2>1. ImbalanceBps(less, eq) >= 0 /\ ImbalanceBps(less, eq) \in Int
    BY <1>3, ImbalanceBounds
  <2>2. ImbalanceBps(more, eq) <= 0 /\ ImbalanceBps(more, eq) \in Int
    BY <1>3, ImbalanceBounds
  <2>3. QED
    BY <2>1, <2>2
<1>4. CASE eq # 0 /\ ~(less < eq)
  <2> DEFINE over == (less - eq) * 10000
             q == over \div less
  <2>1. less \in Nat \ {0} /\ more \in Nat \ {0} /\ over \in Nat /\ (more - eq) * 10000 \in Nat
    BY <1>4
  <2>2. q \in Nat /\ q <= 10000 /\ q * less <= over
    <3>1. less - eq \in Nat /\ less - eq <= less
      BY <1>4
    <3>2. q \in Nat /\ q <= 10000
      BY <2>1, <3>1, ShareBounds
    <3>3. q * less <= over
      BY <2>1, Divides
    <3>4. QED
      BY <3>2, <3>3
  <2>3. q * more <= (more - eq) * 10000
    <3> HIDE DEF q
    <3>1. PICK d \in Nat : more = less + d
      BY more - less \in Nat
    <3>2. q * more = q * less + q * d /\ q * less \in Nat /\ q * d \in Nat
      BY <2>2, <3>1
    <3>3. q * d <= 10000 * d
      BY <2>2, ScalesInOrder
    <3>4. (more - eq) * 10000 = over + 10000 * d
      BY <3>1
    <3>5. 10000 * d \in Nat
      BY <3>1
    <3> HIDE DEF over
    <3>6. q * less + q * d <= over + 10000 * d
      BY <2>1, <2>2, <3>2, <3>3, <3>5
    <3>7. QED
      BY <3>2, <3>4, <3>6
  <2>4. q <= ((more - eq) * 10000) \div more
    <3> DEFINE further == (more - eq) * 10000
    <3>1. further \in Nat /\ q * more <= further
      BY <2>1, <2>3
    <3> HIDE DEF q, further
    <3>2. q <= further \div more
      BY <2>1, <2>2, <3>1, GoesInto
    <3>3. QED
      BY <3>2 DEF further
  <2>5. /\ ImbalanceBps(less, eq) = -q
        /\ ImbalanceBps(more, eq) = -(((more - eq) * 10000) \div more)
    BY <1>4, ImbalanceIs
  <2>6. ((more - eq) * 10000) \div more \in Nat
    BY <2>1, Divides
  <2> HIDE DEF q
  <2>7. QED
    BY <2>2, <2>4, <2>5, <2>6
<1>5. QED
  BY <1>2, <1>3, <1>4, <1>1

\* The factor of the base a shelf is priced at, in ten thousandths.
Swung(g, stock, eq) == 10000 + Quotient(Register[g].swing * ImbalanceBps(stock, eq), 10000)
Factor(g, stock, eq) == Clamped(Swung(g, stock, eq), 2000, 20000)
Rounded(g, stock, eq) == (Register[g].base * Factor(g, stock, eq)) \div 10000

LEMMA Registered ==
    ASSUME NEW g \in DOMAIN Register
    PROVE  Register[g].base \in Nat /\ Register[g].swing \in Nat
<1>1. {Register[g].base, Register[g].swing} \subseteq Nat
  BY ChainAssumption
<1>2. QED
  BY <1>1

LEMMA FactorBounds ==
    ASSUME NEW g \in DOMAIN Register, NEW stock \in Nat, NEW eq \in Nat
    PROVE  /\ Swung(g, stock, eq) \in Int
           /\ Factor(g, stock, eq) \in Nat /\ Factor(g, stock, eq) <= 20000
           /\ Factor(g, stock, eq) = IF Swung(g, stock, eq) < 2000 THEN 2000
                                     ELSE IF Swung(g, stock, eq) <= 20000 THEN Swung(g, stock, eq) ELSE 20000
<1>1. Register[g].base \in Nat /\ Register[g].swing \in Nat
  BY Registered
<1>2. ImbalanceBps(stock, eq) \in Int
  BY ImbalanceBounds
<1>3. Swung(g, stock, eq) \in Int
  <2>1. Register[g].swing * ImbalanceBps(stock, eq) \in Int
    BY <1>1, <1>2
  <2>2. QED
    BY <2>1 DEF Swung, Quotient
<1> DEFINE x == Swung(g, stock, eq)
<1> HIDE DEF x
<1>4. x \in Int
  BY <1>3 DEF x
<1>5. Max({x, 2000}) = IF x <= 2000 THEN 2000 ELSE x
  BY <1>4, GreaterOf
<1>6. Min({Max({x, 2000}), 20000}) = IF Max({x, 2000}) <= 20000 THEN Max({x, 2000}) ELSE 20000
  BY <1>4, <1>5, LesserOf
<1>7. Factor(g, stock, eq) = IF x < 2000 THEN 2000 ELSE IF x <= 20000 THEN x ELSE 20000
  BY <1>4, <1>5, <1>6 DEF Factor, Clamped, x
<1>8. Factor(g, stock, eq) \in Nat /\ Factor(g, stock, eq) <= 20000
  BY <1>4, <1>7
<1>9. QED
  BY <1>4, <1>7, <1>8 DEF x

LEMMA MidIs ==
    ASSUME NEW g \in DOMAIN Register, NEW stock \in Nat, NEW eq \in Nat
    PROVE  /\ Rounded(g, stock, eq) \in Nat
           /\ MidPrice(g, stock, eq) = IF Rounded(g, stock, eq) <= 1 THEN 1 ELSE Rounded(g, stock, eq)
<1> DEFINE base == Register[g].base
           factor == Factor(g, stock, eq)
           priced == (base * factor) \div 10000
<1>1. base \in Nat
  BY Registered
<1>2. factor \in Nat /\ factor <= 20000
  BY FactorBounds
<1>3. MidPrice(g, stock, eq) = Max({priced, 1})
  BY DEF MidPrice, Factor, Swung, Full
<1>4. priced \in Nat
  <2> HIDE DEF base, factor
  <2>1. base * factor \in Nat
    BY <1>1, <1>2
  <2>2. QED
    BY <2>1
<1> HIDE DEF priced
<1>5. MidPrice(g, stock, eq) = IF priced <= 1 THEN 1 ELSE priced
  BY <1>3, <1>4, GreaterOf
<1>6. QED
  BY <1>4, <1>5 DEF priced, Rounded

\* Whatever the shelf, its price is at least a credit and never more than twice the base, or
\* one where the base is nothing: the two rails hold however long the swing is and however the
\* divisions round (chain.rs:1293).
THEOREM MidWithin ==
    \A g \in DOMAIN Register, stock, eq \in Nat :
        MidPrice(g, stock, eq) \in 1..Max({1, 2 * Register[g].base})
<1> SUFFICES ASSUME NEW g \in DOMAIN Register, NEW stock \in Nat, NEW eq \in Nat
             PROVE  MidPrice(g, stock, eq) \in 1..Max({1, 2 * Register[g].base})
  OBVIOUS
<1> DEFINE base == Register[g].base
           factor == Factor(g, stock, eq)
           priced == Rounded(g, stock, eq)
<1>1. base \in Nat /\ factor \in Nat /\ factor <= 20000
  <2>1. base \in Nat
    BY Registered
  <2>2. factor \in Nat /\ factor <= 20000
    BY FactorBounds
  <2>3. QED
    BY <2>1, <2>2
<1>2. priced \in Nat /\ MidPrice(g, stock, eq) = IF priced <= 1 THEN 1 ELSE priced
  BY MidIs
<1>3. priced <= 2 * base
  <2>1. priced = (base * factor) \div 10000
    BY DEF Rounded
  <2> HIDE DEF base, factor, priced
  <2>2. factor * base <= 20000 * base /\ factor * base = base * factor /\ base * factor \in Nat
    BY <1>1, ScalesInOrder
  <2>3. (base * factor) \div 10000 <= 2 * base
    BY <1>1, <2>2
  <2>4. QED
    BY <2>1, <2>3
<1>4. Max({1, 2 * base}) = IF 1 <= 2 * base THEN 2 * base ELSE 1
  BY <1>1, GreaterOf
<1> HIDE DEF base, factor, priced
<1>5. QED
  BY <1>1, <1>2, <1>3, <1>4 DEF base

\* More on a shelf never makes it dearer, so that what eats a shelf raises its price and what
\* fills it lowers it, however the divisions round (chain.rs:1293).
THEOREM FullerIsCheaper ==
    \A g \in DOMAIN Register, less, more, eq \in Nat :
        less <= more => MidPrice(g, more, eq) <= MidPrice(g, less, eq)
<1> SUFFICES ASSUME NEW g \in DOMAIN Register, NEW less \in Nat, NEW more \in Nat, NEW eq \in Nat,
                    less <= more
             PROVE  MidPrice(g, more, eq) <= MidPrice(g, less, eq)
  OBVIOUS
<1> DEFINE base == Register[g].base
           swing == Register[g].swing
           long == ImbalanceBps(more, eq)
           short == ImbalanceBps(less, eq)
<1>1. base \in Nat /\ swing \in Nat
  BY Registered
<1>2. long \in Int /\ short \in Int /\ long <= short
  BY ImbalanceBounds, ImbalanceFalls
<1>3. Swung(g, more, eq) <= Swung(g, less, eq)
  <2>1. swing * long <= swing * short /\ swing * long \in Int /\ swing * short \in Int
    <3> HIDE DEF swing, long, short
    <3>1. long * swing <= short * swing /\ long * swing = swing * long /\ short * swing = swing * short
      BY <1>1, <1>2, ScalesInOrder
    <3>2. QED
      BY <1>1, <1>2, <3>1
  <2>2. ASSUME NEW a \in Int, NEW b \in Int, a <= b PROVE Quotient(a, 10000) <= Quotient(b, 10000)
    BY <2>2 DEF Quotient
  <2>3. Quotient(swing * long, 10000) <= Quotient(swing * short, 10000)
    BY <2>1, <2>2
  <2>4. Quotient(swing * long, 10000) \in Int /\ Quotient(swing * short, 10000) \in Int
    BY <2>1 DEF Quotient
  <2> HIDE DEF swing, long, short
  <2>5. QED
    BY <2>3, <2>4 DEF Swung, swing, long, short
<1>4. /\ Factor(g, more, eq) <= Factor(g, less, eq)
      /\ Factor(g, more, eq) \in Nat /\ Factor(g, less, eq) \in Nat
  <2> DEFINE x == Swung(g, more, eq)
             y == Swung(g, less, eq)
  <2>1. /\ x \in Int /\ Factor(g, more, eq) \in Nat
        /\ Factor(g, more, eq) = IF x < 2000 THEN 2000 ELSE IF x <= 20000 THEN x ELSE 20000
    BY FactorBounds
  <2>2. /\ y \in Int /\ Factor(g, less, eq) \in Nat
        /\ Factor(g, less, eq) = IF y < 2000 THEN 2000 ELSE IF y <= 20000 THEN y ELSE 20000
    BY FactorBounds
  <2>3. x <= y
    BY <1>3
  <2> HIDE DEF x, y
  <2>4. QED
    BY <2>1, <2>2, <2>3
<1> DEFINE lower == Rounded(g, more, eq)
           upper == Rounded(g, less, eq)
<1>5. lower <= upper
  <2>1. Factor(g, more, eq) * base <= Factor(g, less, eq) * base
    BY <1>1, <1>4, ScalesInOrder
  <2>2. base * Factor(g, more, eq) <= base * Factor(g, less, eq)
        /\ base * Factor(g, more, eq) \in Nat /\ base * Factor(g, less, eq) \in Nat
    <3> HIDE DEF base
    <3>1. QED
      BY <1>1, <1>4, <2>1
  <2>3. (base * Factor(g, more, eq)) \div 10000 <= (base * Factor(g, less, eq)) \div 10000
    BY <2>2, DividesGrowing
  <2>4. QED
    BY <2>3 DEF Rounded
<1>6. lower \in Nat /\ MidPrice(g, more, eq) = IF lower <= 1 THEN 1 ELSE lower
  BY MidIs
<1>7. upper \in Nat /\ MidPrice(g, less, eq) = IF upper <= 1 THEN 1 ELSE upper
  BY MidIs
<1> HIDE DEF lower, upper
<1>8. QED
  BY <1>5, <1>6, <1>7

=============================================================================
