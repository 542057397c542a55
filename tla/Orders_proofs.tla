---------------------------- MODULE Orders_proofs ----------------------------
(***************************************************************************)
(* For every set of berths, front ends and words, and every bound: no      *)
(* interleaving of the captain's front ends and the pilot leaves two       *)
(* courses standing that disagree, the pilot flies no superseded one, what *)
(* reads done was filed, and it was filed once but for a crash or a list   *)
(* put back that is older than the pilot's marks.                          *)
(***************************************************************************)
EXTENDS Orders, FiniteSetsExt, SequenceTheorems, WellFoundedInduction, TLAPS

-----------------------------------------------------------------------------
(* The first and the last of a list.                                        *)

\* A set of naturals has a least member.
LEMMA Least == ASSUME NEW T \in SUBSET Nat, T # {} PROVE \E n \in T : \A m \in T : n <= m
<1> DEFINE R == OpToRel(<, Nat)
<1>1. IsWellFoundedOn(R, Nat)
  BY NatLessThanWellFounded DEF OpToRel
<1>2. \A a, b \in Nat : <<a, b>> \in R <=> a < b
  BY DEF OpToRel
<1> HIDE DEF R
<1>3. PICK n \in T : \A m \in T : ~(<<m, n>> \in R)
  BY <1>1, WFMin
<1>4. \A m \in T : ~(m < n)
  BY <1>2, <1>3
<1>5. QED
  BY <1>4

\* Min is the least member.
LEMMA LeastOf ==
    ASSUME NEW S \in SUBSET Nat, S # {}
    PROVE  Min(S) \in S /\ \A n \in S : Min(S) <= n
<1>1. \E n \in S : \A m \in S : n <= m
  BY Least
<1>2. QED
  BY <1>1 DEF Min

\* A non-empty set of positions of a list has a last one, and Max is it.
LEMMA LastPosition ==
    ASSUME NEW n \in Nat, NEW S \in SUBSET (1..n), S # {}
    PROVE  Max(S) \in S /\ \A k \in S : k <= Max(S)
<1> DEFINE T == {n - k : k \in S}
<1>1. \A k \in S : k \in Nat /\ n - k \in Nat
  OBVIOUS
<1>2. T \subseteq Nat
  BY <1>1 DEF T
<1>3. T # {}
  BY DEF T
<1>4. PICK t \in T : \A y \in T : t <= y
  BY <1>2, <1>3, Least
<1>5. PICK m \in S : t = n - m
  BY DEF T
<1>6. \A k \in S : m >= k
  <2> TAKE k \in S
  <2>1. n - k \in T
    OBVIOUS
  <2>2. n - m <= n - k
    BY <1>4, <1>5, <2>1
  <2>3. n \in Int /\ m \in Int /\ k \in Int
    BY <1>1
  <2>4. QED
    BY <2>2, <2>3
<1>7. QED
  BY <1>1, <1>6 DEF Max

\* ... and a first one, and Min is it.
LEMMA FirstPosition ==
    ASSUME NEW n \in Nat, NEW S \in SUBSET (1..n), S # {}
    PROVE  Min(S) \in S /\ \A k \in S : Min(S) <= k
<1>1. S \in SUBSET Nat
  OBVIOUS
<1>2. QED
  BY <1>1, LeastOf

-----------------------------------------------------------------------------
(* What the operations on the list return.                                  *)

LEMMA EndedType ==
    ASSUME NEW o \in OrderRecs
    PROVE  /\ Ended(o) \in OrderRecs /\ Ended(o).done
           /\ Ended(o).id = o.id /\ Ended(o).verb = o.verb /\ Ended(o).station = o.station
  BY DEF Ended, OrderRecs

LEMMA NewOrderType ==
    ASSUME NEW id \in Ids, NEW w \in Words
    PROVE  NewOrder(id, w) \in OrderRecs
<1>1. /\ w \in [verb : Verbs, station : Places, now : BOOLEAN]
      /\ w.verb = "travel" => w.station # Nowhere
  BY OrdersAssumption
<1>2. NewOrder(id, w).verb = w.verb /\ NewOrder(id, w).station = w.station
  BY DEF NewOrder
<1>3. w.verb # "resume"
  BY <1>1 DEF Verbs
<1>4. NewOrder(id, w) \in [id : Ids, verb : Verbs \cup {"resume"}, station : Places,
                           now : BOOLEAN, done : BOOLEAN, waits : BOOLEAN]
  BY <1>1 DEF NewOrder
<1>5. QED
  BY <1>1, <1>2, <1>3, <1>4 DEF OrderRecs

\* place_order keeps every order in its place, ended or as it was, and adds the new one.
LEMMA PlaceOrderIs ==
    ASSUME NEW orders \in Seq(OrderRecs), NEW order \in OrderRecs
    PROVE  LET r == PlaceOrder(orders, order)
           IN  /\ r \in Seq(OrderRecs)
               /\ Len(r) = Len(orders) + 1
               /\ r[Len(orders) + 1] = order
               /\ \A k \in 1..Len(orders) :
                     r[k] = IF /\ IsCourse(order) /\ PendingCourse(orders[k])
                               /\ ~SameBerth(order, orders[k])
                              THEN Ended(orders[k]) ELSE orders[k]
<1> DEFINE kept == [k \in DOMAIN orders |->
                       IF /\ IsCourse(order) /\ PendingCourse(orders[k])
                          /\ ~SameBerth(order, orders[k])
                         THEN Ended(orders[k]) ELSE orders[k]]
<1>1. DOMAIN orders = 1..Len(orders) /\ Len(orders) \in Nat
  BY LenProperties
<1>2. \A k \in 1..Len(orders) : kept[k] \in OrderRecs
  BY <1>1, EndedType, ElementOfSeq
<1>3. kept \in [1..Len(orders) -> OrderRecs]
  BY <1>1, <1>2
<1>4. kept \in Seq(OrderRecs) /\ Len(kept) = Len(orders)
  BY <1>1, <1>3
<1>5. PlaceOrder(orders, order) = Append(kept, order)
  BY DEF PlaceOrder
<1>6. /\ Append(kept, order) \in Seq(OrderRecs)
      /\ Len(Append(kept, order)) = Len(orders) + 1
      /\ Append(kept, order)[Len(orders) + 1] = order
      /\ \A k \in 1..Len(orders) : Append(kept, order)[k] = kept[k]
  BY <1>4, AppendProperties
<1>7. QED
  BY <1>1, <1>5, <1>6

\* resume keeps every order in its place and leaves no course pending.
LEMMA ResumeOrdersIs ==
    ASSUME NEW orders \in Seq(OrderRecs), NEW id \in Ids
    PROVE  LET r == ResumeOrders(orders, id)
           IN  /\ r \in Seq(OrderRecs)
               /\ \A k \in DOMAIN r : ~PendingCourse(r[k])
               /\ Len(r) = Len(orders) + 1
               /\ \A k \in 1..Len(orders) : r[k] \in {orders[k], Ended(orders[k])}
               /\ r[Len(orders) + 1].id = id /\ r[Len(orders) + 1].done
               /\ r[Len(orders) + 1].verb = "resume"
<1> DEFINE kept == [k \in DOMAIN orders |->
                       IF PendingCourse(orders[k]) THEN Ended(orders[k]) ELSE orders[k]]
           word == [id |-> id, verb |-> "resume", station |-> Nowhere, now |-> TRUE,
                    done |-> TRUE, waits |-> FALSE]
<1>1. DOMAIN orders = 1..Len(orders) /\ Len(orders) \in Nat
  BY LenProperties
<1>2. \A k \in 1..Len(orders) : kept[k] \in OrderRecs /\ ~PendingCourse(kept[k])
  BY <1>1, EndedType, ElementOfSeq DEF PendingCourse, Pending
<1>3. kept \in [1..Len(orders) -> OrderRecs]
  BY <1>1, <1>2
<1>4. kept \in Seq(OrderRecs) /\ Len(kept) = Len(orders)
  BY <1>1, <1>3
<1>5. word \in OrderRecs /\ ~PendingCourse(word)
  BY DEF OrderRecs, Places, PendingCourse, Pending
<1>6. ResumeOrders(orders, id) = Append(kept, word)
  BY DEF ResumeOrders
<1>7. /\ Append(kept, word) \in Seq(OrderRecs)
      /\ Len(Append(kept, word)) = Len(orders) + 1
      /\ Append(kept, word)[Len(orders) + 1] = word
      /\ \A k \in 1..Len(orders) : Append(kept, word)[k] = kept[k]
  BY <1>4, <1>5, AppendProperties
<1>8. \A k \in 1..(Len(orders) + 1) : k \in 1..Len(orders) \/ k = Len(orders) + 1
  BY <1>1
<1>9. DOMAIN Append(kept, word) = 1..(Len(orders) + 1)
  BY <1>7, LenProperties
<1>10. \A k \in 1..Len(orders) : kept[k] \in {orders[k], Ended(orders[k])}
  BY <1>1
<1>11. word.id = id /\ word.done /\ word.verb = "resume"
  OBVIOUS
<1> HIDE DEF kept, word
<1>12. QED
  BY <1>2, <1>5, <1>6, <1>7, <1>8, <1>9, <1>10, <1>11

\* Removing the i-th order moves those behind it up by one.
LEMMA RemoveAtIs ==
    ASSUME NEW orders \in Seq(OrderRecs), NEW i \in 1..Len(orders)
    PROVE  LET r == RemoveAt(orders, i)
           IN  /\ r \in Seq(OrderRecs)
               /\ Len(r) = Len(orders) - 1
               /\ \A k \in 1..Len(r) : r[k] = orders[IF k < i THEN k ELSE k + 1]
<1> DEFINE front == SubSeq(orders, 1, i - 1)
           back  == SubSeq(orders, i + 1, Len(orders))
<1>1. Len(orders) \in Nat /\ i \in Int /\ 1 <= i /\ i <= Len(orders)
  BY LenProperties
<1>2. /\ front \in Seq(OrderRecs) /\ Len(front) = i - 1
      /\ \A k \in 1..(i - 1) : front[k] = orders[k]
  <2>1. \A k \in 1..(i - 1) : orders[k] \in OrderRecs
    BY <1>1, ElementOfSeq
  <2>2. QED
    BY <1>1, <2>1, SubSeqProperties
<1>3. /\ back \in Seq(OrderRecs) /\ Len(back) = Len(orders) - i
      /\ \A k \in 1..(Len(orders) - i) : back[k] = orders[k + i]
  <2>1. \A k \in (i + 1)..Len(orders) : orders[k] \in OrderRecs
    BY <1>1, ElementOfSeq
  <2>2. /\ back \in Seq(OrderRecs)
        /\ Len(back) = IF i + 1 <= Len(orders) THEN Len(orders) - (i + 1) + 1 ELSE 0
        /\ \A k \in 1..(Len(orders) - (i + 1) + 1) : back[k] = orders[(i + 1) + k - 1]
    BY <1>1, <2>1, SubSeqProperties
  <2>3. \A k \in 1..(Len(orders) - i) : (i + 1) + k - 1 = k + i
    BY <1>1
  <2>4. QED
    BY <1>1, <2>2, <2>3
<1> HIDE DEF front, back
<1>4. /\ front \o back \in Seq(OrderRecs)
      /\ Len(front \o back) = Len(front) + Len(back)
      /\ \A k \in 1..(Len(front) + Len(back)) :
            (front \o back)[k] = IF k <= Len(front) THEN front[k] ELSE back[k - Len(front)]
  BY <1>2, <1>3, ConcatProperties
<1>5. RemoveAt(orders, i) = front \o back
  BY DEF RemoveAt, front, back
<1>6. Len(front \o back) = Len(orders) - 1
  BY <1>1, <1>2, <1>3, <1>4
<1>7. ASSUME NEW k \in 1..(Len(orders) - 1)
      PROVE  (front \o back)[k] = orders[IF k < i THEN k ELSE k + 1]
  <2>1. CASE k < i
    BY <1>1, <1>2, <1>3, <1>4, <2>1
  <2>2. CASE ~(k < i)
    <3>1. (front \o back)[k] = back[k - (i - 1)]
      BY <1>1, <1>2, <1>3, <1>4, <2>2
    <3>2. k - (i - 1) \in 1..(Len(orders) - i) /\ k - (i - 1) + i = k + 1
      BY <1>1, <2>2
    <3>3. QED
      BY <1>3, <2>2, <3>1, <3>2
  <2>3. QED
    BY <2>1, <2>2
<1>8. QED
  BY <1>4, <1>5, <1>6, <1>7

\* Where the searches of a list end up.
LEMMA CourseIs ==
    ASSUME NEW orders \in Seq(OrderRecs)
    PROVE  \/ /\ StandingCourse(orders) = NoOrder
              /\ \A k \in DOMAIN orders : ~PendingCourse(orders[k])
           \/ \E m \in DOMAIN orders :
                /\ PendingCourse(orders[m])
                /\ \A k \in DOMAIN orders : PendingCourse(orders[k]) => k <= m
                /\ StandingCourse(orders) =
                      [verb |-> orders[m].verb, station |-> orders[m].station]
<1> DEFINE courses == {k \in DOMAIN orders : PendingCourse(orders[k])}
<1>1. DOMAIN orders = 1..Len(orders) /\ Len(orders) \in Nat
  BY LenProperties
<1>2. CASE courses = {}
  BY <1>2 DEF StandingCourse
<1>3. CASE courses # {}
  <2>1. courses \in SUBSET (1..Len(orders))
    BY <1>1
  <2>2. Max(courses) \in courses /\ \A k \in courses : k <= Max(courses)
    BY <1>1, <1>3, <2>1, LastPosition
  <2>3. StandingCourse(orders) =
          [verb |-> orders[Max(courses)].verb, station |-> orders[Max(courses)].station]
    BY <1>3 DEF StandingCourse
  <2>4. QED
    BY <2>2, <2>3
<1>4. QED
  BY <1>2, <1>3

LEMMA CourseType ==
    ASSUME NEW orders \in Seq(OrderRecs)
    PROVE  StandingCourse(orders) \in [verb : {"none", "travel", "hold"}, station : Places]
<1>1. CASE StandingCourse(orders) = NoOrder
  BY <1>1 DEF NoOrder, Places
<1>2. ASSUME NEW m \in DOMAIN orders, PendingCourse(orders[m]),
             StandingCourse(orders) = [verb |-> orders[m].verb, station |-> orders[m].station]
      PROVE  StandingCourse(orders) \in [verb : {"none", "travel", "hold"}, station : Places]
  <2>1. orders[m] \in OrderRecs
    BY LenProperties, ElementOfSeq
  <2>2. QED
    BY <1>2, <2>1 DEF PendingCourse, IsCourse, OrderRecs
<1>3. QED
  BY <1>1, <1>2, CourseIs

LEMMA HoldElsewhereIs ==
    ASSUME NEW orders \in Seq(OrderRecs), NEW berth, NEW bound,
           HoldElsewhere(orders, berth, bound) # 0
    PROVE  LET h == HoldElsewhere(orders, berth, bound)
           IN  /\ h \in DOMAIN orders
               /\ orders[h].verb = "hold" /\ Pending(orders[h])
               /\ orders[h].station # Nowhere /\ orders[h].station # berth
               /\ berth # Nowhere /\ bound = Nowhere
               /\ \A k \in DOMAIN orders :
                     ~(orders[k].verb = "travel" /\ Pending(orders[k])
                       /\ orders[k].station = orders[h].station)
<1> DEFINE holds == {k \in DOMAIN orders :
                       /\ orders[k].verb = "hold" /\ Pending(orders[k])
                       /\ orders[k].station # Nowhere}
<1>1. DOMAIN orders = 1..Len(orders) /\ Len(orders) \in Nat
  BY LenProperties
<1>2. /\ holds # {} /\ berth # Nowhere /\ bound = Nowhere
      /\ orders[Max(holds)].station # berth
      /\ ~ \E k \in DOMAIN orders : /\ orders[k].verb = "travel" /\ Pending(orders[k])
                                    /\ orders[k].station = orders[Max(holds)].station
      /\ HoldElsewhere(orders, berth, bound) = Max(holds)
  BY DEF HoldElsewhere
<1>3. holds \in SUBSET (1..Len(orders))
  BY <1>1
<1>4. Max(holds) \in holds
  BY <1>1, <1>2, <1>3, LastPosition
<1>5. QED
  BY <1>2, <1>4

LEMMA FirstReadyIs ==
    ASSUME NEW orders \in Seq(OrderRecs), NEW docked \in BOOLEAN,
           FirstReady(orders, docked) # 0
    PROVE  LET k == FirstReady(orders, docked)
           IN  k \in DOMAIN orders /\ Ready(orders[k], docked) /\ ~orders[k].waits
<1> DEFINE ready == {k \in DOMAIN orders : Ready(orders[k], docked) /\ ~orders[k].waits}
<1>1. DOMAIN orders = 1..Len(orders) /\ Len(orders) \in Nat
  BY LenProperties
<1>2. ready # {} /\ FirstReady(orders, docked) = Min(ready)
  BY DEF FirstReady
<1>3. ready \in SUBSET (1..Len(orders))
  BY <1>1
<1>4. Min(ready) \in ready
  BY <1>1, <1>2, <1>3, FirstPosition
<1>5. QED
  BY <1>2, <1>4

-----------------------------------------------------------------------------
(* Types.                                                                   *)

LEMMA IdleFoldType == IdleFold \in Folds
  BY EmptySeq DEF IdleFold, Folds, NoOrder, Places

LEMMA TypeInit == Init => TypeOK
<1> SUFFICES ASSUME Init PROVE TypeOK
  OBVIOUS
<1>1. file \in Seq(OrderRecs)
  BY EmptySeq DEF Init
<1>2. desks \in [FrontEnds -> Copies]
  BY EmptySeq DEF Init, Copies
<1>3. fold \in Folds
  BY IdleFoldType DEF Init
<1>4. said \in 0..MaxWords /\ mishaps \in 0..MaxMishaps /\ times \in [Ids -> Nat] /\ causes \in Nat
  BY OrdersAssumption DEF Init
<1>5. QED
  BY <1>1, <1>2, <1>3, <1>4 DEF Init, TypeOK, Hulls

\* What the exchange does with an act leaves the books in order.
LEMMA ActType ==
    ASSUME TypeOK, NEW a \in Acts, Acked(a) \/ Errs(a)
    PROVE  /\ accepted' \in SUBSET Acts
           /\ times' \in [Ids -> Nat]
           /\ mishaps' \in 0..MaxMishaps
<1>1. CASE Accept(a)
  <2>1. accepted' \in SUBSET Acts
    BY <1>1 DEF Accept, TypeOK
  <2>2. times' \in [Ids -> Nat]
    <3>1. times \in [Ids -> Nat] /\ (a.id # 0 => a.id \in Ids)
      BY DEF TypeOK, Acts
    <3>2. CASE a.id = 0
      BY <1>1, <3>1, <3>2 DEF Accept
    <3>3. CASE a.id # 0
      <4>1. times[a.id] + 1 \in Nat
        BY <3>1, <3>3
      <4>2. times' = [times EXCEPT ![a.id] = times[a.id] + 1]
        BY <1>1, <3>3 DEF Accept
      <4>3. QED
        BY <3>1, <4>1, <4>2
    <3>4. QED
      BY <3>2, <3>3
  <2>3. mishaps' \in 0..MaxMishaps
    BY OrdersAssumption DEF Acked, Errs, TypeOK
  <2>4. QED
    BY <2>1, <2>2, <2>3
<1>2. CASE Errs(a) /\ UNCHANGED <<accepted, times>>
  <2>1. mishaps' \in 0..MaxMishaps
    BY <1>2, OrdersAssumption DEF Errs, TypeOK
  <2>2. QED
    BY <1>2, <2>1 DEF TypeOK
<1>3. QED
  BY <1>1, <1>2 DEF Acked, Errs

\* Moving on in the fold keeps its type.
LEMMA FoldType ==
    ASSUME fold \in Folds
    PROVE  /\ \A at \in {"picking", "doctrine"} : (Goes(at) \/ Files(at)) => fold' \in Folds
           /\ fold' = IdleFold => fold' \in Folds
<1>1. ASSUME NEW at \in {"picking", "doctrine"}, Goes(at) PROVE fold' \in Folds
  BY <1>1 DEF Goes, Folds
<1>2. ASSUME NEW at \in {"picking", "doctrine"}, Files(at) PROVE fold' \in Folds
  <2>1. fold.filed + 1 \in Nat
    BY DEF Folds
  <2>2. fold' = [fold EXCEPT !.at = at, !.filed = fold.filed + 1]
    BY <1>2 DEF Files
  <2>3. QED
    BY <2>1, <2>2 DEF Folds
<1>3. QED
  BY <1>1, <1>2, IdleFoldType

\* So does marking an order of the copy.
LEMMA MarksType ==
    ASSUME fold \in Folds, NEW k \in DOMAIN fold.list, NEW done \in BOOLEAN, NEW n \in {0, 1},
           Marks(k, done, n), fold.list[k].verb # "resume"
    PROVE  /\ fold' \in Folds
           /\ fold'.list = [fold.list EXCEPT ![k] = [@ EXCEPT !.done = done, !.waits = ~done]]
<1> DEFINE o == [fold.list[k] EXCEPT !.done = done, !.waits = ~done]
<1>1. fold.list \in Seq(OrderRecs) /\ fold.filed \in Nat
  BY DEF Folds
<1>2. k \in 1..Len(fold.list) /\ fold.list[k] \in OrderRecs
  BY <1>1, LenProperties, ElementOfSeq
<1>3. o \in OrderRecs
  BY <1>2 DEF OrderRecs
<1>4. [fold.list EXCEPT ![k] = o] \in Seq(OrderRecs)
  BY <1>1, <1>2, <1>3, ExceptSeq
<1>5. fold' = [fold EXCEPT !.at = "saving", !.ends = done, !.filed = fold.filed + n,
                           !.list = [fold.list EXCEPT ![k] = o]]
  BY DEF Marks, Folds
<1>6. fold.filed + n \in Nat
  BY <1>1
<1>7. fold' \in Folds
  BY <1>4, <1>5, <1>6 DEF Folds
<1>8. QED
  BY <1>5, <1>7 DEF Folds

\* What the pilot finds at the place it looks, and the act it makes of it.
LEMMA DueType ==
    ASSUME TypeOK, First # 0
    PROVE  /\ First \in DOMAIN fold.list /\ Due \in OrderRecs /\ Due \in Range(fold.list)
           /\ Ready(Due, fold.berth # Nowhere) /\ ~Due.waits /\ Due.verb # "resume"
<1>1. fold.list \in Seq(OrderRecs)
  BY DEF TypeOK, Folds
<1>2. (fold.berth # Nowhere) \in BOOLEAN
  OBVIOUS
<1>3. /\ First \in DOMAIN fold.list
      /\ Ready(fold.list[First], fold.berth # Nowhere) /\ ~fold.list[First].waits
  BY <1>1, <1>2, FirstReadyIs DEF First
<1>4. fold.list[First] \in OrderRecs
  BY <1>1, <1>3, LenProperties, ElementOfSeq
<1>5. Due.verb # "resume"
  BY <1>3, <1>4 DEF Due, Ready, Pending, OrderRecs
<1>6. QED
  BY <1>3, <1>4, <1>5 DEF Due, Range

LEMMA DueHoldType ==
    ASSUME TypeOK, DueHold # 0
    PROVE  DueHold \in DOMAIN fold.list /\ fold.list[DueHold] \in OrderRecs
<1>1. fold.list \in Seq(OrderRecs)
  BY DEF TypeOK, Folds
<1>2. DueHold \in DOMAIN fold.list
  BY <1>1, HoldElsewhereIs DEF DueHold
<1>3. QED
  BY <1>1, <1>2, LenProperties, ElementOfSeq

\* A front end's step on its own copy keeps the types.
LEMMA TypeCaptain == TypeOK /\ Captain => TypeOK'
<1> SUFFICES ASSUME TypeOK, NEW f \in FrontEnds,
                    \/ \E w \in Words : Order(f, w)
                    \/ Resume(f)
                    \/ \E k \in DOMAIN file : Withdraw(f, k)
                    \/ Save(f)
             PROVE  TypeOK'
  BY DEF Captain
<1>1. ASSUME NEW list \in Seq(OrderRecs), Hold(f, list) PROVE desks' \in [FrontEnds -> Copies]
  <2>1. [at |-> "holding", list |-> list, old |-> FALSE] \in Copies
    BY DEF Copies
  <2>2. QED
    BY <1>1, <2>1 DEF Hold, TypeOK
<1>2. ASSUME said < MaxWords PROVE said + 1 \in Ids /\ said + 1 \in 0..MaxWords
  BY <1>2, OrdersAssumption DEF TypeOK, Ids
<1>3. ASSUME NEW w \in Words, Order(f, w) PROVE TypeOK'
  <2>1. said < MaxWords /\ said' = said + 1
    BY <1>3 DEF Order
  <2>2. NewOrder(said + 1, w) \in OrderRecs
    BY <1>2, <2>1, NewOrderType
  <2>3. PlaceOrder(file, NewOrder(said + 1, w)) \in Seq(OrderRecs)
    BY <2>2, PlaceOrderIs DEF TypeOK
  <2>4. desks' \in [FrontEnds -> Copies]
    BY <1>1, <1>3, <2>3 DEF Order
  <2>5. QED
    BY <1>2, <1>3, <2>1, <2>4 DEF Order, TypeOK
<1>4. ASSUME Resume(f) PROVE TypeOK'
  <2>1. said < MaxWords /\ said' = said + 1
    BY <1>4 DEF Resume
  <2>2. ResumeOrders(file, said + 1) \in Seq(OrderRecs)
    BY <1>2, <2>1, ResumeOrdersIs DEF TypeOK
  <2>3. desks' \in [FrontEnds -> Copies]
    BY <1>1, <1>4, <2>2 DEF Resume
  <2>4. QED
    BY <1>2, <1>4, <2>1, <2>3 DEF Resume, TypeOK
<1>5. ASSUME NEW k \in DOMAIN file, Withdraw(f, k) PROVE TypeOK'
  <2>1. k \in 1..Len(file)
    BY LenProperties DEF TypeOK
  <2>2. RemoveAt(file, k) \in Seq(OrderRecs)
    BY <2>1, RemoveAtIs DEF TypeOK
  <2>3. desks' \in [FrontEnds -> Copies]
    BY <1>1, <1>5, <2>2 DEF Withdraw
  <2>4. QED
    BY <1>5, <2>3 DEF Withdraw, TypeOK
<1>6. ASSUME Save(f) PROVE TypeOK'
  <2>1. desks[f] \in Copies /\ file' \in Seq(OrderRecs)
    BY <1>6 DEF Save, TypeOK, Copies
  <2>2. causes' \in Nat
    BY <1>6 DEF Save, TypeOK
  <2>3. [at |-> "idle", list |-> << >>, old |-> FALSE] \in Copies
    BY EmptySeq DEF Copies
  <2>4. desks' \in [FrontEnds -> Copies]
    BY <1>6, <2>3 DEF Save, TypeOK
  <2>5. QED
    BY <1>6, <2>1, <2>2, <2>4 DEF Save, TypeOK
<1>7. QED
  BY <1>3, <1>4, <1>5, <1>6

LEMMA TypeExchange == TypeOK /\ Exchange => TypeOK'
<1> SUFFICES ASSUME TypeOK, (\E a \in accepted : Resolve(a)) \/ Land PROVE TypeOK'
  BY DEF Exchange
<1>1. hull \in Hulls /\ accepted \in SUBSET Acts
  BY DEF TypeOK
<1>2. ASSUME NEW a \in accepted, Resolve(a) PROVE TypeOK'
  <2>1. hull' \in Hulls /\ ((hull'.berth = Nowhere) <=> (hull'.bound # Nowhere))
    <3>1. CASE a.verb = "travel"
      <4>1. Fly(a.station)
        BY <1>2, <3>1 DEF Resolve
      <4>2. a.station \in Places
        BY <1>1 DEF Acts
      <4>3. CASE hull' = hull
        BY <4>3 DEF TypeOK
      <4>4. CASE hull' # hull
        <5>1. hull' = [berth |-> Nowhere, bound |-> a.station, short |-> hull.short]
          BY <4>1, <4>4 DEF Fly
        <5>2. a.station # Nowhere
          BY <1>1, <3>1 DEF Acts
        <5>3. QED
          BY <1>1, <4>2, <5>1, <5>2 DEF Hulls, Places
      <4>5. QED
        BY <4>3, <4>4
    <3>2. CASE a.verb # "travel"
      <4>1. hull' = hull \/ hull' = [hull EXCEPT !.short = FALSE]
        BY <1>2, <3>2 DEF Resolve
      <4>2. QED
        BY <1>1, <4>1 DEF TypeOK, Hulls
    <3>3. QED
      BY <3>1, <3>2
  <2>2. accepted' \in SUBSET Acts
    BY <1>1, <1>2 DEF Resolve
  <2>3. QED
    BY <1>2, <2>1, <2>2 DEF Resolve, TypeOK
<1>3. ASSUME Land PROVE TypeOK'
  <2>1. PICK s \in BOOLEAN : hull' = [berth |-> hull.bound, bound |-> Nowhere, short |-> s]
    BY <1>3 DEF Land
  <2>2. hull' \in Hulls /\ hull'.berth # Nowhere /\ hull'.bound = Nowhere
    BY <1>1, <1>3, <2>1 DEF Land, Hulls, Places
  <2>3. QED
    BY <1>3, <2>2 DEF Land, TypeOK
<1>4. QED
  BY <1>2, <1>3

\* A step of the pilot's fold keeps the types.
LEMMA TypeFold == TypeOK /\ Fold => TypeOK'
<1> SUFFICES ASSUME TypeOK, Fold PROVE TypeOK'
  OBVIOUS
<1>1. fold \in Folds /\ hull \in Hulls /\ file \in Seq(OrderRecs)
  BY DEF TypeOK
<1>2. ASSUME NEW at \in {"picking", "doctrine"}, Goes(at) \/ Files(at) \/ fold' = IdleFold
      PROVE  fold' \in Folds
  BY <1>1, <1>2, FoldType
<1>3. ASSUME NEW a \in Acts, Acked(a) \/ Errs(a), fold' \in Folds,
             UNCHANGED <<file, said, desks, hull, causes>>
      PROVE  TypeOK'
  BY <1>3, ActType DEF TypeOK
<1>4. ASSUME fold' \in Folds, UNCHANGED <<file, said, desks, accepted, hull, mishaps, times, causes>>
      PROVE  TypeOK'
  BY <1>4 DEF TypeOK
<1>5. CASE Survey
  <2>1. PICK denied \in Denials :
          fold' = [fold EXCEPT !.at = "surveyed", !.denied = denied,
                               !.berth = hull.berth, !.bound = hull.bound,
                               !.short = hull.short, !.course = StandingCourse(file)]
    BY <1>5 DEF Survey
  <2>2. denied \in SUBSET Verbs
    BY OrdersAssumption
  <2>3. StandingCourse(file) \in [verb : {"none", "travel", "hold"}, station : Places]
    BY <1>1, CourseType
  <2>4. fold' \in Folds
    BY <1>1, <2>1, <2>2, <2>3 DEF Folds, Hulls
  <2>5. QED
    BY <1>4, <1>5, <2>4 DEF Survey
<1>6. CASE LoadOrders
  <2>1. fold' \in Folds
    BY <1>1, <1>6 DEF LoadOrders, Folds
  <2>2. QED
    BY <1>4, <1>6, <2>1 DEF LoadOrders
<1>7. CASE RefuelForHold
  <2> DEFINE a == [verb |-> "refuel", station |-> Nowhere, id |-> 0]
  <2>1. a \in Acts
    BY DEF Acts, Verbs, Places
  <2>2. (Acked(a) \/ Errs(a)) /\ (Goes("picking") \/ Files("picking"))
    BY <1>7 DEF RefuelForHold
  <2>3. QED
    BY <1>2, <1>3, <1>7, <2>1, <2>2 DEF RefuelForHold
<1>8. CASE TravelToHold
  <2> DEFINE a == [verb |-> "travel", station |-> fold.list[DueHold].station, id |-> 0]
  <2>1. fold.list \in Seq(OrderRecs) /\ DueHold # 0
    BY <1>1, <1>8 DEF TravelToHold, Folds
  <2>2. fold.list[DueHold] \in OrderRecs /\ fold.list[DueHold].station # Nowhere
    BY <2>1, DueHoldType, HoldElsewhereIs DEF DueHold
  <2>3. a \in Acts
    BY <2>2 DEF Acts, Verbs, OrderRecs
  <2>4. (Acked(a) \/ Errs(a)) /\ (Goes("picking") \/ fold' = IdleFold)
    BY <1>8 DEF TravelToHold
  <2>5. QED
    BY <1>2, <1>3, <1>8, <2>3, <2>4 DEF TravelToHold
<1>9. CASE LeaveHold
  BY <1>2, <1>4, <1>9 DEF LeaveHold
<1>10. CASE PassOver
  BY <1>2, <1>4, <1>10 DEF PassOver
<1>11. CASE AlreadyThere
  <2>1. First \in DOMAIN fold.list /\ fold.list[First].verb # "resume" /\ Marks(First, TRUE, 0)
    BY <1>11, DueType DEF AlreadyThere, Due
  <2>2. QED
    BY <1>1, <1>4, <1>11, <2>1, MarksType DEF AlreadyThere
<1>12. CASE LeaveToCaptain
  <2>1. First \in DOMAIN fold.list /\ fold.list[First].verb # "resume" /\ Marks(First, FALSE, 0)
    BY <1>12, DueType DEF LeaveToCaptain, Due
  <2>2. QED
    BY <1>1, <1>4, <1>12, <2>1, MarksType DEF LeaveToCaptain
<1>13. CASE SendOrder
  <2> DEFINE a == [verb |-> Due.verb, station |-> Due.station, id |-> Due.id]
  <2>1. First \in DOMAIN fold.list /\ Due \in OrderRecs
    BY <1>13, DueType DEF SendOrder
  <2>2. Due.verb # "resume"
    BY <1>13, DueType DEF SendOrder
  <2>3. a \in Acts
    BY <2>1, <2>2 DEF Acts, OrderRecs
  <2>4. (Acked(a) \/ Errs(a)) /\ (Marks(First, TRUE, 1) \/ Marks(First, FALSE, 0))
    BY <1>13 DEF SendOrder, FileOrder
  <2>5. fold' \in Folds
    BY <1>1, <2>1, <2>2, <2>4, MarksType DEF Due
  <2>6. QED
    BY <1>3, <1>13, <2>3, <2>4, <2>5 DEF SendOrder
<1>14. CASE SaveOrders
  <2>1. fold.list \in Seq(OrderRecs)
    BY <1>1 DEF Folds
  <2>2. fold' \in Folds
    BY <1>1, <1>14, IdleFoldType DEF SaveOrders, Folds
  <2>3. ASSUME NEW f \in FrontEnds
        PROVE  [desks[f] EXCEPT !.old = desks[f].at = "holding"] \in Copies
    BY DEF TypeOK, Copies
  <2>4. desks' \in [FrontEnds -> Copies]
    BY <1>14, <2>3 DEF SaveOrders
  <2>5. QED
    BY <1>14, <2>1, <2>2, <2>4 DEF SaveOrders, TypeOK
<1>15. CASE DoctrineAct
  <2>1. PICK a \in [verb : {"travel"}, station : Stations \ {fold.berth}, id : {0}]
                   \cup [verb : {"refuel"}, station : {Nowhere}, id : {0}] :
          Acked(a) \/ Errs(a)
    BY <1>15 DEF DoctrineAct
  <2>2. a \in Acts
    BY OrdersAssumption DEF Acts, Verbs, Places
  <2>3. QED
    BY <1>2, <1>3, <1>15, <2>1, <2>2 DEF DoctrineAct
<1>16. CASE EndFold
  BY <1>2, <1>4, <1>16 DEF EndFold
<1>17. QED
  BY <1>5, <1>6, <1>7, <1>8, <1>9, <1>10, <1>11, <1>12, <1>13, <1>14, <1>15, <1>16 DEF Fold

LEMMA TypeRestart == TypeOK /\ Restart => TypeOK'
<1> SUFFICES ASSUME TypeOK, Restart PROVE TypeOK'
  OBVIOUS
<1>1. mishaps' \in 0..MaxMishaps
  BY OrdersAssumption DEF Restart, TypeOK
<1>2. causes' \in Nat
  BY DEF Restart, TypeOK
<1>3. QED
  BY <1>1, <1>2, IdleFoldType DEF Restart, TypeOK

LEMMA TypeNext == TypeOK /\ [Next]_vars => TypeOK'
<1>1. TypeOK /\ UNCHANGED vars => TypeOK'
  BY DEF TypeOK, vars
<1>2. QED
  BY <1>1, TypeCaptain, TypeExchange, TypeFold, TypeRestart DEF Next

\* The list, every copy of it, the fold and the exchange's books hold what the types say,
\* and the hull is berthed or bound somewhere, never both.
THEOREM TypeCorrect == Spec => []TypeOK
<1>1. Spec => Safe
  BY PTL DEF Spec
<1>2. Safe => []TypeOK
  BY TypeInit, TypeNext, PTL DEF Safe
<1>3. QED
  BY <1>1, <1>2, PTL

-----------------------------------------------------------------------------
(* One course stands.  No copy of the list is ever without the property: a  *)
(* front end computes its copy from a list that has it, the pilot marks its *)
(* own copy in place, and either is put back whole.                         *)

\* Ending orders, or giving them reasons, takes no course out of line.
LEMMA FewerCourses ==
    ASSUME NEW old \in Seq(OrderRecs), NEW new \in Seq(OrderRecs), OneCourse(old),
           Len(new) = Len(old),
           \A k \in DOMAIN old :
               PendingCourse(new[k]) =>
                   /\ PendingCourse(old[k])
                   /\ new[k].verb = old[k].verb /\ new[k].station = old[k].station
    PROVE  OneCourse(new)
<1>1. DOMAIN old = DOMAIN new
  BY LenProperties
<1>2. QED
  BY <1>1 DEF OneCourse

LEMMA PlacedCourse ==
    ASSUME NEW orders \in Seq(OrderRecs), NEW order \in OrderRecs, OneCourse(orders)
    PROVE  OneCourse(PlaceOrder(orders, order))
<1> DEFINE r == PlaceOrder(orders, order)
           n == Len(orders)
<1>1. /\ n \in Nat /\ DOMAIN orders = 1..n
      /\ r \in Seq(OrderRecs) /\ DOMAIN r = 1..(n + 1) /\ r[n + 1] = order
      /\ \A k \in 1..n : r[k] = IF /\ IsCourse(order) /\ PendingCourse(orders[k])
                                  /\ ~SameBerth(order, orders[k])
                                 THEN Ended(orders[k]) ELSE orders[k]
  BY PlaceOrderIs, LenProperties
<1> HIDE DEF r, n
<1>2. \A k \in 1..n : PendingCourse(r[k]) =>
         /\ r[k] = orders[k]
         /\ IsCourse(order) => SameBerth(order, orders[k])
  <2>1. \A k \in 1..n : orders[k] \in OrderRecs
    BY <1>1, ElementOfSeq DEF n
  <2>2. \A k \in 1..n : ~PendingCourse(Ended(orders[k]))
    BY <2>1, EndedType DEF PendingCourse, Pending
  <2>3. QED
    BY <1>1, <2>2
<1>3. ASSUME NEW j \in 1..(n + 1), NEW k \in 1..(n + 1), j < k,
             PendingCourse(r[j]), PendingCourse(r[k])
      PROVE  r[j].verb = "travel" /\ r[k].verb = "hold" /\ r[j].station = r[k].station
  <2>1. j \in 1..n /\ r[j] = orders[j]
    BY <1>1, <1>2, <1>3
  <2>2. CASE k \in 1..n
    BY <1>1, <1>2, <1>3, <2>1, <2>2 DEF OneCourse
  <2>3. CASE k = n + 1
    <3>1. IsCourse(order) /\ r[k] = order
      BY <1>1, <1>3, <2>3 DEF PendingCourse
    <3>2. SameBerth(order, orders[j])
      BY <1>2, <1>3, <2>1, <3>1
    <3>3. QED
      BY <2>1, <3>1, <3>2 DEF SameBerth
  <2>4. QED
    BY <1>1, <2>2, <2>3
<1>4. QED
  BY <1>1, <1>3 DEF OneCourse, r

LEMMA ResumedCourse ==
    ASSUME NEW orders \in Seq(OrderRecs), NEW id \in Ids
    PROVE  OneCourse(ResumeOrders(orders, id))
  BY ResumeOrdersIs DEF OneCourse

LEMMA WithdrawnCourse ==
    ASSUME NEW orders \in Seq(OrderRecs), NEW i \in 1..Len(orders), OneCourse(orders)
    PROVE  OneCourse(RemoveAt(orders, i))
<1> DEFINE r == RemoveAt(orders, i)
           place(k) == IF k < i THEN k ELSE k + 1
<1>1. /\ Len(orders) \in Nat /\ DOMAIN orders = 1..Len(orders)
      /\ r \in Seq(OrderRecs) /\ DOMAIN r = 1..(Len(orders) - 1)
      /\ \A k \in DOMAIN r : r[k] = orders[place(k)]
  BY RemoveAtIs, LenProperties
<1> HIDE DEF r
<1>2. ASSUME NEW j \in DOMAIN r, NEW k \in DOMAIN r, j < k
      PROVE  place(j) \in DOMAIN orders /\ place(k) \in DOMAIN orders /\ place(j) < place(k)
  BY <1>1, <1>2
<1> HIDE DEF place
<1>3. QED
  BY <1>1, <1>2 DEF OneCourse, r

LEMMA MarkedCourse ==
    ASSUME fold \in Folds, OneCourse(fold.list), NEW k \in DOMAIN fold.list,
           NEW done \in BOOLEAN, NEW n \in {0, 1}, Marks(k, done, n),
           fold.list[k].verb # "resume", Pending(fold.list[k])
    PROVE  OneCourse(fold'.list)
<1>1. fold.list \in Seq(OrderRecs) /\ fold'.list \in Seq(OrderRecs)
  BY MarksType DEF Folds
<1>2. fold'.list = [fold.list EXCEPT ![k] = [@ EXCEPT !.done = done, !.waits = ~done]]
  BY MarksType
<1>3. Len(fold'.list) = Len(fold.list)
  BY <1>1, <1>2, LenProperties
<1>4. fold.list[k] \in OrderRecs
  BY <1>1, LenProperties, ElementOfSeq
<1>5. \A j \in DOMAIN fold.list :
         PendingCourse(fold'.list[j]) =>
             /\ PendingCourse(fold.list[j])
             /\ fold'.list[j].verb = fold.list[j].verb
             /\ fold'.list[j].station = fold.list[j].station
  <2>1. \A j \in DOMAIN fold.list : j # k => fold'.list[j] = fold.list[j]
    BY <1>2
  <2>2. /\ fold'.list[k].verb = fold.list[k].verb
        /\ fold'.list[k].station = fold.list[k].station
    BY <1>2, <1>4 DEF OrderRecs
  <2>3. PendingCourse(fold'.list[k]) => PendingCourse(fold.list[k])
    BY <2>2 DEF PendingCourse, IsCourse
  <2>4. QED
    BY <2>1, <2>2, <2>3
<1>6. QED
  BY <1>1, <1>3, <1>5, FewerCourses

LEMMA CopiesInit == Init => EveryCopyHasOneCourse
  BY DEF Init, IdleFold, EveryCopyHasOneCourse, OneCourse

LEMMA CopiesCaptain == TypeOK /\ EveryCopyHasOneCourse /\ Captain => EveryCopyHasOneCourse'
<1> SUFFICES ASSUME TypeOK, EveryCopyHasOneCourse, NEW f \in FrontEnds,
                    \/ \E w \in Words : Order(f, w)
                    \/ Resume(f)
                    \/ \E k \in DOMAIN file : Withdraw(f, k)
                    \/ Save(f)
             PROVE  EveryCopyHasOneCourse'
  BY DEF Captain
<1>1. ASSUME NEW list, OneCourse(list), Hold(f, list), UNCHANGED <<file, fold>>
      PROVE  EveryCopyHasOneCourse'
  BY <1>1 DEF Hold, EveryCopyHasOneCourse, TypeOK, Copies
<1>2. ASSUME said < MaxWords PROVE said + 1 \in Ids
  BY <1>2, OrdersAssumption DEF TypeOK, Ids
<1>3. OneCourse(file) /\ file \in Seq(OrderRecs)
  BY DEF EveryCopyHasOneCourse, TypeOK
<1>4. ASSUME NEW w \in Words, Order(f, w) PROVE EveryCopyHasOneCourse'
  <2>1. NewOrder(said + 1, w) \in OrderRecs
    BY <1>2, <1>4, NewOrderType DEF Order
  <2>2. OneCourse(PlaceOrder(file, NewOrder(said + 1, w)))
    BY <1>3, <2>1, PlacedCourse
  <2>3. QED
    BY <1>1, <1>4, <2>2 DEF Order
<1>5. ASSUME Resume(f) PROVE EveryCopyHasOneCourse'
  <2>1. OneCourse(ResumeOrders(file, said + 1))
    BY <1>2, <1>3, <1>5, ResumedCourse DEF Resume
  <2>2. QED
    BY <1>1, <1>5, <2>1 DEF Resume
<1>6. ASSUME NEW k \in DOMAIN file, Withdraw(f, k) PROVE EveryCopyHasOneCourse'
  <2>1. OneCourse(RemoveAt(file, k))
    BY <1>3, LenProperties, WithdrawnCourse
  <2>2. QED
    BY <1>1, <1>6, <2>1 DEF Withdraw
<1>7. ASSUME Save(f) PROVE EveryCopyHasOneCourse'
  <2>1. OneCourse(file') /\ fold' = fold
    BY <1>7 DEF Save, EveryCopyHasOneCourse
  <2>2. \A g \in FrontEnds : desks'[g].list = desks[g].list \/ desks'[g].list = << >>
    BY <1>7 DEF Save, TypeOK
  <2>3. OneCourse(<< >>)
    BY DEF OneCourse
  <2>4. QED
    BY <2>1, <2>2, <2>3 DEF EveryCopyHasOneCourse
<1>8. QED
  BY <1>4, <1>5, <1>6, <1>7

LEMMA CopiesFold == TypeOK /\ EveryCopyHasOneCourse /\ Fold => EveryCopyHasOneCourse'
<1> SUFFICES ASSUME TypeOK, EveryCopyHasOneCourse, Fold PROVE EveryCopyHasOneCourse'
  OBVIOUS
<1>1. fold \in Folds /\ OneCourse(file) /\ OneCourse(fold.list)
  BY DEF TypeOK, EveryCopyHasOneCourse
<1>2. ASSUME OneCourse(fold'.list), UNCHANGED <<file, desks>> PROVE EveryCopyHasOneCourse'
  BY <1>2 DEF EveryCopyHasOneCourse
<1>3. ASSUME NEW at, Goes(at) \/ Files(at) \/ fold' = IdleFold PROVE OneCourse(fold'.list)
  <2>1. fold'.list = fold.list \/ fold'.list = << >>
    <3>1. Goes(at) => fold'.list = fold.list
      BY <1>1 DEF Goes, Folds
    <3>2. Files(at) => fold'.list = fold.list
      BY <1>1 DEF Files, Folds
    <3>3. fold' = IdleFold => fold'.list = << >>
      BY DEF IdleFold
    <3>4. QED
      BY <1>3, <3>1, <3>2, <3>3
  <2>2. OneCourse(<< >>)
    BY DEF OneCourse
  <2>3. QED
    BY <1>1, <2>1, <2>2
<1>4. ASSUME First # 0, NEW done \in BOOLEAN, NEW n \in {0, 1}, Marks(First, done, n),
             Due.verb # "hold"
      PROVE  OneCourse(fold'.list)
  <2>1. First \in DOMAIN fold.list /\ Due.verb # "resume" /\ Pending(Due)
    BY <1>4, DueType DEF Ready
  <2>2. QED
    BY <1>1, <1>4, <2>1, MarkedCourse DEF Due
<1>5. First # 0 => Due.verb # "hold"
  BY DueType DEF Ready
<1>6. CASE Survey
  BY <1>1, <1>2, <1>6 DEF Survey, Folds
<1>7. CASE LoadOrders
  BY <1>1, <1>2, <1>7 DEF LoadOrders, Folds
<1>8. CASE RefuelForHold
  BY <1>2, <1>3, <1>8 DEF RefuelForHold
<1>9. CASE TravelToHold
  BY <1>2, <1>3, <1>9 DEF TravelToHold
<1>10. CASE LeaveHold \/ PassOver \/ EndFold
  BY <1>2, <1>3, <1>10 DEF LeaveHold, PassOver, EndFold
<1>11. CASE AlreadyThere
  BY <1>2, <1>4, <1>5, <1>11 DEF AlreadyThere
<1>12. CASE LeaveToCaptain
  BY <1>2, <1>4, <1>5, <1>12 DEF LeaveToCaptain
<1>13. CASE SendOrder
  <2>1. First # 0 /\ (Marks(First, TRUE, 1) \/ Marks(First, FALSE, 0))
    BY <1>13 DEF SendOrder, FileOrder
  <2>2. QED
    BY <1>2, <1>4, <1>5, <1>13, <2>1 DEF SendOrder
<1>14. CASE SaveOrders
  <2>1. fold'.list = fold.list \/ fold'.list = << >>
    BY <1>1, <1>14 DEF SaveOrders, IdleFold, Folds
  <2>2. \A f \in FrontEnds : desks'[f].list = desks[f].list
    BY <1>14 DEF SaveOrders, TypeOK, Copies
  <2>3. OneCourse(<< >>)
    BY DEF OneCourse
  <2>4. QED
    BY <1>1, <1>14, <2>1, <2>2, <2>3 DEF SaveOrders, EveryCopyHasOneCourse
<1>15. CASE DoctrineAct
  BY <1>2, <1>3, <1>15 DEF DoctrineAct
<1>16. QED
  BY <1>6, <1>7, <1>8, <1>9, <1>10, <1>11, <1>12, <1>13, <1>14, <1>15 DEF Fold

LEMMA CopiesNext ==
    TypeOK /\ EveryCopyHasOneCourse /\ [Next]_vars => EveryCopyHasOneCourse'
<1> SUFFICES ASSUME TypeOK, EveryCopyHasOneCourse, [Next]_vars PROVE EveryCopyHasOneCourse'
  OBVIOUS
<1>1. CASE Exchange \/ UNCHANGED vars
  BY <1>1 DEF Exchange, Resolve, Land, vars, EveryCopyHasOneCourse
<1>2. CASE Restart
  BY <1>2 DEF Restart, IdleFold, EveryCopyHasOneCourse, OneCourse
<1>3. QED
  BY <1>1, <1>2, CopiesCaptain, CopiesFold DEF Next

\* orders.json never holds two courses that disagree, whatever copies of it overlap and
\* however late they are put back (place_order, resume, save_orders).
THEOREM CourseCorrect == Spec => []OneCourseStands
<1>1. Spec => Safe
  BY PTL DEF Spec
<1>2. Safe => [](TypeOK /\ EveryCopyHasOneCourse)
  BY TypeInit, TypeNext, CopiesInit, CopiesNext, PTL DEF Safe
<1>3. EveryCopyHasOneCourse => OneCourseStands
  BY DEF EveryCopyHasOneCourse, OneCourseStands
<1>4. QED
  BY <1>1, <1>2, <1>3, PTL

\* What the fold acts on, if a travel, leads where the newest pending course stands.
LEMMA OnlyOneBerth ==
    ASSUME NEW orders \in Seq(OrderRecs), OneCourse(orders),
           NEW k \in DOMAIN orders, PendingCourse(orders[k])
    PROVE  orders[k].station = StandingCourse(orders).station
<1>1. PICK m \in DOMAIN orders :
        /\ PendingCourse(orders[m])
        /\ \A j \in DOMAIN orders : PendingCourse(orders[j]) => j <= m
        /\ StandingCourse(orders) = [verb |-> orders[m].verb, station |-> orders[m].station]
  BY CourseIs
<1>2. DOMAIN orders = 1..Len(orders) /\ Len(orders) \in Nat
  BY LenProperties
<1>3. k = m \/ k < m
  BY <1>1, <1>2
<1>4. QED
  BY <1>1, <1>3 DEF OneCourse

LEMMA FliesStep ==
    TypeOK /\ EveryCopyHasOneCourse /\ [Next]_vars =>
        \A a \in accepted' \ accepted :
            a.verb = "travel" /\ fold.at \in {"holding", "picking"} =>
                a.station = StandingCourse(fold.list).station
<1> SUFFICES ASSUME TypeOK, EveryCopyHasOneCourse, [Next]_vars,
                    NEW a \in accepted' \ accepted,
                    a.verb = "travel", fold.at \in {"holding", "picking"}
             PROVE  a.station = StandingCourse(fold.list).station
  OBVIOUS
<1>1. fold.list \in Seq(OrderRecs) /\ OneCourse(fold.list)
  BY DEF TypeOK, Folds, EveryCopyHasOneCourse
<1>2. RefuelForHold \/ TravelToHold \/ SendOrder
  <2>1. ~(UNCHANGED accepted)
    OBVIOUS
  <2>2. ~(\E b \in accepted : Resolve(b))
    BY DEF Resolve
  <2>3. QED
    BY <2>1, <2>2 DEF Next, vars, Captain, Order, Resume, Withdraw, Save, Exchange, Land, Fold,
       Survey, LoadOrders, LeaveHold, PassOver, AlreadyThere, LeaveToCaptain, SaveOrders,
       DoctrineAct, EndFold, Restart
<1>3. ASSUME NEW b, Acked(b) \/ Errs(b) PROVE a = b
  BY <1>3 DEF Acked, Errs, Accept
<1>4. CASE RefuelForHold
  <2>1. a = [verb |-> "refuel", station |-> Nowhere, id |-> 0]
    BY <1>3, <1>4 DEF RefuelForHold
  <2>2. QED
    BY <2>1
<1>5. CASE TravelToHold
  <2>1. DueHold # 0 /\ a = [verb |-> "travel", station |-> fold.list[DueHold].station, id |-> 0]
    BY <1>3, <1>5 DEF TravelToHold
  <2>2. DueHold \in DOMAIN fold.list /\ PendingCourse(fold.list[DueHold])
    BY <1>1, <2>1, HoldElsewhereIs DEF DueHold, PendingCourse, IsCourse
  <2>3. QED
    BY <1>1, <2>1, <2>2, OnlyOneBerth
<1>6. CASE SendOrder
  <2>1. First # 0 /\ a = [verb |-> Due.verb, station |-> Due.station, id |-> Due.id]
    BY <1>3, <1>6 DEF SendOrder, FileOrder
  <2>2. First \in DOMAIN fold.list /\ PendingCourse(Due)
    BY <2>1, DueType DEF Ready, PendingCourse, IsCourse
  <2>3. QED
    BY <1>1, <2>1, <2>2, OnlyOneBerth DEF Due
<1>7. QED
  BY <1>2, <1>4, <1>5, <1>6

\* The pilot flies no superseded course.
THEOREM FliesCorrect == Spec => FliesTheStandingCourse
<1>1. Spec => Safe
  BY PTL DEF Spec
<1>2. Safe => [](TypeOK /\ EveryCopyHasOneCourse)
  BY TypeInit, TypeNext, CopiesInit, CopiesNext, PTL DEF Safe
<1>3. QED
  BY <1>1, <1>2, FliesStep, PTL DEF Safe, FliesTheStandingCourse
-----------------------------------------------------------------------------
(* What an order was filed for.  The exchange's count of every order is     *)
(* held against each copy of the list: an order a copy reads done was       *)
(* filed, and one a copy still has in hand was filed no more often than     *)
(* there were causes to file it again.                                      *)

\* An order the pilot may still file.
InHand(o) == Pending(o) /\ ~o.waits

\* No two entries are the same order.
EachOnce(orders) == \A j, k \in DOMAIN orders : orders[j].id = orders[k].id => j = k

\* Every entry is one of the first n orders the captain gave.
Given(orders, n) == \A k \in DOMAIN orders : orders[k].id <= n

Told(orders, filed) ==
    \A k \in DOMAIN orders :
        orders[k].done /\ ~orders[k].waits /\ orders[k].verb \notin {"travel", "resume"} =>
            filed[orders[k].id] > 0

InOrder(orders, n, filed) == EachOnce(orders) /\ Given(orders, n) /\ Told(orders, filed)

\* What is in hand was filed no more often than it may be filed again.
Spent(orders, filed, allowed) ==
    \A k \in DOMAIN orders : InHand(orders[k]) => filed[orders[k].id] <= allowed

\* The inductive invariant.  While the pilot has yet to put its marks back, the list and
\* what the front ends hold are behind it: a crash then is a cause, and putting back a
\* list that is older than the marks is one.
LedgerInv ==
    /\ InOrder(file, said, times) /\ InOrder(fold.list, said, times)
    /\ \A f \in FrontEnds : InOrder(desks[f].list, said, times)
    /\ \A f \in FrontEnds : desks[f].at = "idle" => desks[f].list = << >>
    /\ FiledOnce
    /\ \A i \in Ids : i > said => times[i] = 0
    /\ Spent(fold.list, times, causes)
    /\ fold.at # "saving" =>
          /\ Spent(file, times, causes)
          /\ \A f \in FrontEnds : ~desks[f].old => Spent(desks[f].list, times, causes)

Counts == [Ids -> Nat]

LEMMA NothingInOrder ==
    \A n, filed, allowed : InOrder(<< >>, n, filed) /\ Spent(<< >>, filed, allowed)
BY DEF InOrder, EachOnce, Given, Told, Spent

LEMMA EntryType ==
    ASSUME NEW orders \in Seq(OrderRecs), NEW k \in DOMAIN orders
    PROVE  orders[k] \in OrderRecs /\ orders[k].id \in Ids /\ k \in 1..Len(orders)
<1>1. k \in 1..Len(orders)
  BY LenProperties
<1>2. orders[k] \in OrderRecs
  BY <1>1, ElementOfSeq
<1>3. QED
  BY <1>1, <1>2 DEF OrderRecs

\* More words, more filings and more causes leave a list in order.
LEMMA LaterInOrder ==
    ASSUME NEW orders \in Seq(OrderRecs), NEW n \in Nat, NEW m \in Nat, n <= m,
           NEW filed \in Counts, NEW later \in Counts, \A i \in Ids : filed[i] <= later[i],
           InOrder(orders, n, filed)
    PROVE  InOrder(orders, m, later)
<1>1. Given(orders, m)
  BY EntryType DEF InOrder, Given, Ids
<1>2. Told(orders, later)
  BY EntryType DEF InOrder, Told, Counts
<1>3. QED
  BY <1>1, <1>2 DEF InOrder

LEMMA LaterSpent ==
    ASSUME NEW orders \in Seq(OrderRecs), NEW filed \in Counts, NEW allowed \in Nat,
           NEW more \in Nat, allowed <= more, Spent(orders, filed, allowed)
    PROVE  Spent(orders, filed, more)
BY EntryType DEF Spent, Counts

\* A captain's word: each entry stays as it was or ends, and an order comes to it that
\* nobody has filed.
LEMMA GrownInOrder ==
    ASSUME NEW orders \in Seq(OrderRecs), NEW grown \in Seq(OrderRecs), NEW n \in Nat,
           NEW filed \in Counts, NEW allowed \in Nat,
           InOrder(orders, n, filed),
           Len(grown) = Len(orders) + 1,
           \A k \in 1..Len(orders) : grown[k] \in {orders[k], Ended(orders[k])},
           LET last == grown[Len(orders) + 1]
           IN  last.id = n + 1 /\ (last.done => last.verb = "resume") /\ filed[last.id] = 0
    PROVE  /\ InOrder(grown, n + 1, filed)
           /\ Spent(orders, filed, allowed) => Spent(grown, filed, allowed)
<1> DEFINE l == Len(orders)
           last == grown[l + 1]
<1>1. l \in Nat /\ DOMAIN orders = 1..l /\ DOMAIN grown = 1..(l + 1)
  BY LenProperties
<1>2. ASSUME NEW k \in 1..l
      PROVE  /\ orders[k] \in OrderRecs /\ orders[k].id \in Ids
             /\ grown[k].id = orders[k].id
             /\ grown[k] = orders[k] \/ (grown[k].done /\ grown[k].waits)
  <2>1. orders[k] \in OrderRecs /\ orders[k].id \in Ids
    BY <1>1, EntryType
  <2>2. Ended(orders[k]).id = orders[k].id /\ Ended(orders[k]).done /\ Ended(orders[k]).waits
    BY <2>1 DEF Ended, OrderRecs
  <2>3. QED
    BY <2>1, <2>2
<1>3. last.id = n + 1 /\ (last.done => last.verb = "resume") /\ filed[last.id] = 0
  OBVIOUS
<1>4. \A k \in 1..(l + 1) : k \in 1..l \/ k = l + 1
  BY <1>1
<1>5. \A k \in 1..l : orders[k].id <= n
  BY <1>1 DEF InOrder, Given
<1> HIDE DEF l, last
<1>6. EachOnce(grown)
  <2> SUFFICES ASSUME NEW j \in 1..(l + 1), NEW k \in 1..(l + 1), grown[j].id = grown[k].id
               PROVE  j = k
    BY <1>1 DEF EachOnce
  <2>1. CASE j \in 1..l /\ k \in 1..l
    BY <2>1, <1>1, <1>2 DEF InOrder, EachOnce
  <2>2. CASE j \in 1..l /\ k = l + 1
    BY <2>2, <1>2, <1>3, <1>5 DEF Ids, last
  <2>3. CASE j = l + 1 /\ k \in 1..l
    BY <2>3, <1>2, <1>3, <1>5 DEF Ids, last
  <2>4. QED
    BY <1>4, <2>1, <2>2, <2>3
<1>7. Given(grown, n + 1)
  BY <1>1, <1>2, <1>3, <1>4, <1>5 DEF Given, Ids, last
<1>8. Told(grown, filed)
  BY <1>1, <1>2, <1>3, <1>4 DEF Told, InOrder, last
<1>9. Spent(orders, filed, allowed) => Spent(grown, filed, allowed)
  <2>1. \A k \in 1..l : InHand(grown[k]) => grown[k] = orders[k]
    BY <1>2 DEF InHand, Pending
  <2>2. filed[grown[l + 1].id] <= allowed
    BY <1>3 DEF last
  <2>3. QED
    BY <1>1, <1>4, <2>1, <2>2 DEF Spent
<1>10. QED
  BY <1>6, <1>7, <1>8, <1>9 DEF InOrder

\* An order withdrawn leaves the others as they were.
LEMMA WithdrawnInOrder ==
    ASSUME NEW orders \in Seq(OrderRecs), NEW i \in 1..Len(orders), NEW n, NEW filed, NEW allowed,
           InOrder(orders, n, filed)
    PROVE  /\ InOrder(RemoveAt(orders, i), n, filed)
           /\ Spent(orders, filed, allowed) => Spent(RemoveAt(orders, i), filed, allowed)
<1> DEFINE r == RemoveAt(orders, i)
           place(k) == IF k < i THEN k ELSE k + 1
<1>1. /\ Len(orders) \in Nat /\ DOMAIN orders = 1..Len(orders)
      /\ r \in Seq(OrderRecs) /\ DOMAIN r = 1..(Len(orders) - 1)
      /\ \A k \in DOMAIN r : r[k] = orders[place(k)]
  BY RemoveAtIs, LenProperties
<1> HIDE DEF r
<1>2. \A j, k \in DOMAIN r : place(j) \in DOMAIN orders /\ (place(j) = place(k) => j = k)
  BY <1>1
<1> HIDE DEF place
<1>3. EachOnce(r) /\ Given(r, n) /\ Told(r, filed)
  BY <1>1, <1>2 DEF InOrder, EachOnce, Given, Told
<1>4. Spent(orders, filed, allowed) => Spent(r, filed, allowed)
  BY <1>1, <1>2 DEF Spent
<1>5. QED
  BY <1>3, <1>4 DEF InOrder, r

\* The order the pilot was at is marked: done only if it was filed, or is a travel.
LEMMA MarkedInOrder ==
    ASSUME NEW orders \in Seq(OrderRecs), NEW k \in DOMAIN orders, NEW done \in BOOLEAN,
           NEW n \in Nat, NEW filed \in Counts, NEW later \in Counts, NEW allowed \in Nat,
           InOrder(orders, n, filed), Spent(orders, filed, allowed),
           \A i \in Ids \ {orders[k].id} : later[i] = filed[i],
           filed[orders[k].id] <= later[orders[k].id],
           done /\ orders[k].verb # "travel" => later[orders[k].id] > 0
    PROVE  LET r == [orders EXCEPT ![k] = [@ EXCEPT !.done = done, !.waits = ~done]]
           IN  InOrder(r, n, later) /\ Spent(r, later, allowed)
<1> DEFINE o == [orders[k] EXCEPT !.done = done, !.waits = ~done]
           r == [orders EXCEPT ![k] = o]
<1>1. /\ o.id = orders[k].id /\ o.verb = orders[k].verb /\ o.done = done /\ o.waits = ~done
      /\ \A j \in DOMAIN orders : orders[j].id \in Ids
  BY EntryType DEF OrderRecs
<1>2. /\ DOMAIN r = DOMAIN orders /\ r[k] = o
      /\ \A j \in DOMAIN r : j # k => r[j] = orders[j]
  OBVIOUS
<1> HIDE DEF r, o
<1>3. \A j \in DOMAIN orders : j # k => orders[j].id \in Ids \ {orders[k].id}
  BY <1>1 DEF InOrder, EachOnce
<1>4. EachOnce(r) /\ Given(r, n)
  BY <1>1, <1>2 DEF InOrder, EachOnce, Given
<1>5. Told(r, later)
  BY <1>1, <1>2, <1>3 DEF InOrder, Told
<1>6. Spent(r, later, allowed)
  BY <1>1, <1>2, <1>3 DEF Spent, InHand, Pending
<1>7. QED
  BY <1>4, <1>5, <1>6 DEF InOrder, r, o
LEMMA LedgerInit == Init => LedgerInv
<1> SUFFICES ASSUME Init PROVE LedgerInv
  OBVIOUS
<1>1. file = << >> /\ fold.list = << >> /\ \A f \in FrontEnds : desks[f].list = << >>
  BY DEF Init, IdleFold
<1>2. FiledOnce /\ \A i \in Ids : times[i] = 0
  BY DEF Init, FiledOnce
<1>3. QED
  BY <1>1, <1>2, NothingInOrder DEF LedgerInv

\* The captain's words and what the front ends put back.
LEMMA LedgerCaptain == TypeOK /\ LedgerInv /\ Captain => LedgerInv'
<1> SUFFICES ASSUME TypeOK, LedgerInv, NEW f \in FrontEnds,
                    \/ \E w \in Words : Order(f, w)
                    \/ Resume(f)
                    \/ \E k \in DOMAIN file : Withdraw(f, k)
                    \/ Save(f)
             PROVE  LedgerInv'
  BY DEF Captain
<1>1. /\ file \in Seq(OrderRecs) /\ fold.list \in Seq(OrderRecs)
      /\ \A g \in FrontEnds : desks[g].list \in Seq(OrderRecs)
      /\ said \in Nat /\ times \in Counts /\ causes \in Nat
  BY OrdersAssumption DEF TypeOK, Folds, Copies, Counts
<1>2. ASSUME NEW list, Hold(f, list)
      PROVE  /\ desks'[f].at = "holding" /\ desks'[f].list = list /\ ~desks'[f].old
             /\ \A g \in FrontEnds \ {f} : desks'[g] = desks[g]
  BY <1>2 DEF Hold, TypeOK
<1>3. ASSUME said < MaxWords, said' = said + 1, NEW list \in Seq(OrderRecs), Hold(f, list),
             Len(list) = Len(file) + 1,
             \A k \in 1..Len(file) : list[k] \in {file[k], Ended(file[k])},
             list[Len(file) + 1].id = said + 1,
             list[Len(file) + 1].done => list[Len(file) + 1].verb = "resume",
             UNCHANGED <<file, fold, times, causes>>
      PROVE  LedgerInv'
  <2>1. said + 1 \in Ids /\ times[said + 1] = 0
    BY <1>3, <1>1, OrdersAssumption DEF LedgerInv, Ids
  <2>2. /\ InOrder(list, said + 1, times)
        /\ Spent(file, times, causes) => Spent(list, times, causes)
    BY <1>1, <1>3, <2>1, GrownInOrder DEF LedgerInv
  <2>3. /\ InOrder(file, said + 1, times) /\ InOrder(fold.list, said + 1, times)
        /\ \A g \in FrontEnds : InOrder(desks[g].list, said + 1, times)
    <3>1. said + 1 \in Nat /\ said <= said + 1 /\ \A i \in Ids : times[i] <= times[i]
      BY <1>1 DEF Counts
    <3>2. \A orders \in Seq(OrderRecs) : InOrder(orders, said, times) => InOrder(orders, said + 1, times)
      BY <1>1, <3>1, LaterInOrder
    <3>3. QED
      BY <1>1, <3>2 DEF LedgerInv
  <2>4. \A i \in Ids : i > said + 1 => times[i] = 0
    BY <1>1 DEF LedgerInv, Ids
  <2>5. QED
    BY <1>3, <1>2, <2>2, <2>3, <2>4 DEF LedgerInv, FiledOnce
<1>4. ASSUME NEW w \in Words, Order(f, w) PROVE LedgerInv'
  <2> DEFINE order == NewOrder(said + 1, w)
             list == PlaceOrder(file, order)
  <2>1. said < MaxWords /\ said' = said + 1 /\ Hold(f, list) /\ UNCHANGED <<file, fold, times, causes>>
    BY <1>4 DEF Order
  <2>2. order \in OrderRecs
    BY <1>1, <2>1, NewOrderType, OrdersAssumption DEF Ids
  <2>3. order.id = said + 1 /\ ~order.done
    BY DEF NewOrder
  <2> HIDE DEF order
  <2>4. /\ list \in Seq(OrderRecs) /\ Len(list) = Len(file) + 1
        /\ list[Len(file) + 1] = order
        /\ \A k \in 1..Len(file) : list[k] \in {file[k], Ended(file[k])}
    <3>1. /\ list \in Seq(OrderRecs) /\ Len(list) = Len(file) + 1
          /\ list[Len(file) + 1] = order
          /\ \A k \in 1..Len(file) :
                list[k] = IF /\ IsCourse(order) /\ PendingCourse(file[k])
                             /\ ~SameBerth(order, file[k])
                            THEN Ended(file[k]) ELSE file[k]
      BY <1>1, <2>2, PlaceOrderIs
    <3> HIDE DEF list
    <3>2. QED
      BY <3>1
  <2> HIDE DEF list
  <2>5. QED
    BY <1>3, <2>1, <2>3, <2>4
<1>5. ASSUME Resume(f) PROVE LedgerInv'
  <2> DEFINE list == ResumeOrders(file, said + 1)
  <2>1. said < MaxWords /\ said' = said + 1 /\ Hold(f, list) /\ UNCHANGED <<file, fold, times, causes>>
    BY <1>5 DEF Resume
  <2>2. said + 1 \in Ids
    BY <1>1, <2>1, OrdersAssumption DEF Ids
  <2>3. /\ list \in Seq(OrderRecs) /\ Len(list) = Len(file) + 1
        /\ \A k \in 1..Len(file) : list[k] \in {file[k], Ended(file[k])}
        /\ list[Len(file) + 1].id = said + 1
        /\ list[Len(file) + 1].verb = "resume"
    BY <1>1, <2>2, ResumeOrdersIs
  <2> HIDE DEF list
  <2>4. QED
    BY <1>3, <2>1, <2>3
<1>6. ASSUME NEW k \in DOMAIN file, Withdraw(f, k) PROVE LedgerInv'
  <2> DEFINE list == RemoveAt(file, k)
  <2>1. Hold(f, list) /\ UNCHANGED <<file, said, fold, times, causes>>
    BY <1>6 DEF Withdraw
  <2>2. /\ InOrder(list, said, times)
        /\ Spent(file, times, causes) => Spent(list, times, causes)
    BY <1>1, EntryType, WithdrawnInOrder DEF LedgerInv
  <2> HIDE DEF list
  <2>3. QED
    BY <1>2, <2>1, <2>2 DEF LedgerInv, FiledOnce
<1>7. ASSUME Save(f) PROVE LedgerInv'
  <2>1. /\ desks[f].at = "holding" /\ file' = desks[f].list
        /\ causes' = IF desks[f].old THEN causes + 1 ELSE causes
        /\ \A g \in FrontEnds : desks'[g] = IF g = f THEN [at |-> "idle", list |-> << >>, old |-> FALSE]
                                                     ELSE desks[g]
        /\ UNCHANGED <<said, fold, times>>
    BY <1>7 DEF Save, TypeOK
  <2>2. causes' \in Nat /\ causes <= causes'
    BY <1>1, <2>1
  <2>3. /\ Spent(fold.list, times, causes')
        /\ \A g \in FrontEnds : Spent(desks[g].list, times, causes) => Spent(desks[g].list, times, causes')
    BY <1>1, <2>2, LaterSpent DEF LedgerInv
  <2>4. FiledOnce'
    BY <1>1, <2>1, <2>2 DEF LedgerInv, FiledOnce, Counts
  <2>5. fold.at # "saving" => Spent(file', times, causes')
    <3>1. CASE desks[f].old
      <4>1. \A i \in Ids : times[i] <= causes'
        BY <1>1, <2>1, <3>1 DEF LedgerInv, FiledOnce, Counts
      <4>2. QED
        BY <1>1, <2>1, <4>1, EntryType DEF Spent
    <3>2. CASE ~desks[f].old
      BY <2>1, <2>3, <3>2 DEF LedgerInv
    <3>3. QED
      BY <3>1, <3>2
  <2>6. QED
    BY <2>1, <2>3, <2>4, <2>5, NothingInOrder DEF LedgerInv
<1>8. QED
  BY <1>4, <1>5, <1>6, <1>7

\* An act that is no order's is not counted.
LEMMA NotCounted ==
    ASSUME NEW a, a.id = 0, Acked(a) \/ Errs(a)
    PROVE  UNCHANGED times
BY DEF Acked, Errs, Accept

\* What the exchange takes of an order counts once for that order and for no other.
LEMMA Counted ==
    ASSUME times \in Counts, NEW a, a.id \in Ids, Acked(a) \/ Errs(a)
    PROVE  /\ times' \in Counts
           /\ \A i \in Ids : times'[i] = times[i] \/ (i = a.id /\ times'[i] = times[i] + 1)
           /\ Acked(a) => times'[a.id] = times[a.id] + 1
<1>1. Accept(a) => times' = [times EXCEPT ![a.id] = times[a.id] + 1]
  BY DEF Accept, Ids
<1>2. times[a.id] \in Nat
  BY DEF Counts
<1>3. CASE Accept(a)
  BY <1>1, <1>2, <1>3 DEF Counts
<1>4. CASE UNCHANGED times /\ ~Accept(a)
  BY <1>4 DEF Acked
<1>5. QED
  BY <1>3, <1>4 DEF Acked, Errs

\* The pilot's fold up to the order it is at, and its end.
LEMMA LedgerFold == TypeOK /\ LedgerInv /\ Fold => LedgerInv'
<1> SUFFICES ASSUME TypeOK, LedgerInv, Fold PROVE LedgerInv'
  OBVIOUS
<1>1. /\ file \in Seq(OrderRecs) /\ fold.list \in Seq(OrderRecs) /\ fold \in Folds
      /\ \A g \in FrontEnds : desks[g].list \in Seq(OrderRecs)
      /\ said \in Nat /\ times \in Counts /\ causes \in Nat
  BY OrdersAssumption DEF TypeOK, Folds, Copies, Counts
<1>2. ASSUME fold.at # "saving", fold'.list \in {fold.list, << >>},
             UNCHANGED <<file, said, desks, times, causes>>
      PROVE  LedgerInv'
  BY <1>2, NothingInOrder DEF LedgerInv, FiledOnce
<1>3. ASSUME NEW at, Goes(at) \/ Files(at) \/ fold' = IdleFold
      PROVE  fold'.list \in {fold.list, << >>}
  <2>1. Goes(at) => fold'.list = fold.list
    BY <1>1 DEF Goes, Folds
  <2>2. Files(at) => fold'.list = fold.list
    BY <1>1 DEF Files, Folds
  <2>3. fold' = IdleFold => fold'.list = << >>
    BY DEF IdleFold
  <2>4. QED
    BY <1>3, <2>1, <2>2, <2>3
<1>4. ASSUME First # 0, NEW done \in BOOLEAN, NEW n \in {0, 1}, Marks(First, done, n),
             times' \in Counts, times[Due.id] <= times'[Due.id], times'[Due.id] <= times[Due.id] + 1,
             \A i \in Ids \ {Due.id} : times'[i] = times[i],
             done /\ Due.verb # "travel" => times'[Due.id] > 0,
             UNCHANGED <<file, said, desks, causes>>
      PROVE  LedgerInv'
  <2>1. First \in DOMAIN fold.list /\ Due \in OrderRecs /\ Due.verb # "resume" /\ InHand(Due)
    BY <1>4, DueType DEF Ready, InHand
  <2>2. fold'.list = [fold.list EXCEPT ![First] = [@ EXCEPT !.done = done, !.waits = ~done]]
    <3>1. /\ fold \in Folds /\ First \in DOMAIN fold.list /\ done \in BOOLEAN /\ n \in {0, 1}
          /\ Marks(First, done, n) /\ fold.list[First].verb # "resume"
      BY <1>1, <1>4, <2>1 DEF Due
    <3>2. QED
      BY <3>1, MarksType
  <2>3. fold'.at = "saving"
    BY <1>1, <1>4 DEF Marks, Folds
  <2>4. InOrder(fold'.list, said, times') /\ Spent(fold'.list, times', causes)
    <3>1. /\ \A i \in Ids \ {fold.list[First].id} : times'[i] = times[i]
          /\ times[fold.list[First].id] <= times'[fold.list[First].id]
          /\ done /\ fold.list[First].verb # "travel" => times'[fold.list[First].id] > 0
      BY <1>4 DEF Due
    <3>2. InOrder(fold.list, said, times) /\ Spent(fold.list, times, causes)
      BY DEF LedgerInv
    <3>3. LET r == [fold.list EXCEPT ![First] = [@ EXCEPT !.done = done, !.waits = ~done]]
          IN  InOrder(r, said, times') /\ Spent(r, times', causes)
      <4>1. /\ fold.list \in Seq(OrderRecs) /\ First \in DOMAIN fold.list /\ done \in BOOLEAN
            /\ said \in Nat /\ times \in Counts /\ times' \in Counts /\ causes \in Nat
        BY <1>1, <1>4, <2>1
      <4>2. QED
        BY <3>1, <3>2, <4>1, MarkedInOrder
    <3>4. QED
      BY <2>2, <3>3
  <2>5. \A i \in Ids : times[i] <= times'[i]
    BY <1>1, <1>4 DEF Counts
  <2>6. InOrder(file, said, times') /\ \A g \in FrontEnds : InOrder(desks[g].list, said, times')
    BY <1>1, <1>4, <2>5, LaterInOrder DEF LedgerInv
  <2>7. Due.id \in Ids /\ Due.id <= said /\ times[Due.id] <= causes
    BY <2>1, EntryType, <1>1 DEF LedgerInv, InOrder, Given, Spent, Due
  <2>8. FiledOnce' /\ \A i \in Ids : i > said => times'[i] = 0
    BY <1>1, <1>4, <2>7 DEF LedgerInv, FiledOnce, Counts, Ids
  <2>9. QED
    BY <1>4, <2>3, <2>4, <2>6, <2>8 DEF LedgerInv
<1>5. CASE Survey
  <2>1. fold'.list = fold.list /\ fold.at # "saving"
    BY <1>1, <1>5 DEF Survey, Folds
  <2>2. QED
    BY <1>2, <1>5, <2>1 DEF Survey
<1>6. CASE LoadOrders
  <2>1. fold'.list = file /\ fold.at = "surveyed"
    BY <1>1, <1>6 DEF LoadOrders, Folds
  <2>2. QED
    BY <1>6, <2>1 DEF LoadOrders, LedgerInv, FiledOnce
<1>7. CASE RefuelForHold
  <2>1. UNCHANGED times
    BY <1>7, NotCounted DEF RefuelForHold
  <2>2. QED
    BY <1>2, <1>3, <1>7, <2>1 DEF RefuelForHold
<1>8. CASE TravelToHold
  <2>1. UNCHANGED times
    BY <1>8, NotCounted DEF TravelToHold
  <2>2. QED
    BY <1>2, <1>3, <1>8, <2>1 DEF TravelToHold
<1>9. CASE LeaveHold \/ PassOver \/ EndFold
  BY <1>2, <1>3, <1>9 DEF LeaveHold, PassOver, EndFold
<1>10. CASE AlreadyThere \/ LeaveToCaptain
  <2>1. First # 0 => Due.id \in Ids
    BY <1>1, DueType, EntryType DEF Due
  <2>2. CASE AlreadyThere
    <3>1. /\ First # 0 /\ Due.verb = "travel" /\ Marks(First, TRUE, 0)
          /\ UNCHANGED <<file, said, desks, times, causes>>
      BY <2>2 DEF AlreadyThere
    <3>2. /\ times[Due.id] \in Nat /\ times' \in Counts
          /\ times[Due.id] <= times'[Due.id] /\ times'[Due.id] <= times[Due.id] + 1
          /\ \A i \in Ids \ {Due.id} : times'[i] = times[i]
      BY <1>1, <2>1, <3>1 DEF Counts
    <3>3. QED
      BY <1>4, <3>1, <3>2
  <2>3. CASE LeaveToCaptain
    <3>1. First # 0 /\ Marks(First, FALSE, 0) /\ UNCHANGED <<file, said, desks, times, causes>>
      BY <2>3 DEF LeaveToCaptain
    <3>2. /\ times[Due.id] \in Nat /\ times' \in Counts
          /\ times[Due.id] <= times'[Due.id] /\ times'[Due.id] <= times[Due.id] + 1
          /\ \A i \in Ids \ {Due.id} : times'[i] = times[i]
      BY <1>1, <2>1, <3>1 DEF Counts
    <3>3. QED
      BY <1>4, <3>1, <3>2
  <2>4. QED
    BY <1>10, <2>2, <2>3
<1>11. CASE SendOrder
  <2> DEFINE a == [verb |-> Due.verb, station |-> Due.station, id |-> Due.id]
  <2>1. First # 0 /\ UNCHANGED <<file, said, desks, causes>>
    BY <1>11 DEF SendOrder
  <2>2. a.id = Due.id /\ Due.id \in Ids
    BY <1>1, <2>1, DueType, EntryType DEF Due
  <2>3. \/ Acked(a) /\ Marks(First, TRUE, 1)
        \/ Errs(a) /\ Marks(First, FALSE, 0)
    BY <1>11 DEF SendOrder, FileOrder
  <2> HIDE DEF a
  <2>4. /\ times' \in Counts
        /\ \A i \in Ids : times'[i] = times[i] \/ (i = a.id /\ times'[i] = times[i] + 1)
        /\ Acked(a) => times'[a.id] = times[a.id] + 1
    BY <1>1, <2>2, <2>3, Counted
  <2>5. /\ times[Due.id] <= times'[Due.id] /\ times'[Due.id] <= times[Due.id] + 1
        /\ \A i \in Ids \ {Due.id} : times'[i] = times[i]
        /\ Acked(a) => times'[Due.id] > 0
    BY <1>1, <2>2, <2>4 DEF Counts
  <2>6. QED
    BY <1>4, <2>1, <2>3, <2>4, <2>5
<1>12. CASE SaveOrders
  <2>1. fold'.list \in {fold.list, << >>} /\ fold'.at # "saving" /\ fold.at = "saving"
    BY <1>1, <1>12 DEF SaveOrders, IdleFold, Folds
  <2>2. \A g \in FrontEnds : /\ desks'[g].list = desks[g].list /\ desks'[g].at = desks[g].at
                             /\ desks'[g].old = (desks[g].at = "holding")
    BY <1>12 DEF SaveOrders, TypeOK, Copies
  <2>3. file' = fold.list /\ UNCHANGED <<said, times, causes>>
    BY <1>12 DEF SaveOrders
  <2>4. \A g \in FrontEnds : ~desks'[g].old => desks'[g].list = << >>
    BY <2>2 DEF LedgerInv, TypeOK, Copies
  <2>5. QED
    BY <2>1, <2>2, <2>3, <2>4, NothingInOrder DEF LedgerInv, FiledOnce
<1>13. CASE DoctrineAct
  <2>1. PICK a \in [verb : {"travel"}, station : Stations \ {fold.berth}, id : {0}]
                   \cup [verb : {"refuel"}, station : {Nowhere}, id : {0}] :
          Acked(a) \/ Errs(a)
    BY <1>13 DEF DoctrineAct
  <2>2. UNCHANGED times
    BY <2>1, NotCounted
  <2>3. QED
    BY <1>2, <1>3, <1>13, <2>2 DEF DoctrineAct
<1>14. QED
  BY <1>5, <1>6, <1>7, <1>8, <1>9, <1>10, <1>11, <1>12, <1>13 DEF Fold

\* A pilot that dies with its marks not put back may file the order again: a cause.
LEMMA LedgerRestart == TypeOK /\ LedgerInv /\ Restart => LedgerInv'
<1> SUFFICES ASSUME TypeOK, LedgerInv, Restart PROVE LedgerInv'
  OBVIOUS
<1>1. /\ file \in Seq(OrderRecs) /\ times \in Counts /\ causes \in Nat
      /\ \A g \in FrontEnds : desks[g].list \in Seq(OrderRecs)
  BY DEF TypeOK, Copies, Counts
<1>2. /\ fold'.list = << >> /\ fold'.at = "idle"
      /\ causes' = IF fold.at = "saving" THEN causes + 1 ELSE causes
      /\ UNCHANGED <<file, said, desks, times>>
  BY DEF Restart, IdleFold
<1>3. FiledOnce'
  BY <1>1, <1>2 DEF LedgerInv, FiledOnce, Counts
<1>4. Spent(file, times, causes') /\ \A g \in FrontEnds : ~desks[g].old => Spent(desks[g].list, times, causes')
  <2>1. CASE fold.at = "saving"
    <3>1. \A i \in Ids : times[i] <= causes'
      BY <1>1, <1>2, <2>1 DEF LedgerInv, FiledOnce, Counts
    <3>2. QED
      BY <1>1, <3>1, EntryType DEF Spent
  <2>2. CASE fold.at # "saving"
    BY <1>2, <2>2 DEF LedgerInv
  <2>3. QED
    BY <2>1, <2>2
<1>5. QED
  BY <1>2, <1>3, <1>4, NothingInOrder DEF LedgerInv

LEMMA LedgerNext == TypeOK /\ LedgerInv /\ [Next]_vars => LedgerInv'
<1> SUFFICES ASSUME TypeOK, LedgerInv, [Next]_vars PROVE LedgerInv'
  OBVIOUS
<1>1. CASE Exchange \/ UNCHANGED vars
  BY <1>1 DEF Exchange, Resolve, Land, vars, LedgerInv, FiledOnce
<1>2. QED
  BY <1>1, LedgerCaptain, LedgerFold, LedgerRestart DEF Next

LEMMA Ledger == Spec => []LedgerInv
<1>1. Spec => Safe
  BY PTL DEF Spec
<1>2. Safe => []LedgerInv
  BY TypeInit, TypeNext, LedgerInit, LedgerNext, PTL DEF Safe
<1>3. QED
  BY <1>1, <1>2, PTL

\* An order that reads done, and has no reason against it, went to the exchange, whoever
\* put which copy of the list back over which: the captain is never told that a repair or
\* a boarding was seen to when it was not.
THEOREM DoneCorrect == Spec => []DoneWasFiled
<1>1. LedgerInv => DoneWasFiled
  BY DEF LedgerInv, InOrder, Told, DoneWasFiled
<1>2. QED
  BY <1>1, Ledger, PTL

\* An order is filed a second time only for a crash between its filing and the record of
\* it, or for a front end that put back a list older than that record: never for an error
\* in the exchange's answer, however many there are.
THEOREM FiledCorrect == Spec => []FiledOnce
<1>1. LedgerInv => FiledOnce
  BY DEF LedgerInv
<1>2. QED
  BY <1>1, Ledger, PTL
=============================================================================
