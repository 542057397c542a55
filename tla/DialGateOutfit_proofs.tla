----------------------- MODULE DialGateOutfit_proofs ------------------------
(***************************************************************************)
(* What the captain has the last word on. For every dial, every set of     *)
(* intents and every bound: the gate lets nothing through that was neither *)
(* granted nor approved, files one proposal per intent, never withholds an *)
(* act in silence, and agrees with what the bridge shows.                  *)
(*                                                                         *)
(* And for every hull, price and lease: an act of outfitting that reaches  *)
(* the ledger leaves the charges it was judged against in the purse.       *)
(***************************************************************************)
EXTENDS DialGate, Outfit, FiniteSetsExt, FiniteSetTheorems, SequenceTheorems, WellFoundedInduction,
        TLAPS

-----------------------------------------------------------------------------
(* The last of a log.                                                       *)

\* A set of naturals has a least member.
LEMMA Least == ASSUME NEW T \in SUBSET Nat, T # {} PROVE \E n \in T : \A m \in T : n <= m
<1> DEFINE R == OpToRel(<, Nat)
<1>1. IsWellFoundedOn(R, Nat)
  BY NatLessThanWellFounded DEF OpToRel
<1>2. \A a, b \in Nat : <<a, b>> \in R <=> a < b
  BY DEF OpToRel
<1> HIDE DEF R
<1>3. PICK n \in T : \A m \in T : ~(<<m, n>> \in R)
  BY <1>1, WFMin
<1>4. \A m \in T : ~(m < n)
  BY <1>2, <1>3
<1>5. QED
  BY <1>4

\* A non-empty set of positions of a list has a last one, and Max is it.
LEMMA LastPosition ==
    ASSUME NEW n \in Nat, NEW S \in SUBSET (1..n), S # {}
    PROVE  Max(S) \in S /\ \A k \in S : k <= Max(S)
<1> DEFINE T == {n - k : k \in S}
<1>1. \A k \in S : k \in Nat /\ n - k \in Nat
  OBVIOUS
<1>2. T \subseteq Nat
  BY <1>1 DEF T
<1>3. T # {}
  BY DEF T
<1>4. PICK t \in T : \A y \in T : t <= y
  BY <1>2, <1>3, Least
<1>5. PICK m \in S : t = n - m
  BY DEF T
<1>6. \A k \in S : m >= k
  <2> TAKE k \in S
  <2>1. n - k \in T
    OBVIOUS
  <2>2. n - m <= n - k
    BY <1>4, <1>5, <2>1
  <2>3. n \in Int /\ m \in Int /\ k \in Int
    BY <1>1
  <2>4. QED
    BY <2>2, <2>3
<1>7. QED
  BY <1>1, <1>6 DEF Max

-----------------------------------------------------------------------------
(* The newest entry of a log.                                               *)

\* The newest entry of an id is its last line in the log.
LEMMA NewestIsLast ==
    ASSUME NEW R, NEW log \in Seq(R), NEW i, OnFile(log, i)
    PROVE  \E k \in DOMAIN log :
              /\ log[k] = Newest(log, i)
              /\ log[k].id = i
              /\ \A j \in DOMAIN log : j > k => log[j].id # i
<1>1. EntriesOf(log, i) \in SUBSET (1..Len(log)) /\ Len(log) \in Nat
  BY DEF EntriesOf
<1>2. /\ Max(EntriesOf(log, i)) \in EntriesOf(log, i)
      /\ \A k \in EntriesOf(log, i) : k <= Max(EntriesOf(log, i))
  BY <1>1, LastPosition DEF OnFile
<1> DEFINE k == Max(EntriesOf(log, i))
<1>3. k \in DOMAIN log /\ log[k].id = i /\ log[k] = Newest(log, i)
  BY <1>2 DEF EntriesOf, Newest
<1>4. \A j \in DOMAIN log : j > k => log[j].id # i
  <2> SUFFICES ASSUME NEW j \in DOMAIN log, j > k, log[j].id = i PROVE FALSE
    OBVIOUS
  <2>1. j \in EntriesOf(log, i)
    BY DEF EntriesOf
  <2>2. j \in Int /\ k \in Int
    BY <1>1, <1>3
  <2>3. QED
    BY <1>2, <2>1, <2>2
<1>5. QED
  BY <1>3, <1>4

-----------------------------------------------------------------------------
(* Types.                                                                   *)

LEMMA LevelType ==
    ASSUME NEW d \in Dials, NEW s \in Surfaces
    PROVE  LevelOf(d, s) \in Levels
  BY AutonomyAssumption DEF LevelOf, Dials, Keys, Levels, Floor

LEMMA DialTypes ==
    /\ DefaultDial \in Dials
    /\ EmptyFile \in DialFiles
    /\ GarbledFile \in DialFiles
    /\ \A d \in Dials : WholeFile(d) \in DialFiles
    /\ \A f \in DialFiles : ParseDial(f) \in Dials
  BY DEF DefaultDial, Dials, EmptyFile, GarbledFile, WholeFile, DialFiles, ParseDial

LEMMA VerdictType ==
    ASSUME TypeOK, NEW i \in Intents
    PROVE  Verdict(i) \in Verdicts \cup {"under-orders"}
  BY DEF Verdict, Gate, Verdicts

LEMMA TypeInit == Init => TypeOK
  BY AutonomyAssumption, DialGateAssumption, DialTypes
     DEF Init, TypeOK, Folds, FrontEnds, Ticks

LEMMA TypeStep == TypeOK /\ [Next]_vars => TypeOK'
<1> USE AutonomyAssumption, DialGateAssumption, DialTypes
<1> SUFFICES ASSUME TypeOK, [Next]_vars PROVE TypeOK'
  OBVIOUS
<1> USE DEF TypeOK
<1>1. ASSUME NEW ks \in Sets, CliSet(ks[1], ks[2]) PROVE TypeOK'
  <2>1. SetKey(ParseDial(dialFile), ks[1], ks[2]) \in Dials
    BY DEF SetKey, Dials
  <2>2. QED
    BY <1>1, <2>1 DEF CliSet, FrontEnds
<1>2. ASSUME NEW d \in Puts, ServePut(d) PROVE TypeOK'
  BY <1>2 DEF ServePut, FrontEnds
<1>3. CASE OpenDial
  BY <1>3 DEF OpenDial, FrontEnds
<1>4. ASSUME NEW w \in FrontEnds, WriteDial(w) PROVE TypeOK'
  <2>1. writers[w].dial \in Dials
    BY DEF FrontEnds
  <2>2. dialFile' \in DialFiles
    BY <1>4, <2>1 DEF WriteDial
  <2>3. writers' \in [FrontEnds -> [at : {"idle", "holding", "opened"}, dial : Dials]]
    BY <1>4 DEF WriteDial
  <2>4. QED
    BY <1>4, <2>1, <2>2, <2>3 DEF WriteDial
<1>5. ASSUME NEW w \in FrontEnds, WriterDies(w) PROVE TypeOK'
  BY <1>5 DEF WriterDies
<1>6. ASSUME NEW i \in Intents, NEW yes \in BOOLEAN, Answer(i, yes) PROVE TypeOK'
  BY <1>6 DEF Answer, Approvals
<1>7. ASSUME NEW c \in Courses \cup {NoCourse}, TurnCourse(c) PROVE TypeOK'
  BY <1>7 DEF TurnCourse
<1>8. CASE Tick
  BY <1>8 DEF Tick, Ticks
<1>9. CASE BeginFold
  BY <1>9 DEF BeginFold, Folds, store
<1>10. CASE Survey
  BY <1>10 DEF Survey, Folds, store
<1>11. CASE EndFold
  <2>1. 0 \in Ticks
    BY DEF Ticks
  <2>2. fold' \in Folds
    BY <1>11, <2>1 DEF EndFold, Folds
  <2>3. QED
    BY <1>11, <2>2 DEF EndFold, store
<1>12. CASE Restart
  <2>1. fold' \in Folds
    BY <1>12 DEF Restart, Folds, Ticks
  <2>2. lastSaid' \in [SaidKeys -> Ticks \cup {Never}]
    BY <1>12 DEF Restart
  <2>3. QED
    BY <1>12, <2>1, <2>2 DEF Restart, store
<1>13. ASSUME NEW i \in Intents, Allow(i) PROVE TypeOK'
  <2>1. LevelOf(fold.dial, SurfaceOf[i]) \in Levels
    BY LevelType DEF Folds
  <2>2. ruling' \in Rulings
    BY <1>13, <2>1, VerdictType DEF Allow, Rulings, Folds
  <2>3. NewProposal(i, fold.tick) \in Proposals
    BY DEF NewProposal, Proposals, Folds, Ticks
  <2>4. proposals' \in Seq(Proposals)
    BY <1>13, <2>3 DEF Allow
  <2>5. ASSUME Verdict(i) \in {"under-orders", "advise", "lapsed"}
        PROVE  SaidKey(Verdict(i), i, fold.course) \in SaidKeys
    BY <2>5 DEF SaidKey, SaidKeys, Verdict, Gate, Folds
  <2>6. lastSaid' \in [SaidKeys -> Ticks \cup {Never}]
    BY <1>13, <2>5 DEF Allow, Say, Folds
  <2>7. QED
    BY <1>13, <2>2, <2>4, <2>6 DEF Allow
<1>14. CASE UNCHANGED vars
  BY <1>14 DEF vars
<1>15. QED
  BY <1>1, <1>2, <1>3, <1>4, <1>5, <1>6, <1>7, <1>8, <1>9, <1>10, <1>11, <1>12,
     <1>13, <1>14 DEF Next, Captain, Pilot

\* Every variable keeps its type.
THEOREM TypeCorrect == Spec => []TypeOK
  BY TypeInit, TypeStep, PTL DEF Spec

-----------------------------------------------------------------------------
(* The inductive invariant.                                                 *)

LEMMA GateInvInit == Init => GateInv
<1> SUFFICES ASSUME Init PROVE GateInv
  OBVIOUS
<1>1. TypeOK
  BY TypeInit
<1>2. NothingFromTheFuture
  BY DEF Init, NothingFromTheFuture, Never
<1>3. QED
  BY <1>1, <1>2 DEF Init, GateInv, FileHoldsSaved, FoldDialInForce, EmptyFile,
     OneProposalPerIntent, AnswersFollowProposals

\* Ticks, and the mark of what was never said, are numbers.
LEMMA TicksAreInts ==
    /\ \A t \in Ticks : t \in Int /\ 0 <= t
    /\ \A t \in Ticks \cup {Never} : t \in Int
  BY DEF Ticks, Never

\* What every step but the pilot's own leaves alone.
LEMMA RecordsKept ==
    ASSUME GateInv, UNCHANGED <<proposals, lastSaid, fold>>, clock' \in {clock, clock + 1},
           clock' \in Ticks
    PROVE  NothingFromTheFuture' /\ OneProposalPerIntent'
<1>1. clock <= clock' /\ clock \in Int /\ clock' \in Int
  BY DialGateAssumption DEF GateInv, TypeOK, Ticks
<1>2. fold' = fold /\ lastSaid' = lastSaid /\ proposals' = proposals
  OBVIOUS
<1>3. fold.tick \in Int
  BY TicksAreInts DEF GateInv, TypeOK, Folds
<1>4. \A k \in DOMAIN proposals : proposals[k].tick \in Int
  <2>1. \A k \in DOMAIN proposals : proposals[k] \in Proposals
    BY DEF GateInv, TypeOK
  <2>2. QED
    BY <2>1 DEF Proposals
<1>5. \A key \in SaidKeys : lastSaid[key] \in Int
  <2>1. \A key \in SaidKeys : lastSaid[key] \in Ticks \cup {Never}
    BY DEF GateInv, TypeOK
  <2>2. QED
    BY <2>1, TicksAreInts
<1>6. NothingFromTheFuture'
  <2>1. fold'.tick <= clock'
    BY <1>1, <1>2, <1>3 DEF GateInv, NothingFromTheFuture
  <2>2. \A k \in DOMAIN proposals' : proposals'[k].tick <= clock'
    BY <1>1, <1>2, <1>4 DEF GateInv, NothingFromTheFuture
  <2>3. \A key \in SaidKeys : lastSaid'[key] <= clock'
    BY <1>1, <1>2, <1>5 DEF GateInv, NothingFromTheFuture
  <2>4. QED
    BY <1>2, <2>1, <2>2, <2>3 DEF GateInv, NothingFromTheFuture
<1>7. QED
  BY <1>6 DEF GateInv, OneProposalPerIntent

\* A gate that proposes finds no proposal of that intent on file.
LEMMA ProposesOnce ==
    ASSUME NEW i \in Intents, Verdict(i) = "propose"
    PROVE  ~OnFile(proposals, i)
  BY DEF Verdict, Gate

\* One line more in a log of which everything is at most t.
LEMMA FilingKeepsOrder ==
    ASSUME GateInv, NEW i \in Intents, Allow(i)
    PROVE  /\ OneProposalPerIntent'
           /\ \A k \in DOMAIN proposals' : proposals'[k].tick <= fold.tick
           /\ DOMAIN proposals \subseteq DOMAIN proposals'
           /\ \A k \in DOMAIN proposals : proposals'[k] = proposals[k]
<1>1. proposals \in Seq(Proposals) /\ fold \in Folds
  BY DEF GateInv, TypeOK
<1>2. fold.tick \in Int
  BY <1>1 DEF Folds, Ticks
<1>3. \A k \in DOMAIN proposals : proposals[k].tick <= fold.tick
  BY DEF Allow, GateInv, NothingFromTheFuture
<1>4. CASE Verdict(i) = "propose"
  <2>1. proposals' = Append(proposals, NewProposal(i, fold.tick))
    BY <1>4 DEF Allow
  <2>2. NewProposal(i, fold.tick).tick = fold.tick /\ NewProposal(i, fold.tick).id = i
    BY DEF NewProposal
  <2>3. \A k \in DOMAIN proposals : proposals[k].id # i
    BY <1>4, ProposesOnce DEF OnFile, EntriesOf
  <2>4. DOMAIN proposals' = 1..(Len(proposals) + 1) /\ DOMAIN proposals = 1..Len(proposals)
        /\ Len(proposals) \in Nat
    BY <1>1, <2>1
  <2>5. /\ \A k \in DOMAIN proposals : proposals'[k] = proposals[k]
        /\ proposals'[Len(proposals) + 1] = NewProposal(i, fold.tick)
    BY <1>1, <2>1
  <2>6. \A k \in DOMAIN proposals' : k \in DOMAIN proposals \/ k = Len(proposals) + 1
    BY <2>4
  <2>7. OneProposalPerIntent'
    BY <2>2, <2>3, <2>5, <2>6 DEF GateInv, OneProposalPerIntent
  <2>8. \A k \in DOMAIN proposals' : proposals'[k].tick <= fold.tick
    BY <1>2, <1>3, <2>2, <2>5, <2>6
  <2>9. QED
    BY <2>4, <2>5, <2>7, <2>8
<1>5. CASE Verdict(i) # "propose"
  <2>1. proposals' = proposals
    BY <1>5 DEF Allow
  <2>2. QED
    BY <1>3, <2>1 DEF GateInv, OneProposalPerIntent
<1>6. QED
  BY <1>4, <1>5

LEMMA GateInvStep == GateInv /\ [Next]_vars => GateInv'
<1> USE AutonomyAssumption, DialGateAssumption, DialTypes
<1> SUFFICES ASSUME GateInv, [Next]_vars PROVE GateInv'
  OBVIOUS
<1>0. TypeOK /\ TypeOK'
  BY TypeStep DEF GateInv
<1>t. clock \in Ticks /\ clock' \in Ticks /\ fold.tick \in Ticks /\ Ticks \subseteq Nat
  BY <1>0 DEF TypeOK, Folds, Ticks
<1>1. ASSUME NEW ks \in Sets, CliSet(ks[1], ks[2]) PROVE GateInv'
  <2>1. NothingFromTheFuture' /\ OneProposalPerIntent'
    BY <1>1, <1>t, RecordsKept DEF CliSet
  <2>2. QED
    BY <1>0, <1>1, <2>1 DEF CliSet, GateInv, FileHoldsSaved, FoldDialInForce, AnswersFollowProposals
<1>2. ASSUME NEW d \in Puts, ServePut(d) PROVE GateInv'
  <2>1. NothingFromTheFuture' /\ OneProposalPerIntent'
    BY <1>2, <1>t, RecordsKept DEF ServePut
  <2>2. FileHoldsSaved'
    BY <1>2 DEF ServePut, FileHoldsSaved, EmptyFile
  <2>3. QED
    BY <1>0, <1>2, <2>1, <2>2 DEF ServePut, GateInv, FoldDialInForce, AnswersFollowProposals
<1>3. CASE OpenDial
  <2>1. NothingFromTheFuture' /\ OneProposalPerIntent'
    BY <1>3, <1>t, RecordsKept DEF OpenDial
  <2>2. FileHoldsSaved'
    BY <1>3 DEF OpenDial, FileHoldsSaved, EmptyFile
  <2>3. QED
    BY <1>0, <1>3, <2>1, <2>2 DEF OpenDial, GateInv, FoldDialInForce, AnswersFollowProposals
<1>4. ASSUME NEW w \in FrontEnds, WriteDial(w) PROVE GateInv'
  <2>1. NothingFromTheFuture' /\ OneProposalPerIntent'
    BY <1>4, <1>t, RecordsKept DEF WriteDial
  <2>2. dialFile' \in {WholeFile(writers[w].dial), GarbledFile}
    BY <1>4 DEF WriteDial
  <2>3. FileHoldsSaved'
    BY <1>4, <2>2 DEF WriteDial, FileHoldsSaved, WholeFile, GarbledFile
  <2>4. FoldDialInForce'
    BY <1>4 DEF WriteDial, GateInv, FoldDialInForce
  <2>5. QED
    BY <1>0, <1>4, <2>1, <2>3, <2>4 DEF WriteDial, GateInv, AnswersFollowProposals
<1>5. ASSUME NEW w \in FrontEnds, WriterDies(w) PROVE GateInv'
  <2>1. NothingFromTheFuture' /\ OneProposalPerIntent'
    BY <1>5, <1>t, RecordsKept DEF WriterDies
  <2>2. QED
    BY <1>0, <1>5, <2>1 DEF WriterDies, GateInv, FileHoldsSaved, FoldDialInForce, AnswersFollowProposals
<1>6. ASSUME NEW i \in Intents, NEW yes \in BOOLEAN, Answer(i, yes) PROVE GateInv'
  <2>1. NothingFromTheFuture' /\ OneProposalPerIntent'
    BY <1>6, <1>t, RecordsKept DEF Answer
  <2>2. AnswersFollowProposals'
    <3>1. approvals \in Seq(Approvals) /\ [id |-> i, approved |-> yes] \in Approvals
      BY <1>0 DEF TypeOK, Approvals
    <3>2. approvals' = Append(approvals, [id |-> i, approved |-> yes])
      BY <1>6 DEF Answer
    <3>3. \A k \in DOMAIN approvals' :
             \/ k \in DOMAIN approvals /\ approvals'[k] = approvals[k]
             \/ approvals'[k] = [id |-> i, approved |-> yes]
      BY <3>1, <3>2
    <3>4. \A k \in DOMAIN approvals' : OnFile(proposals, approvals'[k].id)
      BY <1>6, <3>3 DEF Answer, GateInv, AnswersFollowProposals
    <3>5. QED
      BY <1>6, <3>4 DEF Answer, AnswersFollowProposals, OnFile, EntriesOf
  <2>3. QED
    BY <1>0, <1>6, <2>1, <2>2 DEF Answer, GateInv, FileHoldsSaved, FoldDialInForce
<1>7. ASSUME NEW c \in Courses \cup {NoCourse}, TurnCourse(c) PROVE GateInv'
  <2>1. NothingFromTheFuture' /\ OneProposalPerIntent'
    BY <1>7, <1>t, RecordsKept DEF TurnCourse
  <2>2. QED
    BY <1>0, <1>7, <2>1 DEF TurnCourse, GateInv, FileHoldsSaved, FoldDialInForce, AnswersFollowProposals
<1>8. CASE Tick
  <2>1. NothingFromTheFuture' /\ OneProposalPerIntent'
    BY <1>8, <1>t, RecordsKept DEF Tick
  <2>2. QED
    BY <1>0, <1>8, <2>1 DEF Tick, GateInv, FileHoldsSaved, FoldDialInForce, AnswersFollowProposals
<1>9. CASE BeginFold
  <2>1. FoldDialInForce'
    BY <1>9 DEF BeginFold, store, GateInv, FoldDialInForce, FileHoldsSaved, ParseDial,
       TypeOK, Folds
  <2>2. fold'.tick = fold.tick /\ fold'.at = "dialled"
    BY <1>0, <1>9 DEF BeginFold, TypeOK, Folds
  <2>3. NothingFromTheFuture'
    BY <1>9, <2>2 DEF BeginFold, store, GateInv, NothingFromTheFuture
  <2>4. QED
    BY <1>0, <1>9, <2>1, <2>3 DEF BeginFold, store, GateInv, FileHoldsSaved,
       OneProposalPerIntent, AnswersFollowProposals, OnFile, EntriesOf
<1>10. CASE Survey
  <2>1. fold'.tick = clock /\ fold'.dial = fold.dial
    BY <1>0, <1>10 DEF Survey, TypeOK, Folds
  <2>2. FoldDialInForce'
    BY <1>10, <2>1 DEF Survey, store, GateInv, FoldDialInForce
  <2>3. NothingFromTheFuture'
    BY <1>10, <1>t, <2>1 DEF Survey, store, GateInv, NothingFromTheFuture
  <2>4. QED
    BY <1>0, <1>10, <2>2, <2>3 DEF Survey, store, GateInv, FileHoldsSaved,
       OneProposalPerIntent, AnswersFollowProposals, OnFile, EntriesOf
<1>11. CASE EndFold
  <2>1. fold'.tick = 0 /\ fold'.at = "idle"
    BY <1>0, <1>11 DEF EndFold, TypeOK, Folds
  <2>2. NothingFromTheFuture'
    BY <1>11, <1>t, <2>1 DEF EndFold, store, GateInv, NothingFromTheFuture
  <2>3. QED
    BY <1>0, <1>11, <2>1, <2>2 DEF EndFold, store, GateInv, FileHoldsSaved, FoldDialInForce,
       OneProposalPerIntent, AnswersFollowProposals, OnFile, EntriesOf
<1>12. CASE Restart
  <2>1. fold'.tick = 0 /\ fold'.at = "idle"
    BY <1>12 DEF Restart
  <2>2. \A key \in SaidKeys : lastSaid'[key] = Never
    BY <1>12 DEF Restart
  <2>3. NothingFromTheFuture'
    BY <1>12, <1>t, <2>1, <2>2 DEF Restart, store, GateInv, NothingFromTheFuture, Never
  <2>4. QED
    BY <1>0, <1>12, <2>1, <2>3 DEF Restart, store, GateInv, FileHoldsSaved, FoldDialInForce,
       OneProposalPerIntent, AnswersFollowProposals, OnFile, EntriesOf
<1>13. ASSUME NEW i \in Intents, Allow(i) PROVE GateInv'
  <2>1. \A key \in SaidKeys : lastSaid'[key] = lastSaid[key] \/ lastSaid'[key] = fold.tick
    BY <1>0, <1>13 DEF Allow, Say, TypeOK
  <2>2. fold' = fold /\ clock' = clock /\ fold.at = "deciding" /\ fold.tick <= clock
    BY <1>13 DEF Allow, GateInv, NothingFromTheFuture
  <2>3. \A key \in SaidKeys : lastSaid'[key] <= fold.tick
    BY <1>t, <2>1, <2>2 DEF GateInv, NothingFromTheFuture
  <2>4. \A k \in DOMAIN proposals' : proposals'[k].tick <= fold.tick
    BY <1>13, FilingKeepsOrder
  <2>5. \A k \in DOMAIN proposals' : proposals'[k].tick \in Int
    <3>1. \A k \in DOMAIN proposals' : proposals'[k] \in Proposals
      BY <1>0 DEF TypeOK
    <3>2. QED
      BY <3>1 DEF Proposals
  <2>6. \A key \in SaidKeys : lastSaid'[key] \in Int
    <3>1. \A key \in SaidKeys : lastSaid'[key] \in Ticks \cup {Never}
      BY <1>0 DEF TypeOK
    <3>2. QED
      BY <3>1, TicksAreInts
  <2>7. NothingFromTheFuture'
    <3>0. fold.tick \in Int /\ clock' \in Int /\ fold.tick <= clock'
      BY <1>t, <2>2, TicksAreInts
    <3>1. ASSUME NEW k \in DOMAIN proposals' PROVE proposals'[k].tick <= clock'
      <4>1. proposals'[k].tick <= fold.tick /\ proposals'[k].tick \in Int
        BY <2>4, <2>5
      <4>2. QED
        BY <3>0, <4>1
    <3>2. ASSUME NEW key \in SaidKeys PROVE lastSaid'[key] <= clock'
      <4>1. lastSaid'[key] <= fold.tick /\ lastSaid'[key] \in Int
        BY <2>3, <2>6
      <4>2. QED
        BY <3>0, <4>1
    <3>3. QED
      BY <2>2, <2>3, <2>4, <3>1, <3>2 DEF NothingFromTheFuture
  <2>8. AnswersFollowProposals'
    BY <1>13, FilingKeepsOrder DEF Allow, GateInv, AnswersFollowProposals, OnFile, EntriesOf
  <2>9. OneProposalPerIntent'
    BY <1>13, FilingKeepsOrder
  <2>10. QED
    BY <1>0, <1>13, <2>7, <2>8, <2>9 DEF Allow, GateInv, FileHoldsSaved, FoldDialInForce
<1>14. CASE UNCHANGED vars
  <2>1. NothingFromTheFuture' /\ OneProposalPerIntent'
    BY <1>14, <1>t, RecordsKept DEF vars
  <2>2. QED
    BY <1>0, <1>14, <2>1 DEF vars, GateInv, FileHoldsSaved, FoldDialInForce, AnswersFollowProposals
<1>15. QED
  BY <1>1, <1>2, <1>3, <1>4, <1>5, <1>6, <1>7, <1>8, <1>9, <1>10, <1>11, <1>12,
     <1>13, <1>14 DEF Next, Captain, Pilot

\* The inductive invariant holds throughout.
THEOREM GateInvCorrect == Spec => []GateInv
  BY GateInvInit, GateInvStep, PTL DEF Spec

-----------------------------------------------------------------------------
(* The safety properties.                                                   *)

\* A proposal is put to the captain once: no second one for the same intent.
THEOREM OneProposal == Spec => []OneProposalPerIntent
<1>1. GateInv => OneProposalPerIntent
  BY DEF GateInv
<1>2. QED
  BY <1>1, GateInvCorrect, PTL

\* What the bridge shows of a proposal is what the gate makes of it.
THEOREM BridgeAndGate == Spec => []BridgeAgreesWithGate
<1>1. GateInv => BridgeAgreesWithGate
  <2> SUFFICES ASSUME GateInv, NEW k \in DOMAIN proposals
               PROVE  LET i == proposals[k].id
                          g == Gate(fold.dial, i, clock, proposals, approvals)
                      IN  LevelOf(fold.dial, SurfaceOf[i]) = "confirm" =>
                            CASE BridgeState(k, clock) = "open"     -> g = "proposed"
                              [] BridgeState(k, clock) = "approved" -> g = "act"
                              [] OTHER                              -> g = "lapsed"
    BY DEF BridgeAgreesWithGate
  <2> DEFINE i == proposals[k].id
  <2>1. k \in EntriesOf(proposals, i)
    BY DEF EntriesOf
  <2>2. OnFile(proposals, i) /\ proposals \in Seq(Proposals)
    BY <2>1 DEF OnFile, GateInv, TypeOK
  <2>3. PICK j \in DOMAIN proposals : proposals[j] = Newest(proposals, i) /\ proposals[j].id = i
    BY <2>2, NewestIsLast
  <2>4. j = k
    BY <2>3 DEF GateInv, OneProposalPerIntent
  <2>5. Newest(proposals, i) = proposals[k]
    BY <2>3, <2>4
  <2>6. clock \in Int /\ proposals[k].expires \in Int
    <3>1. proposals[k] \in Proposals
      BY <2>2
    <3>2. clock \in Ticks
      BY DEF GateInv, TypeOK
    <3>3. QED
      BY <3>1, <3>2, TicksAreInts DEF Proposals
  <2>7. clock > proposals[k].expires <=> ~(clock <= proposals[k].expires)
    BY <2>6
  <2>8. CASE OnFile(approvals, i)
    BY <2>8 DEF BridgeState, Gate
  <2>9. CASE ~OnFile(approvals, i)
    BY <2>2, <2>5, <2>7, <2>9 DEF BridgeState, Gate
  <2>10. QED
    BY <2>8, <2>9
<1>2. QED
  BY <1>1, GateInvCorrect, PTL

\* Only the gate rules.
LEMMA OnlyTheGateRules ==
    ASSUME [Next]_vars
    PROVE  \/ \E i \in Intents : Allow(i)
           \/ ruling' = NoRuling
           \/ UNCHANGED vars
  BY DEF Next, Captain, Pilot, CliSet, ServePut, OpenDial, WriteDial, WriterDies, Answer,
     TurnCourse, Tick, BeginFold, Survey, EndFold, Restart

\* What the gate just ruled is what allow answered.
LEMMA TheRuling ==
    ASSUME NEW i \in Intents, Allow(i)
    PROVE  /\ ruling'.intent = i /\ ruling'.tick = fold.tick /\ ruling'.course = fold.course
           /\ ruling'.level = LevelOf(fold.dial, SurfaceOf[i])
           /\ ruling'.verdict = Verdict(i)
           /\ fold' = fold /\ approvals' = approvals /\ inForce' = inForce
           /\ fold.at = "deciding"
           /\ Verdict(i) # "propose" => proposals' = proposals
  BY DEF Allow

\* An act on a surface at confirm was proposed, and the last word on it was yes.
THEOREM Consent == Spec => []AskedAndAnswered
<1>1. Init => AskedAndAnswered
  BY DEF Init, AskedAndAnswered, NoRuling
<1>2. ASSUME GateInv, AskedAndAnswered, [Next]_vars PROVE AskedAndAnswered'
  <2>1. ASSUME NEW i \in Intents, Allow(i),
               Verdict(i) = "act", LevelOf(fold.dial, SurfaceOf[i]) = "confirm"
        PROVE  AskedAndAnswered'
    <3>1. OnFile(approvals, i) /\ Newest(approvals, i).approved
      BY <2>1 DEF Verdict, Gate
    <3>2. \E k \in DOMAIN approvals :
             /\ approvals[k] = Newest(approvals, i)
             /\ approvals[k].id = i
             /\ \A j \in DOMAIN approvals : j > k => approvals[j].id # i
      <4>1. approvals \in Seq(Approvals)
        BY <1>2 DEF GateInv, TypeOK
      <4>2. QED
        BY <3>1, <4>1, NewestIsLast
    <3>3. PICK n \in DOMAIN approvals : approvals[n].id = i
      BY <3>2
    <3>4. OnFile(proposals, i)
      BY <1>2, <3>3 DEF GateInv, AnswersFollowProposals
    <3>5. \E k \in DOMAIN proposals : proposals[k].id = i /\ proposals[k].tick <= fold.tick
      BY <1>2, <2>1, <3>4, TheRuling DEF OnFile, EntriesOf, GateInv, NothingFromTheFuture
    <3>6. proposals' = proposals /\ approvals' = approvals
      BY <2>1, TheRuling
    <3>7. QED
      BY <2>1, <3>1, <3>2, <3>5, <3>6, TheRuling DEF AskedAndAnswered
  <2>2. ASSUME NEW i \in Intents, Allow(i),
               ~(Verdict(i) = "act" /\ LevelOf(fold.dial, SurfaceOf[i]) = "confirm")
        PROVE  AskedAndAnswered'
    BY <2>2, TheRuling DEF AskedAndAnswered
  <2>3. CASE ruling' = NoRuling
    BY <2>3 DEF AskedAndAnswered, NoRuling
  <2>4. CASE UNCHANGED vars
    BY <1>2, <2>4 DEF vars, AskedAndAnswered
  <2>5. QED
    BY <1>2, <2>1, <2>2, <2>3, <2>4, OnlyTheGateRules
<1>3. QED
  BY <1>1, <1>2, GateInvCorrect, PTL DEF Spec

\* An act let through as auto was granted by the default dial or by one saved during the
\* fold, whatever a reader caught in the file.
THEOREM Granted == Spec => []NothingBeyondWhatWasSaid
<1>1. Init => NothingBeyondWhatWasSaid
  BY DEF Init, NothingBeyondWhatWasSaid, NoRuling
<1>2. ASSUME GateInv, NothingBeyondWhatWasSaid, [Next]_vars PROVE NothingBeyondWhatWasSaid'
  <2>1. ASSUME NEW i \in Intents, Allow(i) PROVE NothingBeyondWhatWasSaid'
    <3>1. fold.dial \in inForce \cup {DefaultDial}
      BY <1>2, <2>1, TheRuling DEF GateInv, FoldDialInForce
    <3>2. SurfaceOf[i] \in Surfaces
      BY AutonomyAssumption
    <3>3. LevelOf(fold.dial, SurfaceOf[i]) = "auto" =>
             SurfaceOf[i] \in UNION {AutoSurfaces(d) : d \in inForce \cup {DefaultDial}}
      BY <3>1, <3>2 DEF AutoSurfaces
    <3>4. QED
      BY <2>1, <3>3, TheRuling DEF NothingBeyondWhatWasSaid
  <2>2. CASE ruling' = NoRuling
    BY <2>2 DEF NothingBeyondWhatWasSaid, NoRuling
  <2>3. CASE UNCHANGED vars
    BY <1>2, <2>3 DEF vars, NothingBeyondWhatWasSaid
  <2>4. QED
    BY <1>2, <2>1, <2>2, <2>3, OnlyTheGateRules
<1>3. QED
  BY <1>1, <1>2, GateInvCorrect, PTL DEF Spec

\* After Say, the line was journaled within the window.
LEMMA SaidRecently ==
    ASSUME GateInv, NEW key \in SaidKeys, fold.at = "deciding", Say(key, fold.tick)
    PROVE  lastSaid'[key] \in Recently(fold.tick)
<1>1. lastSaid[key] \in Ticks \cup {Never} /\ fold.tick \in Ticks
  BY DEF GateInv, TypeOK, Folds
<1>2. AdviceWindow \in Nat /\ Ticks \subseteq Nat
  BY DialGateAssumption DEF Ticks
<1>3. lastSaid[key] <= fold.tick
  BY DEF GateInv, NothingFromTheFuture
<1>4. CASE lastSaid[key] = Never \/ fold.tick - lastSaid[key] > AdviceWindow
  <2>1. lastSaid'[key] = fold.tick
    BY <1>4 DEF Say, GateInv, TypeOK
  <2>2. fold.tick \in Nat /\ fold.tick - AdviceWindow <= fold.tick
    <3>1. fold.tick \in Nat
      BY <1>1, <1>2
    <3>2. QED
      BY <1>2, <3>1
  <2>3. QED
    BY <1>2, <2>1, <2>2 DEF Recently
<1>5. CASE ~(lastSaid[key] = Never \/ fold.tick - lastSaid[key] > AdviceWindow)
  <2>1. lastSaid'[key] = lastSaid[key]
    BY <1>5 DEF Say
  <2>2. lastSaid[key] \in Ticks /\ lastSaid[key] \in Nat /\ fold.tick \in Nat
    BY <1>1, <1>2, <1>5
  <2>3. fold.tick - AdviceWindow <= lastSaid[key]
    BY <1>2, <1>5, <2>2
  <2>4. QED
    BY <1>2, <1>3, <2>1, <2>2, <2>3 DEF Recently
<1>6. QED
  BY <1>4, <1>5

\* The gate never withholds an act in silence.
THEOREM Spoken == Spec => []NeverSilent
<1>1. Init => NeverSilent
  BY DEF Init, NeverSilent, NoRuling
<1>2. ASSUME GateInv, NeverSilent, [Next]_vars PROVE NeverSilent'
  <2>1. ASSUME NEW i \in Intents, Allow(i) PROVE NeverSilent'
    <3> DEFINE v == Verdict(i)
    <3>1. /\ ruling'.intent = i /\ ruling'.tick = fold.tick /\ ruling'.course = fold.course
          /\ ruling'.verdict = v /\ fold.at = "deciding"
          /\ v # "propose" => proposals' = proposals
      BY <2>1, TheRuling
    <3>2. TypeOK /\ fold.tick \in Ticks /\ Ticks \subseteq Nat
          /\ fold.course \in Courses \cup {NoCourse} /\ ProposalTTL \in Nat
      BY <1>2, AutonomyAssumption DEF GateInv, TypeOK, Folds, Ticks
    <3>3. CASE v = "propose"
      <4>1. proposals' = Append(proposals, NewProposal(i, fold.tick))
        BY <2>1, <3>3 DEF Allow
      <4>2. Len(proposals) + 1 \in DOMAIN proposals'
            /\ proposals'[Len(proposals) + 1] = NewProposal(i, fold.tick)
        BY <3>2, <4>1 DEF TypeOK
      <4>3. fold.tick <= NewProposal(i, fold.tick).expires /\ NewProposal(i, fold.tick).id = i
        <5>1. NewProposal(i, fold.tick).expires = fold.tick + ProposalTTL
          BY DEF NewProposal
        <5>2. fold.tick \in Nat
          BY <3>2
        <5>3. QED
          BY <3>2, <5>1, <5>2 DEF NewProposal
      <4>4. \E k \in DOMAIN proposals' :
               proposals'[k].id = i /\ fold.tick <= proposals'[k].expires
        BY <4>2, <4>3
      <4>5. QED
        BY <3>1, <3>3, <4>4 DEF NeverSilent
    <3>4. CASE v = "proposed"
      <4>1. OnFile(proposals, i) /\ fold.tick <= Newest(proposals, i).expires
        BY <3>4 DEF Verdict, Gate
      <4>2. \E k \in DOMAIN proposals :
               proposals[k].id = i /\ fold.tick <= proposals[k].expires
        BY <3>2, <4>1, NewestIsLast DEF TypeOK
      <4>3. QED
        BY <3>1, <3>4, <4>2 DEF NeverSilent
    <3>5. CASE v = "under-orders"
      <4>1. Say(<<"under-orders", fold.course>>, fold.tick)
        BY <2>1, <3>5 DEF Allow, SaidKey
      <4>2. fold.course \in Courses
        BY <3>2, <3>5 DEF Verdict, Gate
      <4>3. <<"under-orders", fold.course>> \in SaidKeys
        BY <4>2 DEF SaidKeys
      <4>4. QED
        BY <3>1, <3>5, <4>1, <4>3, SaidRecently, <1>2 DEF NeverSilent
    <3>6. CASE v = "advise"
      <4>1. Say(<<"advice", i>>, fold.tick) /\ <<"advice", i>> \in SaidKeys
        BY <2>1, <3>6 DEF Allow, SaidKey, SaidKeys
      <4>2. QED
        BY <3>1, <3>6, <4>1, SaidRecently, <1>2 DEF NeverSilent
    <3>7. CASE v = "lapsed"
      <4>1. Say(<<"lapsed", i>>, fold.tick) /\ <<"lapsed", i>> \in SaidKeys
        BY <2>1, <3>7 DEF Allow, SaidKey, SaidKeys
      <4>2. QED
        BY <3>1, <3>7, <4>1, SaidRecently, <1>2 DEF NeverSilent
    <3>8. CASE v = "act"
      BY <3>1, <3>8 DEF NeverSilent
    <3>9. QED
      BY <3>2, <3>3, <3>4, <3>5, <3>6, <3>7, <3>8, VerdictType DEF Verdicts
  <2>2. CASE ruling' = NoRuling
    BY <2>2 DEF NeverSilent, NoRuling
  <2>3. CASE UNCHANGED vars
    BY <1>2, <2>3 DEF vars, NeverSilent, Recently
  <2>4. QED
    BY <1>2, <2>1, <2>2, <2>3, OnlyTheGateRules
<1>3. QED
  BY <1>1, <1>2, GateInvCorrect, PTL DEF Spec

-----------------------------------------------------------------------------
(* Outfitting: sets of naturals.                                            *)

\* A set that is climbed holds every natural.
LEMMA Climb ==
    ASSUME NEW G, 0 \in G, \A n \in Nat : n \in G => n + 1 \in G
    PROVE  \A n \in Nat : n \in G
<1> DEFINE T == {n \in Nat : n \notin G}
<1>1. CASE T = {}
  BY <1>1
<1>2. CASE T # {}
  <2>1. PICK n \in T : \A m \in T : n <= m
    BY <1>2, Least
  <2>2. n # 0 /\ n - 1 \in Nat /\ ~(n <= n - 1)
    BY <2>1
  <2>3. n - 1 \in G
    BY <2>1, <2>2
  <2>4. QED
    BY <2>2, <2>3
<1>3. QED
  BY <1>1, <1>2

LEMMA LesserOf ==
    ASSUME NEW a \in Int, NEW b \in Int
    PROVE  Min({a, b}) = IF a <= b THEN a ELSE b
<1>1. CASE a <= b
  <2>1. a \in {a, b} /\ \A y \in {a, b} : a <= y
    BY <1>1
  <2>2. QED
    BY <1>1, <2>1 DEF Min
<1>2. CASE ~(a <= b)
  <2>1. b \in {a, b} /\ \A y \in {a, b} : b <= y
    BY <1>2
  <2>2. QED
    BY <1>2, <2>1 DEF Min
<1>3. QED
  BY <1>1, <1>2

LEMMA GreaterOf ==
    ASSUME NEW a \in Int, NEW b \in Int
    PROVE  Max({a, b}) = IF a <= b THEN b ELSE a
<1>1. CASE a <= b
  <2>1. b \in {a, b} /\ \A y \in {a, b} : b >= y
    BY <1>1
  <2>2. QED
    BY <1>1, <2>1 DEF Max
<1>2. CASE ~(a <= b)
  <2>1. a \in {a, b} /\ \A y \in {a, b} : a >= y
    BY <1>2
  <2>2. QED
    BY <1>2, <2>1 DEF Max
<1>3. QED
  BY <1>1, <1>2

LEMMA LeastOfFour ==
    ASSUME NEW a \in Int, NEW b \in Int, NEW c \in Int, NEW d \in Int
    PROVE  /\ Min({a, b, c, d}) \in Int
           /\ Min({a, b, c, d}) <= a /\ Min({a, b, c, d}) <= d
<1> DEFINE S == {a, b, c, d}
<1>1. \E x \in S : \A y \in S : x <= y
  <2>1. PICK l \in {a, b} : l <= a /\ l <= b
    OBVIOUS
  <2>2. PICK r \in {c, d} : r <= c /\ r <= d
    OBVIOUS
  <2>3. PICK x \in {l, r} : x <= l /\ x <= r
    OBVIOUS
  <2>4. x \in S /\ x <= a /\ x <= b /\ x <= c /\ x <= d
    BY <2>1, <2>2, <2>3
  <2>5. QED
    BY <2>4
<1>2. QED
  BY <1>1 DEF Min

\* The most of a finite set of naturals.
LEMMA MostOf ==
    ASSUME NEW S \in SUBSET Nat, IsFiniteSet(S), S # {}
    PROVE  Max(S) \in S /\ \A x \in S : x <= Max(S)
<1> DEFINE n == Cardinality(S)
<1>1. n \in Nat /\ ExistsBijection(1..n, S)
  BY FS_CardinalityType
<1> HIDE DEF n
<1>2. PICK f : f \in [1..n -> S] /\ \A x \in S : \E k \in 1..n : f[k] = x
  BY <1>1 DEF ExistsBijection, Bijection, Surjection
<1> DEFINE Under(m) == \E top \in Nat : \A k \in 1..m : f[k] <= top
           G == {m \in Nat : m <= n => Under(m)}
<1>3. 0 \in G
  OBVIOUS
<1>4. ASSUME NEW m \in Nat, m \in G PROVE m + 1 \in G
  <2>1. CASE m + 1 <= n
    <3>0. Under(m)
      <4> HIDE DEF Under
      <4>1. m <= n
        BY <1>1, <2>1
      <4>2. QED
        BY <1>4, <4>1
    <3>1. PICK top \in Nat : \A k \in 1..m : f[k] <= top
      BY <3>0
    <3>2. m + 1 \in 1..n /\ f[m + 1] \in Nat /\ \A k \in 1..m : f[k] \in Nat
      <4>1. m + 1 \in 1..n /\ \A k \in 1..m : k \in 1..n
        BY <1>1, <2>1
      <4>2. QED
        BY <1>2, <4>1
    <3>3. PICK more \in Nat : top <= more /\ f[m + 1] <= more
      BY <3>2
    <3>4. \A k \in 1..(m + 1) : k \in 1..m \/ k = m + 1
      OBVIOUS
    <3>5. \A k \in 1..(m + 1) : f[k] <= more
      BY <3>1, <3>2, <3>3, <3>4
    <3>6. Under(m + 1)
      BY <3>3, <3>5
    <3> HIDE DEF Under
    <3>7. QED
      BY <3>6
  <2>2. QED
    BY <2>1
<1>5. n \in G
  <2> HIDE DEF G
  <2>1. QED
    BY <1>1, <1>3, <1>4, Climb
<1>6. PICK top \in Nat : \A x \in S : x <= top
  <2>1. Under(n)
    <3> HIDE DEF Under
    <3>1. QED
      BY <1>1, <1>5
  <2>2. QED
    BY <1>2, <2>1
<1> DEFINE T == {top - x : x \in S}
<1>7. T \in SUBSET Nat /\ T # {}
  <2>1. \A x \in S : top - x \in Nat
    BY <1>6
  <2>2. QED
    BY <2>1
<1>8. PICK t \in T : \A y \in T : t <= y
  BY <1>7, Least
<1>9. PICK m \in S : t = top - m
  BY DEF T
<1>10. \A x \in S : top - x \in T /\ x \in Nat
  OBVIOUS
<1>11. \A x \in S : m >= x
  BY <1>8, <1>9, <1>10
<1>12. QED
  BY <1>11 DEF Max

\* What many of a kind come to.
LEMMA TimesGrows ==
    ASSUME NEW a \in Nat, NEW b \in Nat, NEW c \in Nat, a <= b
    PROVE  a * c <= b * c /\ a * c \in Nat /\ b * c \in Nat
<1>1. PICK d \in Nat : b = a + d
  BY b - a \in Nat
<1>2. b * c = a * c + d * c /\ d * c \in Nat
  BY <1>1
<1>3. QED
  BY <1>2

\* As many as a sum buys cost no more than the sum.
LEMMA BuysWithin ==
    ASSUME NEW sum \in Nat, NEW ask \in Nat \ {0}, NEW units \in Nat, units <= sum \div ask
    PROVE  units * ask <= sum /\ units * ask \in Nat
<1>1. sum \div ask \in Nat /\ (sum \div ask) * ask <= sum
  OBVIOUS
<1>2. units * ask <= (sum \div ask) * ask /\ units * ask \in Nat
  BY <1>1, TimesGrows
<1>3. QED
  BY <1>1, <1>2

-----------------------------------------------------------------------------
(* The inductive invariant.                                                 *)

Ships == [credits : 0..Cap, debt : 0..MostDebt, fittings : SUBSET Fittings, rung : 1..5,
          engine : 0..Berths, others : 0..Berths, skill : {LowSkill, 10000}, on : BOOLEAN,
          jammed : BOOLEAN, hopper : 0..MostLoaf, loaf : 0..MostLoaf]

\* What a fold of the exchange reads and leaves.
Books == {st \in [ship : Ships, owes : [Sisters -> 0..MostDebt]] : Aboard(st.ship) <= Berths}

\* What an act in flight leaves of the purse, once it is paid.
Judged(a) ==
    /\ a.verb = "refit" => ship.credits - Price[a.fitting] >= Reserve
    /\ a.verb = "expandFrame" => ship.credits - FrameCost >= Reserve
    /\ a.verb = "payLease" => ship.credits - a.amount >= Reserve
    /\ a.verb = "hire" => ship.credits - HireCost >= HoldBack
    /\ a.verb = "buy" => ship.credits - a.units * a.ask >= Reserve

YardVerbs == {"refit", "expandFrame", "payLease"}

\* Two acts are in flight when the answer to the first, of the outfitting, was lost.
InFlight ==
    /\ queue \in Seq(Acts) /\ Len(queue) <= 2
    /\ \A i \in 1..Len(queue) : queue[i].verb = "buy" => ship.loaf = 0
    /\ Len(queue) = 2 => queue[1].verb \in YardVerbs /\ shared
    /\ \A i \in 1..Len(queue) : ~shared => Judged(queue[i])

Hull == ship \in Ships /\ owes \in [Sisters -> 0..MostDebt] /\ Aboard(ship) <= Berths

Flags == /\ wait \in BOOLEAN /\ outfits \in BOOLEAN /\ crews \in BOOLEAN
         /\ folded \in BOOLEAN /\ shared \in BOOLEAN /\ day \in 0..(TicksPerDay - 1)
         /\ hands \in 0..MaxHand /\ faults \in 0..MaxFaults

Promises == [days : 0..ReserveDays, daily : Nat]

Kept == promise \in Promises /\ eaten \in Nat /\ ChargesMet

OutfitInv == Hull /\ Flags /\ InFlight /\ Kept

-----------------------------------------------------------------------------
(* Types of the constants and of what is computed from them.                *)

LEMMA Figures ==
    /\ FrameCost \in Nat \ {0} /\ HireCost \in Nat \ {0} /\ Wage \in Nat \ {0}
    /\ LoafADay \in Nat \ {0} /\ Berths \in Nat \ {0} /\ TicksPerDay \in Nat \ {0}
    /\ Cap \in Nat /\ Mortgage \in Nat /\ Service \in Nat /\ TankPrice \in Nat /\ Meal \in Nat
    /\ LowSkill \in Nat /\ MaxHand \in Nat /\ MaxFaults \in Nat
    /\ Price \in [Fittings -> Nat \ {0}]
    /\ Sisters \subseteq Nat \ {0} /\ Rooms \subseteq Nat /\ Incomes \subseteq Nat /\ Spends \subseteq Nat
    /\ Purses \subseteq 0..Cap /\ StartRung \in 1..5 /\ Fitted \subseteq Fittings
    /\ \A q \in Quotes : \A of \in q : of.ask \in Nat \ {0} /\ of.units \in Nat \ {0}
<1>1. /\ FrameCost \in Nat \ {0} /\ HireCost \in Nat \ {0} /\ Wage \in Nat \ {0}
      /\ LoafADay \in Nat \ {0} /\ Berths \in Nat \ {0} /\ TicksPerDay \in Nat \ {0}
  BY OutfitAssumption
<1>2. /\ Cap \in Nat /\ Mortgage \in Nat /\ Service \in Nat /\ TankPrice \in Nat /\ Meal \in Nat
      /\ LowSkill \in Nat /\ MaxHand \in Nat /\ MaxFaults \in Nat
  BY OutfitAssumption
<1>3. /\ Price \in [Fittings -> Nat \ {0}] /\ Purses \subseteq 0..Cap /\ StartRung \in 1..5
      /\ Fitted \subseteq Fittings /\ Sisters \subseteq Nat \ {0}
  BY OutfitAssumption
<1>4. Rooms \subseteq Nat /\ Incomes \subseteq Nat /\ Spends \subseteq Nat
  BY OutfitAssumption
<1>5. \A q \in Quotes : \A of \in q : of.ask \in Nat \ {0} /\ of.units \in Nat \ {0}
  BY OutfitAssumption
<1>6. QED
  BY <1>1, <1>2, <1>3, <1>4, <1>5

LEMMA Amounts ==
    /\ MostDebt \in Nat \ {0} /\ Debts \subseteq 0..MostDebt
    /\ MostLoaf \in Nat
<1>0. Debts \cup Rooms \cup Incomes \cup Spends \subseteq Nat
  BY Zenon, OutfitAssumption
<1>1. Debts \cup {1} \in SUBSET Nat /\ Debts \cup {1} # {}
  BY <1>0
<1>2. IsFiniteSet(Debts \cup {1})
  BY OutfitAssumption, FS_AddElement
<1>3. MostDebt \in Nat /\ \A x \in Debts \cup {1} : x <= MostDebt
  BY <1>1, <1>2, MostOf DEF MostDebt
<1>4. Debts \subseteq 0..MostDebt /\ MostDebt # 0
  BY <1>1, <1>3
<1>5. StockDays * LoafADay * Berths \in Nat
  BY Figures DEF StockDays
<1>6. QED
  BY <1>3, <1>4, <1>5 DEF MostLoaf

-----------------------------------------------------------------------------
(* What the exchange makes of the queue.                                    *)

LEMMA QueueFolds ==
    ASSUME queue \in Seq(Acts)
    PROVE  \E st : /\ AfterQueue = st[Len(queue)] /\ st[0] = [ship |-> ship, owes |-> owes]
                   /\ \A k \in 1..Len(queue) : st[k] = Applied(st[k - 1], queue[k])
<1> DEFINE n == Len(queue)
           s0 == [ship |-> ship, owes |-> owes]
           One(f, k) == Applied(f[k - 1], queue[k])
           Body(f, m) == [k \in 0..m |-> IF k = 0 THEN s0 ELSE One(f, k)]
           G == {m \in Nat : \E f : f = Body(f, m)}
<1>0. n \in Nat
  BY LenProperties
<1>1. 0 \in G
  <2> DEFINE f == [k \in 0..0 |-> s0]
  <2> HIDE DEF s0
  <2>1. f = Body(f, 0)
    OBVIOUS
  <2>2. QED
    BY <2>1
<1>2. ASSUME NEW m \in Nat, m \in G PROVE m + 1 \in G
  <2>1. PICK f : f = Body(f, m)
    BY <1>2
  <2> DEFINE g == [k \in 0..(m + 1) |-> IF k <= m THEN f[k] ELSE One(f, k)]
  <2> HIDE DEF s0
  <2>2. ASSUME NEW k \in 0..m PROVE g[k] = f[k] /\ f[k] = IF k = 0 THEN s0 ELSE One(f, k)
    <3> HIDE DEF One
    <3>1. k \in 0..(m + 1) /\ k <= m
      OBVIOUS
    <3>2. QED
      BY <2>1, <3>1
  <2>3. ASSUME NEW k \in 0..(m + 1) PROVE g[k] = IF k = 0 THEN s0 ELSE One(g, k)
    <3>1. k = 0 \/ k - 1 \in 0..m
      OBVIOUS
    <3>2. k # 0 => g[k - 1] = f[k - 1]
      BY <3>1, <2>2
    <3>3. k # 0 => One(g, k) = One(f, k)
      BY <3>2
    <3> HIDE DEF One
    <3>4. CASE k <= m
      BY <2>2, <3>3, <3>4
    <3>5. CASE k = m + 1
      BY <3>3, <3>5
    <3>6. QED
      BY <3>4, <3>5
  <2> HIDE DEF One
  <2>4. g = Body(g, m + 1)
    BY <2>3
  <2> HIDE DEF g
  <2>5. QED
    BY <2>4
<1>3. n \in G
  <2> HIDE DEF G, n
  <2>1. QED
    BY <1>0, <1>1, <1>2, Climb
<1> DEFINE st == CHOOSE f : f = Body(f, n)
<1>4. st = Body(st, n)
  BY <1>3
<1>5. AfterQueue = st[n]
  BY DEF AfterQueue
<1>6. st[0] = s0 /\ \A k \in 1..n : st[k] = One(st, k)
  <2> HIDE DEF One, st, s0, n
  <2>1. QED
    BY <1>0, <1>4
<1> HIDE DEF st
<1>7. QED
  BY <1>5, <1>6

\* Of a queue of at most two.
LEMMA AfterFew ==
    ASSUME queue \in Seq(Acts), Len(queue) <= 2
    PROVE  LET s0 == [ship |-> ship, owes |-> owes]
           IN /\ Len(queue) = 0 => AfterQueue = s0
              /\ Len(queue) = 1 => AfterQueue = Applied(s0, queue[1])
              /\ Len(queue) = 2 => AfterQueue = Applied(Applied(s0, queue[1]), queue[2])
<1> DEFINE s0 == [ship |-> ship, owes |-> owes]
<1>1. PICK st : /\ AfterQueue = st[Len(queue)] /\ st[0] = s0
                /\ \A k \in 1..Len(queue) : st[k] = Applied(st[k - 1], queue[k])
  BY QueueFolds
<1> HIDE DEF s0
<1>2. Len(queue) >= 1 => st[1] = Applied(s0, queue[1])
  <2>1. Len(queue) >= 1 => 1 \in 1..Len(queue) /\ 1 - 1 = 0
    BY LenProperties
  <2>2. QED
    BY <1>1, <2>1
<1>3. Len(queue) = 2 => st[2] = Applied(st[1], queue[2])
  <2>1. Len(queue) = 2 => 2 \in 1..Len(queue) /\ 2 - 1 = 1
    BY LenProperties
  <2>2. QED
    BY <1>1, <2>1
<1>4. Len(queue) = 0 => AfterQueue = s0
  BY <1>1
<1>5. Len(queue) = 1 => AfterQueue = Applied(s0, queue[1])
  BY <1>1, <1>2
<1>6. Len(queue) = 2 => AfterQueue = Applied(Applied(s0, queue[1]), queue[2])
  <2>1. Len(queue) = 2 => st[1] = Applied(s0, queue[1])
    BY <1>2
  <2>2. QED
    BY <1>1, <1>3, <2>1
<1>7. QED
  BY <1>4, <1>5, <1>6 DEF s0

LEMMA ActTypes ==
    ASSUME NEW a \in Acts
    PROVE  /\ a.verb \in {"refit", "expandFrame", "hire", "galleyOn", "service", "payLease", "stock", "buy"}
           /\ a.verb = "refit" => a.fitting \in Fittings
           /\ a.verb = "payLease" => a.amount \in 1..MostDebt /\ a.hull \in Sisters \cup {0}
           /\ a.verb = "stock" => a.units \in 1..MostLoaf
           /\ a.verb = "buy" => a.units \in 1..MostLoaf /\ a.ask \in Nat
BY DEF Acts

\* What an act costs is paid in whole credits, and no more of a balance than it is.
LEMMA Costs ==
    ASSUME NEW st \in Books, NEW a \in Acts
    PROVE  /\ Cost(st, a) \in Nat
           /\ a.verb = "refit" => Cost(st, a) = Price[a.fitting]
           /\ a.verb = "expandFrame" => Cost(st, a) = FrameCost
           /\ a.verb = "hire" => Cost(st, a) = HireCost
           /\ a.verb = "buy" => Cost(st, a) = a.units * a.ask
           /\ a.verb = "payLease" => /\ Balance(st, a.hull) \in 0..MostDebt
                                     /\ Cost(st, a) <= a.amount
                                     /\ Cost(st, a) <= Balance(st, a.hull)
           /\ a.verb \in {"galleyOn", "service", "stock"} => Cost(st, a) = 0
<1>1. CASE a.verb = "refit"
  <2>1. Cost(st, a) = Price[a.fitting] /\ a.fitting \in Fittings
    BY <1>1, ActTypes DEF Cost
  <2>2. QED
    BY <1>1, <2>1, Figures
<1>2. CASE a.verb = "expandFrame"
  BY <1>2, Figures DEF Cost
<1>3. CASE a.verb = "hire"
  BY <1>3, Figures DEF Cost
<1>4. CASE a.verb = "buy"
  <2>1. Cost(st, a) = a.units * a.ask /\ a.units \in Nat /\ a.ask \in Nat
    BY <1>4, ActTypes, Amounts DEF Cost
  <2>2. QED
    BY <1>4, <2>1
<1>5. CASE a.verb = "payLease"
  <2>1. Cost(st, a) = Min({a.amount, Balance(st, a.hull)})
    BY <1>5 DEF Cost
  <2>2. a.amount \in Nat /\ a.hull \in Sisters \cup {0}
    BY <1>5, ActTypes, Amounts
  <2>3. Balance(st, a.hull) \in 0..MostDebt
    <3>1. st.ship.debt \in 0..MostDebt /\ st.owes \in [Sisters -> 0..MostDebt]
      BY DEF Books, Ships
    <3>2. QED
      BY <2>2, <3>1 DEF Balance
  <2>4. Balance(st, a.hull) \in Nat
    BY <2>3, Amounts
  <2>5. Cost(st, a) \in Nat /\ Cost(st, a) <= a.amount /\ Cost(st, a) <= Balance(st, a.hull)
    BY <2>1, <2>2, <2>4, LesserOf
  <2>6. QED
    BY <1>5, <2>3, <2>5
<1>6. CASE a.verb \in {"galleyOn", "service", "stock"}
  BY <1>6 DEF Cost
<1>7. QED
  BY <1>1, <1>2, <1>3, <1>4, <1>5, <1>6, ActTypes

LEMMA Lamps ==
    ASSUME NEW s \in Ships
    PROVE  [s EXCEPT !.on = TRUE] \in Ships /\ [s EXCEPT !.jammed = FALSE] \in Ships
<1>1. \A b \in BOOLEAN : [s EXCEPT !.on = b] \in Ships /\ [s EXCEPT !.jammed = b] \in Ships
  BY DEF Ships
<1>2. QED
  BY <1>1

LEMMA Unlit ==
    ASSUME NEW s \in Ships
    PROVE  LET t == [s EXCEPT !.on = FALSE]
           IN /\ t \in Ships /\ t.credits = s.credits /\ t.engine = s.engine
              /\ t.others = s.others /\ t.loaf = s.loaf /\ t.debt = s.debt
<1>1. \A b \in BOOLEAN : LET t == [s EXCEPT !.on = b]
                         IN /\ t \in Ships /\ t.credits = s.credits /\ t.engine = s.engine
                            /\ t.others = s.others /\ t.loaf = s.loaf /\ t.debt = s.debt
  BY DEF Ships
<1>2. QED
  BY <1>1

\* The books after an act whose ship is entered as t, and the balances as o.
LEMMA Entered ==
    ASSUME NEW st \in Books, NEW a \in Acts, NEW t \in Ships, NEW o \in [Sisters -> 0..MostDebt],
           Applied(st, a) = [ship |-> t, owes |-> o],
           t.credits = st.ship.credits - Cost(st, a),
           \/ t.engine = st.ship.engine
           \/ a.verb = "hire" /\ t.engine = st.ship.engine + 1 /\ t.engine + t.others <= Berths,
           t.others = st.ship.others,
           a.verb \in YardVerbs => t.loaf = st.ship.loaf
    PROVE  /\ Applied(st, a) \in Books
           /\ Applied(st, a).ship.credits # st.ship.credits
                 => Applied(st, a).ship.credits = st.ship.credits - Cost(st, a)
           /\ Applied(st, a).ship.engine # st.ship.engine
                 => a.verb = "hire" /\ Applied(st, a).ship.engine = st.ship.engine + 1
           /\ Applied(st, a).ship.others = st.ship.others
           /\ Applied(st, a).ship.credits <= st.ship.credits
           /\ a.verb \in YardVerbs => Applied(st, a).ship.loaf = st.ship.loaf
<1>1. Applied(st, a).ship = t
  OBVIOUS
<1>2. Aboard(t) <= Berths
  BY DEF Books, Aboard
<1>3. Applied(st, a) \in Books
  BY <1>1, <1>2 DEF Books
<1>4. t.credits <= st.ship.credits
  <2>1. st.ship.credits \in Nat /\ Cost(st, a) \in Nat
    BY Costs, Figures DEF Books, Ships
  <2>2. QED
    BY <2>1
<1>5. QED
  BY <1>1, <1>3, <1>4

\* An act that folds takes its cost; a hand comes of a hire alone, and loaf of a buy alone.
LEMMA ActFolds ==
    ASSUME NEW st \in Books, NEW a \in Acts, a.verb = "buy" => st.ship.loaf = 0
    PROVE  /\ Applied(st, a) \in Books
           /\ Applied(st, a).ship.credits # st.ship.credits
                 => Applied(st, a).ship.credits = st.ship.credits - Cost(st, a)
           /\ Applied(st, a).ship.engine # st.ship.engine
                 => a.verb = "hire" /\ Applied(st, a).ship.engine = st.ship.engine + 1
           /\ Applied(st, a).ship.others = st.ship.others
           /\ Applied(st, a).ship.credits <= st.ship.credits
           /\ a.verb \in YardVerbs => Applied(st, a).ship.loaf = st.ship.loaf
<1> DEFINE c == Cost(st, a)
           paid == [st.ship EXCEPT !.credits = @ - c]
<1>1. CASE ~Possible(st, a)
  <2>1. Applied(st, a) = st
    BY <1>1 DEF Applied
  <2>2. st.ship.credits \in Nat
    BY Figures DEF Books, Ships
  <2>3. QED
    BY <2>1, <2>2
<1>2. CASE Possible(st, a)
  <2>1. c \in Nat /\ c <= st.ship.credits /\ st.ship.credits \in 0..Cap
    BY <1>2, Costs DEF Possible, Books, Ships
  <2>2. st.ship \in Ships /\ st.owes \in [Sisters -> 0..MostDebt] /\ Aboard(st.ship) <= Berths
        /\ st = [ship |-> st.ship, owes |-> st.owes]
    BY DEF Books
  <2>3. st.ship.credits - c \in 0..Cap /\ st.ship.credits - c <= st.ship.credits
    BY <2>1, Figures
  <2>13. paid \in Ships
    <3> HIDE DEF c
    <3>1. QED
      BY <2>2, <2>3 DEF Ships
  <2>14. /\ paid.credits = st.ship.credits - c /\ paid.debt = st.ship.debt /\ paid.rung = st.ship.rung /\ paid.engine = st.ship.engine
         /\ paid.others = st.ship.others /\ paid.loaf = st.ship.loaf /\ paid.hopper = st.ship.hopper
    <3> HIDE DEF c
    <3>1. QED
      BY <2>2 DEF Ships
  <2>4. CASE a.verb = "refit"
    <3>1. a.fitting \in Fittings
      BY <2>4, ActTypes
    <3>2. Applied(st, a) = [ship |-> [paid EXCEPT !.fittings = @ \cup {a.fitting}], owes |-> st.owes]
      BY <1>2, <2>4 DEF Applied
    <3> DEFINE t == [paid EXCEPT !.fittings = @ \cup {a.fitting}]
    <3>8. Applied(st, a) = [ship |-> t, owes |-> st.owes]
      BY <3>2
    <3> HIDE DEF paid, c
    <3>5. t \in Ships
      BY <2>13, <3>1 DEF Ships
    <3>6. /\ t.credits = st.ship.credits - c /\ t.others = st.ship.others
          /\ t.engine = st.ship.engine
          /\ t.loaf = st.ship.loaf
      BY <2>13, <2>14 DEF Ships
    <3> HIDE DEF t
    <3>7. QED
      BY <2>2, <2>4, <3>8, <3>5, <3>6, Entered DEF YardVerbs, c
  <2>5. CASE a.verb = "expandFrame"
    <3>1. st.ship.rung \in 1..5 /\ st.ship.rung < 5
      BY <1>2, <2>2, <2>5 DEF Possible, Ships
    <3>2. Applied(st, a) = [ship |-> [paid EXCEPT !.rung = @ + 1], owes |-> st.owes]
      BY <1>2, <2>5 DEF Applied
    <3>4. st.ship.rung + 1 \in 1..5
      BY <3>1
    <3> DEFINE t == [paid EXCEPT !.rung = @ + 1]
    <3>8. Applied(st, a) = [ship |-> t, owes |-> st.owes]
      BY <3>2
    <3> HIDE DEF paid, c
    <3>5. t \in Ships
      BY <2>13, <2>14, <3>4 DEF Ships
    <3>6. /\ t.credits = st.ship.credits - c /\ t.others = st.ship.others
          /\ t.engine = st.ship.engine
          /\ t.loaf = st.ship.loaf
      BY <2>13, <2>14 DEF Ships
    <3> HIDE DEF t
    <3>7. QED
      BY <2>2, <2>5, <3>8, <3>5, <3>6, Entered DEF YardVerbs, c
  <2>6. CASE a.verb = "payLease"
    <3>1. /\ a.hull \in Sisters \cup {0} /\ Balance(st, a.hull) \in 0..MostDebt
          /\ c <= Balance(st, a.hull)
      BY <2>6, ActTypes, Costs
    <3>2. Balance(st, a.hull) - c \in 0..MostDebt
      BY <2>1, <3>1, Amounts
    <3>3. CASE a.hull = 0
      <4>1. Applied(st, a) = [ship |-> [paid EXCEPT !.debt = @ - c], owes |-> st.owes]
        BY <1>2, <2>6, <3>3 DEF Applied
      <4>2. st.ship.debt - c \in 0..MostDebt
        BY <3>2, <3>3 DEF Balance
      <4> DEFINE t == [paid EXCEPT !.debt = @ - c]
      <4>8. Applied(st, a) = [ship |-> t, owes |-> st.owes]
        BY <4>1
      <4> HIDE DEF paid, c
      <4>3. t \in Ships
        BY <2>13, <2>14, <4>2 DEF Ships
      <4>4. /\ t.credits = st.ship.credits - c /\ t.others = st.ship.others
            /\ t.engine = st.ship.engine /\ t.loaf = st.ship.loaf
        BY <2>13, <2>14 DEF Ships
      <4> HIDE DEF t
      <4>5. QED
        BY <2>2, <2>6, <4>8, <4>3, <4>4, Entered DEF YardVerbs, c
    <3>4. CASE a.hull # 0
      <4>1. Applied(st, a) = [ship |-> paid, owes |-> [st.owes EXCEPT ![a.hull] = @ - c]]
        BY <1>2, <2>6, <3>4 DEF Applied
      <4>2. a.hull \in Sisters /\ st.owes[a.hull] - c \in 0..MostDebt
        BY <3>1, <3>2, <3>4 DEF Balance
      <4>4. [st.owes EXCEPT ![a.hull] = @ - c] \in [Sisters -> 0..MostDebt]
        BY <2>2, <4>2
      <4>5. paid \in Ships /\ paid.credits = st.ship.credits - c
            /\ paid.engine = st.ship.engine /\ paid.others = st.ship.others /\ paid.loaf = st.ship.loaf
        BY <2>13 DEF Ships
      <4> HIDE DEF paid
      <4>3. QED
        BY <2>2, <2>6, <4>1, <4>4, <4>5, Entered DEF YardVerbs
    <3>5. QED
      BY <3>3, <3>4
  <2>7. CASE a.verb = "hire"
    <3>1. Applied(st, a) = [ship |-> [paid EXCEPT !.engine = @ + 1], owes |-> st.owes]
      BY <1>2, <2>7 DEF Applied
    <3>2. st.ship.engine \in Nat /\ st.ship.others \in Nat /\ st.ship.engine + st.ship.others < Berths
      BY <1>2, <2>2, <2>7, Figures DEF Possible, Ships, Aboard
    <3>4. st.ship.engine + 1 \in 0..Berths /\ (st.ship.engine + 1) + st.ship.others <= Berths
      BY <3>2, Figures
    <3> DEFINE t == [paid EXCEPT !.engine = @ + 1]
    <3>8. Applied(st, a) = [ship |-> t, owes |-> st.owes]
      BY <3>1
    <3> HIDE DEF paid, c
    <3>5. t \in Ships
      BY <2>13, <2>14, <3>4 DEF Ships
    <3>6. /\ t.credits = st.ship.credits - c /\ t.others = st.ship.others
          /\ t.engine = st.ship.engine + 1
          /\ t.loaf = st.ship.loaf
      BY <2>13, <2>14 DEF Ships
    <3> HIDE DEF t
    <3>7. QED
      BY <2>2, <2>7, <3>4, <3>8, <3>5, <3>6, Entered DEF YardVerbs, c
  <2>8. CASE a.verb = "galleyOn"
    <3>1. Applied(st, a) = [ship |-> [paid EXCEPT !.on = TRUE], owes |-> st.owes]
      BY <1>2, <2>8 DEF Applied
    <3> DEFINE t == [paid EXCEPT !.on = TRUE]
    <3>8. Applied(st, a) = [ship |-> t, owes |-> st.owes]
      BY <3>1
    <3> HIDE DEF paid, c
    <3>5. t \in Ships
      BY <2>13, Lamps
    <3>6. /\ t.credits = st.ship.credits - c /\ t.others = st.ship.others
          /\ t.engine = st.ship.engine
          /\ t.loaf = st.ship.loaf
      BY <2>13, <2>14 DEF Ships
    <3> HIDE DEF t
    <3>7. QED
      BY <2>2, <2>8, <3>8, <3>5, <3>6, Entered DEF YardVerbs, c
  <2>9. CASE a.verb = "service"
    <3>1. Applied(st, a) = [ship |-> [paid EXCEPT !.jammed = FALSE], owes |-> st.owes]
      BY <1>2, <2>9 DEF Applied
    <3> DEFINE t == [paid EXCEPT !.jammed = FALSE]
    <3>8. Applied(st, a) = [ship |-> t, owes |-> st.owes]
      BY <3>1
    <3> HIDE DEF paid, c
    <3>5. t \in Ships
      BY <2>13, Lamps
    <3>6. /\ t.credits = st.ship.credits - c /\ t.others = st.ship.others
          /\ t.engine = st.ship.engine
          /\ t.loaf = st.ship.loaf
      BY <2>13, <2>14 DEF Ships
    <3> HIDE DEF t
    <3>7. QED
      BY <2>2, <2>9, <3>8, <3>5, <3>6, Entered DEF YardVerbs, c
  <2>10. CASE a.verb = "stock"
    <3>1. Applied(st, a) = [ship |-> [paid EXCEPT !.loaf = @ - a.units, !.hopper = @ + a.units],
                            owes |-> st.owes]
      BY <1>2, <2>10 DEF Applied
    <3>2. /\ a.units \in 1..MostLoaf /\ a.units <= st.ship.loaf /\ st.ship.hopper + a.units <= MostLoaf
          /\ st.ship.loaf \in 0..MostLoaf /\ st.ship.hopper \in 0..MostLoaf
      BY <1>2, <2>2, <2>10, ActTypes DEF Possible, Ships
    <3>4. st.ship.loaf - a.units \in 0..MostLoaf /\ st.ship.hopper + a.units \in 0..MostLoaf
      BY <3>2, Amounts
    <3> DEFINE t == [paid EXCEPT !.loaf = @ - a.units, !.hopper = @ + a.units]
    <3>8. Applied(st, a) = [ship |-> t, owes |-> st.owes]
      BY <3>1
    <3> HIDE DEF paid, c
    <3>9. paid.loaf - a.units \in 0..MostLoaf /\ paid.hopper + a.units \in 0..MostLoaf
      BY <2>14, <3>4
    <3>5. t \in Ships
      <4> DEFINE l == paid.loaf - a.units  h == paid.hopper + a.units
      <4>1. l \in 0..MostLoaf /\ h \in 0..MostLoaf
        BY <3>9
      <4> HIDE DEF l, h
      <4>2. [paid EXCEPT !.loaf = l, !.hopper = h] \in Ships
        <5> DEFINE q == [paid EXCEPT !.loaf = l]
        <5>1. q \in Ships
          BY <2>13, <4>1 DEF Ships
        <5>2. [q EXCEPT !.hopper = h] \in Ships
          <6> HIDE DEF q
          <6>1. QED
            BY <4>1, <5>1 DEF Ships
        <5>3. [paid EXCEPT !.loaf = l, !.hopper = h] = [q EXCEPT !.hopper = h]
          OBVIOUS
        <5>4. QED
          BY <5>2, <5>3
      <4>3. t = [paid EXCEPT !.loaf = l, !.hopper = h]
        BY DEF l, h
      <4>4. QED
        BY <4>2, <4>3
    <3>6. /\ t.credits = st.ship.credits - c /\ t.others = st.ship.others
          /\ t.engine = st.ship.engine
      BY <2>13, <2>14 DEF Ships
    <3> HIDE DEF t
    <3>7. QED
      BY <2>2, <2>10, <3>8, <3>5, <3>6, Entered DEF YardVerbs, c
  <2>11. CASE a.verb = "buy"
    <3>1. Applied(st, a) = [ship |-> [paid EXCEPT !.loaf = @ + a.units], owes |-> st.owes]
      BY <1>2, <2>11 DEF Applied
    <3>2. st.ship.loaf + a.units \in 0..MostLoaf
      BY <2>11, ActTypes, Amounts
    <3> DEFINE t == [paid EXCEPT !.loaf = @ + a.units]
    <3>8. Applied(st, a) = [ship |-> t, owes |-> st.owes]
      BY <3>1
    <3> HIDE DEF paid, c
    <3>5. t \in Ships
      BY <2>13, <2>14, <3>2 DEF Ships
    <3>6. /\ t.credits = st.ship.credits - c /\ t.others = st.ship.others
          /\ t.engine = st.ship.engine
      BY <2>13, <2>14 DEF Ships
    <3> HIDE DEF t
    <3>7. QED
      BY <2>2, <2>11, <3>8, <3>5, <3>6, Entered DEF YardVerbs, c
  <2>12. QED
    BY <2>4, <2>5, <2>6, <2>7, <2>8, <2>9, <2>10, <2>11, ActTypes
<1>3. QED
  BY <1>1, <1>2

-----------------------------------------------------------------------------
(* What a fold of the pilot files.                                          *)

LEMMA HullTypes ==
    ASSUME Hull
    PROVE  /\ ship.credits \in 0..Cap /\ ship.debt \in 0..MostDebt /\ ship.rung \in 1..5
           /\ ship.engine \in 0..Berths /\ ship.others \in 0..Berths
           /\ ship.hopper \in 0..MostLoaf /\ ship.loaf \in 0..MostLoaf
           /\ ship.on \in BOOLEAN /\ ship.jammed \in BOOLEAN /\ ship.fittings \subseteq Fittings
           /\ ship.skill \in {LowSkill, 10000} /\ owes \in [Sisters -> 0..MostDebt]
           /\ ship.credits \in Nat /\ ship.engine \in Nat /\ ship.others \in Nat
           /\ ship.hopper \in Nat /\ ship.loaf \in Nat /\ ship.debt \in Nat
<1>1. ship \in Ships /\ owes \in [Sisters -> 0..MostDebt]
  BY DEF Hull
<1>2. /\ ship.credits \in 0..Cap /\ ship.debt \in 0..MostDebt /\ ship.rung \in 1..5
      /\ ship.engine \in 0..Berths /\ ship.others \in 0..Berths
      /\ ship.hopper \in 0..MostLoaf /\ ship.loaf \in 0..MostLoaf
      /\ ship.fittings \subseteq Fittings
      /\ ship.skill \in {LowSkill, 10000}
  BY <1>1 DEF Ships
<1>3. ship.on \in BOOLEAN /\ ship.jammed \in BOOLEAN
  BY <1>1 DEF Ships
<1>4. QED
  BY <1>1, <1>2, <1>3, Figures, Amounts

LEMMA Sums ==
    ASSUME Hull
    PROVE  /\ Fixed \in Nat /\ Reserve \in Nat /\ Reserve = 3 * Fixed + TankPrice
           /\ Aboard(ship) \in 0..Berths /\ ADay \in Nat /\ ADay * StockDays \in 0..MostLoaf
           /\ ADay * LowDays <= ADay * StockDays
           /\ (Wage + Meal) * (Aboard(ship) + 1) \in Nat
           /\ HoldBack = Reserve + 3 * ((Wage + Meal) * (Aboard(ship) + 1))
<1>1. Fixed \in Nat
  BY Figures DEF Fixed
<1>2. Reserve = 3 * Fixed + TankPrice
  BY DEF Reserve, ReserveDays
<1>3. Aboard(ship) \in 0..Berths
  BY HullTypes, Figures DEF Hull, Aboard
<1> DEFINE n == Aboard(ship)
<1>4. n * LoafADay <= Berths * LoafADay /\ n * LoafADay \in Nat /\ Berths * LoafADay \in Nat
  BY <1>3, Figures, TimesGrows
<1>5. MostLoaf = 5 * (Berths * LoafADay)
  <2>1. StockDays * LoafADay * Berths = 5 * (Berths * LoafADay)
    BY Figures DEF StockDays
  <2>2. QED
    BY <2>1 DEF MostLoaf
<1>6. ADay = n * LoafADay
  BY DEF ADay
<1>7. ADay * StockDays \in 0..MostLoaf /\ ADay * LowDays <= ADay * StockDays
  BY <1>4, <1>5, <1>6 DEF StockDays, LowDays
<1>8. (Wage + Meal) * (n + 1) \in Nat
  BY <1>3, Figures
<1>9. ReserveDays * (Wage + Meal) * (n + 1) = 3 * ((Wage + Meal) * (n + 1))
  BY <1>3, Figures DEF ReserveDays
<1>10. QED
  BY <1>1, <1>2, <1>3, <1>4, <1>6, <1>7, <1>8, <1>9, Figures DEF HoldBack

LEMMA PaysJudged ==
    ASSUME Hull, NEW hull \in Sisters \cup {0}, NEW debt \in 1..MostDebt, NEW a \in Pays(hull, debt)
    PROVE  a \in Acts /\ a.verb \in YardVerbs /\ Judged(a)
<1>1. Spare \in Int /\ ship.credits \in Nat /\ Reserve \in Nat /\ Spare = ship.credits - Reserve
  BY HullTypes, Sums DEF Spare
<1>2. Spare > 0 /\ a = [verb |-> "payLease", amount |-> Min({Spare, debt}), hull |-> hull]
  BY DEF Pays
<1>3. Min({Spare, debt}) \in 1..MostDebt /\ Min({Spare, debt}) <= Spare
  BY <1>1, <1>2, Amounts, LesserOf
<1> DEFINE amount == Min({Spare, debt})
<1> HIDE DEF amount
<1>4. a = [verb |-> "payLease", amount |-> amount, hull |-> hull] /\ amount \in 1..MostDebt
      /\ amount <= Spare
  BY <1>2, <1>3 DEF amount
<1>5. a \in Acts
  BY <1>4 DEF Acts
<1>6. ship.credits - a.amount >= Reserve
  BY <1>1, <1>4, Amounts
<1>7. QED
  BY <1>4, <1>5, <1>6 DEF Judged, YardVerbs

\* The smallest balance is one of those that are owed.
LEMMA SmallestOwes ==
    ASSUME Hull, Owing # {}
    PROVE  Smallest \in Sisters /\ owes[Smallest] \in 1..MostDebt
<1>1. /\ \A s \in Owing : s \in Sisters /\ owes[s] \in Nat
      /\ Owing \in SUBSET Nat
  <2>1. \A s \in Sisters : owes[s] \in Nat
    BY HullTypes, Amounts
  <2>2. Owing \subseteq Sisters
    BY DEF Owing
  <2>3. QED
    BY <2>1, <2>2, Figures
<1> DEFINE T == {owes[s] : s \in Owing}
<1>2. PICK least \in T : \A n \in T : least <= n
  <2>1. T \in SUBSET Nat /\ T # {}
    BY <1>1
  <2> HIDE DEF T
  <2>2. QED
    BY <2>1, Least
<1> DEFINE R == {s \in Owing : owes[s] = least}
<1>3. PICK s \in R : \A r \in R : s <= r
  <2>1. R \in SUBSET Nat /\ R # {}
    BY <1>1
  <2> HIDE DEF R
  <2>2. QED
    BY <2>1, Least
<1>4. s \in Owing /\ \A r \in Owing : owes[s] < owes[r] \/ (owes[s] = owes[r] /\ s <= r)
  <2>1. s \in Owing /\ owes[s] = least
    OBVIOUS
  <2>2. ASSUME NEW r \in Owing PROVE owes[s] < owes[r] \/ (owes[s] = owes[r] /\ s <= r)
    <3>1. least <= owes[r] /\ owes[r] \in Nat /\ least \in Nat
      BY <1>1, <1>2, <2>1
    <3>2. CASE owes[r] = least
      BY <1>3, <2>1, <3>2
    <3>3. CASE owes[r] # least
      BY <2>1, <3>1, <3>3
    <3>4. QED
      BY <3>2, <3>3
  <2>3. QED
    BY <2>1, <2>2
<1>5. Smallest \in Owing
  BY <1>4 DEF Smallest
<1>6. QED
  BY <1>5, HullTypes, Amounts DEF Owing

LEMMA FrameJudged ==
    ASSUME Hull, NEW record, NEW a \in NextRung(record)
    PROVE  a \in Acts /\ a.verb \in YardVerbs /\ Judged(a)
<1>1. a = [verb |-> "expandFrame"] /\ ship.credits - FrameCost >= Reserve
  BY DEF NextRung
<1>2. a \in Acts
  BY <1>1 DEF Acts
<1>3. QED
  BY <1>1, <1>2 DEF Judged, YardVerbs

LEMMA RefitJudged ==
    ASSUME Hull, NEW f \in Fittings, ship.credits - Price[f] >= Reserve
    PROVE  LET a == [verb |-> "refit", fitting |-> f]
           IN a \in Acts /\ a.verb \in YardVerbs /\ Judged(a)
<1> DEFINE a == [verb |-> "refit", fitting |-> f]
<1>1. a \in Acts
  BY DEF Acts
<1>2. a.verb = "refit" /\ a.fitting = f
  OBVIOUS
<1> HIDE DEF a
<1>4. QED
  BY <1>1, <1>2 DEF Judged, YardVerbs, a

\* What the outfitting decides leaves the reserve.
LEMMA OutfitJudges ==
    ASSUME Hull, NEW in \in Readings, NEW a \in OutfitActs(in)
    PROVE  a \in Acts /\ a.verb \in YardVerbs /\ Judged(a)
<1>1. a \in DecideOutfit(in)
  BY DEF OutfitActs
<1>2. \/ Leased /\ a \in Pays(0, ship.debt)
      \/ Owing # {} /\ a \in Pays(Smallest, owes[Smallest])
      \/ a \in NextRung(in.record)
      \/ /\ Wanted(in.record) # {}
         /\ ship.credits - Price[FirstOf(Wanted(in.record))] >= Reserve
         /\ a = [verb |-> "refit", fitting |-> FirstOf(Wanted(in.record))]
  <2> DEFINE record == in.record
             wanted == Wanted(record)
             outEarns == ship.rung < 5 /\ ~FrameWaits(record)
                         /\ \E earns \in FrameReturns(record) : earns > Service
  <2>1. a \in IF Leased THEN Pays(0, ship.debt)
              ELSE IF Read(in) # {}
              THEN IF outEarns THEN NextRung(record) ELSE Pays(Smallest, owes[Smallest])
              ELSE IF wanted = {} THEN NextRung(record)
              ELSE IF ship.credits - Price[FirstOf(wanted)] < Reserve THEN {}
              ELSE {[verb |-> "refit", fitting |-> FirstOf(wanted)]}
    BY <1>1 DEF DecideOutfit
  <2> HIDE DEF record, wanted, outEarns
  <2>2. \/ Leased /\ a \in Pays(0, ship.debt)
        \/ Read(in) # {} /\ a \in NextRung(record)
        \/ Read(in) # {} /\ a \in Pays(Smallest, owes[Smallest])
        \/ a \in NextRung(record)
        \/ /\ wanted # {} /\ ~(ship.credits - Price[FirstOf(wanted)] < Reserve)
           /\ a = [verb |-> "refit", fitting |-> FirstOf(wanted)]
    BY <2>1
  <2>3. Read(in) # {} => Owing # {}
    BY DEF Read
  <2>4. wanted # {} => Price[FirstOf(wanted)] \in Nat
    <3>1. wanted \subseteq Fittings
      BY DEF wanted, Wanted
    <3>2. wanted # {} => FirstOf(wanted) \in Fittings
      BY <3>1 DEF FirstOf, Fittings
    <3>3. QED
      BY <3>2, Figures
  <2>5. ship.credits \in Nat /\ Reserve \in Nat
    BY HullTypes, Sums
  <2>6. wanted # {} /\ ~(ship.credits - Price[FirstOf(wanted)] < Reserve)
        => ship.credits - Price[FirstOf(wanted)] >= Reserve
    BY <2>4, <2>5
  <2>7. QED
    BY <2>2, <2>3, <2>6 DEF record, wanted
<1>3. CASE Leased /\ a \in Pays(0, ship.debt)
  <2>1. ship.debt \in 1..MostDebt
    BY <1>3, HullTypes, Amounts DEF Leased
  <2>2. QED
    BY <1>3, <2>1, PaysJudged
<1>4. CASE Owing # {} /\ a \in Pays(Smallest, owes[Smallest])
  BY <1>4, SmallestOwes, PaysJudged
<1>5. CASE a \in NextRung(in.record)
  BY <1>5, FrameJudged
<1>6. CASE /\ Wanted(in.record) # {}
           /\ ship.credits - Price[FirstOf(Wanted(in.record))] >= Reserve
           /\ a = [verb |-> "refit", fitting |-> FirstOf(Wanted(in.record))]
  <2>1. FirstOf(Wanted(in.record)) \in Fittings
    <3>1. Wanted(in.record) \subseteq Fittings
      BY DEF Wanted
    <3>2. QED
      BY <1>6, <3>1 DEF FirstOf, Fittings
  <2>2. QED
    BY <1>6, <2>1, RefitJudged
<1>7. QED
  BY <1>2, <1>3, <1>4, <1>5, <1>6

\* What the crew's phase decides leaves the reserve too, and a hire the payroll beside it.
LEMMA CrewJudges ==
    ASSUME Hull, NEW in \in Readings, NEW a \in CrewActs(in)
    PROVE  a \in Acts /\ Judged(a) /\ (a.verb = "buy" => ship.loaf = 0)
<1> DEFINE want == ADay * StockDays - ship.hopper
           units(of) == Min({want, of.units, Max({0, in.room - ship.loaf}), Max({Spare, 0}) \div of.ask})
<1>1. a \in Feeds(in) \/ a \in Hires(in)
  BY DEF CrewActs, DecideCrew
<1>2. a \in Feeds(in) =>
         \/ a = [verb |-> "galleyOn"] \/ a = [verb |-> "service"]
         \/ HopperLow /\ ship.loaf > 0 /\ a = [verb |-> "stock", units |-> Min({ship.loaf, want})]
         \/ HopperLow /\ \E of \in Asked(in) :
               units(of) > 0 /\ a = [verb |-> "buy", units |-> units(of), ask |-> of.ask]
  BY DEF Feeds
<1>3. HopperLow => want \in 1..MostLoaf
  <2>1. HopperLow => ship.hopper < ADay * LowDays
    BY DEF HopperLow
  <2>2. ADay * LowDays \in Nat /\ ADay * StockDays \in Nat
    BY Sums, Amounts DEF LowDays
  <2>3. QED
    BY <2>1, <2>2, HullTypes, Sums, Amounts
<1>4. Spare \in Int /\ ship.credits \in Nat /\ Reserve \in Nat /\ Spare = ship.credits - Reserve
  BY HullTypes, Sums DEF Spare
<1>5. CASE a = [verb |-> "galleyOn"]
  <2>1. a \in Acts
    BY <1>5 DEF Acts
  <2>2. a.verb = "galleyOn"
    BY <1>5
  <2>3. QED
    BY <2>1, <2>2 DEF Judged
<1>6. CASE a = [verb |-> "service"]
  <2>1. a \in Acts
    BY <1>6 DEF Acts
  <2>2. a.verb = "service"
    BY <1>6
  <2>3. QED
    BY <2>1, <2>2 DEF Judged
<1>7. CASE HopperLow /\ ship.loaf > 0 /\ a = [verb |-> "stock", units |-> Min({ship.loaf, want})]
  <2> DEFINE u == Min({ship.loaf, want})
  <2>1. ship.loaf \in Nat /\ ship.loaf > 0 /\ want \in 1..MostLoaf
    BY <1>3, <1>7, HullTypes
  <2>2. u \in 1..MostLoaf
    <3> HIDE DEF want
    <3>1. ship.loaf \in 0..MostLoaf
      BY HullTypes
    <3>2. QED
      BY <2>1, <3>1, Amounts, LesserOf
  <2> HIDE DEF u, want
  <2>3. a = [verb |-> "stock", units |-> u]
    BY <1>7 DEF u
  <2>4. a \in Acts
    BY <2>2, <2>3 DEF Acts
  <2>5. a.verb = "stock"
    BY <2>3
  <2>6. QED
    BY <2>4, <2>5 DEF Judged
<1>8. CASE HopperLow /\ \E of \in Asked(in) :
              units(of) > 0 /\ a = [verb |-> "buy", units |-> units(of), ask |-> of.ask]
  <2>1. PICK of \in Asked(in) :
            units(of) > 0 /\ a = [verb |-> "buy", units |-> units(of), ask |-> of.ask]
    BY <1>8
  <2>2. ship.loaf = 0 /\ of \in in.quote /\ in.quote \in Quotes /\ in.room \in Nat
    BY Figures DEF Asked, Readings
  <2>3. of.ask \in Nat \ {0} /\ of.units \in Nat \ {0}
    BY <2>2, Figures
  <2>4. Max({0, in.room - ship.loaf}) \in Int /\ Max({Spare, 0}) \in Nat
    BY <1>4, <2>2, HullTypes, GreaterOf
  <2> DEFINE u == units(of)  most == Max({Spare, 0})
  <2>5. most \div of.ask \in Nat
    BY <2>3, <2>4
  <2>6. want \in 1..MostLoaf
    BY <1>3, <1>8
  <2>7. u \in Int /\ u <= want /\ u <= most \div of.ask
    <3> DEFINE x == Max({0, in.room - ship.loaf})  y == most \div of.ask  z == of.units
    <3>1. x \in Int /\ y \in Int /\ z \in Int /\ want \in Int
      BY <2>3, <2>4, <2>5, <2>6
    <3>2. u = Min({want, z, x, y})
      OBVIOUS
    <3> HIDE DEF u, want, x, y, z
    <3>3. QED
      BY <3>1, <3>2, LeastOfFour DEF y
  <2>8. u \in 1..MostLoaf
    <3> HIDE DEF u, want
    <3>1. u > 0
      BY <2>1 DEF u
    <3>2. QED
      BY <2>6, <2>7, <3>1, Amounts
  <2>9. u * of.ask <= most
    <3> HIDE DEF u, want, most
    <3>1. most \in Nat
      BY <2>4 DEF most
    <3>2. QED
      BY <2>3, <2>7, <2>8, <3>1, Amounts, BuysWithin
  <2>10. most = Spare
    <3>1. most = 0 => most \div of.ask = 0
      BY <2>3
    <3>2. most # 0
      BY <2>7, <2>8, <3>1, Amounts
    <3>3. QED
      BY <1>4, <3>2, GreaterOf
  <2> HIDE DEF u, want, most
  <2>11. a = [verb |-> "buy", units |-> u, ask |-> of.ask]
    BY <2>1 DEF u
  <2>12. a \in Acts
    BY <2>3, <2>8, <2>11 DEF Acts
  <2>13. a.verb = "buy" /\ a.units = u /\ a.ask = of.ask
    BY <2>11
  <2>14. u * of.ask \in Nat
    BY <2>3, <2>8, Amounts
  <2>15. ship.credits - a.units * a.ask >= Reserve
    BY <1>4, <2>9, <2>10, <2>13, <2>14
  <2>16. QED
    BY <2>2, <2>12, <2>13, <2>15 DEF Judged
<1>9. CASE a \in Hires(in)
  <2>1. a = [verb |-> "hire"] /\ ship.credits - HireCost >= HoldBack
    BY <1>9 DEF Hires
  <2>2. a \in Acts
    BY <2>1 DEF Acts
  <2>3. a.verb = "hire"
    BY <2>1
  <2>4. QED
    BY <2>1, <2>2, <2>3 DEF Judged
<1>10. QED
  BY <1>1, <1>2, <1>5, <1>6, <1>7, <1>8, <1>9

-----------------------------------------------------------------------------
(* The steps of the pilot.                                                  *)

LEMMA HullStays == ASSUME Hull, UNCHANGED <<ship, owes>> PROVE Hull'
BY DEF Hull, Aboard

LEMMA KeptStays == ASSUME Kept, UNCHANGED <<ship, promise, eaten>> PROVE Kept'
BY DEF Kept, ChargesMet

LEMMA JudgedStays == ASSUME NEW a, Judged(a), UNCHANGED ship
                     PROVE  /\ a.verb = "refit" => ship'.credits - Price[a.fitting] >= Reserve'
                            /\ a.verb = "expandFrame" => ship'.credits - FrameCost >= Reserve'
                            /\ a.verb = "payLease" => ship'.credits - a.amount >= Reserve'
                            /\ a.verb = "hire" => ship'.credits - HireCost >= HoldBack'
                            /\ a.verb = "buy" => ship'.credits - a.units * a.ask >= Reserve'
BY DEF Judged, Reserve, HoldBack, Fixed, Leased, Aboard

LEMMA NoneInFlight == ASSUME queue' = << >> PROVE InFlight'
<1>1. queue' \in Seq(Acts) /\ Len(queue') = 0
  BY EmptySeq
<1>2. QED
  BY <1>1 DEF InFlight

LEMMA StillInFlight == ASSUME InFlight, UNCHANGED <<ship, queue, shared>> PROVE InFlight'
<1>1. \A i \in 1..Len(queue) : ~shared => Judged(queue[i])'
  BY JudgedStays DEF InFlight, Judged
<1>2. QED
  BY <1>1 DEF InFlight

LEMMA OneInFlight ==
    ASSUME NEW a \in Acts, Judged(a), a.verb = "buy" => ship.loaf = 0,
           queue' = <<a>>, UNCHANGED ship
    PROVE  InFlight'
<1>1. queue' \in Seq(Acts) /\ Len(queue') = 1 /\ queue'[1] = a
  OBVIOUS
<1>2. \A i \in 1..Len(queue') : queue'[i] = a
  BY <1>1
<1>3. \A i \in 1..Len(queue') : Judged(queue[i])'
  BY <1>2, JudgedStays DEF Judged
<1>4. QED
  BY <1>1, <1>2, <1>3 DEF InFlight

LEMMA TwoInFlight ==
    ASSUME NEW b \in Acts, b.verb \in YardVerbs, NEW a \in Acts, a.verb = "buy" => ship.loaf = 0,
           queue' = <<b, a>>, shared' = TRUE, UNCHANGED ship
    PROVE  InFlight'
<1>1. queue' \in Seq(Acts) /\ Len(queue') = 2 /\ queue'[1] = b /\ queue'[2] = a
  OBVIOUS
<1>2. b.verb # "buy"
  BY DEF YardVerbs
<1>3. \A i \in 1..Len(queue') : queue'[i].verb = "buy" => ship'.loaf = 0
  BY <1>1, <1>2
<1>4. QED
  BY <1>1, <1>3 DEF InFlight

LEMMA InTurn == ASSUME NEW b, NEW a PROVE << >> \o Append(<<b>>, a) = <<b, a>>
<1> DEFINE S == {b, a}  s == Append(<<b>>, a)
<1>1. <<b>> \in Seq(S) /\ Len(<<b>>) = 1 /\ b \in S /\ a \in S
  OBVIOUS
<1>2. s \in Seq(S) /\ Len(s) = 2 /\ s[1] = b /\ s[2] = a
  BY <1>1, AppendProperties
<1> HIDE DEF s
<1>3. s = <<b, a>>
  <2>1. <<b, a>> \in Seq(S) /\ Len(<<b, a>>) = 2
    BY <1>1
  <2>2. \A i \in 1..2 : s[i] = <<b, a>>[i]
    BY <1>2
  <2>3. QED
    BY <1>2, <2>1, <2>2, SeqEqual
<1>4. << >> \o s = s
  BY <1>2, ConcatEmptySeq
<1>5. QED
  BY <1>3, <1>4 DEF s

\* What a fold leaves in flight.
LEMMA CrewFiles ==
    ASSUME OutfitInv, NEW in \in Readings, queue = << >>, NEW lost, CrewPhase(in, lost),
           lost = << >> \/ \E b \in OutfitActs(in) : lost = <<b>>
    PROVE  /\ crews' \in BOOLEAN /\ wait' \in BOOLEAN /\ shared' \in BOOLEAN /\ faults' \in 0..MaxFaults
           /\ \/ queue' = << >>
              \/ \E b \in OutfitActs(in) : queue' = <<b>>
              \/ \E a \in CrewActs(in) : queue' = <<a>>
              \/ \E b \in OutfitActs(in), a \in CrewActs(in) : queue' = <<b, a>> /\ shared' = TRUE
<1>1. crews \in BOOLEAN /\ wait \in BOOLEAN /\ shared \in BOOLEAN /\ faults \in 0..MaxFaults
  BY DEF OutfitInv, Flags
<1>2. Len(lost) \in 0..1
  OBVIOUS
<1> DEFINE acts == IF outfits THEN CrewActs(in) ELSE {}
<1>3. \/ /\ crews' \in IF acts = {} THEN {crews} ELSE {crews, FALSE}
         /\ faults' = faults + Len(lost) + IF crews' = crews THEN 0 ELSE 1
         /\ queue' = queue \o lost /\ UNCHANGED <<wait, shared>>
      \/ \E a \in acts :
            /\ wait' \in BOOLEAN /\ faults' = faults + Len(lost) + IF wait' THEN 0 ELSE 1
            /\ queue' = queue \o Append(lost, a) /\ shared' = (shared \/ lost # <<>>)
            /\ UNCHANGED crews
  BY DEF CrewPhase
<1>4. faults' <= MaxFaults
  BY DEF CrewPhase
<1>5. acts \subseteq CrewActs(in)
  OBVIOUS
<1> HIDE DEF acts
<1>6. CASE /\ crews' \in IF acts = {} THEN {crews} ELSE {crews, FALSE}
           /\ faults' = faults + Len(lost) + IF crews' = crews THEN 0 ELSE 1
           /\ queue' = queue \o lost /\ UNCHANGED <<wait, shared>>
  <2>1. faults' \in 0..MaxFaults
    BY <1>1, <1>2, <1>4, <1>6, Figures
  <2>2. crews' \in BOOLEAN
    BY <1>1, <1>6
  <2>3. queue' = << >> \/ \E b \in OutfitActs(in) : queue' = <<b>>
    BY <1>6
  <2>4. QED
    BY <1>1, <1>6, <2>1, <2>2, <2>3
<1>7. ASSUME NEW a \in acts,
             wait' \in BOOLEAN, faults' = faults + Len(lost) + IF wait' THEN 0 ELSE 1,
             queue' = queue \o Append(lost, a), shared' = (shared \/ lost # <<>>),
             UNCHANGED crews
      PROVE  /\ crews' \in BOOLEAN /\ shared' \in BOOLEAN /\ faults' \in 0..MaxFaults
             /\ \/ queue' = <<a>>
                \/ \E b \in OutfitActs(in) : queue' = <<b, a>> /\ shared' = TRUE
  <2>1. faults' \in 0..MaxFaults
    BY <1>1, <1>2, <1>4, <1>7, Figures
  <2>2. shared' \in BOOLEAN /\ crews' \in BOOLEAN
    BY <1>1, <1>7
  <2>3. CASE lost = << >>
    <3>1. queue' = <<a>>
      BY <1>7, <2>3
    <3>2. QED
      BY <2>1, <2>2, <3>1
  <2>4. ASSUME NEW b \in OutfitActs(in), lost = <<b>> PROVE queue' = <<b, a>> /\ shared' = TRUE
    <3>1. queue' = <<b, a>>
      <4>1. queue' = << >> \o Append(<<b>>, a)
        BY <1>7, <2>4
      <4>2. QED
        BY <4>1, InTurn
    <3>2. lost # << >>
      BY <2>4
    <3>3. QED
      BY <1>7, <3>1, <3>2
  <2>5. QED
    BY <2>1, <2>2, <2>3, <2>4
<1>8. QED
  BY <1>3, <1>5, <1>6, <1>7

LEMMA PhasesKeep ==
    ASSUME OutfitInv, NEW in \in Readings, Phases(in)
    PROVE  OutfitInv'
<1>1. queue = << >> /\ folded' = TRUE /\ UNCHANGED <<ship, owes, day, hands, promise, eaten>>
  BY DEF Phases, Settled
<1>2. Hull' /\ Kept'
  BY <1>1, HullStays, KeptStays DEF OutfitInv
<1>3. Hull
  BY DEF OutfitInv
<1>4. /\ wait \in BOOLEAN /\ outfits \in BOOLEAN /\ crews \in BOOLEAN /\ shared \in BOOLEAN
      /\ day' \in 0..(TicksPerDay - 1) /\ hands' \in 0..MaxHand /\ faults \in 0..MaxFaults
  BY <1>1 DEF OutfitInv, Flags
<1> DEFINE Told == /\ wait' \in BOOLEAN /\ outfits' \in BOOLEAN /\ crews' \in BOOLEAN
                   /\ shared' \in BOOLEAN /\ faults' \in 0..MaxFaults
           Sent == \/ queue' = << >>
                   \/ \E b \in OutfitActs(in) : queue' = <<b>>
                   \/ \E a \in CrewActs(in) : queue' = <<a>>
                   \/ \E b \in OutfitActs(in), a \in CrewActs(in) : queue' = <<b, a>> /\ shared' = TRUE
<1>5. Told /\ Sent
  <2>1. ASSUME NEW a \in OutfitActs(in),
               queue' = Append(queue, a), wait' = TRUE, UNCHANGED <<outfits, crews, faults, shared>>
        PROVE  Told /\ Sent
    <3>1. queue' = <<a>>
      BY <1>1, <2>1
    <3>2. QED
      BY <1>4, <2>1, <3>1
  <2>2. CASE /\ OutfitActs(in) # {} /\ faults < MaxFaults /\ faults' = faults + 1
             /\ outfits' = FALSE /\ UNCHANGED <<queue, wait, crews, shared>>
    <3>1. faults' \in 0..MaxFaults
      BY <1>4, <2>2, Figures
    <3>2. Told
      BY <1>4, <2>2, <3>1
    <3>3. Sent
      BY <1>1, <2>2
    <3>4. QED
      BY <3>2, <3>3
  <2>3. CASE CrewPhase(in, << >>) /\ UNCHANGED outfits
    <3>1. /\ crews' \in BOOLEAN /\ wait' \in BOOLEAN /\ shared' \in BOOLEAN /\ faults' \in 0..MaxFaults
          /\ Sent
      BY <1>1, <2>3, CrewFiles
    <3>2. outfits' \in BOOLEAN
      BY <1>4, <2>3
    <3>3. QED
      BY <3>1, <3>2
  <2>4. ASSUME NEW b \in OutfitActs(in), CrewPhase(in, <<b>>), UNCHANGED outfits PROVE Told /\ Sent
    <3>1. /\ crews' \in BOOLEAN /\ wait' \in BOOLEAN /\ shared' \in BOOLEAN /\ faults' \in 0..MaxFaults
          /\ Sent
      BY <1>1, <2>4, CrewFiles
    <3>2. outfits' \in BOOLEAN
      BY <1>4, <2>4
    <3>3. QED
      BY <3>1, <3>2
  <2> HIDE DEF Told, Sent
  <2>5. QED
    BY <2>1, <2>2, <2>3, <2>4 DEF Phases
<1>6. Flags'
  BY <1>1, <1>4, <1>5 DEF Flags
<1>7. InFlight'
  <2>1. CASE queue' = << >>
    BY <2>1, NoneInFlight
  <2>2. ASSUME NEW b \in OutfitActs(in), queue' = <<b>> PROVE InFlight'
    <3>1. b \in Acts /\ b.verb \in YardVerbs /\ Judged(b)
      BY <1>3, OutfitJudges
    <3>2. b.verb # "buy"
      BY <3>1 DEF YardVerbs
    <3>3. QED
      BY <1>1, <2>2, <3>1, <3>2, OneInFlight
  <2>3. ASSUME NEW a \in CrewActs(in), queue' = <<a>> PROVE InFlight'
    BY <1>1, <1>3, <2>3, CrewJudges, OneInFlight
  <2>4. ASSUME NEW b \in OutfitActs(in), NEW a \in CrewActs(in), queue' = <<b, a>>, shared' = TRUE
        PROVE  InFlight'
    BY <1>1, <1>3, <2>4, OutfitJudges, CrewJudges, TwoInFlight
  <2>5. QED
    BY <1>5, <2>1, <2>2, <2>3, <2>4
<1>8. QED
  BY <1>2, <1>6, <1>7 DEF OutfitInv

LEMMA WaitsKeep == ASSUME OutfitInv, Waits PROVE OutfitInv'
<1>1. Hull' /\ Kept' /\ InFlight'
  BY HullStays, KeptStays, StillInFlight DEF OutfitInv, Waits
<1>2. Flags'
  BY DEF OutfitInv, Flags, Waits, bounds
<1>3. QED
  BY <1>1, <1>2 DEF OutfitInv

LEMMA RestartsKeep == ASSUME OutfitInv, Restarts PROVE OutfitInv'
<1>1. Hull' /\ Kept' /\ InFlight'
  BY HullStays, KeptStays, StillInFlight DEF OutfitInv, Restarts
<1>2. Flags'
  <2>1. faults' \in 0..MaxFaults
    BY Figures DEF OutfitInv, Flags, Restarts
  <2>2. QED
    BY <2>1 DEF OutfitInv, Flags, Restarts
<1>3. QED
  BY <1>1, <1>2 DEF OutfitInv

-----------------------------------------------------------------------------
(* The tick of the exchange.                                                *)

\* What a single act leaves, once judged by the purse it is paid from.
LEMMA OneFolds ==
    ASSUME OutfitInv, Len(queue) = 1
    PROVE  LET st == Applied([ship |-> ship, owes |-> owes], queue[1])
           IN /\ st \in Books /\ st.ship.credits <= ship.credits
              /\ ~shared /\ st.ship.credits # ship.credits =>
                    /\ st.ship.credits >= Reserve
                    /\ st.ship.engine > ship.engine =>
                          st.ship.credits >= Reserve + 3 * Payroll(st.ship)
<1> DEFINE s0 == [ship |-> ship, owes |-> owes]  a == queue[1]  st == Applied(s0, a)
<1>1. a \in Acts /\ (a.verb = "buy" => ship.loaf = 0) /\ (~shared => Judged(a))
  BY DEF OutfitInv, InFlight
<1>2. s0 \in Books /\ s0.ship = ship
  BY DEF OutfitInv, Hull, Books
<1>3. Hull
  BY DEF OutfitInv
<1> HIDE DEF s0, a
<1>4. /\ st \in Books
      /\ st.ship.credits # ship.credits => st.ship.credits = ship.credits - Cost(s0, a)
      /\ st.ship.engine # ship.engine => a.verb = "hire" /\ st.ship.engine = ship.engine + 1
      /\ st.ship.others = ship.others
      /\ st.ship.credits <= ship.credits
  BY <1>1, <1>2, ActFolds
<1> DEFINE c == Cost(s0, a)
<1>5. c \in Nat /\ ship.credits \in Nat /\ Reserve \in Nat /\ HoldBack \in Nat /\ HoldBack >= Reserve
  <2>1. HoldBack \in Nat /\ HoldBack >= Reserve
    BY <1>3, Sums
  <2>2. QED
    BY <1>1, <1>2, <1>3, <2>1, Costs, HullTypes, Sums
<1>6. ASSUME ~shared, st.ship.credits # ship.credits
      PROVE  /\ ship.credits - c >= Reserve
             /\ a.verb = "hire" => ship.credits - c >= HoldBack
  <2>1. Judged(a) /\ c # 0
    <3>1. st.ship.credits = ship.credits - c
      BY <1>4, <1>6
    <3>2. QED
      BY <1>1, <1>5, <1>6, <3>1
  <2>2. CASE a.verb = "refit"
    BY <1>1, <1>2, <2>1, <2>2, Costs DEF Judged
  <2>3. CASE a.verb = "expandFrame"
    BY <1>1, <1>2, <2>1, <2>3, Costs DEF Judged
  <2>4. CASE a.verb = "payLease"
    <3>1. c <= a.amount /\ ship.credits - a.amount >= Reserve /\ a.amount \in Nat
      BY <1>1, <1>2, <2>1, <2>4, Costs, ActTypes, Amounts DEF Judged
    <3>2. ship.credits - c >= Reserve
      <4> HIDE DEF c
      <4>1. QED
        BY <1>5, <3>1
    <3>3. QED
      BY <2>4, <3>2
  <2>5. CASE a.verb = "hire"
    <3>1. c = HireCost /\ ship.credits - HireCost >= HoldBack
      BY <1>1, <1>2, <2>1, <2>5, Costs DEF Judged
    <3>2. ship.credits - c >= Reserve
      <4> HIDE DEF c
      <4>1. QED
        BY <1>5, <3>1
    <3> HIDE DEF c
    <3>3. QED
      BY <3>1, <3>2
  <2>6. CASE a.verb = "buy"
    BY <1>1, <1>2, <2>1, <2>6, Costs DEF Judged
  <2>7. CASE a.verb \in {"galleyOn", "service", "stock"}
    BY <1>1, <1>2, <2>1, <2>7, Costs
  <2>8. QED
    BY <1>1, <2>2, <2>3, <2>4, <2>5, <2>6, <2>7, ActTypes
<1>7. ASSUME ~shared, st.ship.credits # ship.credits, st.ship.engine > ship.engine
      PROVE  st.ship.credits >= Reserve + 3 * Payroll(st.ship)
  <2>1. st.ship.engine # ship.engine
    BY <1>3, <1>7, HullTypes
  <2>2. a.verb = "hire" /\ st.ship.engine = ship.engine + 1
    BY <1>4, <2>1
  <2>3. Aboard(st.ship) = Aboard(ship) + 1
    BY <1>3, <1>4, <2>2, HullTypes DEF Aboard
  <2>4. HoldBack = Reserve + 3 * Payroll(st.ship)
    BY <1>3, <2>3, Sums DEF Payroll
  <2>5. st.ship.credits = ship.credits - c /\ ship.credits - c >= HoldBack
    BY <1>4, <1>6, <1>7, <2>2
  <2>6. QED
    BY <2>4, <2>5
<1>8. ASSUME ~shared, st.ship.credits # ship.credits PROVE st.ship.credits >= Reserve
  BY <1>4, <1>6, <1>8
<1>9. QED
  BY <1>4, <1>7, <1>8 DEF s0, a

LEMMA QueueFolded ==
    ASSUME OutfitInv
    PROVE  /\ AfterQueue \in Books /\ AfterQueue.ship.credits <= ship.credits
           /\ ~shared /\ AfterQueue.ship.credits # ship.credits =>
                 /\ AfterQueue.ship.credits >= Reserve
                 /\ AfterQueue.ship.engine > ship.engine =>
                       AfterQueue.ship.credits >= Reserve + 3 * Payroll(AfterQueue.ship)
<1> DEFINE s0 == [ship |-> ship, owes |-> owes]
<1>1. queue \in Seq(Acts) /\ Len(queue) \in 0..2 /\ Hull
  <2>1. queue \in Seq(Acts) /\ Len(queue) <= 2 /\ Hull
    BY DEF OutfitInv, InFlight
  <2>2. Len(queue) \in Nat
    BY <2>1, LenProperties
  <2>3. \A k \in Nat : k <= 2 => k \in 0..2
    OBVIOUS
  <2>4. QED
    BY <2>1, <2>2, <2>3
<1>2. s0 \in Books /\ s0.ship = ship /\ ship.credits \in Nat
  BY <1>1, HullTypes DEF Hull, Books
<1>3. CASE Len(queue) = 0
  <2>1. AfterQueue = s0
    BY <1>1, <1>3, AfterFew
  <2> HIDE DEF s0
  <2>2. QED
    BY <1>2, <2>1
<1>4. CASE Len(queue) = 1
  <2>1. AfterQueue = Applied(s0, queue[1])
    BY <1>1, <1>4, AfterFew
  <2>2. QED
    BY <1>4, <2>1, OneFolds
<1>5. CASE Len(queue) = 2
  <2> DEFINE b == queue[1]  a == queue[2]  s1 == Applied(s0, b)
  <2>1. AfterQueue = Applied(s1, a)
    BY <1>1, <1>5, AfterFew
  <2>2. /\ b \in Acts /\ a \in Acts /\ b.verb \in YardVerbs /\ shared
        /\ (a.verb = "buy" => ship.loaf = 0)
    BY <1>5 DEF OutfitInv, InFlight
  <2>3. b.verb # "buy"
    BY <2>2 DEF YardVerbs
  <2> HIDE DEF s0, b, a
  <2>4. s1 \in Books /\ s1.ship.credits <= ship.credits /\ s1.ship.loaf = ship.loaf
    BY <1>2, <2>2, <2>3, ActFolds
  <2> HIDE DEF s1
  <2>5. AfterQueue \in Books /\ AfterQueue.ship.credits <= s1.ship.credits
    BY <2>1, <2>2, <2>4, ActFolds
  <2>6. AfterQueue.ship.credits \in Nat /\ s1.ship.credits \in Nat
    BY <2>4, <2>5, Figures DEF Books, Ships
  <2>7. QED
    BY <1>2, <2>2, <2>4, <2>5, <2>6
<1>6. QED
  BY <1>1, <1>3, <1>4, <1>5

\* The sweep takes no more than there is.
LEMMA Rolls ==
    ASSUME Hull, NEW s \in Ships, Aboard(s) <= Berths, NEW jams \in BOOLEAN
    PROVE  /\ Rolled(s, jams) \in Ships /\ Aboard(Rolled(s, jams)) <= Berths
           /\ Rolled(s, jams).credits <= s.credits
<1> DEFINE swept == Min({s.credits, Fixed})
           pays == Min({s.credits - swept, Payroll(s)})
           eats == Aboard(s) * LoafADay
           serves == s.on /\ ~s.jammed
           hopper == IF serves THEN Max({0, s.hopper - eats}) ELSE s.hopper
           skill == IF Aboard(s) = 0 \/ (pays = Payroll(s) /\ serves /\ s.hopper >= eats)
                    THEN 10000 ELSE LowSkill
           jammed == s.jammed \/ jams
           left == s.credits - swept - pays
<1>1. /\ s.credits \in Nat /\ s.credits \in 0..Cap /\ s.engine \in Nat /\ s.others \in Nat
      /\ s.hopper \in 0..MostLoaf /\ s.hopper \in Nat
  BY Figures, Amounts DEF Ships
<1>2. Fixed \in Nat
  BY Sums
<1>3. Aboard(s) \in Nat /\ Payroll(s) \in Nat /\ eats \in Nat
  BY <1>1, Figures DEF Aboard, Payroll
<1>4. swept \in Nat /\ swept <= s.credits
  BY <1>1, <1>2, LesserOf
<1>5. pays \in Nat /\ pays <= s.credits - swept
  <2> HIDE DEF swept
  <2>1. QED
    BY <1>1, <1>3, <1>4, LesserOf
<1>6. left \in 0..Cap /\ left <= s.credits
  <2> HIDE DEF swept, pays
  <2>1. QED
    BY <1>1, <1>4, <1>5, Figures
<1>7. hopper \in 0..MostLoaf
  <2> HIDE DEF eats, serves
  <2>1. s.hopper - eats \in Int
    BY <1>1, <1>3
  <2>2. Max({0, s.hopper - eats}) \in 0..MostLoaf
    BY <1>1, <1>3, <2>1, Amounts, GreaterOf
  <2>3. QED
    BY <1>1, <2>2
<1>8. skill \in {LowSkill, 10000}
  OBVIOUS
<1>9. jammed \in BOOLEAN
  BY DEF Ships
<1>10. Rolled(s, jams) = [s EXCEPT !.credits = left, !.hopper = hopper, !.jammed = jammed, !.skill = skill]
  BY DEF Rolled
<1> HIDE DEF left, hopper, jammed, skill
<1> DEFINE p == [s EXCEPT !.credits = left]
           q == [p EXCEPT !.hopper = hopper]
           r == [q EXCEPT !.jammed = jammed]
           t == [r EXCEPT !.skill = skill]
<1>11. p \in Ships /\ p.credits = left /\ p.engine = s.engine /\ p.others = s.others
  BY <1>6 DEF Ships
<1>12. q \in Ships /\ q.credits = p.credits /\ q.engine = p.engine /\ q.others = p.others
  <2> HIDE DEF p
  <2>1. QED
    BY <1>7, <1>11 DEF Ships
<1>13. r \in Ships /\ r.credits = q.credits /\ r.engine = q.engine /\ r.others = q.others
  <2> HIDE DEF q
  <2>1. QED
    BY <1>9, <1>12 DEF Ships
<1>14. t \in Ships /\ t.credits = r.credits /\ t.engine = r.engine /\ t.others = r.others
  <2> HIDE DEF r
  <2>1. QED
    BY <1>8, <1>13 DEF Ships
<1>15. Rolled(s, jams) = t
  BY <1>10
<1> HIDE DEF p, q, r, t
<1>16. QED
  BY <1>6, <1>11, <1>12, <1>13, <1>14, <1>15 DEF Aboard

LEMMA SinglePurse ==
    ASSUME NEW s \in Ships, Aboard(s) <= Berths, NEW credits \in 0..Cap
    PROVE  /\ [s EXCEPT !.credits = credits] \in Ships /\ Aboard([s EXCEPT !.credits = credits]) <= Berths
           /\ [s EXCEPT !.credits = credits].credits = credits
BY DEF Ships, Aboard

\* A promise covers what the purse is left with, before the day is swept.
Covers(p, credits, e) == p.days > 0 => credits + e >= p.days * p.daily + TankPrice

LEMMA Promising ==
    ASSUME OutfitInv, NEW s, s = AfterQueue.ship
    PROVE  /\ Promised(s) \in Promises
           /\ Covers(Promised(s), s.credits, IF Promised(s) = promise THEN eaten ELSE 0)
<1>1. /\ promise \in Promises /\ eaten \in Nat /\ Hull
      /\ promise.days > 0 => ship.credits + eaten >= promise.days * promise.daily + TankPrice
  BY DEF OutfitInv, Kept, ChargesMet
<1>2. /\ s \in Ships /\ Aboard(s) \in Nat /\ s.credits \in Nat /\ s.engine \in Nat
      /\ ~shared /\ s.credits # ship.credits =>
            s.credits >= Reserve /\ (s.engine > ship.engine => s.credits >= Reserve + 3 * Payroll(s))
  <2>1. AfterQueue \in Books
    BY QueueFolded
  <2>2. s \in Ships /\ s.credits \in Nat /\ s.engine \in Nat /\ s.others \in Nat
    BY <2>1, Figures DEF Books, Ships
  <2>3. Aboard(s) \in Nat
    BY <2>2 DEF Aboard
  <2>4. QED
    BY <2>2, <2>3, QueueFolded
<1>3. Fixed \in Nat /\ Reserve = 3 * Fixed + TankPrice /\ Payroll(s) \in Nat /\ TankPrice \in Nat
  BY <1>1, <1>2, Sums, Figures DEF Payroll
<1>4. Void \in Promises /\ Void.days = 0
  BY DEF Void, Promises, ReserveDays
<1>5. CASE s.credits = ship.credits
  <2>1. Promised(s) = promise
    BY <1>5 DEF Promised
  <2>2. QED
    BY <1>1, <1>5, <2>1 DEF Covers
<1>6. CASE s.credits # ship.credits /\ shared
  <2>1. Promised(s) = Void
    BY <1>6 DEF Promised
  <2>2. QED
    BY <1>4, <2>1 DEF Covers
<1>7. CASE s.credits # ship.credits /\ ~shared
  <2> DEFINE daily == Fixed + IF s.engine > ship.engine THEN Payroll(s) ELSE 0
  <2>1. Promised(s) = [days |-> 3, daily |-> daily]
    BY <1>7 DEF Promised, ReserveDays
  <2>2. daily \in Nat /\ s.credits >= 3 * daily + TankPrice
    <3>1. CASE s.engine > ship.engine
      BY <1>2, <1>3, <1>7, <3>1
    <3>2. CASE ~(s.engine > ship.engine)
      BY <1>2, <1>3, <1>7, <3>2
    <3>3. QED
      BY <3>1, <3>2
  <2> HIDE DEF daily
  <2> DEFINE e == IF Promised(s) = promise THEN eaten ELSE 0
  <2>3. e \in Nat
    BY <1>1
  <2> HIDE DEF e
  <2>4. Covers(Promised(s), s.credits, e)
    BY <1>2, <2>1, <2>2, <2>3, <1>3 DEF Covers
  <2>5. Promised(s) \in Promises
    BY <2>1, <2>2 DEF Promises, ReserveDays
  <2>6. QED
    BY <2>4, <2>5 DEF e
<1>8. QED
  BY <1>5, <1>6, <1>7

\* What a day takes of a promise.
LEMMA DayTaken ==
    ASSUME NEW left \in Promises, NEW e \in Nat, NEW before \in Nat, NEW after \in Nat, NEW final \in Nat,
           NEW rolls \in BOOLEAN, after <= before, after <= final, ~rolls => after = before,
           Covers(left, before, e)
    PROVE  LET kept == IF rolls /\ left.days > 0 THEN [left EXCEPT !.days = @ - 1] ELSE left
               took == Max({0, before - after - left.daily})
           IN /\ kept \in Promises /\ took \in Nat
              /\ Covers(kept, final, e + took)
<1> DEFINE kept == IF rolls /\ left.days > 0 THEN [left EXCEPT !.days = @ - 1] ELSE left
           took == Max({0, before - after - left.daily})
           d == left.days  D == left.daily
<1>1. d \in 0..3 /\ D \in Nat
  BY DEF Promises, ReserveDays
<1>2. took \in Nat /\ took >= before - after - D
  BY <1>1, GreaterOf
<1>3. TankPrice \in Nat
  BY Figures
<1>4. d > 0 => before + e >= d * D + TankPrice
  BY DEF Covers
<1>5. CASE rolls /\ d > 0
  <2>1. kept.days = d - 1 /\ kept.daily = D /\ kept \in Promises
    BY <1>5, <1>1 DEF Promises, ReserveDays
  <2>2. (d - 1) * D = d * D - D /\ d * D \in Nat
    BY <1>1
  <2> DEFINE p == d * D
  <2>3. p \in Nat /\ before + e >= p + TankPrice
    BY <1>4, <1>5, <2>2
  <2> HIDE DEF p, took, D, d
  <2>4. final + (e + took) >= p - D + TankPrice
    BY <1>1, <1>2, <1>3, <2>3
  <2>5. kept.days * kept.daily = p - D
    BY <2>1, <2>2 DEF p
  <2> HIDE DEF kept
  <2>6. Covers(kept, final, e + took)
    BY <2>4, <2>5 DEF Covers
  <2>7. QED
    BY <1>2, <2>1, <2>6 DEF kept, took, D
<1>6. CASE ~(rolls /\ d > 0)
  <2>1. kept = left
    BY <1>6
  <2>2. CASE d > 0
    <3>1. ~rolls /\ final >= before
      BY <1>6, <2>2
    <3> DEFINE p == d * D
    <3>2. p \in Nat /\ before + e >= p + TankPrice
      BY <1>1, <1>4, <2>2
    <3> HIDE DEF p, took
    <3>3. final + (e + took) >= p + TankPrice
      BY <1>2, <1>3, <3>1, <3>2
    <3>4. QED
      BY <1>2, <2>1, <3>3 DEF Covers, p, took
  <2>3. CASE ~(d > 0)
    BY <1>2, <2>1, <2>3 DEF Covers
  <2>4. QED
    BY <2>2, <2>3
<1>7. QED
  BY <1>5, <1>6

LEMMA ElapseKeeps == ASSUME OutfitInv, Elapse PROVE OutfitInv'
<1> DEFINE st == AfterQueue  s == st.ship  rolls == day = TicksPerDay - 1
<1>1. /\ folded' = FALSE /\ queue' = <<>> /\ wait' = FALSE /\ shared' = FALSE
      /\ day' = (day + 1) % TicksPerDay /\ owes' = st.owes
      /\ UNCHANGED <<outfits, crews, faults>>
  BY DEF Elapse
<1>2. PICK spend \in Spends, income \in Incomes, jams \in BOOLEAN :
        LET spent == Min({spend, s.credits})
            before == [s EXCEPT !.credits = @ - spent]
            after == IF rolls THEN Rolled(before, jams) ELSE before
            left == IF spent > 0 THEN Void ELSE Promised(s)
            kept == IF rolls /\ left.days > 0 THEN [left EXCEPT !.days = @ - 1] ELSE left
        IN /\ jams => rolls /\ before.on /\ hands < MaxHand
           /\ hands' = IF jams THEN hands + 1 ELSE hands
           /\ ship' = [after EXCEPT !.credits = Min({Cap, @ + income})]
           /\ promise' = IF kept.days = 0 THEN Void ELSE kept
           /\ eaten' = IF kept.days = 0 THEN 0
                       ELSE (IF left = promise THEN eaten ELSE 0)
                            + Max({0, before.credits - after.credits - left.daily})
  BY DEF Elapse
<1> DEFINE spent == Min({spend, s.credits})
           before == [s EXCEPT !.credits = @ - spent]
           after == IF rolls THEN Rolled(before, jams) ELSE before
           left == IF spent > 0 THEN Void ELSE Promised(s)
           kept == IF rolls /\ left.days > 0 THEN [left EXCEPT !.days = @ - 1] ELSE left
           e == IF left = promise THEN eaten ELSE 0
           took == Max({0, before.credits - after.credits - left.daily})
<1>3. st \in Books /\ s \in Ships /\ Aboard(s) <= Berths /\ st.owes \in [Sisters -> 0..MostDebt]
  BY QueueFolded DEF Books
<1>4. s.credits \in Nat /\ s.credits \in 0..Cap /\ spend \in Nat /\ income \in Nat
  BY <1>3, Figures DEF Ships
<1>5. spent \in Nat /\ spent <= s.credits
  <2> HIDE DEF s
  <2>1. QED
    BY <1>4, LesserOf
<1>6. before \in Ships /\ Aboard(before) <= Berths /\ before.credits = s.credits - spent
  <2> DEFINE c == s.credits - spent
  <2>1. c \in 0..Cap
    <3> HIDE DEF s, spent
    <3>1. QED
      BY <1>4, <1>5, Figures
  <2>2. before = [s EXCEPT !.credits = c]
    OBVIOUS
  <2> HIDE DEF c, s, before
  <2>3. before \in Ships /\ Aboard(before) <= Berths /\ before.credits = c
    BY <1>3, <2>1, <2>2, SinglePurse
  <2>4. QED
    BY <2>3 DEF c
<1> HIDE DEF before, spent
<1>7. after \in Ships /\ Aboard(after) <= Berths /\ after.credits <= before.credits
      /\ (~rolls => after = before)
  <2>1. Hull
    BY DEF OutfitInv
  <2>2. before.credits \in Int
    BY <1>6 DEF Ships
  <2>3. QED
    BY <1>6, <2>1, <2>2, Rolls
<1> HIDE DEF after, rolls
<1>8. after.credits \in 0..Cap /\ before.credits \in 0..Cap /\ after.credits \in Nat /\ before.credits \in Nat
  BY <1>6, <1>7, Figures DEF Ships
<1> DEFINE final == Min({Cap, after.credits + income})
<1>9. final \in 0..Cap /\ final \in Nat /\ after.credits <= final
  BY <1>4, <1>8, Figures, LesserOf
<1>10. ship' = [after EXCEPT !.credits = final]
  BY <1>2 DEF before, after, spent, rolls
<1> HIDE DEF final
<1>11. ship' \in Ships /\ Aboard(ship') <= Berths /\ ship'.credits = final
  BY <1>7, <1>9, <1>10, SinglePurse
<1>12. Hull'
  BY <1>1, <1>3, <1>11 DEF Hull
<1>13. Flags'
  <2>1. day' \in 0..(TicksPerDay - 1)
    BY <1>1, Figures DEF OutfitInv, Flags
  <2>2. hands' \in 0..MaxHand
    <3>1. hands \in 0..MaxHand /\ (jams => hands < MaxHand) /\ hands' = IF jams THEN hands + 1 ELSE hands
      BY <1>2 DEF OutfitInv, Flags
    <3>2. QED
      BY <3>1, Figures
  <2>3. QED
    BY <1>1, <2>1, <2>2 DEF OutfitInv, Flags
<1>14. InFlight'
  BY <1>1, NoneInFlight
<1>15. left \in Promises /\ e \in Nat /\ Covers(left, before.credits, e)
  <2>1. eaten \in Nat
    BY DEF OutfitInv, Kept
  <2>2. CASE spent > 0
    <3>1. left = Void
      BY <2>2
    <3>2. QED
      BY <2>1, <3>1 DEF Void, Promises, ReserveDays, Covers
  <2>3. CASE ~(spent > 0)
    <3>1. left = Promised(s) /\ before.credits = s.credits
      BY <1>4, <1>5, <1>6, <2>3
    <3>2. Promised(s) \in Promises /\ Covers(Promised(s), s.credits, IF Promised(s) = promise THEN eaten ELSE 0)
      <4> DEFINE h == s
      <4>1. h = AfterQueue.ship
        OBVIOUS
      <4> HIDE DEF h
      <4>2. Promised(h) \in Promises /\ Covers(Promised(h), h.credits, IF Promised(h) = promise THEN eaten ELSE 0)
        BY <4>1, Promising
      <4>3. QED
        BY <4>2 DEF h
    <3> HIDE DEF left, s
    <3>3. QED
      BY <2>1, <3>1, <3>2
  <2>4. QED
    BY <2>2, <2>3
<1> HIDE DEF left, e
<1>16. kept \in Promises /\ took \in Nat /\ Covers(kept, final, e + took)
  <2> DEFINE b == before.credits  a == after.credits
  <2>1. rolls \in BOOLEAN
    BY DEF rolls
  <2>2. a <= b /\ a <= final /\ (~rolls => a = b) /\ a \in Nat /\ b \in Nat /\ Covers(left, b, e)
    BY <1>7, <1>8, <1>9, <1>15
  <2> HIDE DEF a, b
  <2>3. LET k == IF rolls /\ left.days > 0 THEN [left EXCEPT !.days = @ - 1] ELSE left
            t == Max({0, b - a - left.daily})
        IN k \in Promises /\ t \in Nat /\ Covers(k, final, e + t)
    BY <1>9, <1>15, <2>1, <2>2, DayTaken
  <2>4. QED
    BY <2>3 DEF a, b
<1>17. promise' = (IF kept.days = 0 THEN Void ELSE kept) /\ eaten' = IF kept.days = 0 THEN 0 ELSE e + took
  BY <1>2 DEF before, after, spent, rolls, left, e
<1> HIDE DEF kept, took, s
<1>18. Kept'
  <2>1. CASE kept.days = 0
    <3>1. promise' = Void /\ eaten' = 0
      BY <1>17, <2>1
    <3>2. promise' \in Promises /\ promise'.days = 0
      BY <3>1 DEF Void, Promises, ReserveDays
    <3>3. QED
      BY <3>1, <3>2 DEF Kept, ChargesMet
  <2>2. CASE kept.days # 0
    <3>1. promise' = kept /\ eaten' = e + took
      BY <1>17, <2>2
    <3>2. eaten' \in Nat /\ promise' \in Promises
      BY <1>15, <1>16, <3>1
    <3>3. promise'.days > 0 => ship'.credits + eaten' >= promise'.days * promise'.daily + TankPrice
      BY <1>11, <1>16, <3>1 DEF Covers
    <3>4. QED
      BY <3>2, <3>3 DEF Kept, ChargesMet
  <2>3. QED
    BY <2>1, <2>2
<1>19. QED
  BY <1>12, <1>13, <1>14, <1>18 DEF OutfitInv

-----------------------------------------------------------------------------
(* The captain's hand, and the other hulls.                                 *)

\* A hand the captain signs on is paid from the purse an act in flight was judged by.
LEMMA HandInFlight ==
    ASSUME OutfitInv, UNCHANGED <<owes, queue>>, Hull',
           ship'.credits = ship.credits \/ (queue # << >> => shared'),
           shared => shared', shared' \in BOOLEAN,
           ship'.loaf = ship.loaf, ship'.debt = ship.debt, Aboard(ship') <= Aboard(ship) \/ ship'.credits # ship.credits
    PROVE  InFlight'
<1>1. /\ queue \in Seq(Acts) /\ Len(queue) <= 2
      /\ \A i \in 1..Len(queue) : queue[i].verb = "buy" => ship.loaf = 0
      /\ Len(queue) = 2 => queue[1].verb \in YardVerbs /\ shared
      /\ \A i \in 1..Len(queue) : ~shared => Judged(queue[i])
  BY DEF OutfitInv, InFlight
<1>2. Hull
  BY DEF OutfitInv
<1>3. Reserve' = Reserve
  BY DEF Reserve, Fixed, Leased
<1>4. ASSUME NEW i \in 1..Len(queue), ~shared' PROVE Judged(queue[i])'
  <2>1. queue # << >>
    BY <1>1, EmptySeq
  <2>2. ship'.credits = ship.credits /\ Aboard(ship') <= Aboard(ship) /\ Judged(queue[i])
    BY <1>1, <1>4, <2>1
  <2>3. HoldBack' <= HoldBack
    <3> DEFINE m == Aboard(ship') + 1  n == Aboard(ship) + 1  w == Wage + Meal
    <3>1. m \in Nat /\ n \in Nat /\ m <= n /\ w \in Nat
      <4>1. Aboard(ship) \in Nat
        BY <1>2, Sums
      <4>2. Aboard(ship') \in Nat
        <5>1. ship'.engine \in Nat /\ ship'.others \in Nat
          BY Figures DEF Hull, Ships
        <5>2. QED
          BY <5>1 DEF Aboard
      <4>3. QED
        BY <2>2, <4>1, <4>2, Figures
    <3>2. m * w <= n * w /\ m * w \in Nat /\ n * w \in Nat
      <4> HIDE DEF m, n, w
      <4>1. QED
        BY <3>1, TimesGrows
    <3>3. HoldBack = Reserve + 3 * (n * w)
      <4>1. 3 * w * n = 3 * (n * w)
        BY <3>1
      <4>2. QED
        BY <4>1 DEF HoldBack, ReserveDays
    <3>4. HoldBack' = Reserve + 3 * (m * w)
      <4>1. 3 * w * m = 3 * (m * w)
        BY <3>1
      <4>2. HoldBack' = Reserve' + ReserveDays * w * m
        BY DEF HoldBack
      <4>3. QED
        BY <1>3, <4>1, <4>2 DEF ReserveDays
    <3> HIDE DEF m, n, w
    <3>5. Reserve \in Nat
      BY <1>2, Sums
    <3>6. QED
      BY <3>2, <3>3, <3>4, <3>5
  <2>4. HoldBack \in Int /\ HoldBack' \in Int /\ ship.credits \in Int /\ HireCost \in Int
    <3>1. HoldBack' \in Int
      <4>1. ship'.engine \in Int /\ ship'.others \in Int /\ Reserve \in Int /\ Wage \in Int /\ Meal \in Int
        BY <1>2, Sums, Figures DEF Hull, Ships
      <4>2. HoldBack' = Reserve' + ReserveDays * (Wage + Meal) * (Aboard(ship') + 1)
        BY DEF HoldBack
      <4>3. QED
        BY <1>3, <4>1, <4>2 DEF Aboard, ReserveDays
    <3>2. HoldBack \in Int
      BY <1>2, Sums
    <3>3. ship.credits \in Int /\ HireCost \in Int
      BY <1>2, HullTypes, Figures
    <3>4. QED
      BY <3>1, <3>2, <3>3
  <2>5. ship.credits - HireCost >= HoldBack => ship'.credits - HireCost >= HoldBack'
    BY <2>2, <2>3, <2>4
  <2>6. queue'[i] = queue[i]
    OBVIOUS
  <2>7. QED
    BY <1>3, <2>2, <2>5, <2>6 DEF Judged
<1>5. QED
  BY <1>1, <1>4 DEF InFlight

LEMMA ByHandKeeps == ASSUME OutfitInv, ByHand PROVE OutfitInv'
<1>1. /\ hands < MaxHand /\ hands' = hands + 1
      /\ shared' = (shared \/ (queue # <<>> /\ ship'.credits < ship.credits))
      /\ UNCHANGED <<owes, queue, wait, outfits, crews, folded, day, faults>>
  BY DEF ByHand, memory
<1>2. Hull /\ ship \in Ships /\ owes \in [Sisters -> 0..MostDebt] /\ Aboard(ship) <= Berths
  BY DEF OutfitInv, Hull
<1>3. Flags'
  BY <1>1, Figures DEF OutfitInv, Flags
<1>4. /\ promise \in Promises /\ eaten \in Nat
      /\ promise.days > 0 => ship.credits + eaten >= promise.days * promise.daily + TankPrice
  BY DEF OutfitInv, Kept, ChargesMet
<1>5. CASE ship.on /\ ship' = [ship EXCEPT !.on = FALSE] /\ UNCHANGED <<promise, eaten>>
  <2>1. /\ ship' \in Ships /\ ship'.credits = ship.credits /\ ship'.engine = ship.engine
        /\ ship'.others = ship.others /\ ship'.loaf = ship.loaf /\ ship'.debt = ship.debt
    <3>1. ship' \in Ships
      BY <1>2, <1>5, Unlit
    <3>2. QED
      BY <1>2, <1>5, Unlit
  <2>2. Aboard(ship') = Aboard(ship) /\ Aboard(ship') <= Aboard(ship)
    <3>1. Aboard(ship') = Aboard(ship)
      BY <2>1 DEF Aboard
    <3>2. Aboard(ship) \in Int
      BY <1>2, Sums
    <3>3. QED
      BY <3>1, <3>2
  <2>3. Hull'
    BY <1>1, <1>2, <2>1, <2>2 DEF Hull
  <2>4. InFlight'
    BY <1>1, <1>3, <2>1, <2>2, <2>3, HandInFlight DEF Flags
  <2>5. Kept'
    BY <1>4, <1>5, <2>1 DEF Kept, ChargesMet
  <2>6. QED
    BY <1>3, <2>3, <2>4, <2>5 DEF OutfitInv
<1>6. CASE ship.engine > 0 /\ ship' = [ship EXCEPT !.engine = @ - 1] /\ UNCHANGED <<promise, eaten>>
  <2>1. ship.engine - 1 \in 0..Berths
    BY <1>2, <1>6, HullTypes, Figures
  <2>2. /\ ship' \in Ships /\ ship'.credits = ship.credits /\ ship'.engine = ship.engine - 1
        /\ ship'.others = ship.others /\ ship'.loaf = ship.loaf /\ ship'.debt = ship.debt
    BY <1>2, <1>6, <2>1 DEF Ships
  <2>3. Aboard(ship') <= Aboard(ship) /\ Aboard(ship') <= Berths
    BY <1>2, <2>2, HullTypes, Figures DEF Aboard
  <2>4. Hull'
    BY <1>1, <1>2, <2>2, <2>3 DEF Hull
  <2>5. InFlight'
    BY <1>1, <1>3, <2>2, <2>3, <2>4, HandInFlight DEF Flags
  <2>6. Kept'
    BY <1>4, <1>6, <2>2 DEF Kept, ChargesMet
  <2>7. QED
    BY <1>3, <2>4, <2>5, <2>6 DEF OutfitInv
<1>7. CASE /\ Aboard(ship) < Berths /\ ship.credits >= HireCost
           /\ ship' = [ship EXCEPT !.others = @ + 1, !.credits = @ - HireCost]
           /\ promise' = Void /\ eaten' = 0
  <2> DEFINE o == ship.others + 1  c == ship.credits - HireCost  q == [ship EXCEPT !.others = o]
  <2>1. o \in 0..Berths /\ c \in 0..Cap /\ c < ship.credits /\ ship.engine + o <= Berths
    BY <1>2, <1>7, HullTypes, Figures DEF Aboard
  <2>2. ship' = [q EXCEPT !.credits = c]
    BY <1>7
  <2> HIDE DEF o, c
  <2>3. /\ q \in Ships /\ q.engine = ship.engine /\ q.others = o /\ q.loaf = ship.loaf
        /\ q.debt = ship.debt /\ q.credits = ship.credits
    BY <1>2, <2>1 DEF Ships
  <2> HIDE DEF q
  <2>4. /\ ship' \in Ships /\ ship'.credits = c /\ ship'.engine = ship.engine /\ ship'.others = o
        /\ ship'.loaf = ship.loaf /\ ship'.debt = ship.debt
    BY <2>1, <2>2, <2>3 DEF Ships
  <2>5. Aboard(ship') <= Berths
    BY <2>1, <2>4 DEF Aboard
  <2>6. Hull'
    BY <1>1, <1>2, <2>4, <2>5 DEF Hull
  <2>7. ship'.credits # ship.credits /\ (queue # << >> => shared')
    <3>1. ship'.credits < ship.credits /\ ship.credits \in Int /\ ship'.credits \in Int
      BY <1>2, <2>1, <2>4, HullTypes
    <3>2. ship'.credits # ship.credits
      BY <3>1
    <3>3. queue # << >> => shared'
      BY <1>1, <3>1
    <3>4. QED
      BY <3>2, <3>3
  <2>8. InFlight'
    BY <1>1, <1>3, <2>4, <2>6, <2>7, HandInFlight DEF Flags
  <2>9. Kept'
    <3>1. promise' \in Promises /\ promise'.days = 0
      BY <1>7 DEF Void, Promises, ReserveDays
    <3>2. QED
      BY <1>7, <3>1 DEF Kept, ChargesMet
  <2>10. QED
    BY <1>3, <2>6, <2>8, <2>9 DEF OutfitInv
<1>8. QED
  BY <1>5, <1>6, <1>7 DEF ByHand

LEMMA SisterPaysKeeps == ASSUME OutfitInv, NEW s \in Sisters, SisterPays(s) PROVE OutfitInv'
<1>1. /\ owes[s] > 0 /\ owes' = [owes EXCEPT ![s] = @ - 1]
      /\ UNCHANGED <<ship, queue, memory, folded, day, bounds, promise, eaten, shared>>
  BY DEF SisterPays
<1>2. owes' \in [Sisters -> 0..MostDebt]
  <2>1. owes \in [Sisters -> 0..MostDebt] /\ owes[s] - 1 \in 0..MostDebt
    BY <1>1, Amounts DEF OutfitInv, Hull
  <2>2. QED
    BY <1>1, <2>1
<1>3. Hull'
  BY <1>1, <1>2 DEF OutfitInv, Hull, Aboard
<1>4. Kept' /\ InFlight'
  BY <1>1, KeptStays, StillInFlight DEF OutfitInv
<1>5. Flags'
  BY <1>1 DEF OutfitInv, Flags, memory, bounds
<1>6. QED
  BY <1>3, <1>4, <1>5 DEF OutfitInv

-----------------------------------------------------------------------------
(* The theorems.                                                            *)

LEMMA OutfitStarts == OutfitInit => OutfitInv
<1> SUFFICES ASSUME OutfitInit PROVE OutfitInv
  OBVIOUS
<1>1. PICK credits \in Purses, debt \in Debts, others \in {0, 1} :
          (debt > 0 => others = 0) /\ ship = Found(credits, debt, others)
  BY DEF OutfitInit
<1> DEFINE Hulled(b) == [credits |-> credits, debt |-> debt, fittings |-> Fitted,
                         rung |-> StartRung, engine |-> 0, others |-> others, skill |-> 10000,
                         on |-> b, jammed |-> b, hopper |-> 0, loaf |-> 0]
<1>2. ship = Hulled(FALSE)
  BY <1>1 DEF Found
<1>11. credits \in 0..Cap /\ debt \in 0..MostDebt /\ others \in 0..Berths /\ 0 \in 0..Berths
       /\ 0 \in 0..MostLoaf
  BY Figures, Amounts
<1>12. ASSUME NEW b \in BOOLEAN
       PROVE  /\ Hulled(b) \in Ships
              /\ Aboard(Hulled(b)) <= Berths
  <2>1. Hulled(b) \in Ships
    BY <1>11, Figures DEF Ships
  <2>2. Aboard(Hulled(b)) = 0 + others
    BY DEF Aboard
  <2>3. QED
    BY <1>11, <2>1, <2>2, Figures
<1>3. ship \in Ships /\ Aboard(ship) <= Berths
  <2> HIDE DEF Hulled
  <2>1. FALSE \in BOOLEAN
    OBVIOUS
  <2>2. /\ Hulled(FALSE) \in Ships
        /\ Aboard(Hulled(FALSE)) <= Berths
    BY <1>12, <2>1, Zenon
  <2>3. QED
    BY <1>2, <2>2, Zenon
<1>5. owes \in [Sisters -> 0..MostDebt]
  <2>1. owes \in [Sisters -> Debts]
    BY DEF OutfitInit
  <2>2. QED
    BY <2>1, Amounts
<1>6. Hull
  BY <1>3, <1>5 DEF Hull
<1>7. Flags
  <2>1. /\ wait = FALSE /\ outfits = TRUE /\ crews = TRUE /\ folded = FALSE /\ shared = FALSE
        /\ day = 0 /\ hands = 0 /\ faults = 0
    BY DEF OutfitInit
  <2>2. 0 \in 0..(TicksPerDay - 1) /\ 0 \in 0..MaxHand /\ 0 \in 0..MaxFaults
    BY Figures
  <2>3. QED
    BY <2>1, <2>2 DEF Flags
<1>8. InFlight
  <2>1. queue \in Seq(Acts) /\ Len(queue) = 0
    BY EmptySeq DEF OutfitInit
  <2>2. QED
    BY <2>1 DEF InFlight
<1>9. Kept
  <2>1. promise = [days |-> 0, daily |-> 0] /\ eaten = 0
    BY DEF OutfitInit
  <2>2. promise \in Promises /\ promise.days = 0
    BY <2>1 DEF Promises, ReserveDays
  <2>3. QED
    BY <2>1, <2>2 DEF Kept, ChargesMet
<1>10. QED
  BY <1>6, <1>7, <1>8, <1>9 DEF OutfitInv

LEMMA OutfitSteps == OutfitInv /\ [OutfitNext]_outfitVars => OutfitInv'
<1> SUFFICES ASSUME OutfitInv, [OutfitNext]_outfitVars PROVE OutfitInv'
  OBVIOUS
<1>1. ASSUME NEW in \in Readings, Phases(in) PROVE OutfitInv'
  BY <1>1, PhasesKeep
<1>2. CASE Waits
  BY <1>2, WaitsKeep
<1>3. CASE Restarts
  BY <1>3, RestartsKeep
<1>4. CASE Elapse
  BY <1>4, ElapseKeeps
<1>5. CASE ByHand
  BY <1>5, ByHandKeeps
<1>6. ASSUME NEW s \in Sisters, SisterPays(s) PROVE OutfitInv'
  BY <1>6, SisterPaysKeeps
<1>7. CASE UNCHANGED outfitVars
  <2>1. UNCHANGED <<ship, owes, queue, wait, outfits, crews, folded, day, hands, faults, promise, eaten, shared>>
    BY <1>7 DEF outfitVars, memory, bounds
  <2>2. Hull' /\ Kept' /\ InFlight'
    BY <2>1, HullStays, KeptStays, StillInFlight DEF OutfitInv
  <2>3. Flags'
    BY <2>1 DEF OutfitInv, Flags
  <2>4. QED
    BY <2>2, <2>3 DEF OutfitInv
<1>8. QED
  BY <1>1, <1>2, <1>3, <1>4, <1>5, <1>6, <1>7 DEF OutfitNext

\* The invariant holds throughout: an act in flight leaves the reserve of the purse it was
\* judged by, unless that purse was spent from since.
THEOREM OutfitSafe == OutfitSpec => []OutfitInv
<1>1. QED
  BY OutfitStarts, OutfitSteps, PTL DEF OutfitSpec

\* Types: no purse below nothing, no more hands than berths, no act in flight but one the
\* exchange can take, no hopper past its brim (outfit.rs, crew.rs).
THEOREM OutfitTypeCorrect == OutfitSpec => []OutfitTypeOK
<1>1. OutfitInv => OutfitTypeOK
  <2> SUFFICES ASSUME OutfitInv PROVE OutfitTypeOK
    OBVIOUS
  <2>1. Hull /\ Flags /\ promise \in Promises /\ eaten \in Nat /\ queue \in Seq(Acts)
    BY DEF OutfitInv, Kept, InFlight
  <2>2. ship.engine + ship.others <= Berths /\ ship.loaf \in 0..(2 * MostLoaf)
    BY <2>1, HullTypes, Amounts DEF Hull, Aboard
  <2>3. promise.days \in 0..ReserveDays /\ promise.daily \in Nat
    BY <2>1 DEF Promises
  <2>4. {wait, outfits, crews, folded, shared} \subseteq BOOLEAN /\ day \in 0..(TicksPerDay - 1)
        /\ hands \in 0..MaxHand /\ faults \in 0..MaxFaults
    BY <2>1 DEF Flags
  <2>5. QED
    BY <2>1, <2>2, <2>3, <2>4, HullTypes DEF OutfitTypeOK
<1>2. QED
  BY <1>1, OutfitSafe, PTL

\* Whatever answers are lost and however often the pilot starts anew, what a purchase leaves
\* carries the ship's charges through the days of her reserve, with a tank of fuel: for every
\* price, wage and number of sisters (outfit.rs:17, crew.rs:45).
THEOREM ReserveHolds == OutfitSpec => []ChargesMet
<1>1. OutfitInv => ChargesMet
  BY DEF OutfitInv, Kept
<1>2. QED
  BY <1>1, OutfitSafe, PTL

=============================================================================
