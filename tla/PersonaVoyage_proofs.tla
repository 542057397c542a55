------------------------ MODULE PersonaVoyage_proofs ------------------------
(***************************************************************************)
(* The ship's computer, for any commands, names and bounds: two files      *)
(* changed by commands that fail, die and lose power implement one record  *)
(* of its names (Naming), in which a naming is one act, the name worn is   *)
(* one the record holds, and no name is forgotten.                         *)
(*                                                                         *)
(* And what it steers by, for any stations, loads and figures of the       *)
(* router: a bay within its limit, acts that can be carried out, and a     *)
(* tank that outlives every plan it was counted for.                       *)
(***************************************************************************)
EXTENDS Persona, Voyage, SequenceTheorems, FiniteSetTheorems, WellFoundedInduction, TLAPS

-----------------------------------------------------------------------------
(* What a trail is good for.                                                *)

\* A naming adds its name to the trail, and what was there can be cut out of it again.
LEMMA Appended ==
    ASSUME NEW s \in Seq(Names), NEW e \in Names
    PROVE  /\ Append(s, e) \in Seq(Names)
           /\ ToSet(Append(s, e)) = ToSet(s) \cup {e}
           /\ Len(s) \in Nat
           /\ SubSeq(Append(s, e), 1, Len(s)) = s
<1> DEFINE t == Append(s, e)
           n == Len(s)
           u == SubSeq(t, 1, n)
<1>1. /\ t \in Seq(Names) /\ Len(t) = n + 1
      /\ \A i \in 1..n : t[i] = s[i]
      /\ t[n + 1] = e
  BY AppendProperties
<1>2. n \in Nat /\ DOMAIN s = 1..n /\ s \in [1..n -> Names]
  BY LenProperties
<1>3. DOMAIN t = 1..(n + 1)
  BY <1>1, LenProperties
<1>4. ToSet(t) = ToSet(s) \cup {e}
  <2> HIDE DEF t, n
  <2>1. 1..(n + 1) = 1..n \cup {n + 1}
    BY <1>2
  <2>2. QED
    BY <2>1, <1>1, <1>2, <1>3 DEF ToSet
<1>5. u \in Seq(Names) /\ Len(u) = n /\ \A i \in 1..n : u[i] = s[i]
  <2> HIDE DEF t, n
  <2>1. \A i \in 1..n : t[i] \in Names
    BY <1>1, <1>2
  <2>2. /\ SubSeq(t, 1, n) \in Seq(Names)
        /\ Len(SubSeq(t, 1, n)) = IF 1 <= n THEN n - 1 + 1 ELSE 0
        /\ \A i \in 1..(n - 1 + 1) : SubSeq(t, 1, n)[i] = t[1 + i - 1]
    BY <2>1, <1>2, SubSeqProperties
  <2>3. QED
    BY <2>2, <1>1, <1>2
<1>6. u = s
  BY <1>5, SeqEqual
<1>7. QED
  BY <1>1, <1>2, <1>4, <1>6

\* A trail cut to a length is a trail.
LEMMA CutIsATrail ==
    ASSUME NEW s \in Seq(Names), NEW n \in 0..Len(s)
    PROVE  SubSeq(s, 1, n) \in Seq(Names)
<1>1. Len(s) \in Nat /\ s \in [1..Len(s) -> Names]
  BY LenProperties
<1>2. \A i \in 1..n : s[i] \in Names
  BY <1>1
<1>3. QED
  BY <1>2, <1>1, SubSeqProperties

LEMMA ShortTrails ==
    /\ << >> \in Seq(Names) /\ ToSet(<< >>) = {}
    /\ \A n \in Names : <<n>> \in Seq(Names) /\ ToSet(<<n>>) = {n}
<1>1. << >> \in Seq(Names) /\ ToSet(<< >>) = {}
  BY EmptySeq DEF ToSet
<1>2. ASSUME NEW n \in Names
      PROVE  <<n>> \in Seq(Names) /\ ToSet(<<n>>) = {n}
  <2>1. DOMAIN <<n>> = {1} /\ <<n>>[1] = n
    OBVIOUS
  <2>2. QED
    BY <2>1 DEF ToSet
<1>3. QED
  BY <1>1, <1>2

-----------------------------------------------------------------------------
(* The inductive invariant.                                                 *)

Inside == {"copying", "copied", "locked", "appended", "placed"}

\* The trail as a command found it under the lock.
Before(w) == SubSeq(trail["own"], 1, prior[w].length)

\* Whoever changes the captain's store holds its lock, alone.
LockHeld == \A w \in Writers : pc[w] \in Inside => lock["own"] = w

\* The ship's own store is read and never written.
ShipKept ==
    /\ synced["ship"] = persona["ship"]
    /\ trail["ship"] = IF persona["ship"] = Absent THEN << >> ELSE <<persona["ship"]>>

\* A command that names, in a captain's store beside a ship's computer, finds a persona there.
Migrating ==
    \A w \in Writers :
        /\ pc[w] \in {"migrate", "copying", "copied"} => persona["ship"] # Absent
        /\ pc[w] = "copying" => persona["own"] = Absent
        /\ pc[w] \in {"copying", "copied"} => trail["own"] = trail["ship"]
        /\ pc[w] = "copied" => persona["own"] = persona["ship"]
        /\ pc[w] \in {"load", "loaded", "locked", "appended", "placed"} /\ persona["ship"] # Absent
              => persona["own"] # Absent

\* The pair a command would put back is the pair it found, and what it added is its name.
PriorStands ==
    \A w \in Writers :
        /\ pc[w] = "locked" =>
              prior[w] = [name |-> persona["own"], length |-> Len(trail["own"])]
        /\ Undone(w) =>
              /\ prior[w].length \in 0..Len(trail["own"])
              /\ trail["own"] = Append(Before(w), loaded[w])
              /\ prior[w].name # Absent => prior[w].name \in ToSet(Before(w))
              /\ persona["ship"] # Absent => prior[w].name # Absent
              /\ synced["own"] = prior[w].name
        /\ pc[w] = "appended" => persona["own"] = prior[w].name
        /\ pc[w] = "placed" => persona["own"] = loaded[w]

\* The name in the file, and the one a power loss may bring back, are on the trail.
NamesOnTrail ==
    /\ persona["own"] # Absent => persona["own"] \in ToSet(trail["own"])
    /\ synced["own"] # Absent => synced["own"] \in ToSet(trail["own"])

\* The directory entry is durable once a naming was appended: until then the store is
\* the copy of the ship's, or nothing.
SyncedBehind ==
    /\ persona["own"] = Absent => synced["own"] = Absent
    /\ synced["own"] = Absent /\ persona["own"] # Absent /\ persona["ship"] # Absent
          => persona["own"] = persona["ship"] /\ trail["own"] = trail["ship"]

IInv == TypeOK /\ LockHeld /\ ShipKept /\ Migrating /\ PriorStands /\ NamesOnTrail /\ SyncedBehind

\* The invariant holds when the system starts.
LEMMA InitInv == Init => IInv
<1> SUFFICES ASSUME Init PROVE IInv
  OBVIOUS
<1>1. TypeOK
  BY PersonaAssumption, ShortTrails DEF Init, TypeOK, Stores, Join
<1>2. ShipKept /\ NamesOnTrail /\ SyncedBehind
  BY ShortTrails, PersonaAssumption DEF Init, ShipKept, NamesOnTrail, SyncedBehind, Stores
<1>3. LockHeld /\ Migrating /\ PriorStands
  BY DEF Init, LockHeld, Migrating, PriorStands, Inside, Undone
<1>4. QED
  BY <1>1, <1>2, <1>3 DEF IInv

\* Two commands are never inside the captain's store at once.
LEMMA Alone ==
    ASSUME LockHeld, NEW v \in Writers, NEW w \in Writers, pc[v] \in Inside, pc[w] \in Inside
    PROVE  v = w
BY DEF LockHeld

-----------------------------------------------------------------------------
(* Every step keeps the invariant.  A command outside the captain's store   *)
(* only moves itself along.                                                 *)

LEMMA StepBegins == ASSUME IInv, NEW w \in Writers, Begins(w) PROVE IInv'
<1> USE DEF IInv, Begins, At
<1>1. TypeOK'
  BY PersonaAssumption DEF TypeOK, Stores, Join
<1>2. LockHeld'
  BY DEF LockHeld, Inside, TypeOK, Stores
<1>3. ShipKept'
  BY DEF ShipKept, TypeOK, Stores
<1>4. Migrating'
  BY DEF Migrating, TypeOK
<1>5. PriorStands'
  BY DEF PriorStands, Undone, Before, LockHeld, Inside, TypeOK, Stores
<1>6. NamesOnTrail'
  BY DEF NamesOnTrail
<1>7. SyncedBehind'
  BY DEF SyncedBehind
<1>8. QED
  BY <1>1, <1>2, <1>3, <1>4, <1>5, <1>6, <1>7

LEMMA StepFindsOrigin == ASSUME IInv, NEW w \in Writers, FindsOrigin(w) PROVE IInv'
<1> USE DEF IInv, FindsOrigin, At
<1>1. TypeOK'
  BY DEF TypeOK, Stores, Join
<1>2. LockHeld'
  BY DEF LockHeld, Inside, TypeOK, Stores
<1>3. ShipKept'
  BY DEF ShipKept, TypeOK, Stores
<1>4. Migrating'
  BY DEF Migrating, TypeOK
<1>5. PriorStands'
  BY DEF PriorStands, Undone, Before, LockHeld, Inside, TypeOK, Stores
<1>6. NamesOnTrail'
  BY DEF NamesOnTrail
<1>7. SyncedBehind'
  BY DEF SyncedBehind
<1>8. QED
  BY <1>1, <1>2, <1>3, <1>4, <1>5, <1>6, <1>7

LEMMA StepLocksSource == ASSUME IInv, NEW w \in Writers, LocksSource(w) PROVE IInv'
<1> USE DEF IInv, LocksSource, At
<1>1. TypeOK'
  BY DEF TypeOK, Stores, Join
<1>2. LockHeld'
  BY DEF LockHeld, Inside, TypeOK, Stores
<1>3. ShipKept'
  BY DEF ShipKept, TypeOK, Stores
<1>4. Migrating'
  BY DEF Migrating, TypeOK
<1>5. PriorStands'
  BY DEF PriorStands, Undone, Before, LockHeld, Inside, TypeOK, Stores
<1>6. NamesOnTrail'
  BY DEF NamesOnTrail
<1>7. SyncedBehind'
  BY DEF SyncedBehind
<1>8. QED
  BY <1>1, <1>2, <1>3, <1>4, <1>5, <1>6, <1>7

\* The copy starts in a store without a persona, so nothing of it is durable yet.
LEMMA StepCopiesTrail == ASSUME IInv, NEW w \in Writers, CopiesTrail(w) PROVE IInv'
<1> USE DEF IInv, CopiesTrail, At, Unlocked
<1>1. TypeOK'
  <2>1. trail["ship"] \in Seq(Names) /\ trail' \in [Stores -> Seq(Names)]
    BY DEF TypeOK, Stores
  <2>2. lock' \in [Stores -> Writers \cup {Absent}]
    BY DEF TypeOK, Stores
  <2>3. \/ pc' = [pc EXCEPT ![w] = "load"]
        \/ pc' = [pc EXCEPT ![w] = "copying"]
    OBVIOUS
  <2>4. QED
    BY <2>1, <2>2, <2>3 DEF TypeOK
<1>2. LockHeld'
  BY PersonaAssumption DEF LockHeld, Inside, TypeOK, Stores
<1>3. ShipKept'
  BY DEF ShipKept, TypeOK, Stores
<1>4. Migrating'
  BY PersonaAssumption DEF Migrating, TypeOK, LockHeld, Stores
<1>5. PriorStands'
  BY PersonaAssumption DEF PriorStands, Undone, Before, LockHeld, Inside, TypeOK, Stores
<1>6. NamesOnTrail'
  BY DEF NamesOnTrail, SyncedBehind, TypeOK, Stores
<1>7. SyncedBehind'
  BY DEF SyncedBehind
<1>8. QED
  BY <1>1, <1>2, <1>3, <1>4, <1>5, <1>6, <1>7

\* The persona copied is the one name of the trail copied before it.
LEMMA StepCopiesPersona == ASSUME IInv, NEW w \in Writers, CopiesPersona(w) PROVE IInv'
<1> USE DEF IInv, CopiesPersona, At
<1>1. TypeOK'
  BY DEF TypeOK, Stores, Join
<1>2. LockHeld'
  BY DEF LockHeld, Inside, TypeOK, Stores
<1>3. ShipKept'
  BY DEF ShipKept, TypeOK, Stores
<1>4. Migrating'
  BY DEF Migrating, TypeOK, LockHeld, Inside, Stores
<1>5. PriorStands'
  BY DEF PriorStands, Undone, Before, LockHeld, Inside, TypeOK, Stores
<1>6. NamesOnTrail'
  <2>1. persona["ship"] # Absent /\ trail["own"] = <<persona["ship"]>>
    BY DEF Migrating, ShipKept
  <2>2. persona["ship"] \in ToSet(trail["own"])
    BY <2>1, ShortTrails DEF TypeOK, Stores
  <2>3. QED
    BY <2>2 DEF NamesOnTrail, TypeOK, Stores
<1>7. SyncedBehind'
  BY DEF SyncedBehind, Migrating, TypeOK, Stores
<1>8. QED
  BY <1>1, <1>2, <1>3, <1>4, <1>5, <1>6, <1>7

LEMMA StepMigrated == ASSUME IInv, NEW w \in Writers, Migrated(w) PROVE IInv'
<1> USE DEF IInv, Migrated, At, Unlocked
<1>1. TypeOK'
  BY DEF TypeOK, Stores, Join
<1>2. LockHeld'
  BY PersonaAssumption DEF LockHeld, Inside, TypeOK, Stores
<1>3. ShipKept'
  BY DEF ShipKept, TypeOK, Stores
<1>4. Migrating'
  BY DEF Migrating, TypeOK
<1>5. PriorStands'
  BY DEF PriorStands, Undone, Before, LockHeld, Inside, TypeOK, Stores
<1>6. NamesOnTrail'
  BY DEF NamesOnTrail
<1>7. SyncedBehind'
  BY DEF SyncedBehind
<1>8. QED
  BY <1>1, <1>2, <1>3, <1>4, <1>5, <1>6, <1>7

\* What a failed copy takes away was not there before it.
LEMMA StepMigrationFails == ASSUME IInv, NEW w \in Writers, MigrationFails(w) PROVE IInv'
<1> USE DEF IInv, MigrationFails, At, Unlocked, Fault
<1>1. TypeOK'
  <2>1. trail' \in [Stores -> Seq(Names)] /\ persona' \in [Stores -> Names \cup {Absent}]
    BY ShortTrails DEF TypeOK, Stores
  <2>2. faults' \in 0..MaxFaults
    BY PersonaAssumption DEF TypeOK
  <2>3. pc' \in [Writers -> {"idle", "origin", "migrate", "copying", "copied", "load", "loaded",
                            "locked", "appended", "placed"}]
    BY DEF TypeOK
  <2>4. lock' \in [Stores -> Writers \cup {Absent}]
    BY DEF TypeOK
  <2>5. QED
    BY <2>1, <2>2, <2>3, <2>4 DEF TypeOK
<1>2. LockHeld'
  BY PersonaAssumption DEF LockHeld, Inside, TypeOK, Stores
<1>3. ShipKept'
  BY DEF ShipKept, TypeOK, Stores
<1>4. Migrating'
  BY DEF Migrating, TypeOK, LockHeld, Inside, Stores
<1>5. PriorStands'
  BY DEF PriorStands, Undone, Before, LockHeld, Inside, TypeOK, Stores
<1>6. NamesOnTrail'
  BY DEF NamesOnTrail, SyncedBehind, Migrating, TypeOK, Stores
<1>7. SyncedBehind'
  BY DEF SyncedBehind, Migrating, TypeOK, Stores
<1>8. QED
  BY <1>1, <1>2, <1>3, <1>4, <1>5, <1>6, <1>7

LEMMA StepLoads == ASSUME IInv, NEW w \in Writers, LoadsPersona(w) PROVE IInv'
<1> USE DEF IInv, LoadsPersona, At
<1>1. TypeOK'
  BY PersonaAssumption DEF TypeOK, Stores, Join
<1>2. LockHeld'
  BY DEF LockHeld, Inside, TypeOK, Stores
<1>3. ShipKept'
  BY DEF ShipKept, TypeOK, Stores
<1>4. Migrating'
  BY DEF Migrating, TypeOK
<1>5. PriorStands'
  BY DEF PriorStands, Undone, Before, LockHeld, Inside, TypeOK, Stores
<1>6. NamesOnTrail'
  BY DEF NamesOnTrail
<1>7. SyncedBehind'
  BY DEF SyncedBehind
<1>8. QED
  BY <1>1, <1>2, <1>3, <1>4, <1>5, <1>6, <1>7

\* The pair is read under the lock: it stands until its holder changes it.
LEMMA StepLocks == ASSUME IInv, NEW w \in Writers, Locks(w) PROVE IInv'
<1> USE DEF IInv, Locks, At
<1>1. TypeOK'
  BY DEF TypeOK, Stores, Join
<1>2. LockHeld'
  BY PersonaAssumption DEF LockHeld, Inside, TypeOK, Stores
<1>3. ShipKept'
  BY DEF ShipKept, TypeOK, Stores
<1>4. Migrating'
  BY DEF Migrating, TypeOK
<1>5. PriorStands'
  BY DEF PriorStands, Undone, Before, LockHeld, Inside, TypeOK, Stores
<1>6. NamesOnTrail'
  BY DEF NamesOnTrail
<1>7. SyncedBehind'
  BY DEF SyncedBehind
<1>8. QED
  BY <1>1, <1>2, <1>3, <1>4, <1>5, <1>6, <1>7

\* The sync makes the name worn durable, the very name a failure would put back.
LEMMA StepAppendsNaming == ASSUME IInv, NEW w \in Writers, AppendsNaming(w) PROVE IInv'
<1> USE DEF IInv, AppendsNaming, At
<1>1. TypeOK'
  BY DEF TypeOK, Stores, Join
<1>2. LockHeld'
  BY DEF LockHeld, Inside, TypeOK, Stores
<1>3. ShipKept'
  BY DEF ShipKept, TypeOK, Stores
<1>4. Migrating'
  BY DEF Migrating, TypeOK, LockHeld, Inside, Stores
<1>5. PriorStands'
  <2>1. /\ trail'["own"] = Append(trail["own"], loaded[w])
        /\ trail["own"] \in Seq(Names) /\ loaded[w] \in Names
    BY DEF TypeOK, Stores
  <2>2. /\ Len(trail["own"]) \in Nat /\ Len(trail'["own"]) = Len(trail["own"]) + 1
        /\ SubSeq(trail'["own"], 1, Len(trail["own"])) = trail["own"]
    BY <2>1, Appended, AppendProperties
  <2>3. prior[w] = [name |-> persona["own"], length |-> Len(trail["own"])]
    BY DEF PriorStands
  <2>4. Before(w)' = trail["own"] /\ prior'[w].length \in 0..Len(trail'["own"])
    BY <2>2, <2>3 DEF Before
  <2>5. ASSUME NEW v \in Writers, v # w
        PROVE  pc'[v] \notin {"locked", "appended", "placed"}
    BY <2>5 DEF TypeOK, LockHeld, Inside
  <2>6. synced'["own"] = persona["own"] /\ pc'[w] = "appended"
    BY DEF TypeOK, Stores
  <2>7. persona["ship"] # Absent => persona["own"] # Absent
    BY DEF Migrating
  <2>8. QED
    BY <2>1, <2>3, <2>4, <2>5, <2>6, <2>7 DEF PriorStands, NamesOnTrail, Undone
<1>6. NamesOnTrail'
  <2>1. trail'["own"] = Append(trail["own"], loaded[w]) /\ synced'["own"] = persona["own"]
    BY DEF TypeOK, Stores
  <2>2. ToSet(trail'["own"]) = ToSet(trail["own"]) \cup {loaded[w]}
    BY <2>1, Appended DEF TypeOK, Stores
  <2>3. QED
    BY <2>1, <2>2 DEF NamesOnTrail
<1>7. SyncedBehind'
  BY DEF SyncedBehind, Migrating, TypeOK, Stores
<1>8. QED
  BY <1>1, <1>2, <1>3, <1>4, <1>5, <1>6, <1>7

\* The name put in place was appended before.
LEMMA StepPlaces == ASSUME IInv, NEW w \in Writers, Places(w) PROVE IInv'
<1> USE DEF IInv, Places, At
<1>1. TypeOK'
  BY DEF TypeOK, Stores, Join
<1>2. LockHeld'
  BY DEF LockHeld, Inside, TypeOK, Stores
<1>3. ShipKept'
  BY DEF ShipKept, TypeOK, Stores
<1>4. Migrating'
  BY PersonaAssumption DEF Migrating, TypeOK, LockHeld, Inside, Stores
<1>5. PriorStands'
  BY DEF PriorStands, Undone, Before, LockHeld, Inside, TypeOK, Stores
<1>6. NamesOnTrail'
  <2>1. /\ trail["own"] = Append(Before(w), loaded[w])
        /\ prior[w].length \in 0..Len(trail["own"])
    BY DEF PriorStands, Undone
  <2>2. loaded[w] \in ToSet(trail["own"])
    <3>1. Before(w) \in Seq(Names) /\ loaded[w] \in Names
      BY <2>1, CutIsATrail DEF Before, TypeOK, Stores
    <3>2. QED
      BY <2>1, <3>1, Appended
  <2>3. QED
    BY <2>2 DEF NamesOnTrail, TypeOK, Stores
<1>7. SyncedBehind'
  BY PersonaAssumption DEF SyncedBehind, PriorStands, Undone, TypeOK, Stores
<1>8. QED
  BY <1>1, <1>2, <1>3, <1>4, <1>5, <1>6, <1>7

LEMMA StepNamed == ASSUME IInv, NEW w \in Writers, Named(w) PROVE IInv'
<1> USE DEF IInv, Named, At, Unlocked
<1>1. TypeOK'
  BY DEF TypeOK, Stores, Join
<1>2. LockHeld'
  BY PersonaAssumption DEF LockHeld, Inside, TypeOK, Stores
<1>3. ShipKept'
  BY DEF ShipKept, TypeOK, Stores
<1>4. Migrating'
  BY DEF Migrating, TypeOK
<1>5. PriorStands'
  BY DEF PriorStands, Undone, Before, LockHeld, Inside, TypeOK, Stores
<1>6. NamesOnTrail'
  BY DEF NamesOnTrail
<1>7. SyncedBehind'
  BY DEF SyncedBehind
<1>8. QED
  BY <1>1, <1>2, <1>3, <1>4, <1>5, <1>6, <1>7

\* Cutting the trail back leaves the name put back on it, and the one that is durable.
LEMMA StepNamingFails == ASSUME IInv, NEW w \in Writers, NamingFails(w) PROVE IInv'
<1> USE DEF IInv, NamingFails, At, Unlocked, Fault
<1>0. /\ trail'["own"] \in Seq(Names) /\ persona'["own"] \in Names \cup {Absent}
      /\ persona'["own"] # Absent => persona'["own"] \in ToSet(trail'["own"])
      /\ synced["own"] # Absent => synced["own"] \in ToSet(trail'["own"])
      /\ persona["ship"] # Absent => persona'["own"] # Absent
      /\ persona'["own"] = Absent => synced["own"] = Absent
      /\ synced["own"] = Absent /\ persona'["own"] # Absent /\ persona["ship"] # Absent
            => persona'["own"] = persona["ship"] /\ trail'["own"] = trail["ship"]
  <2>1. /\ trail'["own"] = Before(w) /\ persona'["own"] = prior[w].name
        /\ trail["own"] \in Seq(Names)
    BY DEF Before, TypeOK, Stores
  <2>2. CASE pc[w] = "locked"
    <3>1. prior[w] = [name |-> persona["own"], length |-> Len(trail["own"])]
      BY <2>2 DEF PriorStands
    <3>2. trail'["own"] = trail["own"] /\ persona'["own"] = persona["own"]
      <4>1. Before(w) = SubSeq(trail["own"], 1, Len(trail["own"]))
        BY <3>1 DEF Before
      <4>2. Before(w) = trail["own"]
        BY <2>1, <4>1, SubSeqFull
      <4>3. QED
        BY <2>1, <3>1, <4>2
    <3>3. persona["own"] \in Names \cup {Absent}
      BY DEF TypeOK, Stores
    <3>4. persona["ship"] # Absent => persona["own"] # Absent
      BY <2>2 DEF Migrating
    <3>5. QED
      BY <2>1, <3>2, <3>3, <3>4 DEF NamesOnTrail, SyncedBehind
  <2>3. CASE Undone(w)
    <3>1. /\ prior[w].length \in 0..Len(trail["own"])
          /\ prior[w].name # Absent => prior[w].name \in ToSet(Before(w))
          /\ persona["ship"] # Absent => prior[w].name # Absent
          /\ synced["own"] = prior[w].name
      BY <2>3 DEF PriorStands
    <3>2. Before(w) \in Seq(Names)
      BY <2>1, <3>1, CutIsATrail DEF Before
    <3>3. prior[w].name \in Names \cup {Absent}
      BY DEF TypeOK
    <3>4. QED
      BY <2>1, <3>1, <3>2, <3>3
  <2>4. QED
    BY <2>2, <2>3 DEF Undone
<1>1. TypeOK'
  <2>1. trail' \in [Stores -> Seq(Names)] /\ persona' \in [Stores -> Names \cup {Absent}]
    BY <1>0 DEF TypeOK, Stores
  <2>2. faults' \in 0..MaxFaults
    BY PersonaAssumption DEF TypeOK
  <2>3. pc' = [pc EXCEPT ![w] = "idle"] /\ lock' \in [Stores -> Writers \cup {Absent}]
    BY DEF TypeOK, Stores
  <2>4. QED
    BY <2>1, <2>2, <2>3 DEF TypeOK
<1>2. LockHeld'
  BY PersonaAssumption DEF LockHeld, Inside, TypeOK, Stores
<1>3. ShipKept'
  BY DEF ShipKept, TypeOK, Stores
<1>4. Migrating'
  BY <1>0 DEF Migrating, TypeOK, LockHeld, Inside, Stores
<1>5. PriorStands'
  BY DEF PriorStands, Undone, Before, LockHeld, Inside, TypeOK, Stores
<1>6. NamesOnTrail'
  BY <1>0 DEF NamesOnTrail
<1>7. SyncedBehind'
  BY <1>0 DEF SyncedBehind, TypeOK, Stores
<1>8. QED
  BY <1>1, <1>2, <1>3, <1>4, <1>5, <1>6, <1>7

\* An interruption changes neither file; only a power loss may bring the durable name back.
LEMMA StepKilled == ASSUME IInv, NEW w \in Writers, Killed(w) PROVE IInv'
<1> USE DEF IInv, Killed, At, Unlocked, Fault
<1>1. TypeOK'
  BY PersonaAssumption DEF TypeOK, Stores, Join
<1>2. LockHeld'
  BY PersonaAssumption DEF LockHeld, Inside, TypeOK, Stores
<1>3. ShipKept'
  BY DEF ShipKept, TypeOK, Stores
<1>4. Migrating'
  BY DEF Migrating, TypeOK
<1>5. PriorStands'
  BY DEF PriorStands, Undone, Before, LockHeld, Inside, TypeOK, Stores
<1>6. NamesOnTrail'
  BY DEF NamesOnTrail
<1>7. SyncedBehind'
  BY DEF SyncedBehind
<1>8. QED
  BY <1>1, <1>2, <1>3, <1>4, <1>5, <1>6, <1>7

\* What a power loss leaves is durable; nobody is inside any more.
LEMMA StepPowerLoss == ASSUME IInv, PowerLoss PROVE IInv'
<1> USE DEF IInv, PowerLoss, Fault
<1>1. TypeOK'
  <2>1. persona' \in [Stores -> Names \cup {Absent}] /\ synced' = persona'
    BY DEF TypeOK
  <2>2. faults' \in 0..MaxFaults
    BY PersonaAssumption DEF TypeOK
  <2>3. QED
    BY <2>1, <2>2 DEF TypeOK, Stores
<1>2. LockHeld' /\ Migrating' /\ PriorStands'
  BY DEF LockHeld, Migrating, PriorStands, Inside, Undone
<1>3. ShipKept' /\ NamesOnTrail' /\ SyncedBehind'
  BY DEF ShipKept, NamesOnTrail, SyncedBehind
<1>4. QED
  BY <1>1, <1>2, <1>3

\* Hence every step does.
LEMMA StepInv == IInv /\ [Next]_vars => IInv'
<1> SUFFICES ASSUME IInv, [Next]_vars PROVE IInv'
  OBVIOUS
<1>1. CASE PowerLoss
  BY <1>1, StepPowerLoss
<1>2. ASSUME NEW w \in Writers, Begins(w) \/ Migrates(w) \/ Naming(w) \/ Killed(w)
      PROVE  IInv'
  BY <1>2, StepBegins, StepFindsOrigin, StepLocksSource, StepCopiesTrail, StepCopiesPersona,
     StepMigrated, StepMigrationFails, StepLoads, StepLocks, StepAppendsNaming, StepPlaces,
     StepNamed, StepNamingFails, StepKilled DEF Migrates, Naming
<1>3. CASE UNCHANGED vars
  BY <1>3 DEF vars, IInv, TypeOK, LockHeld, ShipKept, Migrating, PriorStands, NamesOnTrail,
              SyncedBehind, Undone, Before
<1>4. QED
  BY <1>1, <1>2, <1>3 DEF Next, Done

\* However commands interleave, fail, die and lose power, the invariant holds.
THEOREM Invariance == Spec => []IInv
BY InitInv, StepInv, PTL DEF Spec

\* Every state of the two stores, the locks and the commands is well-typed.
THEOREM TypeCorrect == Spec => []TypeOK
<1>1. IInv => TypeOK
  BY DEF IInv
<1>2. QED
  BY <1>1, Invariance, PTL

-----------------------------------------------------------------------------
(* The record the two files implement.                                      *)

\* The names on a trail are the same to the record as to the files.
LEMMA SameNames == \A s : Record!ToSet(s) = ToSet(s)
BY DEF Record!ToSet, ToSet

\* What is seen from outside: the pair the one naming under way would put back, else the
\* pair of the store the hull answers from.
Seen ==
    /\ \A w \in Writers : Undone(w) =>
          /\ Worn = IF prior[w].name = Absent THEN Root ELSE prior[w].name
          /\ History = Before(w)
    /\ (\A w \in Writers : ~Undone(w)) => Worn = Answers(Home) /\ History = trail[Home]

LEMMA SeenFromOutside == IInv => Seen
<1> SUFFICES ASSUME IInv PROVE Seen
  OBVIOUS
<1>1. ASSUME NEW w \in Writers, Undone(w)
      PROVE  Writing = w
  <2>1. Writing \in Writers /\ Undone(Writing)
    BY <1>1 DEF Writing
  <2>2. QED
    BY <1>1, <2>1, Alone DEF IInv, Undone, Inside
<1>2. ASSUME NEW w \in Writers, Undone(w)
      PROVE  /\ Worn = IF prior[w].name = Absent THEN Root ELSE prior[w].name
             /\ History = Before(w)
  BY <1>1, <1>2 DEF Worn, History, Before
<1>3. (\A w \in Writers : ~Undone(w)) => Worn = Answers(Home) /\ History = trail[Home]
  BY DEF Worn, History
<1>4. QED
  BY <1>2, <1>3 DEF Seen

\* A command past the migration names in the captain's store, and so does everyone else.
LEMMA HomeOfANaming ==
    ASSUME IInv, NEW w \in Writers, pc[w] \in {"load", "loaded", "locked", "appended", "placed"}
    PROVE  Home = "own"
BY DEF IInv, Migrating, Home

\* While a command is inside and its own naming is not under way, nobody's is.
LEMMA NobodyElse ==
    ASSUME IInv, NEW w \in Writers, pc[w] \in Inside
    PROVE  \A v \in Writers : Undone(v) => v = w
BY Alone DEF IInv, Inside, Undone

\* A step that moves a command along and leaves both files alone is not seen.
LEMMA Quietly ==
    ASSUME Seen, Seen', UNCHANGED <<persona, trail>>,
           \A v \in Writers : /\ Undone(v)' <=> Undone(v)
                              /\ Undone(v) => prior'[v] = prior[v]
    PROVE  UNCHANGED <<Worn, History>>
<1>1. CASE \E v \in Writers : Undone(v)
  <2>1. PICK v \in Writers : Undone(v)
    BY <1>1
  <2>2. Before(v)' = Before(v)
    BY <2>1 DEF Before
  <2>3. QED
    BY <2>1, <2>2 DEF Seen
<1>2. CASE \A v \in Writers : ~Undone(v)
  BY <1>2 DEF Seen, Answers, Home
<1>3. QED
  BY <1>1, <1>2

\* Bringing a ship's computer into the captain's store is not seen: the hull answers from
\* the ship's own store until the copy is whole, and the copy says the same.
LEMMA MigrationUnseen ==
    ASSUME IInv, IInv', Seen, Seen', NEW w \in Writers, Migrates(w)
    PROVE  UNCHANGED <<Worn, History>>
<1> USE DEF At
<1>1. CASE FindsOrigin(w) \/ LocksSource(w) \/ Migrated(w)
  <2>1. \A v \in Writers : Undone(v)' <=> Undone(v)
    BY <1>1 DEF FindsOrigin, LocksSource, Migrated, Undone, IInv, TypeOK
  <2>2. UNCHANGED <<persona, trail, prior>>
    BY <1>1 DEF FindsOrigin, LocksSource, Migrated
  <2>3. QED
    BY <2>1, <2>2, Quietly
<1>2. CASE CopiesTrail(w)
  <2>1. /\ \A v \in Writers : Undone(v)' <=> Undone(v)
        /\ \A v \in Writers : ~Undone(v)
        /\ UNCHANGED <<persona, prior>>
    BY <1>2, PersonaAssumption DEF CopiesTrail, Undone, IInv, TypeOK, LockHeld, Inside
  <2>2. CASE persona["own"] # Absent
    BY <1>2, <2>1, <2>2, Quietly DEF CopiesTrail
  <2>3. CASE persona["own"] = Absent
    <3>1. persona["ship"] # Absent
      BY <1>2 DEF CopiesTrail, IInv, Migrating
    <3>2. Home = "ship" /\ Home' = "ship"
      BY <2>1, <2>3, <3>1 DEF Home
    <3>3. trail'["ship"] = trail["ship"]
      BY <1>2 DEF CopiesTrail, IInv, TypeOK, Stores
    <3>4. QED
      BY <2>1, <3>2, <3>3 DEF Seen, Answers
  <2>4. QED
    BY <2>2, <2>3
<1>3. CASE CopiesPersona(w)
  <2>1. (\A v \in Writers : ~Undone(v)) /\ \A v \in Writers : ~Undone(v)'
    BY <1>3, NobodyElse DEF CopiesPersona, Undone, IInv, TypeOK, Inside
  <2>2. /\ persona["own"] = Absent /\ persona["ship"] # Absent
        /\ trail["own"] = trail["ship"]
    BY <1>3 DEF CopiesPersona, IInv, Migrating
  <2>3. persona'["own"] = persona["ship"] /\ UNCHANGED trail
    BY <1>3 DEF CopiesPersona, IInv, TypeOK, Stores
  <2>4. Home = "ship" /\ Home' = "own"
    BY <2>2, <2>3 DEF Home
  <2>5. QED
    BY <2>1, <2>2, <2>3, <2>4 DEF Seen, Answers
<1>4. CASE MigrationFails(w)
  <2>1. (\A v \in Writers : ~Undone(v)) /\ \A v \in Writers : ~Undone(v)'
    BY <1>4, NobodyElse DEF MigrationFails, Undone, IInv, TypeOK, Inside
  <2>2. CASE pc[w] = "copying"
    <3>1. persona["own"] = Absent /\ persona["ship"] # Absent
      BY <2>2 DEF IInv, Migrating
    <3>2. /\ persona'["own"] = Absent /\ persona'["ship"] = persona["ship"]
          /\ trail'["ship"] = trail["ship"]
      BY <1>4, <2>2 DEF MigrationFails, IInv, TypeOK, Stores
    <3>3. Home = "ship" /\ Home' = "ship"
      BY <3>1, <3>2 DEF Home
    <3>4. QED
      BY <2>1, <3>2, <3>3 DEF Seen, Answers
  <2>3. CASE pc[w] # "copying"
    BY <1>4, <2>1, <2>3 DEF MigrationFails, Seen, Answers, Home
  <2>4. QED
    BY <2>2, <2>3
<1>5. QED
  BY <1>1, <1>2, <1>3, <1>4 DEF Migrates

\* A naming is one act of the record, at the step that reports it done; a failure leaves
\* the record as it was.
LEMMA NamingIsOneAct ==
    ASSUME IInv, IInv', Seen, Seen', NEW w \in Writers, Naming(w)
    PROVE  Record!Next \/ UNCHANGED <<Worn, History>>
<1> USE DEF At
<1>1. CASE LoadsPersona(w)
  <2>1. /\ \A v \in Writers : Undone(v)' <=> Undone(v)
        /\ UNCHANGED <<persona, trail, prior>>
    BY <1>1 DEF LoadsPersona, Undone, IInv, TypeOK
  <2>2. QED
    BY <2>1, Quietly
<1>2. CASE Locks(w)
  <2>1. /\ \A v \in Writers : (Undone(v)' <=> Undone(v)) /\ (Undone(v) => prior'[v] = prior[v])
        /\ UNCHANGED <<persona, trail>>
    BY <1>2 DEF Locks, Undone, IInv, TypeOK
  <2>2. QED
    BY <2>1, Quietly
<1>3. CASE AppendsNaming(w)
  <2>1. (\A v \in Writers : ~Undone(v)) /\ Undone(w)'
    BY <1>3, NobodyElse DEF AppendsNaming, Undone, IInv, TypeOK, Inside
  <2>2. prior'[w] = [name |-> persona["own"], length |-> Len(trail["own"])]
    BY <1>3 DEF AppendsNaming, IInv, PriorStands
  <2>3. Home = "own"
    BY <1>3, HomeOfANaming DEF AppendsNaming
  <2>4. Worn' = Worn
    BY <2>1, <2>2, <2>3 DEF Seen, Answers
  <2>5. trail'["own"] = Append(trail["own"], loaded[w])
    BY <1>3 DEF AppendsNaming, IInv, TypeOK, Stores
  <2>6. Before(w)' = trail["own"]
    BY <2>2, <2>5, Appended DEF Before, IInv, TypeOK, Stores
  <2>7. QED
    BY <2>1, <2>3, <2>4, <2>6 DEF Seen
<1>4. CASE Places(w)
  <2>1. Undone(w) /\ Undone(w)' /\ UNCHANGED <<prior, trail>>
    BY <1>4 DEF Places, Undone, IInv, TypeOK
  <2>2. Before(w)' = Before(w)
    BY <2>1 DEF Before
  <2>3. QED
    BY <2>1, <2>2 DEF Seen
<1>5. CASE Named(w)
  <2>1. Undone(w) /\ \A v \in Writers : ~Undone(v)'
    BY <1>5, NobodyElse DEF Named, Undone, IInv, TypeOK, Inside
  <2>2. /\ persona'["own"] = loaded[w] /\ loaded[w] \in Names
        /\ trail'["own"] = Append(Before(w), loaded[w])
    BY <1>5, <2>1 DEF Named, IInv, TypeOK, PriorStands
  <2>3. Home' = "own" /\ persona'["own"] # Absent
    BY <2>2, PersonaAssumption DEF Home
  <2>4. Worn' = loaded[w] /\ History' = Append(History, loaded[w])
    BY <2>1, <2>2, <2>3 DEF Seen, Answers
  <2>5. QED
    BY <2>2, <2>4 DEF Record!Next, Record!Give
<1>6. CASE NamingFails(w)
  <2>1. \A v \in Writers : ~Undone(v)'
    BY <1>6, NobodyElse DEF NamingFails, Undone, IInv, TypeOK, Inside
  <2>2. trail'["own"] = Before(w) /\ persona'["own"] = prior[w].name
    BY <1>6 DEF NamingFails, Before, IInv, TypeOK, Stores
  <2>3. persona'["ship"] = persona["ship"]
    BY <1>6 DEF NamingFails, IInv, TypeOK, Stores
  <2>4. CASE pc[w] = "locked"
    <3>1. (\A v \in Writers : ~Undone(v)) /\ Home = "own"
      BY <2>4, NobodyElse, HomeOfANaming DEF Undone, Inside
    <3>2. prior[w] = [name |-> persona["own"], length |-> Len(trail["own"])]
      BY <2>4 DEF IInv, PriorStands
    <3>3. Before(w) = trail["own"]
      <4>1. Before(w) = SubSeq(trail["own"], 1, Len(trail["own"])) /\ trail["own"] \in Seq(Names)
        BY <3>2 DEF Before, IInv, TypeOK, Stores
      <4>2. QED
        BY <4>1, SubSeqFull
    <3>4. Home' = "own"
      BY <2>2, <2>3, <3>1, <3>2 DEF Home
    <3>5. QED
      BY <2>1, <2>2, <3>1, <3>2, <3>3, <3>4 DEF Seen, Answers
  <2>5. CASE Undone(w)
    <3>1. persona["ship"] # Absent => prior[w].name # Absent
      BY <2>5 DEF IInv, PriorStands
    <3>2. Home' = "own"
      BY <2>2, <2>3, <3>1 DEF Home
    <3>3. QED
      BY <2>1, <2>2, <2>5, <3>2 DEF Seen, Answers
  <2>6. QED
    BY <1>6, <2>4, <2>5 DEF NamingFails, Undone
<1>7. QED
  BY <1>1, <1>2, <1>3, <1>4, <1>5, <1>6 DEF Naming

\* A naming cut short leaves its name on the trail: worn already, or not.
LEMMA CutShort ==
    ASSUME IInv, Seen, Seen', NEW w \in Writers, Undone(w), UNCHANGED trail,
           \A v \in Writers : ~Undone(v)',
           persona'["own"] \in {loaded[w], prior[w].name}, UNCHANGED persona["ship"]
    PROVE  Record!Next
<1>1. /\ trail["own"] = Append(Before(w), loaded[w])
      /\ persona["ship"] # Absent => prior[w].name # Absent
      /\ loaded[w] \in Names
  BY DEF IInv, TypeOK, PriorStands
<1>2. Home' = "own"
  BY <1>1, PersonaAssumption DEF Home
<1>3. History' = Append(History, loaded[w])
  BY <1>1, <1>2 DEF Seen
<1>4. CASE persona'["own"] = prior[w].name
  <2>1. Worn' = Worn
    BY <1>2, <1>4 DEF Seen, Answers
  <2>2. QED
    BY <1>1, <1>3, <2>1 DEF Record!Next, Record!Note
<1>5. CASE persona'["own"] = loaded[w]
  <2>1. Worn' = loaded[w]
    BY <1>1, <1>2, <1>5, PersonaAssumption DEF Seen, Answers
  <2>2. QED
    BY <1>1, <1>3, <2>1 DEF Record!Next, Record!Give
<1>6. QED
  BY <1>4, <1>5

\* A kill is seen only when it cuts a naming short.
LEMMA KillSeen ==
    ASSUME IInv, Seen, Seen', NEW w \in Writers, Killed(w)
    PROVE  Record!Next \/ UNCHANGED <<Worn, History>>
<1>1. CASE Undone(w)
  <2>1. \A v \in Writers : ~Undone(v)'
    BY <1>1, NobodyElse DEF Killed, Undone, IInv, TypeOK, Inside
  <2>2. persona["own"] \in {loaded[w], prior[w].name} /\ UNCHANGED <<persona, trail>>
    BY <1>1 DEF Killed, IInv, PriorStands, Undone
  <2>3. QED
    BY <1>1, <2>1, <2>2, CutShort
<1>2. CASE ~Undone(w)
  <2>1. /\ \A v \in Writers : Undone(v)' <=> Undone(v)
        /\ UNCHANGED <<persona, trail, prior>>
    BY <1>2 DEF Killed, Undone, IInv, TypeOK
  <2>2. QED
    BY <2>1, Quietly
<1>3. QED
  BY <1>1, <1>2

\* A power loss cuts a naming short, or brings back an earlier name: one that is on the
\* trail, or the name from before there was a trail.
LEMMA PowerLossSeen ==
    ASSUME IInv, Seen, Seen', PowerLoss
    PROVE  Record!Next \/ UNCHANGED <<Worn, History>>
<1>1. /\ \A v \in Writers : ~Undone(v)'
      /\ UNCHANGED trail /\ persona' \in {persona, synced}
      /\ persona'["ship"] = persona["ship"]
  BY DEF PowerLoss, Undone, IInv, ShipKept
<1>2. CASE \E v \in Writers : Undone(v)
  <2>1. PICK v \in Writers : Undone(v)
    BY <1>2
  <2>2. persona'["own"] \in {loaded[v], prior[v].name}
    BY <1>1, <2>1 DEF IInv, PriorStands, Undone
  <2>3. QED
    BY <1>1, <2>1, <2>2, CutShort
<1>3. CASE \A v \in Writers : ~Undone(v)
  <2>1. CASE persona'["own"] = persona["own"]
    <3>1. Home' = Home /\ persona'[Home] = persona[Home]
      BY <1>1, <2>1 DEF Home
    <3>2. QED
      BY <1>1, <1>3, <3>1 DEF Seen, Answers
  <2>2. CASE persona'["own"] # persona["own"]
    <3>1. persona'["own"] = synced["own"] /\ persona["own"] # Absent /\ Home = "own"
      BY <1>1, <2>2 DEF IInv, SyncedBehind, Home
    <3>2. CASE synced["own"] # Absent
      <4>1. Home' = "own" /\ Worn' = synced["own"] /\ UNCHANGED History
        BY <1>1, <1>3, <3>1, <3>2 DEF Home, Seen, Answers
      <4>2. History = trail["own"] /\ synced["own"] \in ToSet(trail["own"]) /\ synced["own"] \in Names
        BY <1>3, <3>1, <3>2 DEF Seen, IInv, NamesOnTrail, TypeOK, Stores
      <4>3. QED
        BY <4>1, <4>2, SameNames DEF Record!Next, Record!FallBack, Record!Known
    <3>3. CASE synced["own"] = Absent /\ persona["ship"] # Absent
      <4>1. persona["own"] = persona["ship"] /\ trail["own"] = trail["ship"] /\ Home' = "ship"
        BY <1>1, <3>1, <3>3 DEF IInv, SyncedBehind, Home
      <4>2. QED
        BY <1>1, <1>3, <3>1, <3>3, <4>1 DEF Seen, Answers
    <3>4. CASE synced["own"] = Absent /\ persona["ship"] = Absent
      <4>1. Home' = "own" /\ Worn' = Root /\ UNCHANGED History
        BY <1>1, <1>3, <3>1, <3>4 DEF Home, Seen, Answers
      <4>2. QED
        BY <4>1, PersonaAssumption DEF Record!Next, Record!FallBack, Record!Known
    <3>5. QED
      BY <3>2, <3>3, <3>4
  <2>3. QED
    BY <2>1, <2>2
<1>4. QED
  BY <1>2, <1>3

\* A computer there is wears the name it was given, a new one the root's.
LEMMA InitRecord == Init => Record!Init
<1> SUFFICES ASSUME Init PROVE Record!Init
  OBVIOUS
<1>1. \A w \in Writers : ~Undone(w)
  BY DEF Init, Undone
<1>2. Worn = Answers(Home) /\ History = trail[Home]
  BY <1>1 DEF Worn, History
<1>3. PICK old \in {Absent} \cup Names :
         /\ persona = [d \in Stores |-> IF d = "ship" THEN old ELSE Absent]
         /\ trail = [d \in Stores |-> IF d = "ship" /\ old # Absent THEN <<old>> ELSE << >>]
  BY DEF Init
<1>4. CASE old = Absent
  <2>1. Worn = Root /\ History = << >>
    BY <1>2, <1>3, <1>4 DEF Home, Answers, Stores
  <2>2. QED
    BY <2>1, PersonaAssumption DEF Record!Init, Record!Known
<1>5. CASE old # Absent
  <2>1. Worn = old /\ History = <<old>> /\ old \in Names
    BY <1>2, <1>3, <1>5 DEF Home, Answers, Stores
  <2>2. QED
    BY <2>1, ShortTrails, SameNames DEF Record!Init, Record!Known
<1>6. QED
  BY <1>4, <1>5

LEMMA StepRecord == IInv /\ IInv' /\ Seen /\ Seen' /\ [Next]_vars => [Record!Next]_<<Worn, History>>
<1> SUFFICES ASSUME IInv, IInv', Seen, Seen', [Next]_vars
             PROVE  Record!Next \/ UNCHANGED <<Worn, History>>
  OBVIOUS
<1>1. CASE PowerLoss
  BY <1>1, PowerLossSeen
<1>2. ASSUME NEW w \in Writers, Begins(w)
      PROVE  UNCHANGED <<Worn, History>>
  <2>1. /\ \A v \in Writers : Undone(v)' <=> Undone(v)
        /\ UNCHANGED <<persona, trail, prior>>
    BY <1>2 DEF Begins, At, Undone, IInv, TypeOK
  <2>2. QED
    BY <2>1, Quietly
<1>3. ASSUME NEW w \in Writers, Migrates(w) \/ Naming(w) \/ Killed(w)
      PROVE  Record!Next \/ UNCHANGED <<Worn, History>>
  BY <1>3, MigrationUnseen, NamingIsOneAct, KillSeen
<1>4. CASE UNCHANGED vars
  <2>1. /\ \A v \in Writers : Undone(v)' <=> Undone(v)
        /\ UNCHANGED <<persona, trail, prior>>
    BY <1>4 DEF vars, Undone
  <2>2. QED
    BY <2>1, Quietly
<1>5. QED
  BY <1>1, <1>2, <1>3, <1>4 DEF Next, Done

\* The two files implement the record: whatever fails, dies or loses power, and however
\* commands interleave, a naming is one act, and no name is forgotten.
THEOREM Implements == Spec => ImplementsNaming
<1>1. Init => Record!Init
  BY InitRecord
<1>2. IInv /\ IInv' /\ Seen /\ Seen' /\ [Next]_vars => [Record!Next]_Record!vars
  BY StepRecord DEF Record!vars
<1>3. QED
  BY <1>1, <1>2, SeenFromOutside, Invariance, PTL DEF Spec, ImplementsNaming, Record!Spec

\* The name a hull's computer answers to is the root's or one that its trail holds.
THEOREM WornIsOnTheTrail == Spec => []Record!WornIsKnown
<1>1. IInv /\ Seen => Record!WornIsKnown
  <2> SUFFICES ASSUME IInv, Seen PROVE Worn = Root \/ Worn \in ToSet(History)
    BY SameNames DEF Record!WornIsKnown, Record!Known
  <2>1. CASE \E w \in Writers : Undone(w)
    BY <2>1 DEF Seen, IInv, PriorStands
  <2>2. CASE \A w \in Writers : ~Undone(w)
    <3>1. Worn = Answers(Home) /\ History = trail[Home]
      BY <2>2 DEF Seen
    <3>2. CASE Home = "own"
      BY <3>1, <3>2 DEF Answers, IInv, NamesOnTrail
    <3>3. CASE Home = "ship"
      BY <3>1, <3>3, ShortTrails DEF Answers, IInv, ShipKept, TypeOK, Stores
    <3>4. QED
      BY <3>2, <3>3 DEF Home
  <2>3. QED
    BY <2>1, <2>2
<1>2. QED
  BY <1>1, SeenFromOutside, Invariance, PTL

-----------------------------------------------------------------------------
(* The freight judgment: sets of naturals.                                  *)

LEMMA Least == ASSUME NEW T \in SUBSET Nat, T # {} PROVE \E n \in T : \A m \in T : n <= m
<1> DEFINE R == OpToRel(<, Nat)
<1>1. IsWellFoundedOn(R, Nat)
  BY NatLessThanWellFounded DEF OpToRel
<1>2. \A a, b \in Nat : <<a, b>> \in R <=> a < b
  BY DEF OpToRel
<1> HIDE DEF R
<1>3. PICK n \in T : \A m \in T : ~(<<m, n>> \in R)
  BY <1>1, WFMin
<1>4. \A m \in T : ~(m < n)
  BY <1>2, <1>3
<1>5. QED
  BY <1>4

\* A set that is climbed holds every natural.
LEMMA Climb ==
    ASSUME NEW G, 0 \in G, \A n \in Nat : n \in G => n + 1 \in G
    PROVE  \A n \in Nat : n \in G
<1> DEFINE T == {n \in Nat : n \notin G}
<1>1. CASE T = {}
  BY <1>1
<1>2. CASE T # {}
  <2>1. PICK n \in T : \A m \in T : n <= m
    BY <1>2, Least
  <2>2. n # 0 /\ n - 1 \in Nat /\ ~(n <= n - 1)
    BY <2>1
  <2>3. n - 1 \in G
    BY <2>1, <2>2
  <2>4. QED
    BY <2>2, <2>3
<1>3. QED
  BY <1>1, <1>2

\* The most of a finite set of naturals.
LEMMA MostOf ==
    ASSUME NEW S \in SUBSET Nat, IsFiniteSet(S), S # {}
    PROVE  Max(S) \in S /\ \A x \in S : x <= Max(S)
<1> DEFINE n == Cardinality(S)
<1>1. n \in Nat /\ ExistsBijection(1..n, S)
  BY FS_CardinalityType
<1> HIDE DEF n
<1>2. PICK f : f \in [1..n -> S] /\ \A x \in S : \E k \in 1..n : f[k] = x
  BY <1>1 DEF ExistsBijection, Bijection, Surjection
<1> DEFINE Under(m) == \E top \in Nat : \A k \in 1..m : f[k] <= top
           G == {m \in Nat : m <= n => Under(m)}
<1>3. 0 \in G
  OBVIOUS
<1>4. ASSUME NEW m \in Nat, m \in G PROVE m + 1 \in G
  <2>1. CASE m + 1 <= n
    <3>0. Under(m)
      <4> HIDE DEF Under
      <4>1. m <= n
        BY <1>1, <2>1
      <4>2. QED
        BY <1>4, <4>1
    <3>1. PICK top \in Nat : \A k \in 1..m : f[k] <= top
      BY <3>0
    <3>2. m + 1 \in 1..n /\ f[m + 1] \in Nat /\ \A k \in 1..m : f[k] \in Nat
      <4>1. m + 1 \in 1..n /\ \A k \in 1..m : k \in 1..n
        BY <1>1, <2>1
      <4>2. QED
        BY <1>2, <4>1
    <3>3. PICK more \in Nat : top <= more /\ f[m + 1] <= more
      BY <3>2
    <3>4. \A k \in 1..(m + 1) : k \in 1..m \/ k = m + 1
      OBVIOUS
    <3>5. \A k \in 1..(m + 1) : f[k] <= more
      BY <3>1, <3>2, <3>3, <3>4
    <3>6. Under(m + 1)
      BY <3>3, <3>5
    <3> HIDE DEF Under
    <3>7. QED
      BY <3>6
  <2>2. QED
    BY <2>1
<1>5. n \in G
  <2> HIDE DEF G
  <2>1. QED
    BY <1>1, <1>3, <1>4, Climb
<1>6. PICK top \in Nat : \A x \in S : x <= top
  <2>1. Under(n)
    <3> HIDE DEF Under
    <3>1. QED
      BY <1>1, <1>5
  <2>2. QED
    BY <1>2, <2>1
<1> DEFINE T == {top - x : x \in S}
<1>7. T \in SUBSET Nat /\ T # {}
  <2>1. \A x \in S : top - x \in Nat
    BY <1>6
  <2>2. QED
    BY <2>1
<1>8. PICK t \in T : \A y \in T : t <= y
  BY <1>7, Least
<1>9. PICK m \in S : t = top - m
  BY DEF T
<1>10. \A x \in S : top - x \in T /\ x \in Nat
  OBVIOUS
<1>11. \A x \in S : m >= x
  BY <1>8, <1>9, <1>10
<1>12. QED
  BY <1>11 DEF Max

\* The values of a function on a finite set are finitely many.
LEMMA FiniteImage ==
    ASSUME NEW S, IsFiniteSet(S), NEW f, DOMAIN f = S
    PROVE  IsFiniteSet({f[x] : x \in S})
<1> DEFINE T == {f[x] : x \in S}
           g == [x \in S |-> f[x]]
<1>1. g \in Surjection(S, T)
  BY DEF Surjection
<1> HIDE DEF T, g
<1>2. IsFiniteSet(T)
  BY <1>1, FS_Surjection
<1>3. QED
  BY <1>2 DEF T

-----------------------------------------------------------------------------
(* The constants.                                                           *)

LEMMA VoyageFigures ==
    /\ IsFiniteSet(Stations) /\ IsFiniteSet(Loads) /\ IsFiniteSet(Windows)
    /\ Pumps \subseteq Stations /\ None \notin Stations /\ None \notin Loads /\ None \notin Nat
    /\ None # [verb |-> "done"]
    /\ Origin \in [Loads -> Stations] /\ Dest \in [Loads -> Stations]
    /\ Windows \subseteq Nat /\ Goods \subseteq 0..Hold
    /\ Tank \in Nat \ {0} /\ Hold \in Nat \ {0} /\ Bay \in Nat \ {0} /\ PickupTTL \in Nat \ {0}
    /\ Engage \in Nat \ {0} /\ Loading \in Nat \ {0} /\ AirMargin \in Nat \ {0}
    /\ TankerTicks \in Nat \ {0}
<1>1. {Tank, Hold, Bay, PickupTTL, Engage, Loading, AirMargin, TankerTicks} \subseteq Nat \ {0}
  BY VoyageAssumption
<1>2. QED
  BY <1>1, VoyageAssumption

LEMMA Quotes ==
    /\ Fuel \in [Stations \X Stations -> Nat] /\ Ticks \in [Stations \X Stations -> Nat]
    /\ EconomyFuel \in [Stations \X Stations -> Nat] /\ EconomyTicks \in [Stations \X Stations -> Nat]
    /\ \A s \in Stations : Fuel[<<s, s>>] = 0
    /\ \A l \in Loads : Origin[l] # Dest[l]
<1>1. \A f \in {Fuel, Ticks, EconomyFuel, EconomyTicks} :
         /\ f \in [Stations \X Stations -> Nat] /\ \A s \in Stations : f[<<s, s>>] = 0
  BY VoyageAssumption
<1>2. \A l \in Loads : Origin[l] # Dest[l]
  BY VoyageAssumption
<1>3. QED
  BY <1>1, <1>2

\* No flight lasts longer than the bound on it.
LEMMA FlightsWithin ==
    ASSUME Stations # {}
    PROVE  /\ HighTicks \in Nat
           /\ \A s, r \in Stations : /\ Ticks[<<s, r>>] + Engage <= HighTicks
                                     /\ EconomyTicks[<<s, r>>] + Engage <= HighTicks
<1> DEFINE pairs == Stations \X Stations
           some == {Ticks[p] : p \in pairs}
           more == {EconomyTicks[p] : p \in pairs}
           all == some \cup more
<1>1. IsFiniteSet(pairs)
  BY VoyageFigures, FS_Product
<1>2. IsFiniteSet(some) /\ IsFiniteSet(more)
  <2>1. DOMAIN Ticks = pairs /\ DOMAIN EconomyTicks = pairs
    BY Quotes
  <2> HIDE DEF pairs
  <2>2. QED
    BY <1>1, <2>1, FiniteImage
<1>3. \A s, r \in Stations : Ticks[<<s, r>>] \in some /\ EconomyTicks[<<s, r>>] \in more
  OBVIOUS
<1>4. some \in SUBSET Nat /\ more \in SUBSET Nat
  BY Quotes
<1> HIDE DEF some, more
<1>5. IsFiniteSet(all)
  BY <1>2, FS_Union
<1>6. all \in SUBSET Nat /\ all # {}
  BY <1>3, <1>4
<1> DEFINE top == Max(all)
<1>7. top \in Nat /\ \A x \in all : x <= top
  <2> HIDE DEF all
  <2>1. Max(all) \in all /\ \A x \in all : x <= Max(all)
    BY <1>5, <1>6, MostOf
  <2>2. QED
    BY <1>6, <2>1
<1>8. HighTicks = top + Engage
  BY DEF HighTicks, some, more
<1> HIDE DEF top
<1>9. Engage \in Nat
  BY VoyageFigures
<1>10. ASSUME NEW s \in Stations, NEW r \in Stations
       PROVE  Ticks[<<s, r>>] + Engage <= HighTicks /\ EconomyTicks[<<s, r>>] + Engage <= HighTicks
  <2>1. /\ Ticks[<<s, r>>] <= top /\ EconomyTicks[<<s, r>>] <= top
        /\ Ticks[<<s, r>>] \in Nat /\ EconomyTicks[<<s, r>>] \in Nat
    BY <1>3, <1>4, <1>7
  <2>2. QED
    BY <1>7, <1>8, <1>9, <2>1
<1>11. QED
  BY <1>7, <1>8, <1>9, <1>10

LEMMA WindowsWithin == HighWindow \in Nat /\ Windows \subseteq 0..HighWindow
<1> DEFINE all == Windows \cup {0}
<1>0. IsFiniteSet(all)
  BY VoyageFigures, FS_AddElement
<1>1. all \in SUBSET Nat /\ all # {}
  BY VoyageFigures
<1> HIDE DEF all
<1>2. Max(all) \in all /\ \A x \in all : x <= Max(all)
  <2>1. ASSUME NEW S \in SUBSET Nat, IsFiniteSet(S), S # {} PROVE Max(S) \in S /\ \A x \in S : x <= Max(S)
    BY <2>1, MostOf
  <2>2. QED
    BY <1>0, <1>1, <2>1
<1> DEFINE top == Max(all)
<1>3. top \in Nat /\ \A x \in all : x \in Nat /\ x <= top
  BY <1>1, <1>2
<1> HIDE DEF top
<1>4. \A x \in all : x \in 0..top
  BY <1>3
<1>5. HighWindow = top /\ Windows \subseteq all
  BY DEF HighWindow, all, top
<1>6. QED
  BY <1>3, <1>4, <1>5

-----------------------------------------------------------------------------
(* The tank and the pumps.                                                  *)

LEMMA OnwardCosts ==
    ASSUME NEW s \in Stations, Pumps # {}
    PROVE  /\ OnwardToPump(s) \in Nat
           /\ \E p \in Pumps : OnwardToPump(s) = Fuel[<<s, p>>]
<1> DEFINE costs == {Fuel[<<s, p>>] : p \in Pumps}
<1>1. \A p \in Pumps : Fuel[<<s, p>>] \in Nat
  BY VoyageFigures, Quotes
<1>2. CASE s \in Pumps
  <2>1. OnwardToPump(s) = 0 /\ Fuel[<<s, s>>] = 0
    BY <1>2, Quotes DEF OnwardToPump
  <2>2. QED
    BY <1>2, <2>1
<1>3. CASE s \notin Pumps
  <2>1. costs \in SUBSET Nat /\ costs # {}
    BY <1>1
  <2>2. OnwardToPump(s) = Min(costs)
    BY <1>3 DEF OnwardToPump
  <2>3. Min(costs) \in costs
    <3> HIDE DEF costs
    <3>1. PICK n \in costs : \A m \in costs : n <= m
      BY <2>1, Least
    <3>2. QED
      BY <3>1 DEF Min
  <2>4. QED
    BY <1>1, <2>2, <2>3
<1>4. QED
  BY <1>2, <1>3

\* What a fold may fly to for fuel is a pump.
LEMMA RunsToPumps ==
    ASSUME NEW here \in Stations, NEW r \in Runs(here)
    PROVE  r.pump \in Pumps /\ r.economy \in BOOLEAN
<1> DEFINE affords(fuel) == (fuel * 11) \div 10 <= tank
           plan(p) == IF affords(Fuel[<<here, p>>])
                      THEN [pump |-> p, economy |-> FALSE, fuel |-> Fuel[<<here, p>>]]
                      ELSE [pump |-> p, economy |-> TRUE, fuel |-> EconomyFuel[<<here, p>>]]
<1>1. PICK p \in Pumps : r = plan(p)
  BY DEF Runs
<1>2. plan(p).pump = p /\ plan(p).economy \in BOOLEAN
  <2> HIDE DEF affords
  <2>1. CASE affords(Fuel[<<here, p>>])
    BY <2>1
  <2>2. CASE ~affords(Fuel[<<here, p>>])
    BY <2>2
  <2>3. QED
    BY <2>1, <2>2
<1>3. QED
  BY <1>1, <1>2

\* The choice of a pump, with the tank it is made from named.
RunsWith(here, full) ==
    LET affords(fuel) == (fuel * 11) \div 10 <= full
        plan(p) == IF affords(Fuel[<<here, p>>])
                   THEN [pump |-> p, economy |-> FALSE, fuel |-> Fuel[<<here, p>>]]
                   ELSE [pump |-> p, economy |-> TRUE, fuel |-> EconomyFuel[<<here, p>>]]
        plans == {plan(p) : p \in Pumps}
    IN {r \in plans : affords(r.fuel) /\ \A s \in plans : affords(s.fuel) => r.fuel <= s.fuel}

Covers(full, fuel) == (fuel * 11) \div 10 <= full

\* There is a run to a pump exactly if some pump is covered at one of the burns.
LEMMA RunsWhen ==
    ASSUME NEW here \in Stations, NEW full
    PROVE  RunsWith(here, full) # {}
              <=> \E p \in Pumps : \/ Covers(full, Fuel[<<here, p>>])
                                   \/ Covers(full, EconomyFuel[<<here, p>>])
<1> DEFINE affords(fuel) == (fuel * 11) \div 10 <= full
           plan(q) == IF affords(Fuel[<<here, q>>])
                      THEN [pump |-> q, economy |-> FALSE, fuel |-> Fuel[<<here, q>>]]
                      ELSE [pump |-> q, economy |-> TRUE, fuel |-> EconomyFuel[<<here, q>>]]
           plans == {plan(q) : q \in Pumps}
           fine == {r \in plans : affords(r.fuel)}
           fuels == {r.fuel : r \in fine}
<1>1. RunsWith(here, full)
        = {r \in plans : affords(r.fuel) /\ \A s \in plans : affords(s.fuel) => r.fuel <= s.fuel}
  BY DEF RunsWith
<1>2. \A fuel : affords(fuel) <=> Covers(full, fuel)
  BY DEF Covers
<1> HIDE DEF affords
<1>3. \A r \in plans : r.fuel \in Nat
  <2>1. ASSUME NEW q \in Pumps PROVE plan(q).fuel \in Nat
    <3>1. Fuel[<<here, q>>] \in Nat /\ EconomyFuel[<<here, q>>] \in Nat
      BY VoyageFigures, Quotes
    <3>2. QED
      BY <3>1
  <2>2. QED
    BY <2>1
<1>4. fine # {} <=> RunsWith(here, full) # {}
  <2>1. ASSUME fine # {} PROVE RunsWith(here, full) # {}
    <3> HIDE DEF plans
    <3>1. fuels \in SUBSET Nat /\ fuels # {}
      BY <1>3, <2>1
    <3>2. PICK n \in fuels : \A m \in fuels : n <= m
      BY <3>1, Least
    <3>3. PICK r \in fine : r.fuel = n
      BY <3>2
    <3>4. \A s \in plans : affords(s.fuel) => r.fuel <= s.fuel
      BY <3>2, <3>3
    <3>5. QED
      BY <1>1, <3>3, <3>4
  <2>2. QED
    <3> HIDE DEF plans
    <3>1. QED
      BY <1>1, <2>1
<1>5. ASSUME NEW p \in Pumps
      PROVE  affords(plan(p).fuel) <=> affords(Fuel[<<here, p>>]) \/ affords(EconomyFuel[<<here, p>>])
  <2>1. CASE affords(Fuel[<<here, p>>])
    BY <2>1
  <2>2. CASE ~affords(Fuel[<<here, p>>])
    BY <2>2
  <2>3. QED
    BY <2>1, <2>2
<1>6. fine # {} <=> \E p \in Pumps : affords(plan(p).fuel)
  <2> HIDE DEF plan
  <2>1. QED
    OBVIOUS
<1> HIDE DEF fine, plan
<1>7. QED
  BY <1>2, <1>4, <1>5, <1>6

-----------------------------------------------------------------------------
(* The tour.                                                                *)

\* A tour of some stops begins at one of them.
LEMMA ToursFirst ==
    ASSUME NEW stops, IsFiniteSet(stops), stops # {}, NEW t \in Tours(stops)
    PROVE  1 \in DOMAIN t /\ t[1] \in stops
<1>1. Cardinality(stops) \in Nat /\ Cardinality(stops) # 0
  BY FS_CardinalityType, FS_EmptySet
<1>2. 1 \in 1..Cardinality(stops)
  BY <1>1
<1>3. t \in [1..Cardinality(stops) -> stops]
  BY DEF Tours, SetToSeqs
<1>4. QED
  BY <1>2, <1>3

\* The stops of the bay are finitely many, each at a station; none only if nothing is held that
\* is not delivered.
LEMMA StopsOfBay ==
    /\ IsFiniteSet(RequiredStops)
    /\ \A s \in RequiredStops : s.station \in Stations
    /\ \A l \in Held : word[l] # "delivered" => RequiredStops # {}
<1> DEFINE coming == {l \in Held : word[l] = "booked" /\ ~(l = active /\ Aboard)}
           going == {l \in Held : word[l] # "delivered"}
           picks == [l \in coming |-> Pickup(l)]
           drops == [l \in going |-> Deliver(l)]
<1>1. coming \subseteq Loads /\ going \subseteq Loads
  BY DEF Held
<1>2. IsFiniteSet(coming) /\ IsFiniteSet(going)
  BY <1>1, VoyageFigures, FS_Subset
<1>3. RequiredStops = {picks[l] : l \in coming} \cup {drops[l] : l \in going}
  BY DEF RequiredStops
<1> HIDE DEF coming, going
<1>4. IsFiniteSet({picks[l] : l \in coming}) /\ IsFiniteSet({drops[l] : l \in going})
  <2>1. DOMAIN picks = coming /\ DOMAIN drops = going
    OBVIOUS
  <2> HIDE DEF picks, drops
  <2>2. QED
    BY <1>2, <2>1, FiniteImage
<1>5. IsFiniteSet(RequiredStops)
  <2> HIDE DEF picks, drops
  <2>1. QED
    BY <1>3, <1>4, FS_Union
<1>6. /\ \A l \in coming : picks[l].station \in Stations
      /\ \A l \in going : drops[l].station \in Stations
  BY <1>1, VoyageFigures DEF Pickup, Deliver
<1>7. \A s \in RequiredStops : s.station \in Stations
  <2> HIDE DEF picks, drops
  <2>1. QED
    BY <1>3, <1>6
<1>8. ASSUME NEW l \in Held, word[l] # "delivered" PROVE RequiredStops # {}
  <2> HIDE DEF picks, drops
  <2>1. l \in going
    BY <1>8 DEF going
  <2>2. QED
    BY <1>3, <2>1
<1>9. QED
  BY <1>5, <1>7, <1>8

\* A load that is not yet aboard is picked up before it is delivered.
LEMMA PickupFirst ==
    ASSUME NEW l, NEW t \in Tours({Pickup(l), Deliver(l)})
    PROVE  t[1] = Pickup(l)
<1> DEFINE stops == {Pickup(l), Deliver(l)}
<1>1. Pickup(l) # Deliver(l) /\ Pickup(l).picks /\ ~Deliver(l).picks /\ Pickup(l).load = Deliver(l).load
  BY DEF Pickup, Deliver
<1>2. IsFiniteSet(stops) /\ Cardinality(stops) = 2
  <2>1. IsFiniteSet({Deliver(l)}) /\ Cardinality({Deliver(l)}) = 1
    BY FS_Singleton
  <2>2. stops = {Deliver(l)} \cup {Pickup(l)} /\ Pickup(l) \notin {Deliver(l)}
    BY <1>1
  <2>3. QED
    BY <2>1, <2>2, FS_AddElement
<1>3. /\ t \in [1..2 -> stops]
      /\ \A i, j \in 1..2 : i # j => t[i] # t[j]
      /\ \A i, j \in DOMAIN t : t[i].load = t[j].load /\ t[i].picks /\ ~t[j].picks => i < j
  <2>1. t \in Tours(stops)
    OBVIOUS
  <2> HIDE DEF stops
  <2>2. QED
    BY <1>2, <2>1 DEF Tours, SetToSeqs
<1>4. t[1] \in stops /\ t[2] \in stops /\ t[1] # t[2] /\ 1 \in DOMAIN t /\ 2 \in DOMAIN t
  BY <1>3
<1>5. CASE t[1] = Deliver(l)
  <2>1. t[2] = Pickup(l)
    BY <1>4, <1>5
  <2>2. t[2].load = t[1].load /\ t[2].picks /\ ~t[1].picks
    BY <1>1, <1>5, <2>1
  <2>3. 2 < 1
    BY <1>3, <1>4, <2>2
  <2>4. QED
    BY <2>3
<1>6. QED
  BY <1>4, <1>5

\* Where the tour the router prices begins.
LEMMA FirstStop ==
    ASSUME NEW l \in Held, word[l] # "delivered", NEW due, NEW p \in PlanTour(RequiredStops, due)
    PROVE  p.tour[1] \in RequiredStops
<1>1. p.tour \in Tours(RequiredStops)
  BY DEF PlanTour
<1>2. QED
  BY <1>1, StopsOfBay, ToursFirst

-----------------------------------------------------------------------------
(* What decide_with answers.                                                *)

LEMMA ActForms ==
    /\ HoldOn \in Acts /\ HoldOn.verb = "hold"
    /\ [verb |-> "refuel"] \in Acts /\ [verb |-> "repair"] \in Acts /\ [verb |-> "paws"] \in Acts
    /\ \A s \in Stations, b \in BOOLEAN : [verb |-> "travel", to |-> s, economy |-> b] \in Acts
    /\ \A l \in Loads, w \in Windows : [verb |-> "book", load |-> l, due |-> w] \in Acts
    /\ \A l \in Loads : [verb |-> "collect", load |-> l] \in Acts
BY DEF Acts, HoldOn

\* What an act carries.
LEMMA ActFields ==
    ASSUME NEW d \in Acts
    PROVE  /\ d.verb \in {"hold", "refuel", "repair", "paws", "travel", "book", "collect"}
           /\ d.verb = "travel" => d.to \in Stations /\ d.economy \in BOOLEAN
           /\ d.verb = "book" => d.load \in Loads /\ d.due \in Windows
           /\ d.verb = "collect" => d.load \in Loads
BY DEF Acts, HoldOn

LEMMA Travels ==
    ASSUME NEW s \in Stations
    PROVE  /\ Travel(s) \in Acts
           /\ Travel(s).verb \in {"hold", "travel"}
           /\ Travel(s).verb = "travel" => Travel(s) = [verb |-> "travel", to |-> s, economy |-> FALSE]
<1>1. Travel(s) = HoldOn \/ Travel(s) = [verb |-> "travel", to |-> s, economy |-> FALSE]
  BY DEF Travel
<1>2. CASE Travel(s) = HoldOn
  BY <1>2, ActForms
<1>3. CASE Travel(s) = [verb |-> "travel", to |-> s, economy |-> FALSE]
  <2>1. \A b \in BOOLEAN : [verb |-> "travel", to |-> s, economy |-> b] \in Acts
    BY ActForms
  <2>2. [verb |-> "travel", to |-> s, economy |-> FALSE] \in Acts
    BY <2>1
  <2>3. QED
    BY <1>3, <2>2
<1>4. QED
  BY <1>1, <1>2, <1>3

\* What a fold may answer: an act in form, a load that is not held and for which there is room;
\* to refuel only at a pump; and with nothing held, to fly only to one.
Answer(d) ==
    /\ d \in Acts
    /\ d.verb = "book" => Cardinality(Held) < Bay /\ d.load \in Loads \ Held
    /\ d.verb = "refuel" => active = None /\ at \in Pumps
    /\ d.verb = "travel" /\ active = None => d.to \in Pumps

LEMMA HoldsOn == Answer(HoldOn)
BY ActForms DEF Answer, HoldOn

LEMMA Offers ==
    ASSUME NEW row \in Rows, row # None, Cardinality(Held) < Bay
    PROVE  Answer(Book(row)) /\ Book(row).verb = "book"
<1>1. row.load \in Loads \ Held /\ row.due \in Windows
  BY DEF Rows
<1>2. Book(row) \in Acts
  BY <1>1, ActForms DEF Book
<1>3. Book(row).verb = "book" /\ Book(row).load = row.load
  BY DEF Book
<1>4. QED
  BY <1>1, <1>2, <1>3 DEF Answer

\* An act on a load held, none of which is settled while another act is chosen.
LEMMA ContractAnswers ==
    ASSUME NEW row \in Rows, NEW answers \in BOOLEAN, active \in Loads, active \in Held,
           at \in Stations, word \in [Loads -> Words],
           NEW d \in UnderContract(row, answers)
    PROVE  Answer(d)
<1> DEFINE owed == {l \in Held : word[l] = "delivered"}
<1>1. owed \subseteq Loads
  BY DEF Held
<1>2. CASE owed # {}
  <2>1. d \in {[verb |-> "collect", load |-> l] : l \in IF active \in owed THEN {active} ELSE owed}
    BY <1>2 DEF UnderContract
  <2>2. PICK l \in IF active \in owed THEN {active} ELSE owed : d = [verb |-> "collect", load |-> l]
    BY <2>1
  <2>3. l \in Loads
    BY <1>1, <2>2
  <2>4. d \in Acts /\ d.verb = "collect"
    BY <2>2, <2>3, ActForms
  <2>5. QED
    BY <2>4 DEF Answer
<1>3. CASE owed = {} /\ ~Docked
  <2>1. d \in {IF row # None /\ answers /\ BookableInTheAir(row.load, row.due) THEN Book(row) ELSE HoldOn}
    BY <1>3 DEF UnderContract
  <2>2. CASE row # None /\ answers /\ BookableInTheAir(row.load, row.due)
    <3>1. d = Book(row) /\ Cardinality(Held) < Bay
      BY <2>1, <2>2 DEF BookableInTheAir
    <3>2. QED
      BY <2>2, <3>1, Offers
  <2>3. CASE ~(row # None /\ answers /\ BookableInTheAir(row.load, row.due))
    BY <2>1, <2>3, HoldsOn
  <2>4. QED
    BY <2>2, <2>3
<1>4. CASE owed = {} /\ Docked /\ row # None /\ Companion(row.load, row.due, answers)
  <2>1. d = Book(row)
    BY <1>4 DEF UnderContract
  <2>2. Cardinality(Held) < Bay
    BY <1>4 DEF Companion
  <2>3. QED
    BY <1>4, <2>1, <2>2, Offers
<1>5. CASE owed = {} /\ Docked /\ ~(row # None /\ Companion(row.load, row.due, answers))
  <2>0. active # None
    BY VoyageFigures
  <2>1. \/ \E s \in Stations : d = Travel(s)
        \/ d = HoldOn
    <3>1. CASE answers
      <4>1. d \in {Travel(p.tour[1].station) : p \in PlanTour(RequiredStops, left)}
        BY <1>5, <3>1 DEF UnderContract
      <4>2. PICK p \in PlanTour(RequiredStops, left) : d = Travel(p.tour[1].station)
        BY <4>1
      <4>3. word[active] # "delivered"
        BY <1>5
      <4>4. p.tour[1].station \in Stations
        BY <4>2, <4>3, FirstStop, StopsOfBay
      <4>5. QED
        BY <4>2, <4>4
    <3>2. CASE ~answers
      <4>1. d = Travel(Dest[active]) \/ d = Travel(Origin[active]) \/ d = HoldOn
        BY <1>5, <3>2 DEF UnderContract
      <4>2. Dest[active] \in Stations /\ Origin[active] \in Stations
        BY VoyageFigures
      <4>3. QED
        BY <4>1, <4>2
    <3>3. QED
      BY <3>1, <3>2
  <2>2. CASE d = HoldOn
    BY <2>2, HoldsOn
  <2>3. CASE \E s \in Stations : d = Travel(s)
    <3>1. d \in Acts /\ d.verb \in {"hold", "travel"}
      BY <2>3, Travels
    <3>2. QED
      BY <2>0, <3>1 DEF Answer
  <2>4. QED
    BY <2>1, <2>2, <2>3
<1>6. QED
  BY <1>2, <1>3, <1>4, <1>5

\* With nothing held.
LEMMA IdleAnswers ==
    ASSUME NEW row \in Rows, NEW answers \in BOOLEAN, NEW wear \in BOOLEAN, active = None,
           Held = {}, at \in Stations, NEW d \in Idle(row, answers, wear)
    PROVE  Answer(d)
<1>1. Cardinality(Held) < Bay
  BY VoyageFigures, FS_EmptySet
<1>2. CASE d = HoldOn
  BY <1>2, HoldsOn
<1>3. CASE d = Book(row) /\ row # None
  BY <1>1, <1>3, Offers
<1>4. CASE at \in Pumps /\ d = [verb |-> "refuel"]
  <2>1. d \in Acts /\ d.verb = "refuel"
    BY <1>4, ActForms
  <2>2. QED
    BY <1>4, <2>1 DEF Answer
<1>5. CASE d = [verb |-> "repair"] \/ d = [verb |-> "paws"]
  <2>1. d \in Acts /\ d.verb \in {"repair", "paws"}
    BY <1>5, ActForms
  <2>2. QED
    BY <2>1 DEF Answer
<1>6. CASE \E r \in Runs(at) : d = [verb |-> "travel", to |-> r.pump, economy |-> r.economy]
  <2>1. PICK r \in Runs(at) : d = [verb |-> "travel", to |-> r.pump, economy |-> r.economy]
    BY <1>6
  <2>2. r.pump \in Pumps /\ r.pump \in Stations /\ r.economy \in BOOLEAN
    BY RunsToPumps, VoyageFigures
  <2>3. d \in Acts /\ d.verb = "travel" /\ d.to \in Pumps
    BY <2>1, <2>2, ActForms
  <2>4. QED
    BY <2>3 DEF Answer
<1>7. CASE ~Docked
  <2>1. d \in {IF row # None /\ answers /\ BookableInTheAir(row.load, row.due) THEN Book(row) ELSE HoldOn}
    BY <1>7 DEF Idle
  <2>2. QED
    BY <1>2, <1>3, <2>1
<1>8. CASE Docked
  <2>1. \/ at \in Pumps /\ d = [verb |-> "refuel"]
        \/ d = [verb |-> "repair"] \/ d = [verb |-> "paws"] \/ d = HoldOn
        \/ row # None /\ d = Book(row)
        \/ \E r \in Runs(at) : d = [verb |-> "travel", to |-> r.pump, economy |-> r.economy]
    BY <1>8 DEF Idle
  <2>2. QED
    BY <1>2, <1>3, <1>4, <1>5, <1>6, <2>1
<1>9. QED
  BY <1>7, <1>8

LEMMA DecideAnswers ==
    ASSUME VoyageTypeOK, NEW row \in Rows, NEW answers \in BOOLEAN, NEW wear \in BOOLEAN,
           NEW d \in DecideWith(row, answers, wear)
    PROVE  Answer(d)
<1>1. /\ at \in Stations /\ word \in [Loads -> Words]
      /\ active # None => active \in Loads /\ active \in Held
      /\ active = None => Held = {}
  BY DEF VoyageTypeOK, Held
<1>2. CASE d = HoldOn
  BY <1>2, HoldsOn
<1>3. CASE d = [verb |-> "paws"]
  <2>1. d \in Acts /\ d.verb = "paws"
    BY <1>3, ActForms
  <2>2. QED
    BY <2>1 DEF Answer
<1>4. CASE active # None /\ d \in UnderContract(row, answers)
  BY <1>1, <1>4, ContractAnswers
<1>5. CASE active = None /\ d \in Idle(row, answers, wear)
  BY <1>1, <1>5, IdleAnswers
<1>6. d = HoldOn \/ d = [verb |-> "paws"] \/ (active # None /\ d \in UnderContract(row, answers))
        \/ (active = None /\ d \in Idle(row, answers, wear))
  BY DEF DecideWith
<1>7. QED
  BY <1>2, <1>3, <1>4, <1>5, <1>6

-----------------------------------------------------------------------------
(* The inductive invariant of the hull and of its bay.                      *)

Hull == /\ at \in Stations /\ fly \in 0..HighTicks /\ tank \in 0..Tank /\ goods \in Goods
        /\ tanker \in 0..TankerTicks \cup {None}

BayFits == /\ word \in [Loads -> Words] /\ left \in [Loads -> 0..HighWindow]
           /\ window \in [Loads -> 0..PickupTTL] /\ crane \in [Loads -> 0..Loading]
           /\ active \in Loads \cup {None}
           /\ active = None => Held = {}
           /\ active # None => active \in Held
           /\ Cardinality(Held) <= Bay

Told == /\ late \subseteq Loads /\ lapsed \subseteq Loads
        /\ gambled \in BOOLEAN /\ silent \in BOOLEAN /\ dry \in BOOLEAN
        /\ squeezed \in BOOLEAN /\ detoured \in BOOLEAN

\* A load that waits at its origin is gone the tick its window closes, and aboard the tick its
\* crane is done.
Clocks == \A l \in Loads : word[l] = "booked" => window[l] >= 1 /\ crane[l] >= 1

Filed == act = None \/ act = Answered \/ Answer(act)

VoyageInv == Hull /\ BayFits /\ Told /\ Clocks /\ Filed /\ Pumps # {}

LEMMA InvTypes == VoyageInv => VoyageTypeOK
<1> SUFFICES ASSUME VoyageInv PROVE VoyageTypeOK
  OBVIOUS
<1>1. act \in Acts \cup {None, [verb |-> "done"]}
  BY DEF VoyageInv, Filed, Answer, Answered
<1>2. /\ (active = None) => \A l \in Loads : word[l] = "none"
      /\ active # None => word[active] # "none"
      /\ Cardinality({l \in Loads : word[l] # "none"}) <= Bay
  BY DEF VoyageInv, BayFits, Held
<1>3. {gambled, silent, dry, squeezed, detoured} \subseteq BOOLEAN
  BY DEF VoyageInv, Told
<1>4. QED
  BY <1>1, <1>2, <1>3 DEF VoyageInv, Hull, BayFits, Told, VoyageTypeOK

\* What does not touch the bay keeps what is said of it.
LEMMA BayKeeps ==
    ASSUME VoyageInv, UNCHANGED <<bay, active>>
    PROVE  BayFits' /\ Clocks' /\ Held' = Held
BY DEF VoyageInv, BayFits, Clocks, Held, bay

LEMMA VoyageInitInv == VoyageInit => VoyageInv
<1> SUFFICES ASSUME VoyageInit PROVE VoyageInv
  OBVIOUS
<1>1. at \in Stations /\ Pumps # {}
  BY VoyageFigures DEF VoyageInit
<1>2. HighTicks \in Nat /\ HighWindow \in Nat
  BY <1>1, FlightsWithin, WindowsWithin
<1>3. Hull
  BY <1>1, <1>2, VoyageFigures DEF VoyageInit, Hull
<1>4. Held = {}
  BY DEF VoyageInit, Held
<1>5. Cardinality(Held) <= Bay
  BY <1>4, FS_EmptySet, VoyageFigures
<1>6. 0 \in 0..HighWindow /\ 0 \in 0..PickupTTL /\ 0 \in 0..Loading /\ "none" \in Words
  BY <1>2, VoyageFigures DEF Words
<1>7. BayFits
  BY <1>4, <1>5, <1>6 DEF VoyageInit, BayFits
<1>8. Told
  BY DEF VoyageInit, Told
<1>9. Clocks /\ Filed
  BY DEF VoyageInit, Clocks, Filed
<1>10. QED
  BY <1>1, <1>3, <1>7, <1>8, <1>9 DEF VoyageInv

LEMMA DecideKeeps == ASSUME VoyageInv, Decide PROVE VoyageInv'
<1>1. Hull'
  BY DEF VoyageInv, Hull, Decide, hull
<1>2. BayFits' /\ Clocks' /\ Held' = Held
  BY BayKeeps DEF Decide
<1>3. late' \subseteq Loads /\ lapsed' \subseteq Loads /\ dry' \in BOOLEAN
  BY DEF VoyageInv, Told, Decide
<1>4. PICK row \in Rows, answers \in BOOLEAN, wear \in BOOLEAN :
        /\ act' \in DecideWith(row, answers, wear)
        /\ silent' = (active # None /\ (silent \/ ~answers))
        /\ gambled' = (gambled \/ /\ act'.verb = "book"
                                  /\ tank < WholePlan(act'.load) \/ active # None)
        /\ squeezed' = (active # None /\ (squeezed \/
                          (act'.verb = "book" /\ Docked /\ ~SparesATick(act'.load, act'.due))))
        /\ detoured' = (active # None /\ (detoured \/
                          (act'.verb = "book" /\ \E l \in Held : word[l] = "booked" /\ Origin[l] # at)))
  BY DEF Decide
<1>5. gambled' \in BOOLEAN /\ silent' \in BOOLEAN /\ squeezed' \in BOOLEAN /\ detoured' \in BOOLEAN
  <2>1. silent' \in BOOLEAN
    BY <1>4
  <2>2. gambled' \in BOOLEAN
    BY <1>4
  <2>3. squeezed' \in BOOLEAN
    BY <1>4
  <2>4. detoured' \in BOOLEAN
    BY <1>4
  <2>5. QED
    BY <2>1, <2>2, <2>3, <2>4
<1>6. Told'
  BY <1>3, <1>5 DEF Told
<1>7. Answer(act')
  BY <1>4, DecideAnswers, InvTypes
<1>8. at' = at /\ active' = active
  BY DEF Decide, hull
<1>9. Filed'
  <2> DEFINE d == act'
  <2>1. Answer(d)
    BY <1>7
  <2>2. Answer(act)'
    BY <1>2, <1>7, <1>8 DEF Answer
  <2>3. QED
    BY <2>2 DEF Filed
<1>10. QED
  BY <1>1, <1>2, <1>6, <1>9 DEF VoyageInv

\* An act that is answered is filed no more.
LEMMA Discharged == ASSUME act' = Answered PROVE Filed'
BY DEF Filed, Answered

\* What was filed.
LEMMA FiledAct ==
    ASSUME VoyageInv, act # None, act.verb # "done"
    PROVE  Answer(act) /\ act \in Acts
<1>1. act # Answered
  BY DEF Answered
<1>2. QED
  BY <1>1 DEF VoyageInv, Filed, Answer

LEMMA RestsKeeps == ASSUME VoyageInv, Rests PROVE VoyageInv'
<1>1. Hull' /\ Told'
  BY DEF VoyageInv, Hull, Told, Rests, filed, history
<1>2. BayFits' /\ Clocks'
  BY BayKeeps DEF Rests
<1>3. Filed'
  BY Discharged DEF Rests
<1>4. QED
  BY <1>1, <1>2, <1>3 DEF VoyageInv

LEMMA RefuelsKeeps == ASSUME VoyageInv, Refuels PROVE VoyageInv'
<1>0. gambled' \in BOOLEAN
  <2>1. gambled' = FALSE
    BY DEF Refuels
  <2>2. QED
    BY <2>1
<1>1. Hull' /\ Told'
  <2>1. tank' \in 0..Tank
    BY VoyageFigures DEF Refuels
  <2>2. Hull'
    BY <2>1 DEF VoyageInv, Hull, Refuels
  <2>3. Told'
    BY <1>0 DEF VoyageInv, Told, Refuels
  <2>4. QED
    BY <2>2, <2>3
<1>2. BayFits' /\ Clocks'
  BY BayKeeps DEF Refuels
<1>3. Filed'
  BY Discharged DEF Refuels
<1>4. QED
  BY <1>1, <1>2, <1>3 DEF VoyageInv

LEMMA SendsTankerKeeps == ASSUME VoyageInv, SendsTanker PROVE VoyageInv'
<1>1. TankerTicks \in 0..TankerTicks
  BY VoyageFigures
<1>2. Hull' /\ Told'
  BY <1>1 DEF VoyageInv, Hull, Told, SendsTanker
<1>3. BayFits' /\ Clocks'
  BY BayKeeps DEF SendsTanker
<1>4. Filed'
  BY Discharged DEF SendsTanker
<1>5. QED
  BY <1>2, <1>3, <1>4 DEF VoyageInv

LEMMA DepartsKeeps == ASSUME VoyageInv, Departs PROVE VoyageInv'
<1>1. act # None /\ act.verb = "travel"
  BY DEF Departs
<1>2. act.to \in Stations /\ act.economy \in BOOLEAN /\ at \in Stations
  BY <1>1, FiledAct, ActFields DEF VoyageInv, Hull
<1>3. Burnt(act) \in Nat
  BY <1>2, Quotes DEF Burnt
<1>4. tank' \in 0..Tank
  <2>1. tank \in 0..Tank /\ tank >= Burnt(act) /\ tank' = tank - Burnt(act)
    BY DEF VoyageInv, Hull, Departs
  <2>2. QED
    BY <1>3, <2>1, VoyageFigures
<1>5. fly' \in 0..HighTicks
  <2>1. PICK delay \in 0..(Engage - 1) : fly' = Flight(act) + delay
    BY DEF Departs
  <2>2. Flight(act) \in Nat /\ HighTicks \in Nat /\ Flight(act) + Engage <= HighTicks
    BY <1>2, Quotes, FlightsWithin DEF Flight
  <2>3. QED
    BY <2>1, <2>2, VoyageFigures
<1>6. at' = act.to /\ goods' = goods /\ tanker' = tanker
  BY DEF Departs, filed
<1>7. Hull'
  BY <1>2, <1>4, <1>5, <1>6 DEF VoyageInv, Hull
<1>8. Told'
  BY DEF VoyageInv, Told, Departs, filed, history
<1>9. BayFits' /\ Clocks'
  BY BayKeeps DEF Departs
<1>10. Filed'
  BY Discharged DEF Departs
<1>11. QED
  BY <1>7, <1>8, <1>9, <1>10 DEF VoyageInv

LEMMA DeclinesKeeps == ASSUME VoyageInv, Declines PROVE VoyageInv'
<1>1. Hull' /\ Told'
  BY DEF VoyageInv, Hull, Told, Declines, hull
<1>2. BayFits' /\ Clocks'
  BY BayKeeps DEF Declines
<1>3. Filed'
  BY Discharged DEF Declines
<1>4. QED
  BY <1>1, <1>2, <1>3 DEF VoyageInv

LEMMA BooksKeeps == ASSUME VoyageInv, Books PROVE VoyageInv'
<1>1. act # None /\ act.verb = "book"
  BY DEF Books
<1> DEFINE l == act.load
<1>2. l \in Loads /\ l \notin Held /\ Cardinality(Held) < Bay /\ act.due \in Windows
  <2>1. Answer(act) /\ act \in Acts
    BY <1>1, FiledAct
  <2>2. act.load \in Loads /\ act.due \in Windows
    BY <1>1, <2>1, ActFields
  <2>3. Cardinality(Held) < Bay /\ act.load \notin Held
    BY <1>1, <2>1 DEF Answer
  <2>4. QED
    BY <2>2, <2>3
<1>3. act.due \in 0..HighWindow /\ PickupTTL \in 1..PickupTTL /\ Loading \in 1..Loading /\ "booked" \in Words
  <2>1. act.due \in 0..HighWindow
    <3>1. act.due \in Windows
      BY <1>2
    <3>2. QED
      BY <3>1, WindowsWithin
  <2>2. PickupTTL \in 1..PickupTTL /\ Loading \in 1..Loading
    BY VoyageFigures
  <2>3. "booked" \in Words
    BY DEF Words
  <2>4. QED
    BY <2>1, <2>2, <2>3
<1>4. /\ word' = [word EXCEPT ![l] = "booked"] /\ left' = [left EXCEPT ![l] = act.due]
      /\ window' = [window EXCEPT ![l] = PickupTTL] /\ crane' = [crane EXCEPT ![l] = Loading]
      /\ active' = IF active = None THEN l ELSE active
  BY DEF Books
<1> HIDE DEF l
<1>5. /\ word \in [Loads -> Words] /\ left \in [Loads -> 0..HighWindow]
      /\ window \in [Loads -> 0..PickupTTL] /\ crane \in [Loads -> 0..Loading]
  BY DEF VoyageInv, BayFits
<1>6. /\ word' \in [Loads -> Words] /\ left' \in [Loads -> 0..HighWindow]
      /\ window' \in [Loads -> 0..PickupTTL] /\ crane' \in [Loads -> 0..Loading]
  BY <1>2, <1>3, <1>4, <1>5
<1>7. Held' = Held \cup {l}
  BY <1>2, <1>4, <1>5 DEF Held
<1>8. Cardinality(Held') <= Bay
  <2>1. IsFiniteSet(Held)
    BY VoyageFigures, FS_Subset DEF Held
  <2>2. Cardinality(Held') = Cardinality(Held) + 1 /\ Cardinality(Held) \in Nat
    BY <1>2, <1>7, <2>1, FS_AddElement, FS_CardinalityType
  <2>3. QED
    BY <1>2, <2>2, VoyageFigures
<1>9. active' \in Loads \cup {None} /\ active' # None /\ active' \in Held'
  BY <1>2, <1>4, <1>7, VoyageFigures DEF VoyageInv, BayFits
<1>10. BayFits'
  BY <1>6, <1>8, <1>9 DEF BayFits
<1>11. Clocks'
  <2>1. ASSUME NEW m \in Loads, word'[m] = "booked" PROVE window'[m] >= 1 /\ crane'[m] >= 1
    <3>1. CASE m = l
      BY <1>2, <1>3, <1>4, <1>5, <3>1
    <3>2. CASE m # l
      <4>1. word[m] = "booked" /\ window'[m] = window[m] /\ crane'[m] = crane[m]
        BY <1>2, <1>4, <1>5, <2>1, <3>2
      <4>2. QED
        BY <4>1 DEF VoyageInv, Clocks
    <3>3. QED
      BY <3>1, <3>2
  <2>2. QED
    BY <2>1 DEF Clocks
<1>12. Hull' /\ Told'
  BY DEF VoyageInv, Hull, Told, Books, filed, history
<1>13. Filed'
  BY Discharged DEF Books
<1>14. QED
  BY <1>10, <1>11, <1>12, <1>13 DEF VoyageInv

\* Whatever leaves the bay, one of what stays in it is the active contract.
LEMMA Succession ==
    ASSUME VoyageInv, NEW gone, gone \subseteq Loads, Held' = Held \ gone, Succeeds(gone)
    PROVE  /\ active' \in Loads \cup {None}
           /\ active' = None => Held' = {}
           /\ active' # None => active' \in Held'
           /\ Cardinality(Held') <= Bay
<1>1. /\ active \in Loads \cup {None} /\ Cardinality(Held) <= Bay /\ Held \subseteq Loads
      /\ active = None => Held = {}
      /\ active # None => active \in Held
  BY DEF VoyageInv, BayFits, Held
<1>2. Cardinality(Held') <= Bay
  <2>1. IsFiniteSet(Held)
    BY <1>1, VoyageFigures, FS_Subset
  <2>2. /\ Cardinality(Held') <= Cardinality(Held) /\ Cardinality(Held') \in Nat
        /\ Cardinality(Held) \in Nat
    BY <2>1, FS_Subset, FS_CardinalityType
  <2>3. QED
    BY <1>1, <2>2, VoyageFigures
<1>3. CASE active \in gone
  <2>1. Held \ gone # {} => active' \in Held \ gone
    BY <1>3 DEF Succeeds
  <2>2. Held \ gone = {} => active' = None
    BY <1>3 DEF Succeeds
  <2>3. QED
    BY <1>1, <1>2, <2>1, <2>2, VoyageFigures
<1>4. CASE active \notin gone
  <2>1. active' = active
    BY <1>4 DEF Succeeds
  <2>2. QED
    BY <1>1, <1>2, <1>4, <2>1
<1>5. QED
  BY <1>3, <1>4

LEMMA CollectsKeeps == ASSUME VoyageInv, Collects PROVE VoyageInv'
<1>1. act # None /\ act.verb = "collect"
  BY DEF Collects
<1> DEFINE l == act.load
<1>2. l \in Loads
  BY <1>1, FiledAct, ActFields
<1>3. word' = [word EXCEPT ![l] = "none"] /\ UNCHANGED <<left, window, crane>> /\ Succeeds({l})
  BY DEF Collects
<1> HIDE DEF l
<1>4. /\ word \in [Loads -> Words] /\ left \in [Loads -> 0..HighWindow]
      /\ window \in [Loads -> 0..PickupTTL] /\ crane \in [Loads -> 0..Loading]
  BY DEF VoyageInv, BayFits
<1>5. /\ word' \in [Loads -> Words] /\ left' \in [Loads -> 0..HighWindow]
      /\ window' \in [Loads -> 0..PickupTTL] /\ crane' \in [Loads -> 0..Loading]
  BY <1>2, <1>3, <1>4 DEF Words
<1>6. Held' = Held \ {l}
  BY <1>2, <1>3, <1>4 DEF Held
<1>7. BayFits'
  BY <1>2, <1>3, <1>5, <1>6, Succession DEF BayFits
<1>8. Clocks'
  BY <1>2, <1>3, <1>4 DEF VoyageInv, Clocks
<1>9. Hull' /\ Told'
  BY DEF VoyageInv, Hull, Told, Collects, filed, history
<1>10. Filed'
  BY Discharged DEF Collects
<1>11. QED
  BY <1>7, <1>8, <1>9, <1>10 DEF VoyageInv

\* A tick of the exchange: what leaves the bay, and what becomes of the rest.
Lands(l) == word[l] = "picked" /\ fly' = 0 /\ Dest[l] = at
AtCrane(l) == word[l] = "booked" /\ Docked /\ Origin[l] = at
Loaded(l) == AtCrane(l) /\ crane[l] = 1
Reverts(l) == word[l] = "booked" /\ ~Loaded(l) /\ window[l] = 1
Settles(l) == word[l] \in {"booked", "picked"} /\ ~Lands(l) /\ left[l] = 0
Gone == {l \in Loads : Reverts(l) \/ Settles(l)}

LEMMA Tick ==
    ASSUME Elapse
    PROVE  /\ word' = [l \in Loads |-> IF l \in Gone THEN "none"
                                       ELSE IF Lands(l) THEN "delivered"
                                       ELSE IF Loaded(l) THEN "picked" ELSE word[l]]
           /\ left' = [l \in Loads |-> IF word'[l] \in {"booked", "picked"} THEN left[l] - 1 ELSE 0]
           /\ window' = [l \in Loads |-> IF word'[l] = "booked" THEN window[l] - 1 ELSE 0]
           /\ crane' = [l \in Loads |-> IF word'[l] # "booked" THEN 0
                                        ELSE IF AtCrane(l) THEN crane[l] - 1 ELSE crane[l]]
           /\ late' = late \cup {l \in Loads : Settles(l)}
           /\ lapsed' = lapsed \cup {l \in Loads : Reverts(l)}
           /\ Succeeds(Gone)
BY DEF Elapse, Lands, AtCrane, Loaded, Reverts, Settles, Gone

\* The word of a load after a tick.
LEMMA WordAfter ==
    ASSUME VoyageInv, Elapse, NEW l \in Loads
    PROVE  /\ word'[l] \in Words
           /\ l \in Gone => word'[l] = "none" /\ word[l] # "none"
           /\ l \notin Gone => (word'[l] = "none" <=> word[l] = "none")
           /\ word'[l] = "booked" => word[l] = "booked" /\ ~Loaded(l) /\ l \notin Gone
           /\ word'[l] = "picked" => l \notin Gone /\ ~Lands(l) /\ (word[l] = "picked" \/ Loaded(l))
           /\ word'[l] = "delivered" => word[l] \in {"picked", "delivered"}
<1>1. word'[l] = IF l \in Gone THEN "none"
                 ELSE IF Lands(l) THEN "delivered" ELSE IF Loaded(l) THEN "picked" ELSE word[l]
  BY Tick
<1>2. word[l] \in Words /\ word[l] \in {"none", "booked", "picked", "delivered"}
  BY DEF VoyageInv, BayFits, Words
<1>3. l \in Gone => word[l] \in {"booked", "picked"}
  BY DEF Gone, Reverts, Settles
<1>4. (Lands(l) => word[l] = "picked") /\ (Loaded(l) => word[l] = "booked")
  BY DEF Lands, Loaded, AtCrane
<1> HIDE DEF Gone, Lands, Loaded
<1>5. QED
  BY <1>1, <1>2, <1>3, <1>4 DEF Words

LEMMA ElapseKeeps == ASSUME VoyageInv, Elapse PROVE VoyageInv'
<1>1. /\ word \in [Loads -> Words] /\ left \in [Loads -> 0..HighWindow]
      /\ window \in [Loads -> 0..PickupTTL] /\ crane \in [Loads -> 0..Loading]
      /\ HighWindow \in Nat
  BY WindowsWithin DEF VoyageInv, BayFits
<1>2. word' \in [Loads -> Words]
  <2>1. \A l \in Loads : word'[l] \in Words
    BY WordAfter
  <2>2. DOMAIN word' = Loads /\ word' = [l \in Loads |-> word'[l]]
    BY Tick
  <2>3. QED
    BY <2>1, <2>2
<1>3. Held' = Held \ Gone
  <2>1. \A l \in Loads : word'[l] # "none" <=> word[l] # "none" /\ l \notin Gone
    BY WordAfter
  <2>2. QED
    BY <2>1 DEF Held
<1>4. left' \in [Loads -> 0..HighWindow]
  <2>1. ASSUME NEW l \in Loads PROVE left'[l] \in 0..HighWindow
    <3>1. left'[l] = IF word'[l] \in {"booked", "picked"} THEN left[l] - 1 ELSE 0
      BY Tick
    <3>2. CASE word'[l] \in {"booked", "picked"}
      <4>1. l \notin Gone /\ word[l] \in {"booked", "picked"} /\ ~Lands(l)
        BY <3>2, WordAfter DEF Loaded, AtCrane, Lands
      <4>2. left[l] # 0
        BY <4>1 DEF Gone, Settles
      <4>3. left[l] \in 0..HighWindow
        BY <1>1
      <4>4. QED
        BY <1>1, <3>1, <3>2, <4>2, <4>3
    <3>3. CASE word'[l] \notin {"booked", "picked"}
      BY <1>1, <3>1, <3>3
    <3>4. QED
      BY <3>2, <3>3
  <2>2. left' = [l \in Loads |-> left'[l]]
    BY Tick
  <2>3. QED
    BY <2>1, <2>2
<1>5. ASSUME NEW l \in Loads
      PROVE  /\ window'[l] \in 0..PickupTTL /\ crane'[l] \in 0..Loading
             /\ word'[l] = "booked" => window'[l] >= 1 /\ crane'[l] >= 1
  <2>1. /\ window'[l] = IF word'[l] = "booked" THEN window[l] - 1 ELSE 0
        /\ crane'[l] = IF word'[l] # "booked" THEN 0
                       ELSE IF AtCrane(l) THEN crane[l] - 1 ELSE crane[l]
    BY Tick
  <2>2. CASE word'[l] = "booked"
    <3>1. word[l] = "booked" /\ ~Loaded(l) /\ l \notin Gone
      BY <2>2, WordAfter
    <3>2. window[l] # 1
      BY <3>1 DEF Gone, Reverts
    <3>3. AtCrane(l) => crane[l] # 1
      BY <3>1 DEF Loaded
    <3>4. window[l] \in 0..PickupTTL /\ crane[l] \in 0..Loading /\ window[l] >= 1 /\ crane[l] >= 1
      BY <1>1, <3>1 DEF VoyageInv, Clocks
    <3>5. QED
      BY <2>1, <2>2, <3>2, <3>3, <3>4, VoyageFigures
  <2>3. CASE word'[l] # "booked"
    BY <2>1, <2>3, VoyageFigures
  <2>4. QED
    BY <2>2, <2>3
<1>6. window' \in [Loads -> 0..PickupTTL] /\ crane' \in [Loads -> 0..Loading]
  <2>1. window' = [l \in Loads |-> window'[l]] /\ crane' = [l \in Loads |-> crane'[l]]
    BY Tick
  <2>2. QED
    BY <1>5, <2>1
<1>7. Clocks'
  BY <1>5 DEF Clocks
<1>8. BayFits'
  <2>1. Gone \subseteq Loads
    BY DEF Gone
  <2>2. Succeeds(Gone)
    BY Tick
  <2>3. QED
    BY <1>2, <1>3, <1>4, <1>6, <2>1, <2>2, Succession DEF BayFits
<1>9. Told'
  <2>0. late \subseteq Loads /\ lapsed \subseteq Loads
    BY DEF VoyageInv, Told
  <2>1. late' \subseteq Loads /\ lapsed' \subseteq Loads
    <3>1. late' = late \cup {l \in Loads : Settles(l)} /\ lapsed' = lapsed \cup {l \in Loads : Reverts(l)}
      BY Tick
    <3>2. QED
      BY <2>0, <3>1
  <2>2. UNCHANGED <<gambled, silent, dry, squeezed, detoured>>
    BY DEF Elapse
  <2>3. /\ gambled \in BOOLEAN /\ silent \in BOOLEAN /\ dry \in BOOLEAN
        /\ squeezed \in BOOLEAN /\ detoured \in BOOLEAN
    BY DEF VoyageInv, Told
  <2>4. /\ gambled' \in BOOLEAN /\ silent' \in BOOLEAN /\ dry' \in BOOLEAN
        /\ squeezed' \in BOOLEAN /\ detoured' \in BOOLEAN
    BY <2>2, <2>3
  <2>5. QED
    BY <2>1, <2>4 DEF Told
<1>10. Hull'
  <2>0. /\ fly \in 0..HighTicks /\ tank \in 0..Tank /\ tanker \in 0..TankerTicks \cup {None}
        /\ at \in Stations /\ HighTicks \in Nat
    BY FlightsWithin DEF VoyageInv, Hull
  <2>1. fly' \in 0..HighTicks
    <3>1. fly' = IF fly = 0 THEN 0 ELSE fly - 1
      BY DEF Elapse, Docked
    <3>2. QED
      BY <2>0, <3>1
  <2>2. tank' \in 0..Tank
    <3>1. tank' = Tank \/ tank' = tank
      BY DEF Elapse
    <3>2. QED
      BY <2>0, <3>1, VoyageFigures
  <2>3. tanker' \in 0..TankerTicks \cup {None}
    <3>1. tanker' = None \/ tanker' = 0 \/ (tanker # None /\ tanker # 0 /\ tanker' = tanker - 1)
      BY DEF Elapse
    <3>2. QED
      BY <2>0, <3>1, VoyageFigures
  <2>4. at' = at /\ goods' = goods
    BY DEF Elapse
  <2>5. QED
    BY <2>1, <2>2, <2>3, <2>4 DEF VoyageInv, Hull
<1>11. Filed'
  BY DEF Elapse, Filed
<1>12. QED
  BY <1>7, <1>8, <1>9, <1>10, <1>11 DEF VoyageInv

LEMMA VoyageStep == ASSUME VoyageInv, [VoyageNext]_voyageVars PROVE VoyageInv'
<1>1. CASE UNCHANGED voyageVars
  <2>1. UNCHANGED <<hull, bay, active, act, history>>
    BY <1>1 DEF voyageVars
  <2>2. BayFits' /\ Clocks' /\ Held' = Held
    BY <2>1, BayKeeps
  <2>3. Hull' /\ Told'
    BY <2>1 DEF VoyageInv, Hull, Told, hull, history
  <2>4. act' = act /\ active' = active /\ at' = at
    BY <2>1 DEF hull
  <2>5. Filed'
    BY <2>2, <2>4 DEF VoyageInv, Filed, Answer, Answered
  <2>6. QED
    BY <2>2, <2>3, <2>5 DEF VoyageInv
<1>2. CASE VoyageNext
  BY <1>2, DecideKeeps, RestsKeeps, RefuelsKeeps, SendsTankerKeeps, DepartsKeeps, DeclinesKeeps,
     BooksKeeps, CollectsKeeps, ElapseKeeps DEF VoyageNext
<1>3. QED
  BY <1>1, <1>2

\* The bay stays within its limit, its clocks run out no later than its loads leave it, an act
\* filed is one that can be carried out, and one of what is held is the active contract
\* (doctrine.rs:548, :573).
THEOREM VoyageSafe == VoyageSpec => []VoyageInv
<1>1. VoyageInit => VoyageInv
  BY VoyageInitInv
<1>2. VoyageInv /\ [VoyageNext]_voyageVars => VoyageInv'
  BY VoyageStep
<1>3. QED
  BY <1>1, <1>2, PTL DEF VoyageSpec

\* What is recorded of the hull and of each contract is within what the exchange allows, and
\* the bay never holds more than its limit (doctrine.rs:555).
THEOREM VoyageTypeCorrect == VoyageSpec => []VoyageTypeOK
BY VoyageSafe, InvTypes, PTL

-----------------------------------------------------------------------------
(* The tank: a plan that was made can be flown to its end, and from its end *)
(* to a pump.                                                               *)

NearPump == at \in Pumps \/ Runs(at) # {}

\* While no fuel was counted on that is not in the tank, at most one load is held; the tank
\* covers, with the reserve, what is left of its voyage and the leg from there to a pump.
Plan ==
    ~gambled =>
        /\ Held \subseteq {active}
        /\ NearPump
        /\ active # None /\ word[active] = "booked" => tank >= WholePlan(active)
        /\ active # None /\ word[active] # "booked"
              => tank >= Reserved(Fuel[<<at, Dest[active]>>] + OnwardToPump(Dest[active]))

\* What is filed burns no more than the plan it is a step of.
Planned ==
    act # None /\ ~gambled =>
        /\ act.verb = "book" => active = None /\ tank >= WholePlan(act.load)
        /\ act.verb = "travel" /\ active # None =>
              /\ ~act.economy
              /\ \/ word[active] = "booked" /\ act.to = Origin[active]
                 \/ word[active] # "booked" /\ act.to = Dest[active]

VoyagePlan == VoyageInv /\ Plan /\ Planned

\* The reserve of a leg and what follows covers the leg and the reserve of what follows.
LEMMA ReserveSplits ==
    ASSUME NEW a \in Nat, NEW b \in Nat
    PROVE  /\ Reserved(a + b) >= a + Reserved(b)
           /\ Reserved(a + b) \in Nat /\ Reserved(b) \in Nat
BY DEF Reserved

\* From where a plan ends, and from where the load of it is picked up, a pump is in reach.
LEMMA PumpAhead ==
    ASSUME VoyageInv, Straight, NEW here \in Stations, NEW there \in Stations, NEW full \in Nat,
           full >= Reserved(Fuel[<<here, there>>] + OnwardToPump(there))
    PROVE  RunsWith(here, full) # {}
<1>1. PICK p \in Pumps : OnwardToPump(there) = Fuel[<<there, p>>]
  BY OnwardCosts DEF VoyageInv
<1>2. p \in Stations
  BY VoyageFigures
<1> DEFINE near == Fuel[<<here, p>>]
           haul == Fuel[<<here, there>>]
           onward == Fuel[<<there, p>>]
<1>3. near \in Nat /\ haul \in Nat /\ onward \in Nat
  BY <1>2, Quotes
<1>4. 11 * near <= 12 * (haul + onward)
  BY <1>1 DEF Straight
<1>5. full >= Reserved(haul + onward)
  BY <1>1
<1> HIDE DEF near, haul, onward
<1>6. (near * 11) \div 10 <= ((haul + onward) * 6) \div 5
  BY <1>3, <1>4
<1>7. (near * 11) \div 10 <= full
  BY <1>3, <1>5, <1>6 DEF Reserved
<1>8. QED
  BY <1>7, RunsWhen DEF Covers, near

LEMMA RunsNow == Runs(at) = RunsWith(at, tank)
BY DEF Runs, RunsWith

LEMMA RunsNext == Runs(at)' = RunsWith(at', tank')
BY DEF Runs, RunsWith

\* With no less in the tank a pump stays in reach.
LEMMA NearKeeps ==
    ASSUME VoyageInv, VoyageInv', at' = at, tank' >= tank, NearPump
    PROVE  NearPump'
<1>1. tank \in Nat /\ tank' \in Nat /\ at \in Stations
  BY VoyageFigures DEF VoyageInv, Hull
<1>2. CASE at \in Pumps
  BY <1>2 DEF NearPump
<1>3. CASE at \notin Pumps
  <2>1. RunsWith(at, tank) # {}
    BY <1>3, RunsNow DEF NearPump
  <2>2. PICK p \in Pumps : Covers(tank, Fuel[<<at, p>>]) \/ Covers(tank, EconomyFuel[<<at, p>>])
    BY <1>1, <2>1, RunsWhen
  <2>3. Fuel[<<at, p>>] \in Nat /\ EconomyFuel[<<at, p>>] \in Nat
    BY <1>1, VoyageFigures, Quotes
  <2>4. Covers(tank', Fuel[<<at, p>>]) \/ Covers(tank', EconomyFuel[<<at, p>>])
    BY <1>1, <2>2, <2>3 DEF Covers
  <2>5. RunsWith(at, tank') # {}
    BY <1>1, <2>4, RunsWhen
  <2>6. QED
    BY <2>5, RunsNext DEF NearPump
<1>4. QED
  BY <1>2, <1>3

\* With one load held and nothing of the merchant's aboard, cargo in the hold is that load's.
LEMMA AboardIsPicked ==
    ASSUME goods = 0, Held = {active}, word[active] \in {"booked", "picked"}, Aboard
    PROVE  word[active] = "picked"
<1> DEFINE picked == {l \in Held : word[l] = "picked"}
           others == {l \in Companions : word[l] = "picked"}
<1>1. others = {}
  BY DEF Companions
<1>2. CASE word[active] = "booked"
  <2>1. picked = {}
    BY <1>2
  <2>2. ~(goods + Cardinality(picked) > Cardinality(others))
    BY <1>1, <2>1, FS_EmptySet
  <2>3. QED
    BY <2>2 DEF Aboard
<1>3. QED
  BY <1>2

\* Where one load alone takes the hull: to its origin while it waits there, and then to its
\* destination.
Whither == IF word[active] = "booked" THEN Origin[active] ELSE Dest[active]

LEMMA TourLeads ==
    ASSUME goods = 0, Held = {active}, word[active] \in {"booked", "picked"},
           NEW p \in PlanTour(RequiredStops, left)
    PROVE  p.tour[1].station = Whither
<1>1. p.tour[1] \in RequiredStops /\ p.tour \in Tours(RequiredStops)
  BY FirstStop DEF PlanTour
<1>2. CASE word[active] = "picked"
  <2>1. RequiredStops = {Deliver(active)}
    BY <1>2 DEF RequiredStops
  <2>2. QED
    BY <1>1, <1>2, <2>1 DEF Deliver, Whither
<1>3. CASE word[active] = "booked"
  <2>1. RequiredStops = {Pickup(active), Deliver(active)}
    BY <1>3, AboardIsPicked DEF RequiredStops
  <2>2. p.tour[1] = Pickup(active)
    BY <1>1, <2>1, PickupFirst
  <2>3. QED
    BY <1>3, <2>2 DEF Pickup, Whither
<1>4. QED
  BY <1>2, <1>3

\* What is left to a docked hull with one load to carry, when it neither books nor calls a tanker.
LEMMA DockedCourse ==
    ASSUME goods = 0, Held = {active}, word[active] \in {"booked", "picked"}, Docked,
           NEW row, NEW answers \in BOOLEAN,
           NEW d \in UnderContract(row, answers), d.verb # "book"
    PROVE  d = Travel(Whither) \/ (~answers /\ d = HoldOn)
<1>1. {l \in Held : word[l] = "delivered"} = {}
  OBVIOUS
<1>2. d # Book(row)
  BY DEF Book
<1>3. CASE answers
  <2>1. d \in {Travel(p.tour[1].station) : p \in PlanTour(RequiredStops, left)}
    BY <1>1, <1>2, <1>3 DEF UnderContract
  <2>2. PICK p \in PlanTour(RequiredStops, left) : d = Travel(p.tour[1].station)
    BY <2>1
  <2>3. p.tour[1].station = Whither
    BY TourLeads
  <2>4. QED
    BY <2>2, <2>3
<1>4. CASE ~answers
  <2>1. \/ Aboard /\ d = Travel(Dest[active])
        \/ ~Aboard /\ word[active] = "booked" /\ d = Travel(Origin[active])
        \/ d = HoldOn
    BY <1>1, <1>2, <1>4 DEF UnderContract
  <2>2. CASE Aboard
    BY <1>4, <2>1, <2>2, AboardIsPicked DEF Whither
  <2>3. CASE ~Aboard
    BY <1>4, <2>1, <2>3 DEF Whither
  <2>4. QED
    BY <2>2, <2>3
<1>5. QED
  BY <1>3, <1>4

\* With one load held and nothing of the merchant's aboard, a course is to where that load is,
\* and is none if the hull is there.
LEMMA FliesThePlan ==
    ASSUME VoyageInv, goods = 0, Held \subseteq {active}, active # None,
           NEW row \in Rows, NEW answers \in BOOLEAN, NEW wear \in BOOLEAN,
           NEW d \in DecideWith(row, answers, wear), d.verb = "travel"
    PROVE  /\ ~d.economy /\ d.to # at
           /\ \/ word[active] = "booked" /\ d.to = Origin[active]
              \/ word[active] # "booked" /\ d.to = Dest[active]
<1>1. active \in Loads /\ active \in Held /\ Held = {active} /\ word[active] \in Words
  BY DEF VoyageInv, BayFits
<1>2. d # HoldOn /\ d # [verb |-> "paws"] /\ (\A row1 : d # Book(row1))
      /\ \A l : d # [verb |-> "collect", load |-> l]
  BY DEF HoldOn, Book
<1>3. d \in UnderContract(row, answers)
  BY <1>2 DEF DecideWith
<1> DEFINE owed == {l \in Held : word[l] = "delivered"}
<1>4. owed = {}
  <2>1. CASE owed # {}
    <3>1. d \in {[verb |-> "collect", load |-> l] : l \in IF active \in owed THEN {active} ELSE owed}
      BY <1>3, <2>1 DEF UnderContract
    <3>2. QED
      BY <1>2, <3>1
  <2>2. QED
    BY <2>1
<1>5. Docked
  <2>1. CASE ~Docked
    <3>1. d \in {IF row # None /\ answers /\ BookableInTheAir(row.load, row.due) THEN Book(row) ELSE HoldOn}
      BY <1>3, <1>4, <2>1 DEF UnderContract
    <3>2. QED
      BY <1>2, <3>1
  <2>2. QED
    BY <2>1
<1>6. word[active] \in {"booked", "picked"}
  BY <1>1, <1>4 DEF Words, Held
<1>7. d = Travel(Whither)
  BY <1>1, <1>2, <1>3, <1>5, <1>6, DockedCourse
<1>8. d = [verb |-> "travel", to |-> Whither, economy |-> FALSE] /\ Whither # at
  BY <1>2, <1>7 DEF Travel
<1>9. QED
  BY <1>8 DEF Whither

\* The figures of a plan are naturals.
LEMMA PlanCosts ==
    ASSUME NEW l \in Loads, at \in Stations, Pumps # {}
    PROVE  /\ WholePlan(l) \in Nat
           /\ Fuel[<<at, Dest[l]>>] \in Nat /\ OnwardToPump(Dest[l]) \in Nat
           /\ Reserved(Fuel[<<at, Dest[l]>>] + OnwardToPump(Dest[l])) \in Nat
<1>1. Origin[l] \in Stations /\ Dest[l] \in Stations
  BY VoyageFigures
<1>2. /\ Fuel[<<at, Origin[l]>>] \in Nat /\ Fuel[<<Origin[l], Dest[l]>>] \in Nat
      /\ Fuel[<<at, Dest[l]>>] \in Nat /\ OnwardToPump(Dest[l]) \in Nat
  BY <1>1, Quotes, OnwardCosts
<1>3. QED
  BY <1>2 DEF WholePlan, Reserved

LEMMA BookCovered ==
    ASSUME VoyageInv, NEW d, Answer(d), d.verb = "book", ~(tank < WholePlan(d.load))
    PROVE  tank >= WholePlan(d.load)
<1>1. d.load \in Loads
  BY DEF Answer
<1>2. WholePlan(d.load) \in Nat
  BY <1>1, PlanCosts DEF VoyageInv, Hull
<1>3. tank \in 0..Tank
  BY DEF VoyageInv, Hull
<1>4. QED
  BY <1>2, <1>3, VoyageFigures

LEMMA PlanInit == VoyageInit => Plan /\ Planned
<1> SUFFICES ASSUME VoyageInit PROVE Plan /\ Planned
  OBVIOUS
<1>1. Held = {} /\ at \in Pumps /\ active = None /\ act = None
  BY DEF VoyageInit, Held
<1>2. QED
  BY <1>1 DEF Plan, Planned, NearPump

\* A step that leaves the hull, the bay and the word of the fuel alone keeps the plan.
LEMMA PlanRests ==
    ASSUME VoyagePlan, VoyageInv', UNCHANGED <<at, tank, word, active>>,
           ~gambled' => ~gambled
    PROVE  Plan'
<1>1. Held' = Held
  BY DEF Held
<1>2. Runs(at)' = Runs(at)
  BY RunsNow, RunsNext
<1>3. NearPump' <=> NearPump
  BY <1>2 DEF NearPump
<1>4. \A l \in Loads : WholePlan(l)' = WholePlan(l)
  BY DEF WholePlan
<1>5. active # None => active \in Loads
  BY DEF VoyagePlan, VoyageInv, BayFits
<1>6. ~gambled' =>
        /\ Held \subseteq {active}
        /\ NearPump
        /\ active # None /\ word[active] = "booked" => tank >= WholePlan(active)
        /\ active # None /\ word[active] # "booked"
              => tank >= Reserved(Fuel[<<at, Dest[active]>>] + OnwardToPump(Dest[active]))
  BY DEF VoyagePlan, Plan
<1>7. OnwardToPump(Dest[active])' = OnwardToPump(Dest[active])
  BY DEF OnwardToPump
<1>8. QED
  BY <1>1, <1>3, <1>4, <1>5, <1>6, <1>7 DEF Plan

LEMMA DecidePlans == ASSUME VoyagePlan, VoyageInv', goods = 0, Decide PROVE Plan' /\ Planned'
<1>1. PICK row \in Rows, answers \in BOOLEAN, wear \in BOOLEAN :
        /\ act' \in DecideWith(row, answers, wear)
        /\ silent' = (active # None /\ (silent \/ ~answers))
        /\ gambled' = (gambled \/ /\ act'.verb = "book"
                                  /\ tank < WholePlan(act'.load) \/ active # None)
        /\ squeezed' = (active # None /\ (squeezed \/
                          (act'.verb = "book" /\ Docked /\ ~SparesATick(act'.load, act'.due))))
        /\ detoured' = (active # None /\ (detoured \/
                          (act'.verb = "book" /\ \E l \in Held : word[l] = "booked" /\ Origin[l] # at)))
  BY DEF Decide
<1>2. ~gambled' => ~gambled
  BY <1>1
<1>3. UNCHANGED <<at, tank, word, active>>
  BY DEF Decide, hull, bay
<1>4. Plan'
  BY <1>2, <1>3, PlanRests
<1>5. ASSUME ~gambled', act'.verb = "book" PROVE active = None /\ ~(tank < WholePlan(act'.load))
  BY <1>1, <1>5
<1>6. ASSUME ~gambled', act'.verb = "travel", active # None
      PROVE  /\ ~act'.economy
             /\ \/ word[active] = "booked" /\ act'.to = Origin[active]
                \/ word[active] # "booked" /\ act'.to = Dest[active]
  <2>1. VoyageInv /\ Held \subseteq {active}
    BY <1>2, <1>6 DEF VoyagePlan, Plan
  <2>2. act' \in DecideWith(row, answers, wear)
    BY <1>1
  <2>3. QED
    BY <1>6, <2>1, <2>2, FliesThePlan
<1>7. ASSUME act'.verb = "book", ~gambled'
      PROVE  active' = None /\ tank' >= WholePlan(act.load)'
  <2>1. act' \in DecideWith(row, answers, wear)
    BY <1>1
  <2>2. Answer(act')
    BY <2>1, DecideAnswers, InvTypes DEF VoyagePlan
  <2>3. PICK d : d = act'
    OBVIOUS
  <2>4. Answer(d) /\ d.verb = "book" /\ ~(tank < WholePlan(d.load)) /\ active = None
    BY <1>5, <1>7, <2>2, <2>3
  <2>5. tank >= WholePlan(d.load)
    BY <2>4, BookCovered DEF VoyagePlan
  <2>6. WholePlan(act.load)' = WholePlan(d.load)
    <3>1. at' = at
      BY <1>3
    <3>2. QED
      BY <2>3, <3>1 DEF WholePlan, OnwardToPump
  <2>7. QED
    BY <1>3, <2>4, <2>5, <2>6
<1>8. Planned'
  BY <1>3, <1>6, <1>7 DEF Planned
<1>9. QED
  BY <1>4, <1>8

\* An act that is answered is the step of no plan.
LEMMA DischargedPlan == ASSUME act' = Answered PROVE Planned'
BY DEF Planned, Answered

LEMMA RefuelsPlans == ASSUME VoyagePlan, Refuels PROVE Plan'
<1>1. act # None /\ act.verb = "refuel"
  BY DEF Refuels
<1>2. active = None /\ at \in Pumps
  BY <1>1, FiledAct DEF VoyagePlan, Answer
<1>3. UNCHANGED <<at, word, active>>
  BY DEF Refuels, bay
<1>4. Held' = {}
  BY <1>2, <1>3 DEF VoyagePlan, VoyageInv, BayFits, Held
<1>5. QED
  BY <1>2, <1>3, <1>4 DEF Plan, NearPump

LEMMA DepartsPlans == ASSUME VoyagePlan, VoyageInv', Straight, Departs PROVE Plan'
<1> SUFFICES ASSUME ~gambled' PROVE Plan'
  BY DEF Plan
<1>1. act # None /\ act.verb = "travel" /\ UNCHANGED <<gambled, word, active>>
  BY DEF Departs, filed, history, bay
<1>2. Plan /\ Planned /\ ~gambled /\ Answer(act) /\ act \in Acts
  BY <1>1, FiledAct DEF VoyagePlan
<1>3. act.to \in Stations /\ act.economy \in BOOLEAN /\ at \in Stations /\ tank \in Nat
  BY <1>1, <1>2, ActFields, VoyageFigures DEF VoyagePlan, VoyageInv, Hull
<1>4. at' = act.to /\ tank' = tank - Burnt(act) /\ tank >= Burnt(act) /\ tank' \in Nat
  BY VoyageFigures DEF Departs, VoyageInv, Hull
<1>5. Held' = Held
  BY <1>1 DEF Held
<1>6. Held' \subseteq {active'}
  BY <1>1, <1>2, <1>5 DEF Plan
<1>7. CASE active = None
  <2>1. at' \in Pumps
    BY <1>1, <1>2, <1>4, <1>7 DEF Answer
  <2>2. QED
    BY <1>1, <1>6, <1>7, <2>1 DEF Plan, NearPump
<1>8. ASSUME active # None, Fuel[<<at, at'>>] \in Nat
      PROVE  active \in Loads /\ tank' = tank - Fuel[<<at, at'>>]
             /\ Origin[active] \in Stations /\ Dest[active] \in Stations
             /\ OnwardToPump(Dest[active]) \in Nat
  <2>1. active \in Loads
    BY <1>8 DEF VoyagePlan, VoyageInv, BayFits
  <2>2. ~act.economy
    BY <1>1, <1>2, <1>8 DEF Planned
  <2>3. Burnt(act) = Fuel[<<at, at'>>]
    BY <1>4, <2>2 DEF Burnt
  <2>4. QED
    BY <1>4, <2>1, <2>3, VoyageFigures, OnwardCosts DEF VoyagePlan, VoyageInv
<1>9. Fuel[<<at, at'>>] \in Nat
  BY <1>3, <1>4, Quotes
<1>10. CASE active # None /\ word[active] = "booked" /\ act.to = Origin[active]
  <2> DEFINE haul == Fuel[<<Origin[active], Dest[active]>>]
             onward == OnwardToPump(Dest[active])
             dead == Fuel[<<at, Origin[active]>>]
  <2>1. haul \in Nat /\ onward \in Nat /\ dead \in Nat
    BY <1>3, <1>8, <1>9, <1>10, Quotes
  <2>2. tank >= Reserved(dead + haul + onward) /\ tank' = tank - dead
    BY <1>2, <1>4, <1>8, <1>9, <1>10 DEF Plan, WholePlan
  <2>3. tank' >= Reserved(haul + onward)
    <3> HIDE DEF haul, onward, dead
    <3>1. Reserved(dead + (haul + onward)) >= dead + Reserved(haul + onward)
      <4> DEFINE b == haul + onward
      <4>1. b \in Nat
        BY <2>1
      <4> HIDE DEF b
      <4>2. Reserved(dead + b) >= dead + Reserved(b)
        BY <2>1, <4>1, ReserveSplits
      <4>3. QED
        BY <4>2 DEF b
    <3>2. dead + haul + onward = dead + (haul + onward)
      BY <2>1
    <3>3. Reserved(haul + onward) \in Nat /\ Reserved(dead + (haul + onward)) \in Nat
      BY <2>1 DEF Reserved
    <3>4. QED
      BY <1>3, <2>1, <2>2, <3>1, <3>2, <3>3
  <2>4. at' = Origin[active]
    BY <1>4, <1>10
  <2>5. RunsWith(at', tank') # {}
    BY <1>4, <1>8, <1>9, <1>10, <2>3, <2>4, PumpAhead DEF VoyagePlan
  <2>6. NearPump'
    BY <2>5, RunsNext DEF NearPump
  <2>7. WholePlan(active)' = Reserved(haul + onward)
    <3>1. WholePlan(active)' = Reserved(Fuel[<<at', Origin[active]>>] + haul + onward)
      BY <1>1 DEF WholePlan, OnwardToPump
    <3>2. Fuel[<<at', Origin[active]>>] = 0
      BY <1>8, <1>9, <1>10, <2>4, Quotes
    <3>3. 0 + haul + onward = haul + onward
      BY <2>1
    <3>4. QED
      BY <3>1, <3>2, <3>3
  <2>8. QED
    BY <1>1, <1>6, <1>10, <2>3, <2>6, <2>7 DEF Plan
<1>11. CASE active # None /\ word[active] # "booked" /\ act.to = Dest[active]
  <2> DEFINE onward == OnwardToPump(Dest[active])
             haul == Fuel[<<at, Dest[active]>>]
  <2>1. haul \in Nat /\ onward \in Nat
    BY <1>4, <1>8, <1>9, <1>11
  <2>2. tank >= Reserved(haul + onward) /\ tank' = tank - haul
    BY <1>2, <1>4, <1>8, <1>9, <1>11 DEF Plan
  <2>3. tank' >= Reserved(0 + onward)
    <3> HIDE DEF haul, onward
    <3>1. 0 + onward = onward
      BY <2>1
    <3>2. /\ Reserved(haul + onward) >= haul + Reserved(onward) /\ Reserved(onward) \in Nat
          /\ Reserved(haul + onward) \in Nat
      BY <2>1, ReserveSplits
    <3>3. tank' >= Reserved(onward)
      BY <1>3, <2>1, <2>2, <3>2
    <3>4. QED
      BY <3>1, <3>3
  <2>4. at' = Dest[active] /\ Fuel[<<at', Dest[active]>>] = 0
    BY <1>4, <1>8, <1>9, <1>11, Quotes
  <2>5. RunsWith(at', tank') # {}
    BY <1>4, <1>8, <1>9, <1>11, <2>3, <2>4, PumpAhead DEF VoyagePlan
  <2>6. NearPump'
    BY <2>5, RunsNext DEF NearPump
  <2>7. OnwardToPump(Dest[active])' = onward
    BY <1>1 DEF OnwardToPump
  <2>8. QED
    BY <1>1, <1>6, <1>11, <2>3, <2>4, <2>6, <2>7 DEF Plan
<1>12. QED
  BY <1>1, <1>2, <1>7, <1>10, <1>11 DEF Planned

LEMMA BooksPlans == ASSUME VoyagePlan, VoyageInv', Books PROVE Plan'
<1> SUFFICES ASSUME ~gambled' PROVE Plan'
  BY DEF Plan
<1>1. act # None /\ act.verb = "book" /\ UNCHANGED <<gambled, at, tank>>
  BY DEF Books, filed, history
<1> DEFINE l == act.load
<1>2. active = None /\ tank >= WholePlan(l) /\ NearPump
  BY <1>1 DEF VoyagePlan, Planned, Plan
<1>3. l \in Loads
  <2>1. Answer(act) /\ act \in Acts
    BY <1>1, FiledAct DEF VoyagePlan
  <2>2. QED
    BY <1>1, <2>1, ActFields
<1>4. word' = [word EXCEPT ![l] = "booked"] /\ active' = l
  BY <1>2 DEF Books
<1> HIDE DEF l
<1>5. word \in [Loads -> Words] /\ Held = {}
  BY <1>2 DEF VoyagePlan, VoyageInv, BayFits
<1>6. Held' \subseteq {active'} /\ word'[active'] = "booked"
  BY <1>3, <1>4, <1>5 DEF Held
<1>7. WholePlan(active)' = WholePlan(l)
  BY <1>1, <1>4 DEF WholePlan, OnwardToPump
<1>8. NearPump'
  BY <1>1, <1>2, RunsNow, RunsNext DEF NearPump
<1>9. QED
  BY <1>1, <1>2, <1>6, <1>7, <1>8 DEF Plan

LEMMA CollectsPlans == ASSUME VoyagePlan, VoyageInv', Collects PROVE Plan'
<1> SUFFICES ASSUME ~gambled' PROVE Plan'
  BY DEF Plan
<1>1. act # None /\ act.verb = "collect" /\ UNCHANGED <<gambled, at, tank>>
  BY DEF Collects, filed, history
<1>2. Plan /\ ~gambled
  BY <1>1 DEF VoyagePlan
<1> DEFINE l == act.load
<1>3. l \in Loads
  <2>1. Answer(act) /\ act \in Acts
    BY <1>1, FiledAct DEF VoyagePlan
  <2>2. QED
    BY <1>1, <2>1, ActFields
<1>4. word' = [word EXCEPT ![l] = "none"] /\ Succeeds({l})
  BY DEF Collects
<1> HIDE DEF l
<1>5. NearPump'
  BY <1>1, <1>2, RunsNow, RunsNext DEF NearPump, Plan
<1>6. word \in [Loads -> Words] /\ (active # None => active \in Held) /\ Held \subseteq {active}
  BY <1>2 DEF VoyagePlan, VoyageInv, BayFits, Plan
<1>7. Held' = Held \ {l}
  BY <1>3, <1>4, <1>6 DEF Held
<1>8. CASE active = l
  <2>1. Held' = {} /\ Held \ {l} = {}
    BY <1>6, <1>7, <1>8
  <2>2. active' = None
    BY <1>4, <1>8, <2>1 DEF Succeeds
  <2>3. QED
    BY <1>5, <2>1, <2>2 DEF Plan
<1>9. CASE active # l
  <2>1. active' = active
    BY <1>4, <1>9 DEF Succeeds
  <2>2. active # None => active \in Loads /\ word'[active] = word[active]
    BY <1>4, <1>6, <1>9 DEF Held
  <2>3. WholePlan(active)' = WholePlan(active) /\ OnwardToPump(Dest[active])' = OnwardToPump(Dest[active])
    BY <1>1, <2>1 DEF WholePlan, OnwardToPump
  <2>4. QED
    BY <1>1, <1>2, <1>5, <1>6, <1>7, <2>1, <2>2, <2>3 DEF Plan
<1>10. QED
  BY <1>8, <1>9

LEMMA ElapsePlans == ASSUME VoyagePlan, VoyageInv', Elapse PROVE Plan'
<1> SUFFICES ASSUME ~gambled' PROVE Plan'
  BY DEF Plan
<1>1. UNCHANGED <<gambled, at>>
  BY DEF Elapse
<1>2. VoyageInv /\ Plan /\ ~gambled
  BY <1>1 DEF VoyagePlan
<1>3. tank \in 0..Tank /\ tank \in Nat /\ tank' \in Nat /\ tank' >= tank /\ at \in Stations
  <2>1. tank \in 0..Tank /\ at \in Stations
    BY <1>2 DEF VoyageInv, Hull
  <2>2. tank' = Tank \/ tank' = tank
    BY DEF Elapse
  <2>3. QED
    BY <2>1, <2>2, VoyageFigures
<1>4. NearPump'
  BY <1>1, <1>2, <1>3, NearKeeps DEF Plan
<1>5. Succeeds(Gone) /\ (active # None => active \in Held) /\ Held \subseteq {active}
      /\ (active = None => Held = {}) /\ active \in Loads \cup {None}
  BY <1>2, Tick DEF VoyageInv, BayFits, Plan
<1>6. Held' = Held \ Gone
  <2>1. \A l \in Loads : word'[l] # "none" <=> word[l] # "none" /\ l \notin Gone
    BY <1>2, WordAfter
  <2>2. QED
    BY <2>1 DEF Held
<1>7. CASE active = None
  <2>1. active \notin Gone
    BY <1>7, VoyageFigures DEF Gone
  <2>2. active' = None /\ Held' = {}
    BY <1>5, <1>6, <1>7, <2>1 DEF Succeeds
  <2>3. QED
    BY <1>4, <2>2 DEF Plan
<1>8. CASE active # None /\ active \in Gone
  <2>1. Held \ Gone = {} /\ Held' = {}
    BY <1>5, <1>6, <1>8
  <2>2. active' = None
    BY <1>5, <1>8, <2>1 DEF Succeeds
  <2>3. QED
    BY <1>4, <2>1, <2>2 DEF Plan
<1>9. CASE active # None /\ active \notin Gone
  <2>1. active' = active /\ active \in Loads /\ Held' \subseteq {active'}
    BY <1>5, <1>6, <1>9 DEF Succeeds
  <2>2. /\ word'[active] = "booked" => word[active] = "booked"
        /\ word'[active] = "picked" => word[active] = "picked" \/ Loaded(active)
        /\ word'[active] = "delivered" => word[active] \in {"picked", "delivered"}
        /\ word'[active] \in {"booked", "picked", "delivered"}
    <3>1. word[active] # "none"
      BY <1>5, <1>9 DEF Held
    <3>2. QED
      BY <1>2, <1>9, <2>1, <3>1, WordAfter DEF Words
  <2> DEFINE haul == Fuel[<<at, Dest[active]>>]
             onward == OnwardToPump(Dest[active])
  <2>3. haul \in Nat /\ onward \in Nat /\ Reserved(haul + onward) \in Nat /\ WholePlan(active) \in Nat
    BY <1>2, <1>3, <2>1, PlanCosts DEF VoyageInv
  <2>4. /\ WholePlan(active)' = WholePlan(active)
        /\ OnwardToPump(Dest[active])' = onward
    BY <1>1, <2>1 DEF WholePlan, OnwardToPump
  <2>5. CASE word'[active] = "booked"
    <3>1. tank >= WholePlan(active)
      BY <1>2, <1>9, <2>2, <2>5 DEF Plan
    <3>2. tank' >= WholePlan(active)
      BY <1>3, <2>3, <3>1
    <3>3. QED
      BY <1>4, <2>1, <2>4, <2>5, <3>2 DEF Plan
  <2>6. CASE word'[active] # "booked"
    <3>1. tank >= Reserved(haul + onward)
      <4>1. CASE word[active] # "booked"
        BY <1>2, <1>9, <4>1 DEF Plan
      <4>2. CASE word[active] = "booked"
        <5>1. Loaded(active)
          BY <2>2, <2>6, <4>2
        <5>2. Origin[active] = at
          BY <5>1 DEF Loaded, AtCrane
        <5>3. tank >= Reserved(Fuel[<<at, at>>] + haul + onward)
          BY <1>2, <1>9, <4>2, <5>2 DEF Plan, WholePlan
        <5>4. Fuel[<<at, at>>] + haul + onward = haul + onward
          <6>1. Fuel[<<at, at>>] = 0
            BY <1>3, Quotes
          <6>2. QED
            BY <2>3, <6>1
        <5>5. QED
          BY <5>3, <5>4
      <4>3. QED
        BY <4>1, <4>2
    <3>2. tank' >= Reserved(haul + onward)
      BY <1>3, <2>3, <3>1
    <3>3. QED
      BY <1>1, <1>4, <2>1, <2>4, <2>6, <3>2 DEF Plan
  <2>7. QED
    BY <2>5, <2>6
<1>10. QED
  BY <1>7, <1>8, <1>9

LEMMA PlanStep ==
    ASSUME VoyagePlan, Goods = {0}, Straight, [VoyageNext]_voyageVars
    PROVE  VoyagePlan'
<1>1. VoyageInv /\ VoyageInv' /\ goods = 0
  BY VoyageStep DEF VoyagePlan, VoyageInv, Hull
<1>2. CASE UNCHANGED voyageVars
  <2>1. UNCHANGED <<hull, bay, active, act, history>>
    BY <1>2 DEF voyageVars
  <2>2. Plan'
    BY <1>1, <2>1, PlanRests DEF hull, bay, history
  <2>3. WholePlan(act.load)' = WholePlan(act.load)
    BY <2>1 DEF WholePlan, OnwardToPump, hull
  <2>4. Planned'
    BY <2>1, <2>3 DEF VoyagePlan, Planned, hull, bay, history
  <2>5. QED
    BY <1>1, <2>2, <2>4 DEF VoyagePlan
<1>3. CASE Decide
  BY <1>1, <1>3, DecidePlans DEF VoyagePlan
<1>4. CASE Rests
  BY <1>1, <1>4, PlanRests, DischargedPlan DEF VoyagePlan, Rests, bay, filed, history
<1>5. CASE Refuels
  BY <1>1, <1>5, RefuelsPlans, DischargedPlan DEF VoyagePlan, Refuels
<1>6. CASE SendsTanker
  BY <1>1, <1>6, PlanRests, DischargedPlan DEF VoyagePlan, SendsTanker, bay
<1>7. CASE Departs
  BY <1>1, <1>7, DepartsPlans, DischargedPlan DEF VoyagePlan, Departs
<1>8. CASE Declines
  BY <1>1, <1>8, PlanRests, DischargedPlan DEF VoyagePlan, Declines, hull, bay
<1>9. CASE Books
  BY <1>1, <1>9, BooksPlans, DischargedPlan DEF VoyagePlan, Books
<1>10. CASE Collects
  BY <1>1, <1>10, CollectsPlans, DischargedPlan DEF VoyagePlan, Collects
<1>11. CASE Elapse
  <2>1. Planned'
    BY <1>11 DEF Elapse, Planned
  <2>2. QED
    BY <1>1, <1>11, <2>1, ElapsePlans DEF VoyagePlan
<1>12. QED
  BY <1>2, <1>3, <1>4, <1>5, <1>6, <1>7, <1>8, <1>9, <1>10, <1>11 DEF VoyageNext

\* With nothing of the merchant's aboard, and a router whose stops on the way save no fuel to
\* speak of, a hull at a berth that counted on no fuel but its own is at a pump or in reach of
\* one: the reserve of every plan it made outlives the plan (doctrine.rs:952, :405).
THEOREM TankHolds == VoyageSpec /\ Goods = {0} /\ Straight => []NeverStranded
<1> SUFFICES ASSUME Goods = {0}, Straight PROVE VoyageSpec => []NeverStranded
  BY DEF Straight
<1>1. VoyageInit => VoyagePlan
  BY VoyageInitInv, PlanInit DEF VoyagePlan
<1>2. VoyagePlan /\ [VoyageNext]_voyageVars => VoyagePlan'
  BY PlanStep
<1>3. VoyagePlan => NeverStranded
  BY DEF VoyagePlan, Plan, NearPump, NeverStranded
<1>4. QED
  BY <1>1, <1>2, <1>3, PTL DEF VoyageSpec

-----------------------------------------------------------------------------
(* The clocks: a load that was booked alone is in time at every fold, with  *)
(* a tick to spare while the hull is still to set out for it.               *)

\* The router answered all along, no course was declined for fuel, and nothing was booked beside
\* a load or beyond the tank, or the world holds one contract a hull.
Clean == ~silent /\ ~dry /\ (Bay = 1 \/ ~gambled)

\* The ticks a leg may take with the drive's delay, and a haul with the tick it is filed in.
Way(s) == IF at = s THEN 0 ELSE Ticks[<<at, s>>] + Engage - 1
Haul(l) == Ticks[<<Origin[l], Dest[l]>>] + Engage

Waiting == active # None /\ word[active] = "booked"
Laden == active # None /\ word[active] = "picked"

\* Until the crane is done with the active load.
ToPickup == fly + Way(Origin[active]) + crane[active]

\* Only what is at the crane, or has been filed a course, may let a tick go by.
OnSchedule ==
    Clean =>
        /\ late = {} /\ lapsed = {} /\ Held \subseteq {active}
        /\ active # None => tanker = None
        /\ Waiting => ToPickup <= window[active] /\ ToPickup + Haul(active) <= left[active]
        /\ Laden => fly + Way(Dest[active]) <= left[active] + 1 /\ (Docked \/ at = Dest[active])
        /\ act = Answered =>
              /\ Waiting /\ Docked /\ at # Origin[active]
                    => ToPickup < window[active] /\ ToPickup + Haul(active) < left[active]
              /\ Laden => at = Dest[active]

\* What a fold files for one load leaves it in time.
Steered ==
    act # None /\ act # Answered =>
        /\ active = None => late = {} /\ lapsed = {}
        /\ active = None /\ act.verb = "book" =>
              LET dead == fly + Ticks[<<at, Origin[act.load]>>] + Engage + Loading
              IN dead <= PickupTTL /\ dead + Haul(act.load) <= act.due
        /\ Clean /\ active # None =>
              /\ act.verb # "book"
              /\ act.verb = "travel" =>
                    /\ ~act.economy /\ act.to # at
                    /\ \/ word[active] = "booked" /\ act.to = Origin[active]
                       \/ word[active] # "booked" /\ act.to = Dest[active]
              /\ Waiting /\ Docked /\ at # Origin[active] => act.verb \in {"travel", "paws"}
              /\ Laden /\ Docked /\ at # Dest[active] => act.verb \in {"travel", "paws"}

\* A tanker is called by a hull at a berth, or with next to nothing in the tank; while it is
\* under way the hull does not leave, book or refuel.
Rescue ==
    /\ tanker # None => Docked \/ Below(5)
    /\ act # None /\ act.verb \in {"travel", "book", "refuel"} => tanker = None
    /\ act # None /\ act.verb = "paws" => Docked \/ Below(5)

VoyageClock == VoyageInv /\ OnSchedule /\ Steered /\ Rescue

\* What was filed is no answer.
LEMMA VerbNotDone == ASSUME NEW d \in Acts PROVE d # Answered /\ d.verb # "done"
<1>1. d.verb # "done"
  BY ActFields
<1>2. d # Answered
  BY <1>1 DEF Answered
<1>3. QED
  BY <1>1, <1>2

LEMMA ClockInit == VoyageInit => OnSchedule /\ Steered /\ Rescue
<1> SUFFICES ASSUME VoyageInit PROVE OnSchedule /\ Steered /\ Rescue
  OBVIOUS
<1>1. Held = {} /\ active = None /\ act = None /\ tanker = None /\ late = {} /\ lapsed = {}
  BY DEF VoyageInit, Held
<1>2. OnSchedule
  BY <1>1 DEF OnSchedule, Waiting, Laden, Answered
<1>3. QED
  BY <1>1, <1>2 DEF Steered, Rescue

\* With nothing held, a load is booked only if the flight to it and the crane fit its window, and
\* the haul its deadline, with the ticks still to fly counted.
LEMMA BookTimes ==
    ASSUME VoyageInv, active = None, NEW row \in Rows, NEW answers \in BOOLEAN, NEW wear \in BOOLEAN,
           NEW d \in DecideWith(row, answers, wear), d.verb = "book"
    PROVE  LET dead == fly + Ticks[<<at, Origin[d.load]>>] + Engage + Loading
           IN dead <= PickupTTL /\ dead + Haul(d.load) <= d.due
<1>1. d # HoldOn /\ d # [verb |-> "paws"] /\ d # [verb |-> "refuel"] /\ d # [verb |-> "repair"]
      /\ \A s, b : d # [verb |-> "travel", to |-> s, economy |-> b]
  BY DEF HoldOn
<1>2. d \in Idle(row, answers, wear)
  BY <1>1 DEF DecideWith
<1>3. /\ row # None /\ d = Book(row)
      /\ \/ ~Docked /\ Bookable(row.load, row.due, fly)
         \/ Docked /\ Bookable(row.load, row.due, None)
  <2>1. CASE ~Docked
    <3>1. d \in {IF row # None /\ answers /\ BookableInTheAir(row.load, row.due) THEN Book(row) ELSE HoldOn}
      BY <1>2, <2>1 DEF Idle
    <3>2. QED
      BY <1>1, <2>1, <3>1 DEF BookableInTheAir
  <2>2. CASE Docked
    BY <1>1, <1>2, <2>2 DEF Idle
  <2>3. QED
    BY <2>1, <2>2
<1>4. row.load \in Loads /\ row.due \in Windows
  BY <1>3 DEF Rows
<1> DEFINE l == row.load
           dead == Ticks[<<at, Origin[l]>>]
           haul == Ticks[<<Origin[l], Dest[l]>>]
<1>5. dead \in Nat /\ haul \in Nat /\ fly \in Nat /\ row.due \in Nat
  <2>1. at \in Stations /\ Origin[l] \in Stations /\ Dest[l] \in Stations
    BY <1>4, VoyageFigures DEF VoyageInv, Hull
  <2>2. fly \in 0..HighTicks /\ HighTicks \in Nat
    BY <2>1, FlightsWithin DEF VoyageInv, Hull
  <2>3. row.due \in Nat
    BY <1>4, VoyageFigures
  <2>4. QED
    BY <2>1, <2>2, <2>3, Quotes
<1>6. d.load = l /\ d.due = row.due
  BY <1>3 DEF Book
<1>7. CASE ~Docked /\ Bookable(row.load, row.due, fly)
  <2>1. fly # None
    BY <1>5, VoyageFigures
  <2>2. /\ dead + (fly + AirMargin) + Engage + Loading <= PickupTTL
        /\ dead + (fly + AirMargin) + Engage + Loading + haul + Engage <= row.due
    BY <1>7, <2>1 DEF Bookable, DeadTicks
  <2>3. QED
    BY <1>5, <1>6, <2>2, VoyageFigures DEF Haul
<1>8. CASE Docked /\ Bookable(row.load, row.due, None)
  <2>1. /\ dead + 0 + Engage + Loading <= PickupTTL
        /\ dead + 0 + Engage + Loading + haul + Engage <= row.due
    BY <1>8 DEF Bookable, DeadTicks
  <2>2. fly = 0
    BY <1>8 DEF Docked
  <2>3. QED
    BY <1>5, <1>6, <2>1, <2>2, VoyageFigures DEF Haul
<1>9. QED
  BY <1>3, <1>7, <1>8

\* What a fold may file while a tanker is under way.
LEMMA CallsTanker ==
    ASSUME NEW row, NEW answers \in BOOLEAN, NEW wear \in BOOLEAN,
           NEW d \in DecideWith(row, answers, wear), tanker # None => Docked \/ Below(5)
    PROVE  /\ d.verb \in {"travel", "book", "refuel"} => tanker = None
           /\ d.verb = "paws" => Docked \/ Below(5)
<1>1. HoldOn.verb = "hold"
  BY DEF HoldOn
<1>2. CASE tanker # None /\ Docked
  <2>1. d = HoldOn
    BY <1>2 DEF DecideWith
  <2>2. QED
    BY <1>1, <2>1
<1>3. CASE Below(5) /\ NoPump(answers) /\ ~(tanker # None /\ Docked)
  <2>1. d \in {IF "paws" \in Denied THEN HoldOn ELSE [verb |-> "paws"]}
    BY <1>3 DEF DecideWith
  <2>2. d.verb \in {"hold", "paws"}
    BY <1>1, <2>1
  <2>3. QED
    BY <1>3, <2>2
<1>4. CASE ~(Below(5) /\ NoPump(answers)) /\ ~(tanker # None /\ Docked)
  <2>1. tanker = None
    <3>1. ~Docked => NoPump(answers)
      BY DEF NoPump
    <3>2. QED
      BY <1>4, <3>1
  <2>2. CASE d.verb = "paws" /\ ~Docked
    <3>1. d \in UnderContract(row, answers) \/ d \in Idle(row, answers, wear)
      BY <1>4 DEF DecideWith
    <3>2. CASE d \in Idle(row, answers, wear)
      <4>1. d \in {IF row # None /\ answers /\ BookableInTheAir(row.load, row.due) THEN Book(row) ELSE HoldOn}
        BY <2>2, <3>2 DEF Idle
      <4>2. QED
        BY <1>1, <2>2, <4>1 DEF Book
    <3>3. CASE d \in UnderContract(row, answers)
      <4> DEFINE owed == {l \in Held : word[l] = "delivered"}
      <4>1. CASE owed # {}
        <5>1. d \in {[verb |-> "collect", load |-> l] : l \in IF active \in owed THEN {active} ELSE owed}
          BY <3>3, <4>1 DEF UnderContract
        <5>2. QED
          BY <2>2, <5>1
      <4>2. CASE owed = {}
        <5>1. d \in {IF row # None /\ answers /\ BookableInTheAir(row.load, row.due) THEN Book(row) ELSE HoldOn}
          BY <2>2, <3>3, <4>2 DEF UnderContract
        <5>2. QED
          BY <1>1, <2>2, <5>1 DEF Book
      <4>3. QED
        BY <4>1, <4>2
    <3>4. QED
      BY <3>1, <3>2, <3>3
  <2>3. QED
    BY <2>1, <2>2
<1>5. QED
  BY <1>2, <1>3, <1>4

\* With the one load it holds still to be fetched or landed elsewhere, a docked hull sets out.
LEMMA SetsOut ==
    ASSUME goods = 0, Held = {active}, active # None, word[active] \in {"booked", "picked"}, Docked,
           tanker = None, "paws" \notin Denied, Whither # at,
           NEW row, NEW wear \in BOOLEAN, NEW d \in DecideWith(row, TRUE, wear), d.verb # "book"
    PROVE  d.verb \in {"travel", "paws"}
<1>1. CASE Below(5) /\ NoPump(TRUE)
  <2>1. d = [verb |-> "paws"]
    BY <1>1 DEF DecideWith
  <2>2. QED
    BY <2>1
<1>2. CASE ~(Below(5) /\ NoPump(TRUE))
  <2>1. d \in UnderContract(row, TRUE)
    BY <1>2 DEF DecideWith
  <2>2. d = Travel(Whither)
    BY <2>1, DockedCourse
  <2>3. d = [verb |-> "travel", to |-> Whither, economy |-> FALSE]
    BY <2>2 DEF Travel
  <2>4. QED
    BY <2>3
<1>3. QED
  BY <1>1, <1>2

\* The figures of the active load are naturals.
LEMMA ClockFigures ==
    ASSUME VoyageInv, active # None
    PROVE  /\ active \in Loads /\ active \in Held /\ word[active] \in Words
           /\ at \in Stations /\ Origin[active] \in Stations /\ Dest[active] \in Stations
           /\ Origin[active] # Dest[active]
           /\ fly \in Nat /\ window[active] \in Nat /\ left[active] \in Nat /\ crane[active] \in Nat
           /\ Haul(active) \in Nat \ {0}
           /\ \A s \in Stations : /\ Way(s) \in Nat
                                  /\ Ticks[<<at, s>>] \in Nat
                                  /\ at # s => Way(s) = Ticks[<<at, s>>] + Engage - 1
<1>1. active \in Loads /\ active \in Held /\ word[active] \in Words /\ at \in Stations
  BY DEF VoyageInv, BayFits, Hull
<1>2. Origin[active] \in Stations /\ Dest[active] \in Stations /\ Origin[active] # Dest[active]
  BY <1>1, VoyageFigures, Quotes
<1>3. fly \in Nat
  <2>1. fly \in 0..HighTicks /\ HighTicks \in Nat
    BY <1>1, FlightsWithin DEF VoyageInv, Hull
  <2>2. QED
    BY <2>1
<1>4. window[active] \in Nat /\ left[active] \in Nat /\ crane[active] \in Nat
  <2>1. /\ window[active] \in 0..PickupTTL /\ left[active] \in 0..HighWindow
        /\ crane[active] \in 0..Loading /\ HighWindow \in Nat
    BY <1>1, WindowsWithin DEF VoyageInv, BayFits
  <2>2. QED
    BY <2>1, VoyageFigures
<1>5. Haul(active) \in Nat \ {0}
  <2>1. Ticks[<<Origin[active], Dest[active]>>] \in Nat
    BY <1>2, Quotes
  <2>2. QED
    BY <2>1, VoyageFigures DEF Haul
<1>6. ASSUME NEW s \in Stations
      PROVE  /\ Way(s) \in Nat /\ Ticks[<<at, s>>] \in Nat
             /\ at # s => Way(s) = Ticks[<<at, s>>] + Engage - 1
  <2>1. Ticks[<<at, s>>] \in Nat
    BY <1>1, Quotes
  <2>2. QED
    BY <2>1, VoyageFigures DEF Way
<1>7. QED
  BY <1>1, <1>2, <1>3, <1>4, <1>5, <1>6

LEMMA DecideTimes ==
    ASSUME VoyageClock, VoyageInv', goods = 0, "paws" \notin Denied, Decide
    PROVE  OnSchedule' /\ Steered' /\ Rescue'
<1>1. PICK row \in Rows, answers \in BOOLEAN, wear \in BOOLEAN :
        /\ act' \in DecideWith(row, answers, wear)
        /\ silent' = (active # None /\ (silent \/ ~answers))
        /\ gambled' = (gambled \/ /\ act'.verb = "book"
                                  /\ tank < WholePlan(act'.load) \/ active # None)
        /\ squeezed' = (active # None /\ (squeezed \/
                          (act'.verb = "book" /\ Docked /\ ~SparesATick(act'.load, act'.due))))
        /\ detoured' = (active # None /\ (detoured \/
                          (act'.verb = "book" /\ \E l \in Held : word[l] = "booked" /\ Origin[l] # at)))
  BY DEF Decide
<1>2. UNCHANGED <<at, fly, tank, tanker, word, left, window, crane, active>> /\ Held' = Held
  BY DEF Decide, hull, bay, Held
<1>3. PICK d : d = act'
  OBVIOUS
<1>4. d \in DecideWith(row, answers, wear) /\ Answer(d) /\ d \in Acts /\ d # Answered
  <2>1. d \in DecideWith(row, answers, wear)
    BY <1>1, <1>3
  <2>2. Answer(d)
    BY <2>1, DecideAnswers, InvTypes DEF VoyageClock
  <2>3. QED
    BY <2>1, <2>2, VerbNotDone DEF Answer
<1>5. /\ active = None => late' = {} /\ lapsed' = {}
      /\ active # None => UNCHANGED <<late, lapsed, dry>>
  BY DEF Decide
<1>6. ASSUME Clean', active # None PROVE Clean /\ answers /\ d.verb # "book"
  <2>0. ~silent' /\ ~dry' /\ (Bay = 1 \/ ~gambled')
    BY <1>6 DEF Clean
  <2>1. ~silent /\ answers /\ ~dry
    <3>1. ~silent /\ answers
      BY <1>1, <1>6, <2>0
    <3>2. QED
      BY <1>5, <1>6, <2>0, <3>1
  <2>2. Bay = 1 \/ ~gambled
    BY <1>1, <1>6 DEF Clean
  <2>3. CASE Bay = 1
    <3>1. d.verb = "book" => Cardinality(Held) < 1
      BY <1>4, <2>3 DEF Answer
    <3>2. Held = {active}
      BY <1>6, <2>1, <2>2 DEF VoyageClock, OnSchedule, Clean, VoyageInv, BayFits
    <3>3. Cardinality(Held) = 1
      BY <3>2, FS_Singleton
    <3>4. QED
      BY <2>1, <2>2, <3>1, <3>3 DEF Clean
  <2>4. CASE ~gambled'
    <3>1. ~(act'.verb = "book" /\ (tank < WholePlan(act'.load) \/ active # None))
      BY <1>1, <2>4
    <3>2. QED
      BY <1>3, <1>6, <2>1, <2>2, <3>1 DEF Clean
  <2>5. QED
    BY <1>6, <2>3, <2>4 DEF Clean
<1>7. OnSchedule'
  <2>1. CASE active = None
    <3>1. Held' = {} /\ active' = None
      BY <1>2, <2>1 DEF VoyageClock, VoyageInv, BayFits
    <3>2. QED
      BY <1>5, <2>1, <3>1 DEF OnSchedule, Waiting, Laden
  <2>2. CASE active # None
    <3>1. SUFFICES ASSUME Clean' PROVE OnSchedule'
      BY DEF OnSchedule
    <3>2. Clean /\ OnSchedule
      BY <1>6, <2>2, <3>1 DEF VoyageClock
    <3>3. act' # Answered
      BY <1>3, <1>4
    <3>4. (Waiting' <=> Waiting) /\ (Laden' <=> Laden) /\ (Docked' <=> Docked)
      BY <1>2 DEF Waiting, Laden, Docked
    <3>5. ToPickup' = ToPickup /\ Haul(active)' = Haul(active) /\ Way(Dest[active])' = Way(Dest[active])
      BY <1>2 DEF ToPickup, Haul, Way
    <3>6. late' = {} /\ lapsed' = {}
      BY <1>5, <2>2, <3>2 DEF OnSchedule
    <3>7. QED
      BY <1>2, <2>2, <3>2, <3>3, <3>4, <3>5, <3>6 DEF OnSchedule
  <2>3. QED
    BY <2>1, <2>2
<1>8. ASSUME active = None, d.verb = "book"
      PROVE  LET dead == fly + Ticks[<<at, Origin[d.load]>>] + Engage + Loading
             IN dead <= PickupTTL /\ dead + Haul(d.load) <= d.due
  BY <1>4, <1>8, BookTimes DEF VoyageClock
<1>9. ASSUME Clean', active # None
      PROVE  /\ d.verb # "book"
             /\ d.verb = "travel" =>
                   /\ ~d.economy /\ d.to # at
                   /\ \/ word[active] = "booked" /\ d.to = Origin[active]
                      \/ word[active] # "booked" /\ d.to = Dest[active]
             /\ Waiting /\ Docked /\ at # Origin[active] => d.verb \in {"travel", "paws"}
             /\ Laden /\ Docked /\ at # Dest[active] => d.verb \in {"travel", "paws"}
  <2>1. Clean /\ answers = TRUE /\ d.verb # "book"
    BY <1>6, <1>9
  <2>2. VoyageInv /\ Held = {active} /\ tanker = None
    BY <1>9, <2>1 DEF VoyageClock, OnSchedule, VoyageInv, BayFits
  <2>3. ASSUME d.verb = "travel"
        PROVE  /\ ~d.economy /\ d.to # at
               /\ \/ word[active] = "booked" /\ d.to = Origin[active]
                  \/ word[active] # "booked" /\ d.to = Dest[active]
    BY <1>4, <1>9, <2>2, <2>3, FliesThePlan
  <2>4. ASSUME word[active] \in {"booked", "picked"}, Docked, Whither # at
        PROVE  d.verb \in {"travel", "paws"}
    <3>1. d \in DecideWith(row, TRUE, wear)
      BY <1>4, <2>1
    <3>2. QED
      BY <1>9, <2>1, <2>2, <2>4, <3>1, SetsOut
  <2>5. QED
    BY <2>1, <2>3, <2>4 DEF Whither, Waiting, Laden
<1>10. Steered'
  <2>1. (Waiting' <=> Waiting) /\ (Laden' <=> Laden) /\ (Docked' <=> Docked)
    BY <1>2 DEF Waiting, Laden, Docked
  <2>2. active' = None => late' = {} /\ lapsed' = {}
    BY <1>2, <1>5
  <2>3. active' = None /\ act'.verb = "book" =>
          (LET dead == fly + Ticks[<<at, Origin[act.load]>>] + Engage + Loading
           IN dead <= PickupTTL /\ dead + Haul(act.load) <= act.due)'
    BY <1>2, <1>3, <1>8 DEF Haul
  <2>4. Clean' /\ active' # None =>
              /\ act'.verb # "book"
              /\ act'.verb = "travel" =>
                    /\ ~act'.economy /\ act'.to # at'
                    /\ \/ word'[active'] = "booked" /\ act'.to = Origin[active']
                       \/ word'[active'] # "booked" /\ act'.to = Dest[active']
              /\ Waiting' /\ Docked' /\ at' # Origin[active'] => act'.verb \in {"travel", "paws"}
              /\ Laden' /\ Docked' /\ at' # Dest[active'] => act'.verb \in {"travel", "paws"}
    BY <1>2, <1>3, <1>9, <2>1
  <2>5. QED
    BY <2>2, <2>3, <2>4 DEF Steered
<1>11. Rescue'
  <2>1. tanker # None => Docked \/ Below(5)
    BY DEF VoyageClock, Rescue
  <2>2. /\ d.verb \in {"travel", "book", "refuel"} => tanker = None
        /\ d.verb = "paws" => Docked \/ Below(5)
    BY <1>4, <2>1, CallsTanker
  <2>3. (Docked' <=> Docked) /\ (Below(5)' <=> Below(5))
    BY <1>2 DEF Docked, Below
  <2>4. QED
    BY <1>2, <1>3, <2>1, <2>2, <2>3 DEF Rescue
<1>12. QED
  BY <1>7, <1>10, <1>11

\* An act that is answered steers no further, and calls no tanker.
LEMMA DischargedTimes ==
    ASSUME act' = Answered
    PROVE  Steered' /\ ((tanker' # None => Docked' \/ Below(5)') => Rescue')
<1>1. act'.verb = "done"
  BY DEF Answered
<1>2. Steered'
  BY DEF Steered
<1>3. QED
  BY <1>1, <1>2 DEF Rescue

\* What was filed, when the exchange folds it.
LEMMA FiledTimes ==
    ASSUME VoyageClock, act # None, act.verb # "done"
    PROVE  /\ act # Answered
           /\ active = None => late = {} /\ lapsed = {} /\ Held = {}
           /\ Clean /\ active # None => Held = {active} /\ tanker = None /\ late = {} /\ lapsed = {}
<1>1. act # Answered
  BY DEF Answered
<1>2. QED
  BY <1>1 DEF VoyageClock, Steered, OnSchedule, VoyageInv, BayFits

\* A hull that stays where it is and a bay left alone stay on schedule, unless a course was due.
LEMMA StaysOnSchedule ==
    ASSUME VoyageClock, act # None, act.verb # "done", act.verb \notin {"travel", "paws"}, act' = Answered,
           UNCHANGED <<at, fly, tanker, word, left, window, crane, active, late, lapsed>>,
           active # None => (Clean' => Clean)
    PROVE  OnSchedule'
<1>1. Held' = Held
  BY DEF Held
<1>2. CASE active = None
  <2>1. Held = {} /\ late = {} /\ lapsed = {}
    BY <1>2, FiledTimes
  <2>2. QED
    BY <1>1, <1>2, <2>1 DEF OnSchedule, Waiting, Laden
<1>3. CASE active # None
  <2>1. SUFFICES ASSUME Clean' PROVE OnSchedule'
    BY DEF OnSchedule
  <2>2. Clean /\ OnSchedule /\ Steered /\ act # Answered
    BY <1>3, <2>1, FiledTimes DEF VoyageClock
  <2>3. (Waiting' <=> Waiting) /\ (Laden' <=> Laden) /\ (Docked' <=> Docked)
    BY DEF Waiting, Laden, Docked
  <2>4. ToPickup' = ToPickup /\ Haul(active)' = Haul(active) /\ Way(Dest[active])' = Way(Dest[active])
    BY DEF ToPickup, Haul, Way
  <2>5. ~(Waiting /\ Docked /\ at # Origin[active]) /\ ~(Laden /\ Docked /\ at # Dest[active])
    BY <1>3, <2>2 DEF Steered
  <2>6. Laden => at = Dest[active]
    BY <2>2, <2>5 DEF OnSchedule
  <2>7. QED
    BY <1>1, <1>3, <2>2, <2>3, <2>4, <2>5, <2>6 DEF OnSchedule
<1>4. QED
  BY <1>2, <1>3

LEMMA RestsTimes == ASSUME VoyageClock, Rests PROVE OnSchedule' /\ Steered' /\ Rescue'
<1>1. /\ act # None /\ act.verb # "done" /\ act.verb \notin {"travel", "paws"} /\ act' = Answered
      /\ UNCHANGED <<at, fly, tank, tanker, word, left, window, crane, active>>
      /\ UNCHANGED <<late, lapsed, gambled, silent, dry>>
  BY DEF Rests, bay, filed, history
<1>2. Clean' => Clean
  BY <1>1 DEF Clean
<1>3. OnSchedule'
  BY <1>1, <1>2, StaysOnSchedule
<1>4. (Docked' <=> Docked) /\ (Below(5)' <=> Below(5))
  BY <1>1 DEF Docked, Below
<1>5. Rescue' /\ Steered'
  BY <1>1, <1>4, DischargedTimes DEF VoyageClock, Rescue
<1>6. QED
  BY <1>3, <1>5

LEMMA RefuelsTimes == ASSUME VoyageClock, Refuels PROVE OnSchedule' /\ Steered' /\ Rescue'
<1>1. /\ act # None /\ act.verb = "refuel" /\ act' = Answered
      /\ UNCHANGED <<at, fly, tanker, word, left, window, crane, active, late, lapsed>>
  BY DEF Refuels, bay
<1>2. active = None /\ tanker = None
  <2>1. Answer(act)
    BY <1>1, FiledAct DEF VoyageClock
  <2>2. QED
    BY <1>1, <2>1 DEF Answer, VoyageClock, Rescue
<1>3. OnSchedule'
  BY <1>1, <1>2, StaysOnSchedule
<1>4. Rescue' /\ Steered'
  BY <1>1, <1>2, DischargedTimes
<1>5. QED
  BY <1>3, <1>4

LEMMA SendsTankerTimes == ASSUME VoyageClock, SendsTanker PROVE OnSchedule' /\ Steered' /\ Rescue'
<1>1. OnSchedule'
  BY DEF SendsTanker, OnSchedule, Clean
<1>2. act # None /\ act.verb = "paws" /\ act' = Answered /\ UNCHANGED <<fly, tank>>
  BY DEF SendsTanker
<1>3. (Docked \/ Below(5)) /\ (Docked' <=> Docked) /\ (Below(5)' <=> Below(5))
  BY <1>2 DEF VoyageClock, Rescue, Docked, Below
<1>4. QED
  BY <1>1, <1>2, <1>3, DischargedTimes

LEMMA DeclinesTimes == ASSUME VoyageClock, Declines PROVE OnSchedule' /\ Steered' /\ Rescue'
<1>1. OnSchedule'
  BY DEF Declines, OnSchedule, Clean
<1>2. act # None /\ act.verb = "travel" /\ act' = Answered /\ tanker' = tanker
  BY DEF Declines, hull
<1>3. tanker = None
  BY <1>2 DEF VoyageClock, Rescue
<1>4. QED
  BY <1>1, <1>2, <1>3, DischargedTimes

LEMMA DepartsTimes ==
    ASSUME VoyageClock, VoyageInv', Departs
    PROVE  OnSchedule' /\ Steered' /\ Rescue'
<1>1. /\ act # None /\ act.verb = "travel" /\ act' = Answered /\ at' = act.to
      /\ UNCHANGED <<tanker, word, left, window, crane, active, late, lapsed, gambled, silent, dry>>
  BY DEF Departs, bay, filed, history
<1>2. /\ Held' = Held /\ (Clean' <=> Clean)
      /\ (Waiting' <=> Waiting) /\ (Laden' <=> Laden)
  BY <1>1 DEF Held, Clean, Waiting, Laden
<1>3. ASSUME active = None PROVE OnSchedule'
  <2>1. Held = {} /\ late = {} /\ lapsed = {}
    BY <1>1, <1>3, FiledTimes
  <2>2. ~Waiting' /\ ~Laden' /\ active' = None /\ Held' = {} /\ late' = {} /\ lapsed' = {}
    BY <1>1, <1>2, <1>3, <2>1 DEF Waiting, Laden
  <2>3. QED
    BY <2>2 DEF OnSchedule
<1>4. ASSUME active # None PROVE OnSchedule'
  <2>1. SUFFICES ASSUME Clean' PROVE OnSchedule'
    BY DEF OnSchedule
  <2>2. Clean /\ OnSchedule /\ Steered /\ act # Answered
    BY <1>1, <1>2, <2>1, FiledTimes DEF VoyageClock
  <2>3. /\ ~act.economy /\ act.to # at
        /\ \/ word[active] = "booked" /\ act.to = Origin[active]
           \/ word[active] # "booked" /\ act.to = Dest[active]
    BY <1>1, <1>4, <2>2 DEF Steered
  <2>4. PICK delay \in 0..(Engage - 1) : fly' = Ticks[<<at, act.to>>] + delay
    BY <2>3 DEF Departs, Flight
  <2>5. /\ at \in Stations /\ act.to \in Stations /\ Ticks[<<at, act.to>>] \in Nat /\ Engage \in Nat
        /\ fly \in Nat /\ crane[active] \in Nat /\ window[active] \in Nat /\ left[active] \in Nat
        /\ Haul(active) \in Nat
        /\ Way(act.to) = Ticks[<<at, act.to>>] + Engage - 1
    BY <1>4, <2>3, ClockFigures, VoyageFigures DEF VoyageClock
  <2>6. fly' \in Nat /\ fly' <= Way(act.to)
    BY <2>4, <2>5
  <2>7. Way(Origin[active])' = 0 \/ act.to # Origin[active]
    BY <1>1 DEF Way
  <2>8. Way(Dest[active])' = 0 \/ act.to # Dest[active]
    BY <1>1 DEF Way
  <2>9. Haul(active)' = Haul(active)
    BY <1>1 DEF Haul
  <2>10. Waiting => ToPickup' <= window[active] /\ ToPickup' + Haul(active) <= left[active]
    <3>1. SUFFICES ASSUME Waiting PROVE ToPickup' <= window[active] /\ ToPickup' + Haul(active) <= left[active]
      OBVIOUS
    <3>2. act.to = Origin[active]
      BY <2>3, <3>1 DEF Waiting
    <3>3. /\ fly + Way(Origin[active]) + crane[active] <= window[active]
          /\ fly + Way(Origin[active]) + crane[active] + Haul(active) <= left[active]
      BY <2>2, <3>1 DEF OnSchedule, ToPickup
    <3>4. ToPickup' = fly' + 0 + crane[active]
      BY <1>1, <2>7, <3>2 DEF ToPickup
    <3>5. QED
      BY <2>5, <2>6, <3>2, <3>3, <3>4
  <2>11. Laden => at' = Dest[active] /\ fly' + Way(Dest[active])' <= left[active] + 1
    <3>1. SUFFICES ASSUME Laden PROVE at' = Dest[active] /\ fly' + Way(Dest[active])' <= left[active] + 1
      OBVIOUS
    <3>2. act.to = Dest[active]
      BY <2>3, <3>1 DEF Laden
    <3>3. fly + Way(Dest[active]) <= left[active] + 1
      BY <2>2, <3>1 DEF OnSchedule
    <3>4. Way(Dest[active])' = 0
      BY <2>8, <3>2
    <3>5. QED
      BY <1>1, <2>5, <2>6, <3>2, <3>3, <3>4
  <2>12. Waiting => at' = Origin[active]
    BY <1>1, <2>3 DEF Waiting
  <2>13. QED
    BY <1>1, <1>2, <1>4, <2>2, <2>9, <2>10, <2>11, <2>12 DEF OnSchedule
<1>5. tanker = None
  BY <1>1 DEF VoyageClock, Rescue
<1>6. QED
  BY <1>1, <1>3, <1>4, <1>5, DischargedTimes

LEMMA BooksTimes ==
    ASSUME VoyageClock, VoyageInv', Books
    PROVE  OnSchedule' /\ Steered' /\ Rescue'
<1>1. /\ act # None /\ act.verb = "book" /\ act' = Answered
      /\ UNCHANGED <<at, fly, tanker, late, lapsed, gambled, silent, dry>>
  BY DEF Books, filed, history
<1>2. act # Answered /\ tanker = None
  BY <1>1, FiledTimes DEF VoyageClock, Rescue
<1> DEFINE l == act.load
<1>3. l \in Loads
  <2>1. Answer(act) /\ act \in Acts
    BY <1>1, FiledAct DEF VoyageClock
  <2>2. QED
    BY <1>1, <2>1, ActFields
<1>4. Clean' <=> Clean
  BY <1>1 DEF Clean
<1>5. CASE active # None
  <2>1. ~Clean
    BY <1>1, <1>2, <1>5 DEF VoyageClock, Steered
  <2>2. QED
    BY <1>1, <1>2, <1>4, <2>1, DischargedTimes DEF OnSchedule
<1>6. CASE active = None
  <2>1. Held = {} /\ late = {} /\ lapsed = {}
    BY <1>1, <1>6, FiledTimes
  <2>2. /\ word' = [word EXCEPT ![l] = "booked"] /\ left' = [left EXCEPT ![l] = act.due]
        /\ window' = [window EXCEPT ![l] = PickupTTL] /\ crane' = [crane EXCEPT ![l] = Loading]
        /\ active' = l
    BY <1>6 DEF Books
  <2>3. /\ DOMAIN word = Loads /\ DOMAIN left = Loads /\ DOMAIN window = Loads /\ DOMAIN crane = Loads
    BY DEF VoyageClock, VoyageInv, BayFits
  <2>4. /\ fly + Ticks[<<at, Origin[l]>>] + Engage + Loading <= PickupTTL
        /\ fly + Ticks[<<at, Origin[l]>>] + Engage + Loading + Haul(l) <= act.due
    BY <1>1, <1>2, <1>6 DEF VoyageClock, Steered
  <2> HIDE DEF l
  <2>5. /\ word'[l] = "booked" /\ left'[l] = act.due /\ window'[l] = PickupTTL /\ crane'[l] = Loading
        /\ Held' = {l}
    BY <1>3, <2>1, <2>2, <2>3 DEF Held
  <2>6. /\ fly \in Nat /\ Ticks[<<at, Origin[l]>>] \in Nat /\ Haul(l) \in Nat
        /\ window'[l] \in Nat /\ left'[l] \in Nat
    <3>1. VoyageInv' /\ active' # None
      BY <1>3, <2>2, VoyageFigures
    <3>2. /\ at' \in Stations /\ Origin[active'] \in Stations /\ fly' \in Nat
          /\ window'[active'] \in Nat /\ left'[active'] \in Nat
      <4>1. active' \in Loads /\ at' \in Stations /\ Origin[active'] \in Stations
        BY <1>3, <2>2, <3>1, VoyageFigures DEF VoyageInv, Hull
      <4>2. fly' \in 0..HighTicks /\ HighTicks \in Nat
        BY <3>1, <4>1, FlightsWithin DEF VoyageInv, Hull
      <4>3. window'[active'] \in 0..PickupTTL /\ left'[active'] \in 0..HighWindow /\ HighWindow \in Nat
        BY <3>1, <4>1, WindowsWithin DEF VoyageInv, BayFits
      <4>4. QED
        BY <4>1, <4>2, <4>3, VoyageFigures
    <3>3. Dest[l] \in Stations
      BY <1>3, VoyageFigures
    <3>4. QED
      BY <1>1, <2>2, <3>2, <3>3, Quotes, VoyageFigures DEF Haul
  <2>7. ToPickup' = fly + Way(Origin[l]) + Loading
    BY <1>1, <2>2, <2>5 DEF ToPickup, Way
  <2>8. Way(Origin[l]) \in Nat /\ Way(Origin[l]) < Ticks[<<at, Origin[l]>>] + Engage
    BY <2>6, VoyageFigures DEF Way
  <2>9. ToPickup' < window'[l] /\ ToPickup' + Haul(l) < left'[l] /\ ToPickup' \in Nat
    BY <2>4, <2>5, <2>6, <2>7, <2>8, VoyageFigures
  <2>10. Waiting' /\ ~Laden' /\ Haul(active)' = Haul(l)
    BY <1>3, <2>2, <2>5, VoyageFigures DEF Waiting, Laden, Haul
  <2>11. OnSchedule'
    <3>1. ToPickup' <= window'[l] /\ ToPickup' + Haul(l) <= left'[l]
      BY <2>6, <2>9
    <3>2. QED
      BY <1>1, <1>2, <2>1, <2>2, <2>5, <2>9, <2>10, <3>1 DEF OnSchedule
  <2>12. QED
    BY <1>1, <1>2, <2>11, DischargedTimes
<1>7. QED
  BY <1>5, <1>6

LEMMA CollectsTimes ==
    ASSUME VoyageClock, VoyageInv', Collects
    PROVE  OnSchedule' /\ Steered' /\ Rescue'
<1>1. /\ act # None /\ act.verb = "collect" /\ act' = Answered
      /\ UNCHANGED <<at, fly, tank, tanker, left, window, crane, late, lapsed, gambled, silent, dry>>
      /\ word' = [word EXCEPT ![act.load] = "none"] /\ Succeeds({act.load})
  BY DEF Collects, filed, history
<1>2. (Clean' <=> Clean) /\ (Docked' <=> Docked) /\ (Below(5)' <=> Below(5))
  BY <1>1 DEF Clean, Docked, Below
<1>3. OnSchedule'
  <2>1. SUFFICES ASSUME Clean' PROVE OnSchedule'
    BY DEF OnSchedule
  <2>2. Clean /\ OnSchedule /\ Steered /\ VoyageInv
    BY <1>2, <2>1 DEF VoyageClock
  <2>3. DOMAIN word = Loads /\ act.load \in Loads
    <3>1. Answer(act) /\ act \in Acts
      BY <1>1, <2>2, FiledAct
    <3>2. QED
      BY <1>1, <2>2, <3>1, ActFields DEF VoyageInv, BayFits
  <2>4. Held' = Held \ {act.load} /\ Held \subseteq {active} /\ late' = {} /\ lapsed' = {}
    BY <1>1, <2>2, <2>3 DEF Held, OnSchedule
  <2>5. CASE active = act.load
    <3>1. Held \ {act.load} = {}
      BY <2>4, <2>5
    <3>2. active' = None
      BY <1>1, <2>5, <3>1 DEF Succeeds
    <3>3. QED
      BY <2>4, <3>1, <3>2 DEF OnSchedule, Waiting, Laden
  <2>6. CASE active # act.load
    <3>1. active' = active
      BY <1>1, <2>6 DEF Succeeds
    <3>2. CASE active = None
      BY <2>4, <3>1, <3>2 DEF OnSchedule, Waiting, Laden
    <3>3. CASE active # None
      <4>1. active \in Loads /\ word'[active] = word[active]
        BY <1>1, <2>2, <2>3, <2>6, <3>3, ClockFigures
      <4>2. (Waiting' <=> Waiting) /\ (Laden' <=> Laden)
        BY <3>1, <4>1 DEF Waiting, Laden
      <4>3. ToPickup' = ToPickup /\ Haul(active)' = Haul(active) /\ Way(Dest[active])' = Way(Dest[active])
        BY <1>1, <3>1 DEF ToPickup, Haul, Way
      <4>4. act # Answered
        BY <1>1, FiledTimes
      <4>5. ~(Waiting /\ Docked /\ at # Origin[active]) /\ ~(Laden /\ Docked /\ at # Dest[active])
        BY <1>1, <2>2, <3>3, <4>4 DEF Steered
      <4>6. Laden => at = Dest[active]
        BY <2>2, <4>5 DEF OnSchedule
      <4>7. QED
        BY <1>1, <1>2, <2>2, <2>4, <3>1, <3>3, <4>2, <4>3, <4>5, <4>6 DEF OnSchedule
    <3>4. QED
      BY <3>2, <3>3
  <2>7. QED
    BY <2>5, <2>6
<1>4. Rescue' /\ Steered'
  BY <1>1, <1>2, DischargedTimes DEF VoyageClock, Rescue
<1>5. QED
  BY <1>3, <1>4

\* What is in time is picked up, or landed, before a clock runs out.
LEMMA NothingIsLost ==
    ASSUME VoyageClock, Clean, Elapse, active # None
    PROVE  ~Reverts(active) /\ ~Settles(active)
<1>1. OnSchedule /\ act = Answered /\ VoyageInv
  BY DEF VoyageClock, Elapse
<1>2. /\ Way(Origin[active]) \in Nat /\ Way(Dest[active]) \in Nat /\ Haul(active) \in Nat \ {0}
      /\ fly \in Nat /\ window[active] \in Nat /\ left[active] \in Nat /\ crane[active] \in Nat
      /\ active \in Loads
  BY <1>1, ClockFigures
<1>3. fly' = IF fly = 0 THEN 0 ELSE fly - 1
  BY DEF Elapse, Docked
<1>4. CASE word[active] = "booked"
  <2>1. /\ fly + Way(Origin[active]) + crane[active] <= window[active]
        /\ fly + Way(Origin[active]) + crane[active] + Haul(active) <= left[active]
        /\ Docked /\ at # Origin[active] => fly + Way(Origin[active]) + crane[active] < window[active]
    BY <1>1, <1>4 DEF OnSchedule, Waiting, ToPickup
  <2>2. crane[active] >= 1
    BY <1>1, <1>2, <1>4 DEF VoyageInv, Clocks
  <2>3. left[active] # 0
    BY <1>2, <2>1
  <2>4. ASSUME window[active] = 1 PROVE Docked /\ at = Origin[active] /\ crane[active] = 1
    <3>1. fly = 0 /\ crane[active] = 1
      BY <1>2, <2>1, <2>2, <2>4
    <3>2. at # Origin[active] => fly + Way(Origin[active]) + crane[active] < 1
      BY <2>1, <2>4, <3>1 DEF Docked
    <3>3. QED
      BY <1>2, <3>1, <3>2 DEF Docked
  <2>5. QED
    BY <1>4, <2>3, <2>4 DEF Reverts, Settles, Loaded, AtCrane
<1>5. CASE word[active] = "picked"
  <2>1. fly + Way(Dest[active]) <= left[active] + 1 /\ at = Dest[active]
    BY <1>1, <1>5 DEF OnSchedule, Laden
  <2>2. left[active] = 0 => fly' = 0
    BY <1>2, <1>3, <2>1
  <2>3. QED
    BY <1>5, <2>1, <2>2 DEF Reverts, Settles, Lands
<1>6. CASE word[active] \notin {"booked", "picked"}
  BY <1>6 DEF Reverts, Settles
<1>7. QED
  BY <1>4, <1>5, <1>6

LEMMA ElapseTimes ==
    ASSUME VoyageClock, VoyageInv', Elapse
    PROVE  OnSchedule' /\ Steered' /\ Rescue'
<1>1. act = Answered /\ act' = None /\ UNCHANGED <<at, gambled, silent, dry>>
  BY DEF Elapse
<1>2. fly' = IF fly = 0 THEN 0 ELSE fly - 1
  BY DEF Elapse, Docked
<1>3. OnSchedule'
  <2>1. SUFFICES ASSUME Clean' PROVE OnSchedule'
    BY DEF OnSchedule
  <2>2. Clean /\ OnSchedule /\ VoyageInv
    BY <1>1, <2>1 DEF Clean, VoyageClock
  <2>3. Held \subseteq {active} /\ late = {} /\ lapsed = {}
    BY <2>2 DEF OnSchedule
  <2>4. \A l \in Loads : l # active => word[l] = "none"
    BY <2>3 DEF Held
  <2>5. \A l \in Loads : ~Reverts(l) /\ ~Settles(l)
    <3>1. SUFFICES ASSUME NEW l \in Loads PROVE ~Reverts(l) /\ ~Settles(l)
      OBVIOUS
    <3>2. CASE l # active
      BY <2>4, <3>2 DEF Reverts, Settles
    <3>3. CASE l = active
      <4>1. active # None
        BY <3>3, VoyageFigures
      <4>2. QED
        BY <2>2, <3>3, <4>1, NothingIsLost
    <3>4. QED
      BY <3>2, <3>3
  <2>6. Gone = {} /\ late' = {} /\ lapsed' = {}
    <3>1. Gone = {}
      BY <2>5 DEF Gone
    <3>2. late' = late \cup {l \in Loads : Settles(l)} /\ lapsed' = lapsed \cup {l \in Loads : Reverts(l)}
      BY Tick
    <3>3. QED
      BY <2>3, <2>5, <3>1, <3>2
  <2>7. active' = active /\ Held' = Held
    <3>1. active' = active
      BY <2>6, Tick DEF Succeeds
    <3>2. \A l \in Loads : word'[l] = "none" <=> word[l] = "none"
      BY <2>2, <2>6, WordAfter
    <3>3. QED
      BY <3>1, <3>2 DEF Held
  <2>8. CASE active = None
    BY <1>1, <2>3, <2>6, <2>7, <2>8 DEF OnSchedule, Waiting, Laden, Answered
  <2>9. CASE active # None
    <3>1. tanker' = None
      <4>1. tanker = None
        BY <2>2, <2>9 DEF OnSchedule
      <4>2. QED
        BY <4>1 DEF Elapse
    <3>2. /\ Way(Origin[active]) \in Nat /\ Way(Dest[active]) \in Nat /\ Haul(active) \in Nat \ {0}
          /\ fly \in Nat /\ window[active] \in Nat /\ left[active] \in Nat /\ crane[active] \in Nat
          /\ active \in Loads /\ at \in Stations /\ Origin[active] # Dest[active]
          /\ Dest[active] \in Stations
      BY <2>2, <2>9, ClockFigures
    <3>3. /\ Way(Origin[active])' = Way(Origin[active]) /\ Way(Dest[active])' = Way(Dest[active])
          /\ Haul(active)' = Haul(active)
      BY <1>1, <2>7 DEF Way, Haul
    <3>4. /\ left'[active] = IF word'[active] \in {"booked", "picked"} THEN left[active] - 1 ELSE 0
          /\ window'[active] = IF word'[active] = "booked" THEN window[active] - 1 ELSE 0
          /\ crane'[active] = IF word'[active] # "booked" THEN 0
                              ELSE IF AtCrane(active) THEN crane[active] - 1 ELSE crane[active]
      BY <3>2, Tick
    <3>5. /\ word'[active] = "booked" => word[active] = "booked" /\ ~Loaded(active)
          /\ word'[active] = "picked" => ~Lands(active) /\ (word[active] = "picked" \/ Loaded(active))
      BY <2>2, <3>2, WordAfter
    <3>6. Waiting' => ToPickup' <= window'[active] /\ ToPickup' + Haul(active) <= left'[active]
      <4>1. SUFFICES ASSUME Waiting' PROVE ToPickup' <= window'[active] /\ ToPickup' + Haul(active) <= left'[active]
        OBVIOUS
      <4>2. word'[active] = "booked" /\ word[active] = "booked"
        BY <2>7, <3>5, <4>1 DEF Waiting
      <4>3. /\ fly + Way(Origin[active]) + crane[active] <= window[active]
            /\ fly + Way(Origin[active]) + crane[active] + Haul(active) <= left[active]
            /\ Docked /\ at # Origin[active] =>
                  /\ fly + Way(Origin[active]) + crane[active] < window[active]
                  /\ fly + Way(Origin[active]) + crane[active] + Haul(active) < left[active]
        BY <1>1, <2>2, <2>9, <4>2 DEF OnSchedule, Waiting, ToPickup
      <4>4. ToPickup' = fly' + Way(Origin[active]) + crane'[active]
        BY <2>7, <3>3 DEF ToPickup
      <4>5. left'[active] = left[active] - 1 /\ window'[active] = window[active] - 1
        BY <3>4, <4>2
      <4>6. CASE ~Docked
        <5>1. fly' = fly - 1 /\ crane'[active] = crane[active] /\ fly # 0
          BY <1>2, <3>4, <4>2, <4>6 DEF AtCrane, Docked
        <5>2. QED
          BY <3>2, <4>3, <4>4, <4>5, <5>1
      <4>7. CASE Docked /\ at = Origin[active]
        <5>1. fly' = 0 /\ fly = 0 /\ crane'[active] = crane[active] - 1
          BY <1>2, <3>4, <4>2, <4>7 DEF AtCrane, Docked
        <5>2. QED
          BY <3>2, <4>3, <4>4, <4>5, <5>1
      <4>8. CASE Docked /\ at # Origin[active]
        <5>1. fly' = 0 /\ fly = 0 /\ crane'[active] = crane[active]
          BY <1>2, <3>4, <4>2, <4>8 DEF AtCrane, Docked
        <5>2. QED
          BY <3>2, <4>3, <4>4, <4>5, <4>8, <5>1
      <4>9. QED
        BY <4>6, <4>7, <4>8
    <3>7. Laden' => fly' + Way(Dest[active]) <= left'[active] + 1 /\ (Docked' \/ at' = Dest[active])
      <4>1. SUFFICES ASSUME Laden'
                     PROVE  fly' + Way(Dest[active]) <= left'[active] + 1 /\ (Docked' \/ at' = Dest[active])
        OBVIOUS
      <4>2. word'[active] = "picked" /\ ~Lands(active) /\ left'[active] = left[active] - 1
        BY <2>7, <3>4, <3>5, <4>1 DEF Laden
      <4>3. CASE word[active] = "picked"
        <5>1. fly + Way(Dest[active]) <= left[active] + 1 /\ at = Dest[active]
          BY <1>1, <2>2, <2>9, <4>3 DEF OnSchedule, Laden
        <5>2. fly' # 0 /\ fly' = fly - 1
          BY <1>2, <4>2, <4>3, <5>1 DEF Lands
        <5>3. QED
          BY <1>1, <3>2, <4>2, <5>1, <5>2
      <4>4. CASE Loaded(active)
        <5>1. word[active] = "booked" /\ fly = 0 /\ fly' = 0 /\ at = Origin[active] /\ crane[active] = 1
          BY <1>2, <4>4 DEF Loaded, AtCrane, Docked
        <5>2. fly + Way(Origin[active]) + crane[active] + Haul(active) <= left[active]
          BY <2>2, <2>9, <5>1 DEF OnSchedule, Waiting, ToPickup
        <5>3. Way(Dest[active]) = Haul(active) - 1
          <6>1. Ticks[<<at, Dest[active]>>] \in Nat
            BY <3>2, Quotes
          <6>2. QED
            BY <3>2, <5>1, <6>1, VoyageFigures DEF Way, Haul
        <5>4. QED
          BY <3>2, <4>2, <5>1, <5>2, <5>3 DEF Docked
      <4>5. QED
        BY <3>5, <4>2, <4>3, <4>4
    <3>8. act' # Answered
      BY <1>1, VoyageFigures DEF Answered
    <3>9. QED
      BY <1>1, <2>3, <2>6, <2>7, <2>9, <3>1, <3>3, <3>6, <3>7, <3>8 DEF OnSchedule
  <2>10. QED
    BY <2>8, <2>9
<1>4. Rescue'
  <2>1. ASSUME tanker' # None PROVE Docked' \/ Below(5)'
    <3>1. tanker # None /\ ~(tanker = 0 /\ Docked) /\ tank' = tank
      BY <2>1 DEF Elapse
    <3>2. Docked \/ Below(5)
      BY <3>1 DEF VoyageClock, Rescue
    <3>3. (Docked => Docked') /\ (Below(5) => Below(5)')
      BY <1>2, <3>1 DEF Docked, Below
    <3>4. QED
      BY <3>2, <3>3
  <2>2. QED
    BY <1>1, <2>1 DEF Rescue
<1>5. QED
  BY <1>1, <1>3, <1>4 DEF Steered

LEMMA ClockStep ==
    ASSUME VoyageClock, Goods = {0}, "paws" \notin Denied, [VoyageNext]_voyageVars
    PROVE  VoyageClock'
<1>1. VoyageInv /\ VoyageInv' /\ goods = 0
  BY VoyageStep DEF VoyageClock, VoyageInv, Hull
<1>2. CASE UNCHANGED voyageVars
  <2>1. UNCHANGED <<hull, bay, active, act, history>>
    BY <1>2 DEF voyageVars
  <2>2. /\ UNCHANGED <<at, fly, tank, tanker, word, left, window, crane, active, act>>
        /\ UNCHANGED <<late, lapsed, gambled, silent, dry>>
    BY <2>1 DEF hull, bay, history
  <2>3. /\ (Clean' <=> Clean) /\ (Docked' <=> Docked) /\ (Below(5)' <=> Below(5))
        /\ (Waiting' <=> Waiting) /\ (Laden' <=> Laden) /\ Held' = Held
    BY <2>2 DEF Clean, Docked, Below, Waiting, Laden, Held
  <2>4. /\ ToPickup' = ToPickup /\ Haul(active)' = Haul(active) /\ Way(Dest[active])' = Way(Dest[active])
        /\ Haul(act.load)' = Haul(act.load)
    BY <2>2 DEF ToPickup, Haul, Way
  <2>5. OnSchedule'
    BY <2>2, <2>3, <2>4 DEF VoyageClock, OnSchedule, Answered
  <2>6. Steered'
    BY <2>2, <2>3, <2>4 DEF VoyageClock, Steered, Answered
  <2>7. Rescue'
    BY <2>2, <2>3 DEF VoyageClock, Rescue
  <2>8. QED
    BY <1>1, <2>5, <2>6, <2>7 DEF VoyageClock
<1>3. CASE VoyageNext
  <2>1. OnSchedule' /\ Steered' /\ Rescue'
    BY <1>1, <1>3, DecideTimes, RestsTimes, RefuelsTimes, SendsTankerTimes, DepartsTimes,
       DeclinesTimes, BooksTimes, CollectsTimes, ElapseTimes DEF VoyageNext
  <2>2. QED
    BY <1>1, <2>1 DEF VoyageClock
<1>4. QED
  BY <1>2, <1>3

\* What the clocks come to, whatever the bay.
LEMMA ClockHolds == VoyageSpec /\ Goods = {0} /\ "paws" \notin Denied => []VoyageClock
<1> SUFFICES ASSUME Goods = {0}, "paws" \notin Denied PROVE VoyageSpec => []VoyageClock
  OBVIOUS
<1>1. VoyageInit => VoyageClock
  BY VoyageInitInv, ClockInit DEF VoyageClock
<1>2. VoyageClock /\ [VoyageNext]_voyageVars => VoyageClock'
  BY ClockStep
<1>3. QED
  BY <1>1, <1>2, PTL DEF VoyageSpec

\* While the router answers and no course is declined for fuel, a load that is carried alone, on
\* what the tank held when it was booked, is picked up inside its window and delivered before its
\* deadline.
AloneInTime == ~(silent \/ dry \/ gambled) => late = {} /\ lapsed = {}

\* With nothing of the merchant's aboard, and papers that let a tanker be called, what is booked
\* alone arrives in time: the tick a fold takes and the drive's delay are paid for by what the
\* booking judged (doctrine.rs:870, :1394).
THEOREM AloneArrives == VoyageSpec /\ Goods = {0} /\ "paws" \notin Denied => []AloneInTime
<1>1. VoyageClock => AloneInTime
  BY DEF VoyageClock, OnSchedule, Clean, AloneInTime
<1>2. QED
  BY <1>1, ClockHolds, PTL

\* In a world that holds one contract a hull, which the pilot learns of from a refusal
\* (main.rs:1582), every load arrives in time.
THEOREM OneAtATimeArrives ==
    VoyageSpec /\ Goods = {0} /\ "paws" \notin Denied /\ Bay = 1 => []InTime
<1> SUFFICES ASSUME Bay = 1 PROVE VoyageSpec /\ Goods = {0} /\ "paws" \notin Denied => []InTime
  OBVIOUS
<1>1. VoyageClock => InTime
  BY DEF VoyageClock, OnSchedule, Clean, InTime
<1>2. QED
  BY <1>1, ClockHolds, PTL

=============================================================================
