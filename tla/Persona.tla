-------------------------------- MODULE Persona --------------------------------
(***************************************************************************)
(* The naming of a captain's computer (persona.rs name, fleet.rs           *)
(* migrate_computer): two files, the persona and the trail of its names,   *)
(* changed as one by commands that may fail at any step, be killed, or     *)
(* lose power.  A computer written before captains had stores of their own *)
(* lives beside a ship and is brought into the captain's store first.      *)
(* It implements Naming.  One failing call per naming: that the restoring  *)
(* of the prior pair fails as well is not modelled.  The file system is a  *)
(* journaling one: a sync makes every earlier rename durable.              *)
(***************************************************************************)
EXTENDS Integers, Sequences, FiniteSets, SequencesExt

CONSTANTS Writers,      \* commands that name or join a computer
          Names,
          Root,         \* the name a computer has before it is given one
          Absent,       \* no persona file, no holder of a lock
          MaxNamings,   \* bound on the commands given
          MaxFaults     \* bound on failing calls, kills and power losses

ASSUME PersonaAssumption ==
    /\ Root \in Names /\ Absent \notin Names \cup Writers
    /\ MaxNamings \in Nat /\ MaxFaults \in Nat

Stores == {"ship", "own"}

Join == "join"      \* a pairing that gives no name

VARIABLES persona,   \* persona.json of a store: the name in it, or Absent
          trail,     \* persona-names.jsonl of a store
          synced,    \* the persona whose directory entry is known to be durable
          lock,      \* persona.lock of a store: its holder, or Absent
          pc,        \* how far a command is
          want,      \* the name it was given, or Join
          loaded,    \* the name it will write
          prior,     \* the pair as the command found it under the lock
          namings, faults

vars == <<persona, trail, synced, lock, pc, want, loaded, prior, namings, faults>>

TypeOK ==
    /\ persona \in [Stores -> Names \cup {Absent}] /\ synced \in [Stores -> Names \cup {Absent}]
    /\ trail \in [Stores -> Seq(Names)]
    /\ lock \in [Stores -> Writers \cup {Absent}]
    /\ pc \in [Writers -> {"idle", "origin", "migrate", "copying", "copied", "load", "loaded",
                           "locked", "appended", "placed"}]
    /\ want \in [Writers -> Names \cup {Join}] /\ loaded \in [Writers -> Names]
    /\ prior \in [Writers -> [name : Names \cup {Absent}, length : Nat]]
    /\ namings \in 0..MaxNamings /\ faults \in 0..MaxFaults

\* No computer yet, or one from before the captain's store.
Init ==
    /\ \E old \in {Absent} \cup Names :
          /\ persona = [d \in Stores |-> IF d = "ship" THEN old ELSE Absent]
          /\ trail = [d \in Stores |-> IF d = "ship" /\ old # Absent THEN <<old>> ELSE << >>]
    /\ synced = persona
    /\ lock = [d \in Stores |-> Absent]
    /\ pc = [w \in Writers |-> "idle"]
    /\ want = [w \in Writers |-> Join] /\ loaded = [w \in Writers |-> Root]
    /\ prior = [w \in Writers |-> [name |-> Absent, length |-> 0]]
    /\ namings = 0 /\ faults = 0

At(w, here, there) == pc[w] = here /\ pc' = [pc EXCEPT ![w] = there]

Fault == faults < MaxFaults /\ faults' = faults + 1

Unlocked(w) == [d \in Stores |-> IF lock[d] = w THEN Absent ELSE lock[d]]

-----------------------------------------------------------------------------
(* Bringing a ship's computer into the captain's store.                     *)

\* fleet pair and fleet rename, up to the computer.
Begins(w) ==
    /\ At(w, "idle", "origin") /\ namings < MaxNamings /\ namings' = namings + 1
    /\ \E n \in Names \cup {Join} : want' = [want EXCEPT ![w] = n]
    /\ UNCHANGED <<persona, trail, synced, lock, loaded, prior, faults>>

\* computer_origin: looked up before any lock is held.
FindsOrigin(w) ==
    /\ At(w, "origin", IF persona["own"] = Absent /\ persona["ship"] # Absent
                       THEN "migrate" ELSE "load")
    /\ UNCHANGED <<persona, trail, synced, lock, want, loaded, prior, namings, faults>>

\* Both locks, the source's first.
LocksSource(w) ==
    /\ pc[w] = "migrate" /\ lock["ship"] = Absent
    /\ lock' = [lock EXCEPT !["ship"] = w]
    /\ UNCHANGED <<persona, trail, synced, pc, want, loaded, prior, namings, faults>>

\* The trail is copied first; a store that has a persona by now is left alone.
CopiesTrail(w) ==
    /\ pc[w] = "migrate" /\ lock["ship"] = w /\ lock["own"] = Absent
    /\ IF persona["own"] # Absent
       THEN /\ pc' = [pc EXCEPT ![w] = "load"] /\ lock' = Unlocked(w)
            /\ UNCHANGED trail
       ELSE /\ pc' = [pc EXCEPT ![w] = "copying"]
            /\ lock' = [lock EXCEPT !["own"] = w]
            /\ trail' = [trail EXCEPT !["own"] = trail["ship"]]
    /\ UNCHANGED <<persona, synced, want, loaded, prior, namings, faults>>

CopiesPersona(w) ==
    /\ At(w, "copying", "copied")
    /\ persona' = [persona EXCEPT !["own"] = persona["ship"]]
    /\ UNCHANGED <<trail, synced, lock, want, loaded, prior, namings, faults>>

Migrated(w) ==
    /\ At(w, "copied", "load")
    /\ synced' = [synced EXCEPT !["own"] = persona["own"]] /\ lock' = Unlocked(w)
    /\ UNCHANGED <<persona, trail, want, loaded, prior, namings, faults>>

\* A copy that fails takes both files away again; a directory that will not sync leaves them.
MigrationFails(w) ==
    /\ pc[w] \in {"copying", "copied"} /\ Fault
    /\ IF pc[w] = "copying"
       THEN trail' = [trail EXCEPT !["own"] = << >>] /\ persona' = [persona EXCEPT !["own"] = Absent]
       ELSE UNCHANGED <<trail, persona>>
    /\ pc' = [pc EXCEPT ![w] = "idle"] /\ lock' = Unlocked(w)
    /\ UNCHANGED <<synced, want, loaded, prior, namings>>

-----------------------------------------------------------------------------
(* The naming itself.                                                       *)

\* A mutation: a pairing that gives no name is taken at its word.
LoadsWhatWasGiven(w) ==
    /\ At(w, "load", "loaded")
    /\ loaded' = [loaded EXCEPT ![w] = want[w]]
    /\ UNCHANGED <<persona, trail, synced, lock, want, prior, namings, faults>>

\* The command reads the computer it will rename or join, under no lock.
LoadsPersona(w) ==
    /\ At(w, "load", "loaded")
    /\ loaded' = [loaded EXCEPT ![w] =
                     IF want[w] # Join THEN want[w]
                     ELSE IF persona["own"] # Absent THEN persona["own"] ELSE Root]
    /\ UNCHANGED <<persona, trail, synced, lock, want, prior, namings, faults>>

\* A mutation: the lock is not waited for.
LocksAnyway(w) ==
    /\ At(w, "loaded", "locked")
    /\ lock' = [lock EXCEPT !["own"] = w]
    /\ prior' = [prior EXCEPT ![w] = [name |-> persona["own"], length |-> Len(trail["own"])]]
    /\ UNCHANGED <<persona, trail, synced, want, loaded, namings, faults>>

\* 1. The prior pair, under the lock.  2. The new persona goes to a temp file of its own.
Locks(w) ==
    /\ At(w, "loaded", "locked") /\ lock["own"] = Absent
    /\ lock' = [lock EXCEPT !["own"] = w]
    /\ prior' = [prior EXCEPT ![w] = [name |-> persona["own"], length |-> Len(trail["own"])]]
    /\ UNCHANGED <<persona, trail, synced, want, loaded, namings, faults>>

\* 3. The naming, appended and synced; what was renamed before a sync is durable after it.
AppendsNaming(w) ==
    /\ At(w, "locked", "appended")
    /\ trail' = [trail EXCEPT !["own"] = Append(@, loaded[w])]
    /\ synced' = [synced EXCEPT !["own"] = persona["own"]]
    /\ UNCHANGED <<persona, lock, want, loaded, prior, namings, faults>>

\* 4. The temp file is renamed into place.
Places(w) ==
    /\ At(w, "appended", "placed")
    /\ persona' = [persona EXCEPT !["own"] = loaded[w]]
    /\ UNCHANGED <<trail, synced, lock, want, loaded, prior, namings, faults>>

\* 5. The directory is synced, and the naming is done.
Named(w) ==
    /\ At(w, "placed", "idle")
    /\ synced' = [synced EXCEPT !["own"] = persona["own"]] /\ lock' = Unlocked(w)
    /\ UNCHANGED <<persona, trail, want, loaded, prior, namings, faults>>

\* 2 to 5 fail: the prior pair is put back and the failure reported.
NamingFails(w) ==
    /\ pc[w] \in {"locked", "appended", "placed"} /\ Fault
    /\ trail' = [trail EXCEPT !["own"] = SubSeq(@, 1, prior[w].length)]
    /\ persona' = [persona EXCEPT !["own"] = prior[w].name]
    /\ pc' = [pc EXCEPT ![w] = "idle"] /\ lock' = Unlocked(w)
    /\ UNCHANGED <<synced, want, loaded, prior, namings>>

-----------------------------------------------------------------------------
(* Interruptions.  The system lets a dead holder's lock go.                 *)

Killed(w) ==
    /\ pc[w] # "idle" /\ Fault
    /\ pc' = [pc EXCEPT ![w] = "idle"] /\ lock' = Unlocked(w)
    /\ UNCHANGED <<persona, trail, synced, want, loaded, prior, namings>>

\* A rename whose directory was not synced may be undone.
PowerLoss ==
    /\ Fault
    /\ pc' = [w \in Writers |-> "idle"] /\ lock' = [d \in Stores |-> Absent]
    /\ persona' \in {persona, synced} /\ synced' = persona'
    /\ UNCHANGED <<trail, want, loaded, prior, namings>>

Migrates(w) ==
    \/ FindsOrigin(w) \/ LocksSource(w) \/ CopiesTrail(w)
    \/ CopiesPersona(w) \/ Migrated(w) \/ MigrationFails(w)

Naming(w) ==
    LoadsPersona(w) \/ Locks(w) \/ AppendsNaming(w) \/ Places(w) \/ Named(w) \/ NamingFails(w)

\* Every command given has ended.
Done ==
    namings = MaxNamings /\ (\A w \in Writers : pc[w] = "idle") /\ UNCHANGED vars

Next == PowerLoss \/ Done \/ \E w \in Writers : Begins(w) \/ Migrates(w) \/ Naming(w) \/ Killed(w)

Spec == Init /\ [][Next]_vars

-----------------------------------------------------------------------------
(* Properties.                                                              *)

\* The computer a hull answers as: the captain's, else the ship's own (persona_for).
Home == IF persona["own"] # Absent \/ persona["ship"] = Absent THEN "own" ELSE "ship"

Answers(d) == IF persona[d] = Absent THEN Root ELSE persona[d]

\* Seen from outside a naming under way has not happened yet: a failure may still undo it.
Undone(w) == pc[w] \in {"appended", "placed"}

Writing == CHOOSE w \in Writers : Undone(w)

Worn ==
    IF \E w \in Writers : Undone(w)
    THEN IF prior[Writing].name = Absent THEN Root ELSE prior[Writing].name
    ELSE Answers(Home)

History ==
    IF \E w \in Writers : Undone(w) THEN SubSeq(trail["own"], 1, prior[Writing].length)
    ELSE trail[Home]

Record == INSTANCE Naming WITH worn <- Worn, history <- History

\* The two files, changed by commands that fail and die, implement a record in which a
\* naming is one act and no name is forgotten.
ImplementsNaming == Record!Spec
=============================================================================
