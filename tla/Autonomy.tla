------------------------------ MODULE Autonomy ------------------------------
(***************************************************************************)
(* The autonomy dial, pure (crates/pilot/src/autonomy.rs): the level a     *)
(* control surface resolves to, and the gate that turns a level, the       *)
(* proposals on file and the captain's answers into the fate of one act.   *)
(*                                                                         *)
(* An intent stands for one (surface, body) pair: proposal_id hashes       *)
(* exactly these two, so the intent itself serves as the proposal's id.    *)
(***************************************************************************)
EXTENDS Integers, Sequences, FiniteSetsExt

CONSTANTS Surfaces,       \* control surfaces, family.category
          Families,       \* the families the dial also takes as keys
          AdviseFloor,    \* surfaces that default to advise: rescue, margin
          FamilyOf,       \* [Surfaces -> Families]
          Intents,        \* the (surface, body) pairs the doctrine may decide on
          SurfaceOf,      \* [Intents -> Surfaces]
          ProposalTTL     \* PROPOSAL_TTL_TICKS, 4 in the code

ASSUME AutonomyAssumption ==
    /\ AdviseFloor \subseteq Surfaces
    /\ FamilyOf \in [Surfaces -> Families]
    /\ SurfaceOf \in [Intents -> Surfaces]
    /\ ProposalTTL \in Nat

Levels == {"advise", "confirm", "auto"}

\* The keys of autonomy.json: a category, a family, or the star.
Keys == Surfaces \cup Families \cup {"*"}

\* The dial as the store holds it; "unset" marks a key the map does not hold.
Dials == [Keys -> Levels \cup {"unset"}]

DefaultDial == [k \in Keys |-> "unset"]

SetKey(dial, key, level) == [dial EXCEPT ![key] = level]

-----------------------------------------------------------------------------
(* autonomy.json on disk: whole, emptied by an opener that has not written  *)
(* yet, or left unparsable by two overlapping writers.                      *)

DialFiles == [form : {"whole", "empty", "garbled"}, says : Dials]

WholeFile(dial) == [form |-> "whole", says |-> dial]
EmptyFile == [form |-> "empty", says |-> DefaultDial]
GarbledFile == [form |-> "garbled", says |-> DefaultDial]

\* Unreadable or absent text is the default dial.
ParseDial(file) == IF file.form = "whole" THEN file.says ELSE DefaultDial

-----------------------------------------------------------------------------
(* The level of a surface: the most specific setting wins.                  *)

Floor(s) == IF s \in AdviseFloor THEN "advise" ELSE "auto"

\* A mutation of LevelOf: the family is consulted without the star behind it.
LevelOfNoStar(dial, s) == IF dial[s] # "unset" THEN dial[s] ELSE dial[FamilyOf[s]]

LevelOf(dial, s) ==
    LET spoken == {k \in {s, FamilyOf[s], "*"} : dial[k] # "unset"}
    IN  IF spoken = {} THEN Floor(s)
        ELSE IF s \in spoken THEN dial[s]
        ELSE IF FamilyOf[s] \in spoken THEN dial[FamilyOf[s]]
        ELSE dial["*"]

AutoSurfaces(dial) == {s \in Surfaces : LevelOf(dial, s) = "auto"}

-----------------------------------------------------------------------------
(* Proposals and answers are append-only logs; the newest entry of an id    *)
(* is the one that counts.                                                  *)

Proposals == [id : Intents, tick : Nat, expires : Int]
Approvals == [id : Intents, approved : BOOLEAN]

EntriesOf(log, i) == {k \in DOMAIN log : log[k].id = i}
OnFile(log, i) == EntriesOf(log, i) # {}

\* A mutation of Newest: the log is searched from its oldest line.
OldestFirst(log, i) == log[Min(EntriesOf(log, i))]

Newest(log, i) == log[Max(EntriesOf(log, i))]

NewProposal(i, tick) == [id |-> i, tick |-> tick, expires |-> tick + ProposalTTL]

\* What the gate says of acting on intent i at this tick.
Verdicts == {"act", "advise", "propose", "proposed", "lapsed"}

\* A mutation of Gate: a proposal that ran out is put to the captain again.
GateReproposes(dial, i, tick, proposals, approvals) ==
    LET level == LevelOf(dial, SurfaceOf[i])
    IN  CASE level = "auto"   -> "act"
          [] level = "advise" -> "advise"
          [] OTHER ->
                IF OnFile(approvals, i)
                  THEN IF Newest(approvals, i).approved THEN "act" ELSE "lapsed"
                ELSE IF OnFile(proposals, i) /\ tick <= Newest(proposals, i).expires
                  THEN "proposed"
                ELSE "propose"

\* "propose" is the gate's Proposed with a new proposal to append.
Gate(dial, i, tick, proposals, approvals) ==
    LET level == LevelOf(dial, SurfaceOf[i])
    IN  CASE level = "auto"   -> "act"
          [] level = "advise" -> "advise"
          [] OTHER ->
                IF OnFile(approvals, i)
                  THEN IF Newest(approvals, i).approved THEN "act" ELSE "lapsed"
                ELSE IF OnFile(proposals, i)
                  THEN IF tick <= Newest(proposals, i).expires
                         THEN "proposed" ELSE "lapsed"
                ELSE "propose"
=============================================================================
