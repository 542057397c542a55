---------------------------- MODULE Pairing_proofs ----------------------------
(***************************************************************************)
(* For any captains, keys, worlds, names and front ends, however commands  *)
(* overlap and wherever they are cut short.                                *)
(***************************************************************************)
EXTENDS Pairing, FiniteSetTheorems, TLAPS

-----------------------------------------------------------------------------
(* The inductive invariant: the commands under way.                         *)

Commanding ==
    [op : {"none", "pair", "rename", "adopt", "unpair", "label", "hull"}, at : Phases,
     world : Worlds \cup {None}, key : Keys \cup {None}, captain : Captains \cup {None},
     id : Ids \cup {None}, given : Names \cup {None}, hull : HullNames \cup {None},
     found : SUBSET Ids, clash : BOOLEAN, copy : [Worlds -> Lifecycles]]

\* The command has settled who its captain is.
Identified(p) == p.op \in {"pair", "rename", "adopt"} /\ p.at \notin {"idle", "identity"}

\* A world of its own has been chosen for the ship that is being paired.
Boards(p) == p.op = "pair" /\ p.at \in {"save", "board", "record"}

\* Where in its command a front end may be, and what it holds there.
InOrder(p) ==
    /\ p.at = "idle" => p = Ready
    /\ p.at \in {"identity", "settle"} => p.op \in {"pair", "rename", "adopt"}
    /\ p.at \in {"free", "name", "note"} => p.op \in {"pair", "rename"}
    /\ p.at \in {"commission", "board", "record"} => p.op = "pair"
    /\ p.at = "save" => p.op \in {"pair", "unpair", "label"}
    /\ p.at = "end" => p.op = "unpair" /\ p.world \in Worlds
    /\ p.at = "put" => p.op = "hull"
    /\ p.at = "free" => p.given # None
    /\ p.op \in {"pair", "rename", "hull"} =>
          p.key \in Keys /\ p.hull \in HullNames /\ p.captain \in Captains
    /\ p.op = "adopt" => p.captain \in Captains
    /\ Identified(p) => p.id \in Ids
    /\ Boards(p) => p.world \in Worlds
    /\ p.op \in {"rename", "hull"} => p.world \in Worlds

CommandsOK == front \in [Fronts -> Commanding] /\ \A f \in Fronts : InOrder(front[f])

LEMMA ReadyOK == Ready \in Commanding /\ InOrder(Ready) /\ Ready.at = "idle" /\ Ready.op = "none"
BY DEF Ready, Commanding, InOrder, Phases, Lifecycles, Identified, Boards

\* A front end goes on to a command that is in order; the others stay where they are.
LEMMA GoesRight ==
    ASSUME CommandsOK, NEW f \in Fronts, NEW new \in Commanding, InOrder(new), Goes(f, new)
    PROVE  /\ CommandsOK'
           /\ front'[f] = new
           /\ \A g \in Fronts : g # f => front'[g] = front[g]
BY DEF CommandsOK, Goes

\* What TypeOK says of a command is less than Commanding does.
LEMMA CommandTyped ==
    ASSUME NEW p \in Commanding
    PROVE  /\ DOMAIN p = DOMAIN Ready
           /\ p.at \in Phases /\ p.id \in Ids \cup {None}
           /\ p.given \in Names \cup {None} /\ p.found \subseteq Ids
           /\ p.copy \in [Worlds -> Lifecycles]
BY DEF Commanding, Ready

-----------------------------------------------------------------------------
(* Types.                                                                   *)

\* What the files and the exchange may hold.
FilesTyped ==
    /\ register \in [Worlds -> Lifecycles]
    /\ record \in [Worlds -> Records \cup {None}]
    /\ keyed \subseteq Worlds
    /\ computer \in [Stores -> Names \cup {None}]
    /\ ledger \subseteq Entries
    /\ hullName \in [Keys -> HullNames]
    /\ filed \in [Captains -> [worn : Names \cup {None}, ever : SUBSET Names]]
    /\ revoked \subseteq Worlds /\ overlapped \in BOOLEAN /\ commands \in 0..MaxCommands

LEMMA TypesTell ==
    ASSUME FilesTyped, CommandsOK
    PROVE  TypeOK
<1>1. \A f \in Fronts : front[f] \in Commanding
  BY DEF CommandsOK
<1>2. QED
  BY <1>1, CommandTyped DEF TypeOK, FilesTyped

\* A ship that is paired has a record.
LEMMA PairedHasRecord ==
    ASSUME FilesTyped, NEW w \in PairedShips
    PROVE  w \in Worlds /\ record[w] \in Records /\ record[w] # None
BY DEF PairedShips, Paired, FilesTyped

LEMMA IdsTyped ==
    ASSUME FilesTyped, NEW S \in SUBSET Worlds, \A w \in S : record[w] # None
    PROVE  IdsAmong(S) \subseteq Ids
<1>1. \A w \in S : record[w].id \in Ids \cup {None}
  BY DEF FilesTyped, Records
<1>2. QED
  BY <1>1 DEF IdsAmong

LEMMA SiblingsAreShips ==
    ASSUME FilesTyped, NEW c
    PROVE  Siblings(c) \subseteq Worlds /\ \A w \in Siblings(c) : record[w] # None
BY DEF Siblings, PairedShips, Paired, Retired

LEMMA StoresTyped ==
    ASSUME NEW r \in Records
    PROVE  StoreOf(r) \in Stores
BY PairingAssumption DEF StoreOf, Records, Stores, Slugs

\* A command that begins is one more.
LEMMA BeginsRight ==
    ASSUME FilesTyped, CommandsOK, NEW f \in Fronts, NEW new \in Commanding, InOrder(new), Begins(f, new)
    PROVE  /\ CommandsOK' /\ commands' \in 0..MaxCommands /\ overlapped' \in BOOLEAN
<1>1. Goes(f, new) /\ commands < MaxCommands /\ commands' = commands + 1
  BY DEF Begins
<1>2. commands' \in 0..MaxCommands
  BY <1>1, PairingAssumption DEF FilesTyped
<1>3. overlapped' \in BOOLEAN
  BY DEF Begins, FilesTyped
<1>4. QED
  BY <1>1, <1>2, <1>3, GoesRight

LEMMA FilesKept ==
    ASSUME FilesTyped, UNCHANGED <<register, record, keyed, computer, ledger, hullName, filed>>,
           revoked' \subseteq Worlds, commands' \in 0..MaxCommands, overlapped' \in BOOLEAN
    PROVE  FilesTyped'
BY DEF FilesTyped

\* What a hull brings to a command.
LEMMA HullTold ==
    ASSUME FilesTyped, NEW w \in PairedShips
    PROVE  /\ w \in Worlds /\ record[w].key \in Keys /\ record[w].captain \in Captains
           /\ record[w].id \in Ids \cup {None} /\ record[w].hull \in HullNames
BY PairedHasRecord DEF Records

\* Each command, as it begins, is in order.
LEMMA BeginsInOrder ==
    ASSUME FilesTyped, NEW f \in Fronts
    PROVE  /\ \A k \in Keys, given \in Names \cup {None}, known \in Ids \cup {None},
                 found \in SUBSET Ids, clash \in BOOLEAN :
                 LET new == [Ready EXCEPT !.op = "pair", !.at = "identity", !.key = k,
                                 !.captain = CaptainOf[k], !.id = known, !.given = given,
                                 !.hull = hullName[k], !.found = found, !.clash = clash]
                 IN  new \in Commanding /\ InOrder(new)
           /\ \A w \in PairedShips, given \in Names, found \in SUBSET Ids, clash \in BOOLEAN :
                 LET new == [Ready EXCEPT !.op = "rename", !.at = "identity", !.world = w,
                                 !.key = record[w].key, !.captain = record[w].captain,
                                 !.id = record[w].id, !.given = given, !.hull = record[w].hull,
                                 !.clash = clash, !.found = found]
                 IN  new \in Commanding /\ InOrder(new)
           /\ \A w \in PairedShips, found \in SUBSET Ids, clash \in BOOLEAN :
                 LET new == [Ready EXCEPT !.op = "adopt", !.at = "identity",
                                 !.captain = record[w].captain, !.clash = clash, !.found = found]
                 IN  new \in Commanding /\ InOrder(new)
           /\ \A w \in Worlds :
                 LET new == [Ready EXCEPT !.op = "unpair", !.at = "end", !.world = w]
                 IN  new \in Commanding /\ InOrder(new)
           /\ LET new == [Ready EXCEPT !.op = "label", !.at = "save", !.copy = register]
              IN  new \in Commanding /\ InOrder(new)
           /\ \A w \in PairedShips, hull \in HullNames :
                 LET new == [Ready EXCEPT !.op = "hull", !.at = "put", !.world = w,
                                 !.key = record[w].key, !.captain = record[w].captain,
                                 !.id = record[w].id, !.hull = hull]
                 IN  new \in Commanding /\ InOrder(new)
<1>0. /\ Ready \in Commanding /\ Ready.op = "none" /\ Ready.copy \in [Worlds -> Lifecycles]
      /\ register \in [Worlds -> Lifecycles]
  BY ReadyOK DEF FilesTyped, Commanding
<1>1. ASSUME NEW k \in Keys PROVE CaptainOf[k] \in Captains /\ hullName[k] \in HullNames
  BY PairingAssumption DEF FilesTyped
<1>2. \A w \in PairedShips : /\ w \in Worlds /\ record[w].key \in Keys
                             /\ record[w].captain \in Captains
                             /\ record[w].id \in Ids \cup {None} /\ record[w].hull \in HullNames
  BY HullTold
<1>3. ASSUME NEW k \in Keys, NEW given \in Names \cup {None}, NEW known \in Ids \cup {None},
             NEW found \in SUBSET Ids, NEW clash \in BOOLEAN
      PROVE  LET new == [Ready EXCEPT !.op = "pair", !.at = "identity", !.key = k,
                             !.captain = CaptainOf[k], !.id = known, !.given = given,
                             !.hull = hullName[k], !.found = found, !.clash = clash]
             IN  new \in Commanding /\ InOrder(new)
  <2> DEFINE new == [Ready EXCEPT !.op = "pair", !.at = "identity", !.key = k, !.captain = CaptainOf[k], !.id = known, !.given = given, !.hull = hullName[k], !.found = found, !.clash = clash]
  <2>1. new \in Commanding
    BY <1>0, <1>1 DEF Commanding, Phases
  <2>2. /\ new.op = "pair" /\ new.at = "identity" /\ new.key = k /\ new.captain = CaptainOf[k]
        /\ new.hull = hullName[k]
    BY <1>0, <1>1 DEF Commanding
  <2>3. InOrder(new)
    BY <2>2, <1>0, <1>1 DEF InOrder, Identified, Boards
  <2>4. QED
    BY <2>1, <2>3
<1>4. ASSUME NEW w \in PairedShips, NEW given \in Names, NEW found \in SUBSET Ids, NEW clash \in BOOLEAN
      PROVE  LET new == [Ready EXCEPT !.op = "rename", !.at = "identity", !.world = w,
                             !.key = record[w].key, !.captain = record[w].captain,
                             !.id = record[w].id, !.given = given, !.hull = record[w].hull,
                             !.clash = clash, !.found = found]
             IN  new \in Commanding /\ InOrder(new)
  <2> DEFINE new == [Ready EXCEPT !.op = "rename", !.at = "identity", !.world = w,
                         !.key = record[w].key, !.captain = record[w].captain,
                         !.id = record[w].id, !.given = given, !.hull = record[w].hull,
                         !.clash = clash, !.found = found]
  <2>1. new \in Commanding
    BY <1>0, <1>2 DEF Commanding, Phases
  <2>2. /\ new.op = "rename" /\ new.at = "identity" /\ new.key = record[w].key
        /\ new.captain = record[w].captain /\ new.hull = record[w].hull
    BY <1>0, <1>2 DEF Commanding
  <2>3. InOrder(new)
    BY <2>2, <1>0, <1>2 DEF InOrder, Identified, Boards
  <2>4. QED
    BY <2>1, <2>3
<1>5. ASSUME NEW w \in PairedShips, NEW found \in SUBSET Ids, NEW clash \in BOOLEAN
      PROVE  LET new == [Ready EXCEPT !.op = "adopt", !.at = "identity",
                             !.captain = record[w].captain, !.clash = clash, !.found = found]
             IN  new \in Commanding /\ InOrder(new)
  <2> DEFINE new == [Ready EXCEPT !.op = "adopt", !.at = "identity", !.captain = record[w].captain, !.clash = clash, !.found = found]
  <2>1. new \in Commanding
    BY <1>0, <1>2 DEF Commanding, Phases
  <2>2. new.op = "adopt" /\ new.at = "identity" /\ new.captain = record[w].captain
    BY <1>0, <1>2 DEF Commanding
  <2>3. InOrder(new)
    BY <2>2, <1>0, <1>2 DEF InOrder, Identified, Boards
  <2>4. QED
    BY <2>1, <2>3
<1>6. ASSUME NEW w \in Worlds
      PROVE  LET new == [Ready EXCEPT !.op = "unpair", !.at = "end", !.world = w]
             IN  new \in Commanding /\ InOrder(new)
  <2> DEFINE new == [Ready EXCEPT !.op = "unpair", !.at = "end", !.world = w]
  <2>1. new \in Commanding
    BY <1>0 DEF Commanding, Phases
  <2>2. new.op = "unpair" /\ new.at = "end" /\ new.world = w
    BY <1>0 DEF Commanding
  <2>3. InOrder(new)
    BY <2>2 DEF InOrder, Identified, Boards
  <2>4. QED
    BY <2>1, <2>3
<1>7. LET new == [Ready EXCEPT !.op = "label", !.at = "save", !.copy = register]
      IN  new \in Commanding /\ InOrder(new)
  <2> DEFINE new == [Ready EXCEPT !.op = "label", !.at = "save", !.copy = register]
  <2>1. new \in Commanding
    BY <1>0 DEF Commanding, Phases
  <2>2. new.op = "label" /\ new.at = "save"
    BY <1>0 DEF Commanding
  <2>3. InOrder(new)
    BY <2>2, <1>0 DEF InOrder, Identified, Boards
  <2>4. QED
    BY <2>1, <2>3
<1>8. ASSUME NEW w \in PairedShips, NEW hull \in HullNames
      PROVE  LET new == [Ready EXCEPT !.op = "hull", !.at = "put", !.world = w,
                             !.key = record[w].key, !.captain = record[w].captain,
                             !.id = record[w].id, !.hull = hull]
             IN  new \in Commanding /\ InOrder(new)
  BY <1>0, <1>2 DEF Commanding, InOrder, Identified, Boards, Phases
<1>9. QED
  BY <1>3, <1>4, <1>5, <1>6, <1>7, <1>8, Zenon

LEMMA PairsTyped ==
    ASSUME FilesTyped, CommandsOK, NEW f \in Fronts, Pairs(f)
    PROVE  FilesTyped' /\ CommandsOK'
<1>1. PICK k \in Keys, given \in Names \cup {None}, known \in Ids \cup {None} :
         /\ Begins(f, [Ready EXCEPT !.op = "pair", !.at = "identity", !.key = k,
                           !.captain = CaptainOf[k], !.id = known, !.given = given,
                           !.hull = hullName[k], !.found = IdsAmong(Siblings(CaptainOf[k])),
                           !.clash = SlugClash(CaptainOf[k])])
         /\ UNCHANGED <<store, exchange, revoked>>
  BY DEF Pairs
<1>2. IdsAmong(Siblings(CaptainOf[k])) \in SUBSET Ids /\ SlugClash(CaptainOf[k]) \in BOOLEAN
  BY IdsTyped, SiblingsAreShips DEF SlugClash
<1>3. CommandsOK' /\ commands' \in 0..MaxCommands /\ overlapped' \in BOOLEAN
  BY <1>1, <1>2, BeginsInOrder, BeginsRight
<1>4. QED
  BY <1>1, <1>3, FilesKept DEF FilesTyped, store, exchange

\* The captain's hulls that fly.
LEMMA FlownTyped ==
    ASSUME FilesTyped, NEW c
    PROVE  IdsAmong({v \in PairedShips : record[v].captain = c}) \in SUBSET Ids
<1>1. {v \in PairedShips : record[v].captain = c} \in SUBSET Worlds
  BY DEF PairedShips
<1>2. \A v \in {v \in PairedShips : record[v].captain = c} : record[v] # None
  BY PairedHasRecord
<1>3. QED
  BY <1>1, <1>2, IdsTyped

LEMMA RenamesTyped ==
    ASSUME FilesTyped, CommandsOK, NEW f \in Fronts, Renames(f)
    PROVE  FilesTyped' /\ CommandsOK'
<1>1. PICK w \in PairedShips, given \in Names :
         /\ Begins(f, [Ready EXCEPT !.op = "rename", !.at = "identity", !.world = w,
                           !.key = record[w].key, !.captain = record[w].captain,
                           !.id = record[w].id, !.given = given, !.hull = record[w].hull,
                           !.clash = SlugClash(record[w].captain),
                           !.found = IdsAmong({v \in PairedShips : record[v].captain = record[w].captain})])
         /\ UNCHANGED <<store, exchange, revoked>>
  BY DEF Renames
<1>2. /\ IdsAmong({v \in PairedShips : record[v].captain = record[w].captain}) \in SUBSET Ids
      /\ SlugClash(record[w].captain) \in BOOLEAN
  BY FlownTyped DEF SlugClash
<1>3. CommandsOK' /\ commands' \in 0..MaxCommands /\ overlapped' \in BOOLEAN
  BY <1>1, <1>2, BeginsInOrder, BeginsRight
<1>4. QED
  BY <1>1, <1>3, FilesKept DEF FilesTyped, store, exchange

LEMMA AdoptsTyped ==
    ASSUME FilesTyped, CommandsOK, NEW f \in Fronts, AdoptsIds(f)
    PROVE  FilesTyped' /\ CommandsOK'
<1>1. PICK w \in PairedShips :
         /\ Begins(f, [Ready EXCEPT !.op = "adopt", !.at = "identity", !.captain = record[w].captain,
                           !.clash = SlugClash(record[w].captain),
                           !.found = IdsAmong({v \in PairedShips : record[v].captain = record[w].captain})])
         /\ UNCHANGED <<store, exchange, revoked>>
  BY DEF AdoptsIds
<1>2. /\ IdsAmong({v \in PairedShips : record[v].captain = record[w].captain}) \in SUBSET Ids
      /\ SlugClash(record[w].captain) \in BOOLEAN
  BY FlownTyped DEF SlugClash
<1>3. CommandsOK' /\ commands' \in 0..MaxCommands /\ overlapped' \in BOOLEAN
  BY <1>1, <1>2, BeginsInOrder, BeginsRight
<1>4. QED
  BY <1>1, <1>3, FilesKept DEF FilesTyped, store, exchange

LEMMA UnpairsTyped ==
    ASSUME FilesTyped, CommandsOK, NEW f \in Fronts, Unpairs(f)
    PROVE  FilesTyped' /\ CommandsOK'
<1>1. PICK w \in PairedShips :
         /\ Begins(f, [Ready EXCEPT !.op = "unpair", !.at = "end", !.world = w])
         /\ keyed' = keyed \ {w} /\ revoked' = revoked \cup {w}
         /\ UNCHANGED <<register, record, computer, ledger, exchange>>
  BY DEF Unpairs
<1>2. w \in Worlds
  BY HullTold
<1>3. CommandsOK' /\ commands' \in 0..MaxCommands /\ overlapped' \in BOOLEAN
  BY <1>1, <1>2, BeginsInOrder, BeginsRight
<1>4. QED
  BY <1>1, <1>2, <1>3 DEF FilesTyped, exchange

LEMMA RelabelsTyped ==
    ASSUME FilesTyped, CommandsOK, NEW f \in Fronts, Relabels(f)
    PROVE  FilesTyped' /\ CommandsOK'
<1>1. /\ Begins(f, [Ready EXCEPT !.op = "label", !.at = "save", !.copy = register])
      /\ UNCHANGED <<store, exchange, revoked>>
  BY DEF Relabels
<1>2. CommandsOK' /\ commands' \in 0..MaxCommands /\ overlapped' \in BOOLEAN
  BY <1>1, BeginsInOrder, BeginsRight
<1>3. QED
  BY <1>1, <1>2, FilesKept DEF FilesTyped, store, exchange

LEMMA RenamesHullTyped ==
    ASSUME FilesTyped, CommandsOK, NEW f \in Fronts, RenamesHull(f)
    PROVE  FilesTyped' /\ CommandsOK'
<1>1. PICK w \in PairedShips, new \in HullNames :
         /\ Begins(f, [Ready EXCEPT !.op = "hull", !.at = "put", !.world = w, !.key = record[w].key,
                           !.captain = record[w].captain, !.id = record[w].id, !.hull = new])
         /\ hullName' = [hullName EXCEPT ![record[w].key] = new]
         /\ UNCHANGED <<store, filed, revoked>>
  BY DEF RenamesHull
<1>2. CommandsOK' /\ commands' \in 0..MaxCommands /\ overlapped' \in BOOLEAN
  BY <1>1, BeginsInOrder, BeginsRight
<1>3. QED
  BY <1>1, <1>2 DEF FilesTyped, store

LEMMA FilingTyped ==
    ASSUME FilesTyped, NEW p, p.given \in Names, Files(p)
    PROVE  filed' \in [Captains -> [worn : Names \cup {None}, ever : SUBSET Names]]
<1>1. CASE UNCHANGED filed
  BY <1>1 DEF FilesTyped
<1>2. CASE filed' = [filed EXCEPT ![p.captain] = [worn |-> p.given, ever |-> @.ever \cup {p.given}]]
  <2>1. \A c \in Captains : filed[c].ever \subseteq Names
    BY DEF FilesTyped
  <2>2. ASSUME NEW c \in Captains
        PROVE  filed'[c] \in [worn : Names \cup {None}, ever : SUBSET Names]
    <3>1. CASE c = p.captain
      BY <1>2, <2>1, <3>1 DEF FilesTyped
    <3>2. CASE c # p.captain
      BY <1>2, <3>2 DEF FilesTyped
    <3>3. QED
      BY <3>1, <3>2
  <2>3. QED
    BY <1>2, <2>2 DEF FilesTyped
<1>3. QED
  BY <1>1, <1>2 DEF Files

\* A hull that follows the world: its record may have to be written, and a name goes one way
\* or the other.
FollowsFor(f, w) ==
    LET r == record[w]
        world == filed[r.captain].worn
        own == computer[StoreOf(r)]
        p == [Ready EXCEPT !.op = "hull", !.at = "put", !.world = w, !.key = r.key,
                           !.captain = r.captain, !.id = r.id, !.hull = hullName[r.key]]
    IN  /\ Begins(f, p) \/ (hullName[r.key] = r.hull /\ Begins(f, Ready))
        /\ \/ /\ world # None /\ world # own
              /\ computer' = [computer EXCEPT ![StoreOf(r)] = world]
              /\ ledger' = IF r.id = None THEN ledger
                           ELSE ledger \cup {[kind |-> "computer", name |-> world,
                                              holder |-> r.id, act |-> "adopted"]}
              /\ UNCHANGED filed
           \/ /\ world = None /\ own \notin {None, Root}
              /\ Files([p EXCEPT !.given = own])
              /\ UNCHANGED <<computer, ledger>>
           \/ /\ world = own \/ (world = None /\ own \in {None, Root})
              /\ UNCHANGED <<computer, ledger, filed>>
        /\ UNCHANGED <<register, record, keyed, hullName, revoked>>

LEMMA FollowsTyped ==
    ASSUME FilesTyped, CommandsOK, NEW f \in Fronts, FollowsWorld(f)
    PROVE  FilesTyped' /\ CommandsOK'
<1>1. PICK w \in PairedShips : FollowsFor(f, w)
  BY DEF FollowsWorld, FollowsFor
<1> DEFINE r == record[w]
           world == filed[r.captain].worn
           own == computer[StoreOf(r)]
           p == [Ready EXCEPT !.op = "hull", !.at = "put", !.world = w, !.key = r.key,
                              !.captain = r.captain, !.id = r.id, !.hull = hullName[r.key]]
<1>2. /\ r \in Records /\ r.key \in Keys /\ r.captain \in Captains /\ r.id \in Ids \cup {None}
      /\ StoreOf(r) \in Stores /\ own \in Names \cup {None} /\ world \in Names \cup {None}
      /\ hullName[r.key] \in HullNames
  <2>1. r \in Records /\ r.key \in Keys /\ r.captain \in Captains /\ r.id \in Ids \cup {None}
    BY PairedHasRecord, HullTold
  <2>2. QED
    BY <2>1, StoresTyped DEF FilesTyped
<1>3. p \in Commanding /\ InOrder(p)
  BY <1>2, BeginsInOrder
<1>4. CommandsOK' /\ commands' \in 0..MaxCommands /\ overlapped' \in BOOLEAN
  <2>1. Begins(f, p) \/ Begins(f, Ready)
    BY <1>1 DEF FollowsFor
  <2>2. QED
    BY <2>1, <1>3, ReadyOK, BeginsRight
<1>5. UNCHANGED <<register, record, keyed, hullName, revoked>>
  BY <1>1 DEF FollowsFor
<1>6. CASE /\ world # None
           /\ computer' = [computer EXCEPT ![StoreOf(r)] = world]
           /\ ledger' = IF r.id = None THEN ledger
                        ELSE ledger \cup {[kind |-> "computer", name |-> world,
                                           holder |-> r.id, act |-> "adopted"]}
           /\ UNCHANGED filed
  <2>1. computer' \in [Stores -> Names \cup {None}]
    BY <1>2, <1>6 DEF FilesTyped
  <2>2. ledger' \subseteq Entries
    BY <1>2, <1>6 DEF FilesTyped, Entries
  <2>3. QED
    BY <1>4, <1>5, <1>6, <2>1, <2>2 DEF FilesTyped
<1>7. CASE own \notin {None, Root} /\ Files([p EXCEPT !.given = own]) /\ UNCHANGED <<computer, ledger>>
  <2>1. [p EXCEPT !.given = own].given = own
    BY <1>3 DEF Commanding
  <2>2. filed' \in [Captains -> [worn : Names \cup {None}, ever : SUBSET Names]]
    BY <1>2, <1>7, <2>1, FilingTyped
  <2>3. QED
    BY <1>4, <1>5, <1>7, <2>2 DEF FilesTyped
<1>8. CASE UNCHANGED <<computer, ledger, filed>>
  BY <1>4, <1>5, <1>8 DEF FilesTyped
<1>9. QED
  BY <1>1, <1>6, <1>7, <1>8 DEF FollowsFor

LEMMA ElsewhereTyped ==
    ASSUME FilesTyped, CommandsOK,
           (\E c \in Captains : NamedElsewhere(c)) \/ (\E k \in Keys : HullNamedElsewhere(k))
    PROVE  FilesTyped' /\ CommandsOK'
<1>1. commands' \in 0..MaxCommands /\ UNCHANGED <<store, front, revoked, overlapped>>
  BY PairingAssumption DEF NamedElsewhere, HullNamedElsewhere, FilesTyped
<1>2. CommandsOK'
  BY <1>1 DEF CommandsOK
<1>3. CASE \E c \in Captains : NamedElsewhere(c)
  <2>1. PICK c \in Captains, n \in Names :
           filed' = [filed EXCEPT ![c] = [worn |-> n, ever |-> @.ever \cup {n}]] /\ UNCHANGED hullName
    BY <1>3 DEF NamedElsewhere
  <2>2. filed' \in [Captains -> [worn : Names \cup {None}, ever : SUBSET Names]]
    BY <2>1 DEF FilesTyped
  <2>3. QED
    BY <1>1, <1>2, <2>1, <2>2 DEF FilesTyped, store
<1>4. CASE \E k \in Keys : HullNamedElsewhere(k)
  <2>1. PICK k \in Keys, n \in HullNames :
           hullName' = [hullName EXCEPT ![k] = n] /\ UNCHANGED filed
    BY <1>4 DEF HullNamedElsewhere
  <2>2. QED
    BY <1>1, <1>2, <2>1 DEF FilesTyped, store
<1>5. QED
  BY <1>3, <1>4

\* What a command under way has at hand.
LEMMA CommandTold ==
    ASSUME CommandsOK, NEW f \in Fronts
    PROVE  front[f] \in Commanding /\ InOrder(front[f])
BY DEF CommandsOK

LEMMA EnsuresIdTyped ==
    ASSUME FilesTyped, CommandsOK, NEW f \in Fronts, EnsuresId(f)
    PROVE  FilesTyped' /\ CommandsOK'
<1> DEFINE p == front[f]
           all == p.found \cup ({p.id} \ {None})
           s == Slug[p.captain]
<1>1. /\ p \in Commanding /\ InOrder(p) /\ p.at = "identity"
      /\ UNCHANGED <<register, record, keyed, ledger, exchange>> /\ Same
  BY CommandTold DEF EnsuresId
<1>2. p.op \in {"pair", "rename", "adopt"} /\ p.captain \in Captains /\ all \subseteq Ids
  BY <1>1 DEF InOrder, Commanding
<1>3. CASE Ends(f) /\ UNCHANGED computer
  <2>1. CommandsOK'
    BY <1>3, ReadyOK, GoesRight DEF Ends
  <2>2. QED
    BY <1>1, <1>3, <2>1 DEF FilesTyped, exchange, Same
<1>4. CASE \E id \in IF all # {} THEN all ELSE Mint(Ids \ Minted) :
              /\ computer' = IF p.id = None /\ computer[s] # None /\ computer[id] = None
                             THEN [computer EXCEPT ![id] = computer[s], ![s] = None]
                             ELSE computer
              /\ Goes(f, [p EXCEPT !.at = "settle", !.id = id, !.found = {}])
  <2>1. PICK id \in Ids :
              /\ computer' = IF p.id = None /\ computer[s] # None /\ computer[id] = None
                             THEN [computer EXCEPT ![id] = computer[s], ![s] = None]
                             ELSE computer
              /\ Goes(f, [p EXCEPT !.at = "settle", !.id = id, !.found = {}])
    BY <1>2, <1>4 DEF Mint
  <2>2. [p EXCEPT !.at = "settle", !.id = id, !.found = {}] \in Commanding
    BY <1>1 DEF Commanding, Phases
  <2>3. InOrder([p EXCEPT !.at = "settle", !.id = id, !.found = {}])
    BY <1>1, <1>2 DEF Commanding, InOrder, Identified, Boards
  <2>4. CommandsOK'
    BY <2>1, <2>2, <2>3, GoesRight
  <2>5. s \in Stores /\ id \in Stores
    BY <1>2, PairingAssumption DEF Stores, Slugs
  <2>6. computer' \in [Stores -> Names \cup {None}]
    BY <2>1, <2>5 DEF FilesTyped
  <2>7. QED
    BY <1>1, <2>4, <2>6 DEF FilesTyped, exchange, Same
<1>5. QED
  BY <1>3, <1>4 DEF EnsuresId

\* A record as a command writes it.
LEMMA RecordTyped ==
    ASSUME NEW p \in Commanding, InOrder(p), p.op \in {"pair", "rename", "hull"}
    PROVE  [captain |-> p.captain, id |-> p.id, key |-> p.key, hull |-> p.hull] \in Records
BY DEF Commanding, InOrder, Records

LEMMA WithIdsTyped ==
    ASSUME FilesTyped, NEW p \in Commanding, InOrder(p), Identified(p)
    PROVE  WithIds(p) \in [Worlds -> Records \cup {None}]
<1>1. p.id \in Ids
  BY DEF InOrder
<1>2. ASSUME NEW w \in Worlds PROVE WithIds(p)[w] \in Records \cup {None}
  <2>1. CASE p.op = "rename" /\ w = p.world
    BY <2>1, RecordTyped DEF WithIds
  <2>2. CASE ~(p.op = "rename" /\ w = p.world) /\ Paired(w) /\ record[w].captain = p.captain /\ record[w].id = None
    <3>1. record[w] \in Records
      BY <2>2 DEF Paired, FilesTyped
    <3>2. [record[w] EXCEPT !.id = p.id] \in Records
      BY <1>1, <3>1 DEF Records
    <3>3. QED
      BY <2>2, <3>2 DEF WithIds
  <2>3. CASE ~(p.op = "rename" /\ w = p.world) /\ ~(Paired(w) /\ record[w].captain = p.captain /\ record[w].id = None)
    BY <2>3 DEF WithIds, FilesTyped
  <2>4. QED
    BY <2>1, <2>2, <2>3
<1>3. WithIds(p) = [w \in Worlds |-> WithIds(p)[w]]
  BY DEF WithIds
<1>4. QED
  BY <1>2, <1>3

LEMMA SettlesTyped ==
    ASSUME FilesTyped, CommandsOK, NEW f \in Fronts, Settles(f)
    PROVE  FilesTyped' /\ CommandsOK'
<1> DEFINE p == front[f]
           next == [p EXCEPT !.at = IF p.given # None THEN "free" ELSE "name"]
<1>1. /\ p \in Commanding /\ InOrder(p) /\ p.at = "settle" /\ record' = WithIds(p)
      /\ IF p.op = "adopt" THEN Ends(f) ELSE Goes(f, next)
      /\ UNCHANGED <<register, keyed, computer, ledger, exchange>> /\ Same
  BY CommandTold DEF Settles
<1>2. p.op \in {"pair", "rename", "adopt"} /\ Identified(p)
  BY <1>1 DEF InOrder, Identified
<1>3. record' \in [Worlds -> Records \cup {None}]
  BY <1>1, <1>2, WithIdsTyped
<1>4. CommandsOK'
  <2>1. CASE p.op = "adopt"
    BY <1>1, <2>1, ReadyOK, GoesRight DEF Ends
  <2>2. CASE p.op # "adopt"
    <3>1. next \in Commanding
      BY <1>1 DEF Commanding, Phases
    <3>2. InOrder(next)
      BY <1>1, <1>2, <2>2 DEF Commanding, InOrder, Identified, Boards
    <3>3. QED
      BY <1>1, <2>2, <3>1, <3>2, GoesRight
  <2>3. QED
    BY <2>1, <2>2
<1>5. QED
  BY <1>1, <1>3, <1>4 DEF FilesTyped, exchange, Same

LEMMA ChecksNameTyped ==
    ASSUME FilesTyped, CommandsOK, NEW f \in Fronts, ChecksName(f)
    PROVE  FilesTyped' /\ CommandsOK'
<1> DEFINE p == front[f]
<1>1. /\ p \in Commanding /\ InOrder(p) /\ p.at = "free" /\ UNCHANGED <<store, hullName>> /\ Same
      /\ p.given \in Names
  BY CommandTold DEF ChecksName, InOrder, Commanding
<1>2. CASE Files(p) /\ Goes(f, [p EXCEPT !.at = "name"])
  <2>1. [p EXCEPT !.at = "name"] \in Commanding /\ InOrder([p EXCEPT !.at = "name"])
    BY <1>1 DEF Commanding, Phases, InOrder, Identified, Boards
  <2>2. CommandsOK'
    BY <1>2, <2>1, GoesRight
  <2>3. filed' \in [Captains -> [worn : Names \cup {None}, ever : SUBSET Names]]
    BY <1>1, <1>2, FilingTyped
  <2>4. QED
    BY <1>1, <2>2, <2>3 DEF FilesTyped, store, Same
<1>3. CASE Ends(f) /\ UNCHANGED filed
  <2>1. CommandsOK'
    BY <1>3, ReadyOK, GoesRight DEF Ends
  <2>2. QED
    BY <1>1, <1>3, <2>1 DEF FilesTyped, store, Same
<1>4. QED
  BY <1>2, <1>3 DEF ChecksName

LEMMA WearsTyped ==
    ASSUME FilesTyped, NEW p \in Commanding, p.id \in Ids
    PROVE  Wears(p) \in Names
<1>1. computer[p.id] \in Names \cup {None}
  BY DEF FilesTyped, Stores
<1>2. QED
  BY <1>1, PairingAssumption DEF Wears, Commanding

LEMMA NamesComputerTyped ==
    ASSUME FilesTyped, CommandsOK, NEW f \in Fronts, NamesComputer(f)
    PROVE  FilesTyped' /\ CommandsOK'
<1> DEFINE p == front[f]
<1>1. /\ p \in Commanding /\ InOrder(p) /\ p.at = "name"
      /\ computer' = [computer EXCEPT ![p.id] = Wears(p)]
      /\ Goes(f, [p EXCEPT !.at = "note"])
      /\ UNCHANGED <<register, record, keyed, ledger, exchange>> /\ Same
  BY CommandTold DEF NamesComputer
<1>2. p.op \in {"pair", "rename"} /\ p.id \in Ids
  BY <1>1 DEF InOrder, Identified
<1>3. Wears(p) \in Names
  BY <1>1, <1>2, WearsTyped
<1>4. [p EXCEPT !.at = "note"] \in Commanding /\ InOrder([p EXCEPT !.at = "note"])
  BY <1>1, <1>2 DEF Commanding, Phases, InOrder, Identified, Boards
<1>5. CommandsOK'
  BY <1>1, <1>4, GoesRight
<1>6. computer' \in [Stores -> Names \cup {None}]
  BY <1>1, <1>3 DEF FilesTyped
<1>7. QED
  BY <1>1, <1>5, <1>6 DEF FilesTyped, exchange, Same

LEMMA NotesNamesTyped ==
    ASSUME FilesTyped, CommandsOK, NEW f \in Fronts, NotesNames(f)
    PROVE  FilesTyped' /\ CommandsOK'
<1> DEFINE p == front[f]
           named == [kind |-> "computer", name |-> Wears(p), holder |-> p.id,
                     act |-> IF p.given # None THEN "named" ELSE "joined"]
           paired == [kind |-> "captain", name |-> p.captain, holder |-> p.id, act |-> "paired"]
<1>1. /\ p \in Commanding /\ InOrder(p) /\ p.at = "note"
      /\ ledger' = ledger \cup {named} \cup (IF p.op = "pair" THEN {paired} ELSE {})
      /\ IF p.op = "pair" THEN Goes(f, [p EXCEPT !.at = "commission"]) ELSE Ends(f)
      /\ UNCHANGED <<register, record, keyed, computer, exchange>> /\ Same
  BY CommandTold DEF NotesNames
<1>2. p.op \in {"pair", "rename"} /\ p.id \in Ids /\ p.captain \in Captains
  BY <1>1 DEF InOrder, Identified
<1>3. named \in Entries /\ paired \in Entries
  BY <1>1, <1>2, WearsTyped DEF Entries
<1>4. CommandsOK'
  <2>1. CASE p.op = "pair"
    <3>1. [p EXCEPT !.at = "commission"] \in Commanding /\ InOrder([p EXCEPT !.at = "commission"])
      BY <1>1, <1>2, <2>1 DEF Commanding, Phases, InOrder, Identified, Boards
    <3>2. QED
      BY <1>1, <2>1, <3>1, GoesRight
  <2>2. CASE p.op # "pair"
    BY <1>1, <2>2, ReadyOK, GoesRight DEF Ends
  <2>3. QED
    BY <2>1, <2>2
<1>5. ledger' \subseteq Entries
  BY <1>1, <1>3 DEF FilesTyped
<1>6. QED
  BY <1>1, <1>4, <1>5 DEF FilesTyped, exchange, Same

\* A register, one of its worlds changed.
LEMMA RegisterTyped ==
    ASSUME FilesTyped, NEW w, NEW l \in Lifecycles
    PROVE  [register EXCEPT ![w] = l] \in [Worlds -> Lifecycles]
BY DEF FilesTyped

LEMMA CommissionsTyped ==
    ASSUME FilesTyped, CommandsOK, NEW f \in Fronts, Commissions(f)
    PROVE  FilesTyped' /\ CommandsOK'
<1> DEFINE p == front[f]
<1>1. p \in Commanding /\ InOrder(p) /\ p.at = "commission" /\ UNCHANGED <<store, exchange>> /\ Same
  BY CommandTold DEF Commissions
<1>2. PICK w \in Worlds : Goes(f, [p EXCEPT !.at = "save", !.world = w,
                                           !.copy = [register EXCEPT ![w] = "commissioned"]])
  BY DEF Commissions, Mint, Unused
<1> DEFINE next == [p EXCEPT !.at = "save", !.world = w, !.copy = [register EXCEPT ![w] = "commissioned"]]
<1>3. [register EXCEPT ![w] = "commissioned"] \in [Worlds -> Lifecycles]
  BY RegisterTyped DEF Lifecycles
<1>4. p.op = "pair" /\ p.id \in Ids
  BY <1>1 DEF InOrder, Identified
<1>5. next \in Commanding
  BY <1>1, <1>3 DEF Commanding, Phases
<1>6. InOrder(next)
  BY <1>1, <1>4, <1>5 DEF InOrder, Identified, Boards, Commanding
<1>7. CommandsOK'
  BY <1>2, <1>5, <1>6, GoesRight
<1>8. QED
  BY <1>1, <1>7 DEF FilesTyped, exchange, store, Same

LEMMA SavesRegisterTyped ==
    ASSUME FilesTyped, CommandsOK, NEW f \in Fronts, SavesRegister(f)
    PROVE  FilesTyped' /\ CommandsOK'
<1> DEFINE p == front[f]
           next == [p EXCEPT !.at = "board", !.copy = Ready.copy]
<1>1. /\ p \in Commanding /\ InOrder(p) /\ p.at = "save" /\ register' = p.copy
      /\ IF p.op = "pair" THEN Goes(f, next) ELSE Ends(f)
      /\ UNCHANGED <<record, keyed, computer, ledger, exchange>> /\ Same
  BY CommandTold DEF SavesRegister
<1>2. register' \in [Worlds -> Lifecycles]
  BY <1>1 DEF Commanding
<1>3. CommandsOK'
  <2>1. CASE p.op = "pair"
    <3>1. Ready.copy \in [Worlds -> Lifecycles]
      BY ReadyOK DEF Commanding
    <3>2. next \in Commanding
      BY <1>1, <3>1 DEF Commanding, Phases
    <3>3. InOrder(next)
      BY <1>1, <2>1 DEF InOrder, Identified, Boards, Commanding
    <3>4. QED
      BY <1>1, <2>1, <3>2, <3>3, GoesRight
  <2>2. CASE p.op # "pair"
    BY <1>1, <2>2, ReadyOK, GoesRight DEF Ends
  <2>3. QED
    BY <2>1, <2>2
<1>4. QED
  BY <1>1, <1>2, <1>3 DEF FilesTyped, exchange, Same

LEMMA WritesKeyTyped ==
    ASSUME FilesTyped, CommandsOK, NEW f \in Fronts, WritesKey(f)
    PROVE  FilesTyped' /\ CommandsOK'
<1> DEFINE p == front[f]
           entry == [kind |-> "hull", name |-> p.hull, holder |-> p.world, act |-> "paired"]
<1>1. /\ p \in Commanding /\ InOrder(p) /\ p.at = "board" /\ keyed' = keyed \cup {p.world}
      /\ ledger' = ledger \cup {entry} /\ Goes(f, [p EXCEPT !.at = "record"])
      /\ UNCHANGED <<register, record, computer, exchange>> /\ Same
  BY CommandTold DEF WritesKey
<1>2. p.op = "pair" /\ p.world \in Worlds /\ p.hull \in HullNames
  BY <1>1 DEF InOrder, Boards
<1>3. entry \in Entries
  BY <1>2 DEF Entries
<1>4. [p EXCEPT !.at = "record"] \in Commanding /\ InOrder([p EXCEPT !.at = "record"])
  BY <1>1, <1>2 DEF Commanding, Phases, InOrder, Identified, Boards
<1>5. CommandsOK'
  BY <1>1, <1>4, GoesRight
<1>6. QED
  BY <1>1, <1>2, <1>3, <1>5 DEF FilesTyped, exchange, Same

LEMMA WritesRecordTyped ==
    ASSUME FilesTyped, CommandsOK, NEW f \in Fronts, WritesRecord(f)
    PROVE  FilesTyped' /\ CommandsOK'
<1> DEFINE p == front[f]
           written == [captain |-> p.captain, id |-> p.id, key |-> p.key, hull |-> p.hull]
<1>1. /\ p \in Commanding /\ InOrder(p) /\ p.at = "record"
      /\ record' = [record EXCEPT ![p.world] = written]
      /\ Ends(f) /\ UNCHANGED <<register, keyed, computer, ledger, exchange>> /\ Same
  BY CommandTold DEF WritesRecord
<1>2. written \in Records
  BY <1>1, RecordTyped DEF InOrder
<1>3. CommandsOK'
  BY <1>1, ReadyOK, GoesRight DEF Ends
<1>4. QED
  BY <1>1, <1>2, <1>3 DEF FilesTyped, exchange, Same

LEMMA DecommissionsTyped ==
    ASSUME FilesTyped, CommandsOK, NEW f \in Fronts, Decommissions(f)
    PROVE  FilesTyped' /\ CommandsOK'
<1> DEFINE p == front[f]
           next == [p EXCEPT !.at = "save", !.copy = [register EXCEPT ![p.world] = "decommissioned"]]
<1>1. /\ p \in Commanding /\ InOrder(p) /\ p.at = "end" /\ UNCHANGED <<store, exchange>> /\ Same
      /\ Ends(f) \/ Goes(f, next)
  BY CommandTold DEF Decommissions
<1>2. [register EXCEPT ![p.world] = "decommissioned"] \in [Worlds -> Lifecycles]
  BY RegisterTyped DEF Lifecycles
<1>3. next \in Commanding
  BY <1>1, <1>2 DEF Commanding, Phases
<1>4. InOrder(next)
  BY <1>1 DEF InOrder, Identified, Boards, Commanding
<1>5. CommandsOK'
  BY <1>1, <1>3, <1>4, ReadyOK, GoesRight DEF Ends
<1>6. QED
  BY <1>1, <1>5 DEF FilesTyped, exchange, store, Same

LEMMA PutsRecordTyped ==
    ASSUME FilesTyped, CommandsOK, NEW f \in Fronts, PutsRecord(f)
    PROVE  FilesTyped' /\ CommandsOK'
<1> DEFINE p == front[f]
           written == [captain |-> p.captain, id |-> p.id, key |-> p.key, hull |-> p.hull]
           entry == [kind |-> "hull", name |-> p.hull, holder |-> p.world, act |-> "renamed"]
<1>1. /\ p \in Commanding /\ InOrder(p) /\ p.at = "put"
      /\ record' = [record EXCEPT ![p.world] = written]
      /\ ledger' = ledger \/ ledger' = ledger \cup {entry}
      /\ Ends(f) /\ UNCHANGED <<register, keyed, computer, exchange>> /\ Same
  BY CommandTold DEF PutsRecord
<1>2. written \in Records /\ p.world \in Worlds /\ p.hull \in HullNames
  BY <1>1, RecordTyped DEF InOrder
<1>3. entry \in Entries
  BY <1>2 DEF Entries
<1>4. CommandsOK'
  BY <1>1, ReadyOK, GoesRight DEF Ends
<1>5. QED
  BY <1>1, <1>2, <1>3, <1>4 DEF FilesTyped, exchange, Same

LEMMA DiesTyped ==
    ASSUME FilesTyped, CommandsOK, NEW f \in Fronts, Dies(f)
    PROVE  FilesTyped' /\ CommandsOK'
<1>1. CommandsOK'
  BY ReadyOK, GoesRight DEF Dies, Ends
<1>2. QED
  BY <1>1 DEF Dies, Same, FilesTyped, store, exchange

LEMMA TypedKept ==
    ASSUME FilesTyped, CommandsOK, [Next]_vars
    PROVE  FilesTyped' /\ CommandsOK'
<1>1. CASE UNCHANGED vars
  BY <1>1 DEF vars, store, exchange, FilesTyped, CommandsOK
<1>2. CASE \E f \in Fronts : Gives(f)
  BY <1>2, PairsTyped, RenamesTyped, AdoptsTyped, UnpairsTyped, RelabelsTyped, RenamesHullTyped,
     FollowsTyped DEF Gives
<1>3. CASE \E f \in Fronts : GoesOn(f)
  BY <1>3, EnsuresIdTyped, SettlesTyped, ChecksNameTyped, NamesComputerTyped, NotesNamesTyped,
     CommissionsTyped, SavesRegisterTyped, WritesKeyTyped, WritesRecordTyped, DecommissionsTyped,
     PutsRecordTyped, DiesTyped DEF GoesOn
<1>4. CASE (\E c \in Captains : NamedElsewhere(c)) \/ (\E k \in Keys : HullNamedElsewhere(k))
  BY <1>4, ElsewhereTyped
<1>5. QED
  BY <1>1, <1>2, <1>3, <1>4 DEF Next

LEMMA InitTyped == Init => FilesTyped /\ CommandsOK
<1> SUFFICES ASSUME Init PROVE FilesTyped /\ CommandsOK
  OBVIOUS
<1>1. CommandsOK
  BY ReadyOK DEF Init, CommandsOK
<1>2. record \in [Worlds -> Records \cup {None}]
  BY PairingAssumption DEF Init, Records
<1>3. computer \in [Stores -> Names \cup {None}]
  BY DEF Init
<1>4. filed \in [Captains -> [worn : Names \cup {None}, ever : SUBSET Names]]
  BY DEF Init
<1>5. register \in [Worlds -> Lifecycles] /\ keyed \subseteq Worlds /\ ledger \subseteq Entries
  BY PairingAssumption DEF Init, Lifecycles
<1>6. hullName \in [Keys -> HullNames] /\ commands \in 0..MaxCommands
  BY PairingAssumption DEF Init
<1>7. QED
  BY <1>1, <1>2, <1>3, <1>4, <1>5, <1>6 DEF Init, FilesTyped

-----------------------------------------------------------------------------
(* Worlds: which ship a command is about, and whose keys are gone.          *)

Rec(w) == record[w] # None

\* A command about a ship that is there holds its key and its captain, which no step changes.
Told(p) ==
    p.op \in {"rename", "hull"} =>
       Rec(p.world) /\ record[p.world].key = p.key /\ record[p.world].captain = p.captain

\* A world a command pairs into has no record yet, and is no other command's; an unpaired
\* ship's key is gone, and as its record stays, none will pair into its world again.
WorldsApart ==
    /\ \A w \in revoked : w \notin keyed /\ Rec(w)
    /\ \A f \in Fronts : (Boards(front[f]) => ~Rec(front[f].world)) /\ Told(front[f])
    /\ \A f, g \in Fronts :
          Boards(front[f]) /\ Boards(front[g]) /\ front[f].world = front[g].world => f = g

\* One front end moves on, alone.
Moves(f, new) == front'[f] = new /\ \A g \in Fronts \ {f} : front'[g] = front[g]

LEMMA GoesMoves ==
    ASSUME CommandsOK, NEW f \in Fronts, NEW new, Goes(f, new)
    PROVE  Moves(f, new)
BY DEF CommandsOK, Goes, Moves

\* A record, once there, stays, of the same key and captain.
RecordsStand ==
    \A w \in Worlds : Rec(w) => /\ record'[w] # None /\ record'[w].key = record[w].key
                                /\ record'[w].captain = record[w].captain

\* A step of a command that touches no record, no key and no captain's authority, and is
\* about the world it was about.
LEMMA ApartQuiet ==
    ASSUME WorldsApart, UNCHANGED <<record, keyed, revoked>>, NEW f \in Fronts, NEW new,
           Moves(f, new), Boards(new) => Boards(front[f]) /\ new.world = front[f].world, Told(new)
    PROVE  WorldsApart'
<1>1. \A g \in Fronts : g # f => front'[g] = front[g]
  BY DEF Moves
<1>2. front'[f] = new
  BY DEF Moves
<1>3. \A w \in revoked' : w \notin keyed' /\ record'[w] # None
  BY DEF WorldsApart, Rec
<1>4. ASSUME NEW g \in Fronts
      PROVE  (Boards(front'[g]) => record'[front'[g].world] = None) /\ Told(front[g])'
  <2>1. CASE g = f
    BY <1>2, <2>1 DEF WorldsApart, Rec, Told
  <2>2. CASE g # f
    BY <1>1, <2>2 DEF WorldsApart, Rec, Told
  <2>3. QED
    BY <2>1, <2>2
<1>5. ASSUME NEW g \in Fronts, NEW h \in Fronts, Boards(front'[g]), Boards(front'[h]),
             front'[g].world = front'[h].world
      PROVE  g = h
  <2>1. ASSUME NEW e \in Fronts, Boards(front'[e])
        PROVE  Boards(front[e]) /\ front'[e].world = front[e].world
    <3>1. CASE e = f
      BY <1>2, <2>1, <3>1
    <3>2. CASE e # f
      BY <1>1, <2>1, <3>2
    <3>3. QED
      BY <3>1, <3>2
  <2>2. QED
    BY <1>5, <2>1 DEF WorldsApart
<1>6. QED
  BY <1>3, <1>4, <1>5 DEF WorldsApart, Boards, Rec

\* A command that begins: about a ship that is there, or about none.
LEMMA GivesApart ==
    ASSUME FilesTyped, CommandsOK, WorldsApart, NEW f \in Fronts,
           Pairs(f) \/ Renames(f) \/ AdoptsIds(f) \/ Relabels(f) \/ RenamesHull(f) \/ FollowsWorld(f)
    PROVE  WorldsApart' /\ RecordsStand
<1>0. UNCHANGED <<record, keyed, revoked>>
  BY DEF Pairs, Renames, AdoptsIds, Relabels, RenamesHull, FollowsWorld, store
<1>10. RecordsStand
  BY <1>0 DEF RecordsStand, Rec
<1> SUFFICES WorldsApart'
  BY <1>10
<1>1. Ready \in Commanding /\ Ready.op = "none" /\ Ready.at = "idle"
  BY ReadyOK
<1>2. ASSUME NEW new, Begins(f, new), ~Boards(new), Told(new) PROVE WorldsApart'
  BY <1>0, <1>2, GoesMoves, ApartQuiet DEF Begins
<1>3. CASE Pairs(f)
  <2>1. PICK k, given, known, found, clash :
           k \in Keys /\ Begins(f, [Ready EXCEPT !.op = "pair", !.at = "identity", !.key = k,
                           !.captain = CaptainOf[k], !.id = known, !.given = given,
                           !.hull = hullName[k], !.found = found, !.clash = clash])
    BY <1>3 DEF Pairs
  <2> DEFINE new == [Ready EXCEPT !.op = "pair", !.at = "identity", !.key = k,
                           !.captain = CaptainOf[k], !.id = known, !.given = given,
                           !.hull = hullName[k], !.found = found, !.clash = clash]
  <2>2. new.op = "pair" /\ new.at = "identity"
    BY <1>1 DEF Commanding
  <2>3. ~Boards(new) /\ Told(new)
    BY <2>2 DEF Boards, Told
  <2>4. Begins(f, new)
    BY <2>1
  <2> HIDE DEF new
  <2>5. QED
    BY <1>2, <2>3, <2>4
<1>4. CASE Renames(f)
  <2>1. PICK w, given, found, clash :
           w \in PairedShips /\ Begins(f, [Ready EXCEPT !.op = "rename", !.at = "identity", !.world = w,
                           !.key = record[w].key, !.captain = record[w].captain,
                           !.id = record[w].id, !.given = given, !.hull = record[w].hull,
                           !.clash = clash, !.found = found])
    BY <1>4 DEF Renames
  <2> DEFINE new == [Ready EXCEPT !.op = "rename", !.at = "identity", !.world = w,
                           !.key = record[w].key, !.captain = record[w].captain,
                           !.id = record[w].id, !.given = given, !.hull = record[w].hull,
                           !.clash = clash, !.found = found]
  <2>2. /\ new.op = "rename" /\ new.world = w /\ new.key = record[w].key
        /\ new.captain = record[w].captain
    BY <1>1 DEF Commanding
  <2>3. Rec(w)
    BY <2>1, PairedHasRecord DEF Rec
  <2>4. ~Boards(new) /\ Told(new)
    BY <2>2, <2>3 DEF Boards, Told
  <2>5. Begins(f, new)
    BY <2>1
  <2> HIDE DEF new
  <2>6. QED
    BY <1>2, <2>4, <2>5
<1>5. CASE AdoptsIds(f)
  <2>1. PICK c, found, clash :
           Begins(f, [Ready EXCEPT !.op = "adopt", !.at = "identity", !.captain = c,
                           !.clash = clash, !.found = found])
    BY <1>5 DEF AdoptsIds
  <2> DEFINE new == [Ready EXCEPT !.op = "adopt", !.at = "identity", !.captain = c,
                           !.clash = clash, !.found = found]
  <2>2. new.op = "adopt"
    BY <1>1 DEF Commanding
  <2>3. ~Boards(new) /\ Told(new)
    BY <2>2 DEF Boards, Told
  <2>4. Begins(f, new)
    BY <2>1
  <2> HIDE DEF new
  <2>5. QED
    BY <1>2, <2>3, <2>4
<1>6. CASE Relabels(f)
  <2> DEFINE new == [Ready EXCEPT !.op = "label", !.at = "save", !.copy = register]
  <2>1. Begins(f, new)
    BY <1>6 DEF Relabels
  <2>2. new.op = "label"
    BY <1>1 DEF Commanding
  <2>3. ~Boards(new) /\ Told(new)
    BY <2>2 DEF Boards, Told
  <2>4. Begins(f, new)
    BY <2>1
  <2> HIDE DEF new
  <2>5. QED
    BY <1>2, <2>3, <2>4
<1>7. ASSUME NEW w \in PairedShips, NEW h,
             Begins(f, [Ready EXCEPT !.op = "hull", !.at = "put", !.world = w,
                             !.key = record[w].key, !.captain = record[w].captain,
                             !.id = record[w].id, !.hull = h])
      PROVE  WorldsApart'
  <2> DEFINE new == [Ready EXCEPT !.op = "hull", !.at = "put", !.world = w, !.key = record[w].key,
                           !.captain = record[w].captain, !.id = record[w].id, !.hull = h]
  <2>1. /\ new.op = "hull" /\ new.world = w /\ new.key = record[w].key
        /\ new.captain = record[w].captain
    BY <1>1 DEF Commanding
  <2>2. Rec(w)
    BY PairedHasRecord DEF Rec
  <2>3. ~Boards(new) /\ Told(new)
    BY <2>1, <2>2 DEF Boards, Told
  <2>4. Begins(f, new)
    BY <1>7
  <2> HIDE DEF new
  <2>5. QED
    BY <1>2, <2>3, <2>4
<1>8. CASE RenamesHull(f)
  BY <1>7, <1>8 DEF RenamesHull
<1>9. CASE FollowsWorld(f)
  <2>1. PICK w \in PairedShips :
           \/ Begins(f, [Ready EXCEPT !.op = "hull", !.at = "put", !.world = w,
                              !.key = record[w].key, !.captain = record[w].captain,
                              !.id = record[w].id, !.hull = hullName[record[w].key]])
           \/ Begins(f, Ready)
    BY <1>9 DEF FollowsWorld
  <2>2. ~Boards(Ready) /\ Told(Ready)
    BY <1>1 DEF Boards, Told
  <2>3. CASE Begins(f, Ready)
    BY <1>2, <2>2, <2>3
  <2>4. CASE Begins(f, [Ready EXCEPT !.op = "hull", !.at = "put", !.world = w,
                              !.key = record[w].key, !.captain = record[w].captain,
                              !.id = record[w].id, !.hull = hullName[record[w].key]])
    BY <1>7, <2>4
  <2>5. QED
    BY <2>1, <2>3, <2>4
<1>11. QED
  BY <1>3, <1>4, <1>5, <1>6, <1>8, <1>9

LEMMA UnpairsApart ==
    ASSUME FilesTyped, CommandsOK, WorldsApart, NEW f \in Fronts, Unpairs(f)
    PROVE  WorldsApart' /\ RecordsStand
<1>1. PICK w \in PairedShips :
         /\ Begins(f, [Ready EXCEPT !.op = "unpair", !.at = "end", !.world = w])
         /\ keyed' = keyed \ {w} /\ revoked' = revoked \cup {w} /\ UNCHANGED record
  BY DEF Unpairs
<1> DEFINE new == [Ready EXCEPT !.op = "unpair", !.at = "end", !.world = w]
<1>2. new.op = "unpair"
  BY ReadyOK DEF Commanding
<1>3. Moves(f, new)
  BY <1>1, GoesMoves DEF Begins
<1> HIDE DEF new
<1>4. Rec(w)
  BY PairedHasRecord DEF Rec
<1>5. \A v \in revoked' : v \notin keyed' /\ record'[v] # None
  BY <1>1, <1>4 DEF WorldsApart, Rec
<1>6. \A g \in Fronts : Boards(front'[g]) => Boards(front[g]) /\ front'[g] = front[g]
  BY <1>2, <1>3 DEF Moves, Boards
<1>7. ASSUME NEW g \in Fronts PROVE Told(front[g])'
  BY <1>1, <1>2, <1>3 DEF Moves, Told, WorldsApart, Rec
<1>8. RecordsStand
  BY <1>1 DEF RecordsStand, Rec
<1>9. \A g \in Fronts : Boards(front'[g]) => record'[front'[g].world] = None
  BY <1>1, <1>6 DEF WorldsApart, Rec
<1>10. \A g, h \in Fronts :
          Boards(front'[g]) /\ Boards(front'[h]) /\ front'[g].world = front'[h].world => g = h
  BY <1>6 DEF WorldsApart
<1>11. QED
  BY <1>5, <1>7, <1>8, <1>9, <1>10 DEF WorldsApart, Boards, Rec

\* A command that goes on, writing no record and ending no authority.
LEMMA GoesOnApart ==
    ASSUME FilesTyped, CommandsOK, WorldsApart, NEW f \in Fronts,
           \/ EnsuresId(f) \/ ChecksName(f) \/ NamesComputer(f) \/ NotesNames(f)
           \/ SavesRegister(f) \/ Decommissions(f) \/ Dies(f)
    PROVE  WorldsApart' /\ RecordsStand
<1> DEFINE p == front[f]
<1>1. UNCHANGED <<record, keyed, revoked>>
  BY DEF EnsuresId, ChecksName, NamesComputer, NotesNames, SavesRegister, Decommissions, Dies,
         Same, store
<1>2. RecordsStand
  BY <1>1 DEF RecordsStand, Rec
<1> SUFFICES WorldsApart'
  BY <1>2
<1>3. p \in Commanding /\ InOrder(p)
  BY CommandTold
<1>4. Told(p)
  BY DEF WorldsApart
<1>5. ASSUME NEW new, Goes(f, new), new.op = p.op, new.world = p.world, new.key = p.key,
             new.captain = p.captain, Boards(new) => Boards(p)
      PROVE  WorldsApart'
  <2>1. Told(new)
    BY <1>4, <1>5 DEF Told
  <2>2. Moves(f, new)
    BY <1>5, GoesMoves
  <2>3. QED
    BY <1>1, <1>5, <2>1, <2>2, ApartQuiet
<1>6. CASE Ends(f)
  <2>1. Ready.op = "none"
    BY ReadyOK
  <2>2. Moves(f, Ready)
    BY <1>6, GoesMoves DEF Ends
  <2>3. ~Boards(Ready) /\ Told(Ready)
    BY <2>1 DEF Boards, Told
  <2>4. QED
    BY <1>1, <2>2, <2>3, ApartQuiet
<1>7. CASE EnsuresId(f)
  <2>1. CASE Ends(f)
    BY <1>6, <2>1
  <2>2. CASE \E id : Goes(f, [p EXCEPT !.at = "settle", !.id = id, !.found = {}])
    <3>1. PICK id : Goes(f, [p EXCEPT !.at = "settle", !.id = id, !.found = {}])
      BY <2>2
    <3> DEFINE new == [p EXCEPT !.at = "settle", !.id = id, !.found = {}]
    <3>2. /\ new.op = p.op /\ new.world = p.world /\ new.key = p.key
          /\ new.captain = p.captain /\ new.at = "settle"
      BY <1>3 DEF Commanding
    <3>3. Goes(f, new)
      BY <3>1
    <3> HIDE DEF new
    <3>4. QED
      BY <1>5, <3>2, <3>3 DEF Boards
  <2>3. QED
    BY <1>7, <2>1, <2>2 DEF EnsuresId
<1>8. ASSUME NEW at, Goes(f, [p EXCEPT !.at = at]), at \notin {"save", "board", "record"}
      PROVE  WorldsApart'
  <2> DEFINE new == [p EXCEPT !.at = at]
  <2>1. /\ new.op = p.op /\ new.world = p.world /\ new.key = p.key
        /\ new.captain = p.captain /\ new.at = at
    BY <1>3 DEF Commanding
  <2>2. Goes(f, new)
    BY <1>8
  <2> HIDE DEF new
  <2>3. QED
    BY <1>5, <1>8, <2>1, <2>2 DEF Boards
<1>9. CASE ChecksName(f)
  BY <1>6, <1>8, <1>9 DEF ChecksName
<1>10. CASE NamesComputer(f)
  BY <1>8, <1>10 DEF NamesComputer
<1>11. CASE NotesNames(f)
  BY <1>6, <1>8, <1>11 DEF NotesNames
<1>12. CASE SavesRegister(f)
  <2>1. CASE p.op = "pair"
    <3> DEFINE new == [p EXCEPT !.at = "board", !.copy = Ready.copy]
    <3>1. /\ new.op = p.op /\ new.world = p.world /\ new.key = p.key
          /\ new.captain = p.captain /\ p.at = "save" /\ Goes(f, new)
      BY <1>3, <1>12, <2>1 DEF Commanding, SavesRegister
    <3> HIDE DEF new
    <3>2. QED
      BY <1>5, <2>1, <3>1 DEF Boards
  <2>2. CASE p.op # "pair"
    BY <1>6, <1>12, <2>2 DEF SavesRegister
  <2>3. QED
    BY <2>1, <2>2
<1>13. CASE Decommissions(f)
  <2> DEFINE new == [p EXCEPT !.at = "save", !.copy = [register EXCEPT ![p.world] = "decommissioned"]]
  <2>1. /\ new.op = p.op /\ new.world = p.world /\ new.key = p.key
        /\ new.captain = p.captain /\ p.op = "unpair"
    BY <1>3, <1>13 DEF Commanding, Decommissions, InOrder
  <2>2. Ends(f) \/ Goes(f, new)
    BY <1>13 DEF Decommissions
  <2> HIDE DEF new
  <2>3. QED
    BY <1>5, <1>6, <2>1, <2>2 DEF Boards
<1>14. CASE Dies(f)
  BY <1>6, <1>14 DEF Dies
<1>15. QED
  BY <1>7, <1>9, <1>10, <1>11, <1>12, <1>13, <1>14

\* A step of a command that writes records: of ships that have one, and of the world it
\* pairs into, with which it is done.
LEMMA ApartWrites ==
    ASSUME FilesTyped, CommandsOK, WorldsApart, RecordsStand, UNCHANGED revoked,
           \A w \in revoked : w \notin keyed', NEW f \in Fronts, NEW new, Moves(f, new),
           \A w \in Worlds : ~Rec(w) /\ record'[w] # None =>
              Boards(front[f]) /\ w = front[f].world /\ ~Boards(new),
           Boards(new) => Boards(front[f]) /\ new.world = front[f].world,
           new.op \in {"rename", "hull"} =>
              /\ new.op = front[f].op /\ new.world = front[f].world /\ new.key = front[f].key
              /\ new.captain = front[f].captain
    PROVE  WorldsApart'
<1>1. \A g \in Fronts : g # f => front'[g] = front[g]
  BY DEF Moves
<1>2. front'[f] = new
  BY DEF Moves
<1>3. \A w \in revoked' : w \notin keyed' /\ record'[w] # None
  BY DEF WorldsApart, Rec, RecordsStand, FilesTyped
<1>4. \A g \in Fronts : Boards(front'[g]) => Boards(front[g]) /\ front'[g].world = front[g].world
  <2>1. ASSUME NEW g \in Fronts, Boards(front'[g])
        PROVE  Boards(front[g]) /\ front'[g].world = front[g].world
    <3>1. CASE g = f
      BY <1>2, <2>1, <3>1
    <3>2. CASE g # f
      BY <1>1, <2>1, <3>2
    <3>3. QED
      BY <3>1, <3>2
  <2>2. QED
    BY <2>1
<1>5. ASSUME NEW g \in Fronts, Boards(front'[g])
      PROVE  record'[front'[g].world] = None
  <2>1. Boards(front[g]) /\ front'[g].world = front[g].world /\ InOrder(front[g])
    BY <1>4, <1>5 DEF CommandsOK
  <2>2. front[g].world \in Worlds /\ ~Rec(front[g].world)
    BY <2>1 DEF InOrder, WorldsApart
  <2>3. CASE g = f
    BY <1>2, <1>5, <2>1, <2>2, <2>3
  <2>4. CASE g # f
    BY <2>1, <2>2, <2>4 DEF WorldsApart
  <2>5. QED
    BY <2>3, <2>4
<1>6. ASSUME NEW g \in Fronts PROVE Told(front[g])'
  <2>1. Told(front[g]) /\ InOrder(front[g])
    BY DEF CommandsOK, WorldsApart
  <2>2. CASE front'[g].op \in {"rename", "hull"}
    <3>1. /\ front'[g].op = front[g].op /\ front'[g].world = front[g].world
          /\ front'[g].key = front[g].key /\ front'[g].captain = front[g].captain
      BY <1>1, <1>2, <2>2
    <3>2. front[g].world \in Worlds
      BY <2>1, <2>2, <3>1 DEF InOrder
    <3>3. QED
      BY <2>1, <2>2, <3>1, <3>2 DEF Told, RecordsStand, Rec
  <2>3. CASE front'[g].op \notin {"rename", "hull"}
    BY <2>3 DEF Told
  <2>4. QED
    BY <2>2, <2>3
<1>7. \A g, h \in Fronts :
         Boards(front'[g]) /\ Boards(front'[h]) /\ front'[g].world = front'[h].world => g = h
  BY <1>4 DEF WorldsApart
<1>8. QED
  BY <1>3, <1>5, <1>6, <1>7 DEF WorldsApart, Boards, Rec

\* What adopting the siblings leaves of a record.
LEMMA WithIdsStand ==
    ASSUME FilesTyped, NEW p \in Commanding, InOrder(p), Told(p), NEW w \in Worlds
    PROVE  /\ Rec(w) => /\ WithIds(p)[w] # None /\ WithIds(p)[w].key = record[w].key
                        /\ WithIds(p)[w].captain = record[w].captain
           /\ ~Rec(w) => WithIds(p)[w] = None
           /\ Rec(w) => \/ WithIds(p)[w].id = record[w].id
                        \/ Paired(w) /\ record[w].captain = p.captain /\ record[w].id = None
                           /\ WithIds(p)[w].id = p.id
                        \/ p.op = "rename" /\ w = p.world /\ WithIds(p)[w].id = p.id
<1> DEFINE written == [captain |-> p.captain, id |-> p.id, key |-> p.key, hull |-> p.hull]
<1>1. CASE p.op = "rename" /\ w = p.world
  <2>1. WithIds(p)[w] = written
    BY <1>1 DEF WithIds
  <2>2. written \in Records
    BY <1>1, RecordTyped
  <2>3. written # None
    BY <2>2, RecordsAssumption
  <2>4. Rec(w) /\ record[w].key = p.key /\ record[w].captain = p.captain
    BY <1>1 DEF Told
  <2>5. QED
    BY <1>1, <2>1, <2>3, <2>4
<1>2. CASE ~(p.op = "rename" /\ w = p.world) /\ Paired(w) /\ record[w].captain = p.captain /\ record[w].id = None
  <2>1. record[w] \in Records /\ Rec(w)
    BY <1>2 DEF Paired, FilesTyped, Rec
  <2>2. WithIds(p)[w] = [record[w] EXCEPT !.id = p.id]
    BY <1>2 DEF WithIds
  <2>3. p.id \in Ids \cup {None}
    BY DEF Commanding
  <2>4. [record[w] EXCEPT !.id = p.id] \in Records
    BY <2>1, <2>3 DEF Records
  <2>5. [record[w] EXCEPT !.id = p.id] # None
    BY <2>4, RecordsAssumption
  <2>6. QED
    BY <1>2, <2>1, <2>2, <2>5 DEF Records
<1>3. CASE ~(p.op = "rename" /\ w = p.world) /\ ~(Paired(w) /\ record[w].captain = p.captain /\ record[w].id = None)
  BY <1>3 DEF WithIds, Rec
<1>4. QED
  BY <1>1, <1>2, <1>3

LEMMA SettlesApart ==
    ASSUME FilesTyped, CommandsOK, WorldsApart, NEW f \in Fronts, Settles(f)
    PROVE  WorldsApart' /\ RecordsStand
<1> DEFINE p == front[f]
           next == [p EXCEPT !.at = IF p.given # None THEN "free" ELSE "name"]
<1>1. /\ p \in Commanding /\ InOrder(p) /\ record' = WithIds(p) /\ Told(p)
      /\ IF p.op = "adopt" THEN Ends(f) ELSE Goes(f, next)
      /\ UNCHANGED <<keyed, revoked>>
  BY CommandTold DEF Settles, Same, WorldsApart
<1>2. \A w \in Worlds : /\ Rec(w) => /\ record'[w] # None /\ record'[w].key = record[w].key
                                     /\ record'[w].captain = record[w].captain
                        /\ ~Rec(w) => record'[w] = None
  BY <1>1, WithIdsStand
<1>3. RecordsStand
  BY <1>2 DEF RecordsStand
<1>4. \A w \in revoked : w \notin keyed'
  BY <1>1 DEF WorldsApart
<1>5. CASE p.op = "adopt"
  <2>1. Moves(f, Ready) /\ Ready.op = "none" /\ ~Boards(Ready)
    BY <1>1, <1>5, GoesMoves, ReadyOK DEF Ends, Boards
  <2>2. QED
    BY <1>1, <1>2, <1>3, <1>4, <2>1, ApartWrites
<1>6. CASE p.op # "adopt"
  <2>1. Moves(f, next)
    BY <1>1, <1>6, GoesMoves
  <2>2. /\ next.op = p.op /\ next.world = p.world /\ next.key = p.key /\ next.captain = p.captain
        /\ ~Boards(next)
    BY <1>1 DEF Commanding, Boards
  <2> HIDE DEF next
  <2>3. QED
    BY <1>1, <1>2, <1>3, <1>4, <2>1, <2>2, ApartWrites
<1>7. QED
  BY <1>5, <1>6

LEMMA CommissionsApart ==
    ASSUME FilesTyped, CommandsOK, WorldsApart, NEW f \in Fronts, Commissions(f)
    PROVE  WorldsApart' /\ RecordsStand
<1> DEFINE p == front[f]
<1>1. p \in Commanding /\ InOrder(p) /\ p.at = "commission" /\ UNCHANGED <<record, keyed, revoked>>
  BY CommandTold DEF Commissions, store, Same
<1>2. PICK w \in Unused : Goes(f, [p EXCEPT !.at = "save", !.world = w,
                                           !.copy = [register EXCEPT ![w] = "commissioned"]])
  BY DEF Commissions, Mint
<1> DEFINE new == [p EXCEPT !.at = "save", !.world = w, !.copy = [register EXCEPT ![w] = "commissioned"]]
<1>3. new.op = "pair" /\ new.world = w
  BY <1>1 DEF Commanding, InOrder
<1>4. Moves(f, new)
  BY <1>2, GoesMoves
<1> HIDE DEF new
<1>5. ~Rec(w) /\ \A g \in Fronts : front[g].world # w
  BY DEF Unused, Rec
<1>6. RecordsStand
  BY <1>1 DEF RecordsStand, Rec
<1>7. \A v \in revoked' : v \notin keyed' /\ record'[v] # None
  BY <1>1 DEF WorldsApart, Rec
<1>8. ASSUME NEW g \in Fronts PROVE (Boards(front'[g]) => record'[front'[g].world] = None) /\ Told(front[g])'
  <2>1. CASE g = f
    BY <1>1, <1>3, <1>4, <1>5, <2>1 DEF Moves, Told, Rec
  <2>2. CASE g # f
    BY <1>1, <1>4, <2>2 DEF Moves, Told, Rec, WorldsApart
  <2>3. QED
    BY <2>1, <2>2
<1>9. \A g, h \in Fronts :
         Boards(front'[g]) /\ Boards(front'[h]) /\ front'[g].world = front'[h].world => g = h
  BY <1>3, <1>4, <1>5 DEF Moves, WorldsApart
<1>10. QED
  BY <1>6, <1>7, <1>8, <1>9 DEF WorldsApart, Boards, Rec

LEMMA BoardingApart ==
    ASSUME FilesTyped, CommandsOK, WorldsApart, NEW f \in Fronts,
           WritesKey(f) \/ WritesRecord(f) \/ PutsRecord(f)
    PROVE  WorldsApart' /\ RecordsStand
<1> DEFINE p == front[f]
           written == [captain |-> p.captain, id |-> p.id, key |-> p.key, hull |-> p.hull]
<1>1. p \in Commanding /\ InOrder(p) /\ Told(p) /\ UNCHANGED revoked
  BY CommandTold DEF WorldsApart, WritesKey, WritesRecord, PutsRecord, Same
<1>2. Ready.op = "none" /\ ~Boards(Ready)
  BY ReadyOK DEF Boards
<1>3. CASE WritesKey(f)
  <2> DEFINE new == [p EXCEPT !.at = "record"]
  <2>1. p.at = "board" /\ Goes(f, new) /\ keyed' = keyed \cup {p.world} /\ UNCHANGED record
    BY <1>3 DEF WritesKey
  <2>2. p.op = "pair" /\ new.op = "pair" /\ new.world = p.world /\ Moves(f, new)
    BY <1>1, <2>1, GoesMoves DEF Commanding, InOrder
  <2>3. Boards(p)
    BY <2>1, <2>2 DEF Boards
  <2>4. ~Rec(p.world)
    BY <2>3 DEF WorldsApart
  <2>5. \A w \in revoked : w \notin keyed'
    BY <2>1, <2>4 DEF WorldsApart
  <2>6. RecordsStand /\ \A w \in Worlds : ~Rec(w) => record'[w] = None
    BY <2>1 DEF RecordsStand, Rec
  <2> HIDE DEF new
  <2>7. QED
    BY <1>1, <2>2, <2>3, <2>5, <2>6, ApartWrites
<1>4. CASE WritesRecord(f)
  <2>1. p.at = "record" /\ Ends(f) /\ record' = [record EXCEPT ![p.world] = written] /\ UNCHANGED keyed
    BY <1>4 DEF WritesRecord
  <2>2. p.op = "pair" /\ Moves(f, Ready)
    BY <1>1, <2>1, GoesMoves DEF InOrder, Ends
  <2>3. Boards(p)
    BY <2>1, <2>2 DEF Boards
  <2>4. ~Rec(p.world)
    BY <2>3 DEF WorldsApart
  <2>5. RecordsStand
    BY <2>1, <2>4 DEF RecordsStand, FilesTyped, Rec
  <2>6. \A w \in Worlds : ~Rec(w) /\ record'[w] # None => w = p.world
    BY <2>1 DEF FilesTyped, Rec
  <2>7. \A w \in revoked : w \notin keyed'
    BY <2>1 DEF WorldsApart
  <2>8. QED
    BY <1>1, <1>2, <2>2, <2>3, <2>5, <2>6, <2>7, ApartWrites
<1>5. CASE PutsRecord(f)
  <2>1. p.at = "put" /\ Ends(f) /\ record' = [record EXCEPT ![p.world] = written] /\ UNCHANGED keyed
    BY <1>5 DEF PutsRecord
  <2>2. p.op = "hull" /\ Moves(f, Ready)
    BY <1>1, <2>1, GoesMoves DEF InOrder, Ends
  <2>3. Rec(p.world) /\ record[p.world].key = p.key /\ record[p.world].captain = p.captain
    BY <1>1, <2>2 DEF Told
  <2>4. written # None
    BY <1>1, <2>2, RecordTyped, RecordsAssumption
  <2>5. RecordsStand
    BY <2>1, <2>3, <2>4 DEF RecordsStand, FilesTyped, Rec
  <2>6. \A w \in Worlds : ~Rec(w) => record'[w] = None
    BY <2>1, <2>3 DEF FilesTyped, Rec
  <2>7. \A w \in revoked : w \notin keyed'
    BY <2>1 DEF WorldsApart
  <2>8. QED
    BY <1>1, <1>2, <2>2, <2>5, <2>6, <2>7, ApartWrites
<1>6. QED
  BY <1>3, <1>4, <1>5

LEMMA ApartKept ==
    ASSUME FilesTyped, CommandsOK, WorldsApart, [Next]_vars
    PROVE  WorldsApart' /\ RecordsStand
<1>1. CASE UNCHANGED <<record, keyed, revoked, front>>
  BY <1>1 DEF WorldsApart, RecordsStand, Rec, Told, Boards
<1>2. CASE \E f \in Fronts : Gives(f)
  BY <1>2, GivesApart, UnpairsApart DEF Gives
<1>3. CASE \E f \in Fronts : GoesOn(f)
  BY <1>3, GoesOnApart, SettlesApart, CommissionsApart, BoardingApart DEF GoesOn
<1>4. CASE (\E c \in Captains : NamedElsewhere(c)) \/ (\E k \in Keys : HullNamedElsewhere(k))
  BY <1>1, <1>4 DEF NamedElsewhere, HullNamedElsewhere, store
<1>5. CASE UNCHANGED vars
  BY <1>1, <1>5 DEF vars, store
<1>6. QED
  BY <1>2, <1>3, <1>4, <1>5 DEF Next

-----------------------------------------------------------------------------
(* Names: what the ledger and the stores hold is never taken back.          *)

\* No line of the ledger is lost, and no identity's computer forgets its name.
NamesStand ==
    ledger \subseteq ledger' /\ \A id \in Ids : computer[id] # None => computer'[id] # None

LEMMA NamesUntouched ==
    ASSUME UNCHANGED computer, ledger \subseteq ledger'
    PROVE  NamesStand
BY DEF NamesStand

LEMMA EnsuresIdNames ==
    ASSUME FilesTyped, CommandsOK, NEW f \in Fronts, EnsuresId(f)
    PROVE  NamesStand
<1> DEFINE p == front[f]
           s == Slug[p.captain]
<1>1. ledger' = ledger /\ p.captain \in Captains /\ p \in Commanding /\ InOrder(p)
  BY CommandTold DEF EnsuresId, InOrder
<1>2. s \notin Ids
  BY <1>1, StoresAssumption DEF Slugs
<1>3. CASE UNCHANGED computer
  BY <1>1, <1>3, NamesUntouched
<1>4. CASE \E id \in Ids : computer[s] # None /\ computer' = [computer EXCEPT ![id] = computer[s], ![s] = None]
  <2>1. PICK id \in Ids : computer[s] # None /\ computer' = [computer EXCEPT ![id] = computer[s], ![s] = None]
    BY <1>4
  <2>2. ASSUME NEW i \in Ids, computer[i] # None PROVE computer'[i] # None
    <3>1. i \in Stores /\ i # s
      BY <1>2 DEF Stores
    <3>2. QED
      BY <2>1, <2>2, <3>1 DEF FilesTyped
  <2>3. QED
    BY <1>1, <2>2 DEF NamesStand
<1>5. QED
  <2>1. CASE Ends(f) /\ UNCHANGED computer
    BY <1>3, <2>1
  <2>2. CASE \E id \in IF p.found \cup ({p.id} \ {None}) # {} THEN p.found \cup ({p.id} \ {None})
                                                             ELSE Mint(Ids \ Minted) :
                computer' = IF p.id = None /\ computer[s] # None /\ computer[id] = None
                            THEN [computer EXCEPT ![id] = computer[s], ![s] = None]
                            ELSE computer
    <3>1. PICK id \in Ids :
                computer' = IF p.id = None /\ computer[s] # None /\ computer[id] = None
                            THEN [computer EXCEPT ![id] = computer[s], ![s] = None]
                            ELSE computer
      BY <1>1, <2>2 DEF Mint, Commanding
    <3>2. QED
      BY <1>3, <1>4, <3>1
  <2>3. QED
    BY <2>1, <2>2 DEF EnsuresId

LEMMA NamesComputerNames ==
    ASSUME FilesTyped, CommandsOK, NEW f \in Fronts, NamesComputer(f)
    PROVE  NamesStand /\ computer'[front[f].id] # None
<1> DEFINE p == front[f]
<1>1. /\ p \in Commanding /\ InOrder(p) /\ p.at = "name"
      /\ computer' = [computer EXCEPT ![p.id] = Wears(p)] /\ UNCHANGED ledger
  BY CommandTold DEF NamesComputer
<1>2. p.id \in Ids /\ p.id \in Stores
  BY <1>1 DEF InOrder, Identified, Stores
<1>3. Wears(p) # None
  BY <1>1, <1>2, WearsTyped, PairingAssumption
<1>4. QED
  BY <1>1, <1>2, <1>3 DEF NamesStand, FilesTyped

LEMMA FollowsNames ==
    ASSUME FilesTyped, CommandsOK, NEW f \in Fronts, FollowsWorld(f)
    PROVE  NamesStand
<1>1. PICK w \in PairedShips : FollowsFor(f, w)
  BY DEF FollowsWorld, FollowsFor
<1> DEFINE r == record[w]
           world == filed[r.captain].worn
<1>2. CASE UNCHANGED <<computer, ledger>>
  BY <1>2, NamesUntouched
<1>3. CASE /\ world # None
           /\ computer' = [computer EXCEPT ![StoreOf(r)] = world]
           /\ ledger \subseteq ledger'
  BY <1>3 DEF NamesStand, FilesTyped, Stores
<1>4. QED
  BY <1>1, <1>2, <1>3 DEF FollowsFor

LEMMA NamesKept ==
    ASSUME FilesTyped, CommandsOK, [Next]_vars
    PROVE  NamesStand
<1>1. CASE UNCHANGED vars
  BY <1>1, NamesUntouched DEF vars, store
<1>2. ASSUME NEW f \in Fronts, Gives(f) PROVE NamesStand
  BY <1>2, FollowsNames, NamesUntouched
     DEF Gives, Pairs, Renames, AdoptsIds, Unpairs, Relabels, RenamesHull, store
<1>3. ASSUME NEW f \in Fronts, GoesOn(f) PROVE NamesStand
  BY <1>3, EnsuresIdNames, NamesComputerNames, NamesUntouched
     DEF GoesOn, Settles, ChecksName, NotesNames, Commissions, SavesRegister, WritesKey,
         WritesRecord, Decommissions, PutsRecord, Dies, store
<1>4. CASE (\E c \in Captains : NamedElsewhere(c)) \/ (\E k \in Keys : HullNamedElsewhere(k))
  BY <1>4, NamesUntouched DEF NamedElsewhere, HullNamedElsewhere, store
<1>5. QED
  BY <1>1, <1>2, <1>3, <1>4 DEF Next

-----------------------------------------------------------------------------
(* What is paired is whole.                                                 *)

\* A computer that answers, and both names in the ledger.
Noted(id) ==
    /\ id # None /\ computer[id] # None
    /\ \E e \in ledger : e.kind = "captain" /\ e.holder = id
    /\ \E e \in ledger : e.kind = "computer" /\ e.holder = id

\* What a command may rely on where it is: what it writes into a record last was noted first.
Owes(p) ==
    /\ p.op \in {"pair", "rename"} /\ p.at = "note" => computer[p.id] # None
    /\ p.op = "pair" /\ p.at \in {"commission", "save", "board", "record"} => Noted(p.id)
    /\ p.op \in {"rename", "hull"} /\ p.world \notin LegacyWorlds => Noted(p.id)

Whole ==
    /\ \A w \in Worlds \ LegacyWorlds : Rec(w) => Noted(record[w].id)
    /\ \A f \in Fronts : Owes(front[f])

LEMMA NotedStays ==
    ASSUME NamesStand, NEW id \in Ids, Noted(id)
    PROVE  Noted(id)'
BY DEF NamesStand, Noted

LEMMA OwesStays ==
    ASSUME NamesStand, NEW p \in Commanding, InOrder(p), Owes(p)
    PROVE  Owes(p)'
<1>1. p.id \in Ids \cup {None}
  BY DEF Commanding
<1>2. Noted(p.id) => Noted(p.id)'
  BY <1>1, NotedStays DEF Noted
<1>3. p.op \in {"pair", "rename"} /\ p.at = "note" => p.id \in Ids
  BY DEF InOrder, Identified
<1>4. QED
  BY <1>2, <1>3 DEF Owes, NamesStand

\* A record's identity is what it was, or one that is noted.
LEMMA WholeWrites ==
    ASSUME FilesTyped, CommandsOK, CommandsOK', Whole, NamesStand, NEW f \in Fronts,
           \A g \in Fronts \ {f} : front'[g] = front[g],
           Owes(front[f])',
           \A w \in Worlds \ LegacyWorlds : record'[w] # None =>
              \/ Rec(w) /\ record'[w].id = record[w].id
              \/ \E id \in Ids : Noted(id) /\ record'[w].id = id
    PROVE  Whole'
<1>1. ASSUME NEW w \in Worlds \ LegacyWorlds, record'[w] # None PROVE Noted(record[w].id)'
  <2>1. CASE Rec(w) /\ record'[w].id = record[w].id
    <3>1. Noted(record[w].id)
      BY <2>1 DEF Whole
    <3>2. PICK id : id = record[w].id
      OBVIOUS
    <3>3. id \in Ids
      BY <2>1, <3>1, <3>2 DEF Noted, FilesTyped, Rec, Records
    <3>4. Noted(id)'
      BY <3>1, <3>2, <3>3, NotedStays
    <3>5. QED
      BY <2>1, <3>2, <3>4 DEF Noted
  <2>2. CASE \E id \in Ids : Noted(id) /\ record'[w].id = id
    <3>1. PICK id \in Ids : Noted(id) /\ record'[w].id = id
      BY <2>2
    <3>2. Noted(id)'
      BY <3>1, NotedStays
    <3>3. QED
      BY <3>1, <3>2 DEF Noted
  <2>3. QED
    BY <1>1, <2>1, <2>2
<1>2. ASSUME NEW g \in Fronts PROVE Owes(front[g])'
  <2>1. CASE g = f
    BY <2>1
  <2>2. CASE g # f
    <3>1. PICK p : p = front[g]
      OBVIOUS
    <3>2. p \in Commanding /\ InOrder(p) /\ Owes(p)
      BY <3>1 DEF CommandsOK, Whole
    <3>3. Owes(p)' /\ front'[g] = p
      BY <2>2, <3>1, <3>2, OwesStays
    <3>4. QED
      BY <3>3 DEF Owes, Noted
  <2>3. QED
    BY <2>1, <2>2
<1>3. QED
  BY <1>1, <1>2 DEF Whole, Rec

\* A step that leaves the records' identities alone.
LEMMA WholeMoves ==
    ASSUME FilesTyped, CommandsOK, CommandsOK', Whole, NamesStand, UNCHANGED record,
           NEW f \in Fronts, NEW new, Moves(f, new), Owes(new)
    PROVE  Whole'
<1>1. front'[f] = new /\ \A g \in Fronts \ {f} : front'[g] = front[g]
  BY DEF Moves
<1>2. Owes(front[f])'
  <2>1. new \in Commanding /\ InOrder(new)
    BY <1>1 DEF CommandsOK, InOrder, Identified, Boards
  <2>2. Owes(new)'
    BY <2>1, OwesStays
  <2>3. QED
    BY <1>1, <2>2 DEF Owes, Noted
<1>3. \A w \in Worlds : record'[w] # None => Rec(w) /\ record'[w].id = record[w].id
  BY DEF Rec
<1>4. QED
  BY <1>1, <1>2, <1>3, WholeWrites

LEMMA ReadyOwes == Owes(Ready)
BY ReadyOK DEF Owes

\* A command as it begins: one about a ship knows the ship's captain, and that was noted.
LEMMA GivesWhole ==
    ASSUME FilesTyped, CommandsOK, CommandsOK', Whole, NamesStand, NEW f \in Fronts, Gives(f)
    PROVE  Whole'
<1>0. UNCHANGED record
  BY DEF Gives, Pairs, Renames, AdoptsIds, Unpairs, Relabels, RenamesHull, FollowsWorld, store
<1>1. Ready \in Commanding /\ Ready.op = "none"
  BY ReadyOK
<1>2. ASSUME NEW new, Begins(f, new), Owes(new) PROVE Whole'
  <2>1. Moves(f, new)
    BY <1>2, GoesMoves DEF Begins
  <2>2. QED
    BY <1>0, <1>2, <2>1, WholeMoves
<1>3. CASE Pairs(f)
  <2>1. PICK k, given, known, found, clash :
           k \in Keys /\ Begins(f, [Ready EXCEPT !.op = "pair", !.at = "identity", !.key = k,
                           !.captain = CaptainOf[k], !.id = known, !.given = given,
                           !.hull = hullName[k], !.found = found, !.clash = clash])
    BY <1>3 DEF Pairs
  <2> DEFINE new == [Ready EXCEPT !.op = "pair", !.at = "identity", !.key = k,
                           !.captain = CaptainOf[k], !.id = known, !.given = given,
                           !.hull = hullName[k], !.found = found, !.clash = clash]
  <2>2. new.op = "pair" /\ new.at = "identity" /\ Begins(f, new)
    BY <1>1, <2>1 DEF Commanding
  <2> HIDE DEF new
  <2>3. Owes(new)
    BY <2>2 DEF Owes
  <2>4. QED
    BY <1>2, <2>2, <2>3
<1>4. CASE Renames(f)
  <2>1. PICK w, given, found, clash :
           w \in PairedShips /\ Begins(f, [Ready EXCEPT !.op = "rename", !.at = "identity", !.world = w,
                           !.key = record[w].key, !.captain = record[w].captain,
                           !.id = record[w].id, !.given = given, !.hull = record[w].hull,
                           !.clash = clash, !.found = found])
    BY <1>4 DEF Renames
  <2> DEFINE new == [Ready EXCEPT !.op = "rename", !.at = "identity", !.world = w,
                           !.key = record[w].key, !.captain = record[w].captain,
                           !.id = record[w].id, !.given = given, !.hull = record[w].hull,
                           !.clash = clash, !.found = found]
  <2>2. /\ new.op = "rename" /\ new.at = "identity" /\ new.world = w /\ new.id = record[w].id
        /\ Begins(f, new)
    BY <1>1, <2>1 DEF Commanding
  <2>3. w \notin LegacyWorlds => Noted(record[w].id)
    BY <2>1, PairedHasRecord DEF Whole, Rec
  <2> HIDE DEF new
  <2>4. Owes(new)
    BY <2>2, <2>3 DEF Owes
  <2>5. QED
    BY <1>2, <2>2, <2>4
<1>5. CASE AdoptsIds(f)
  <2>1. PICK c, found, clash :
           Begins(f, [Ready EXCEPT !.op = "adopt", !.at = "identity", !.captain = c,
                           !.clash = clash, !.found = found])
    BY <1>5 DEF AdoptsIds
  <2> DEFINE new == [Ready EXCEPT !.op = "adopt", !.at = "identity", !.captain = c,
                           !.clash = clash, !.found = found]
  <2>2. new.op = "adopt" /\ Begins(f, new)
    BY <1>1, <2>1 DEF Commanding
  <2> HIDE DEF new
  <2>3. Owes(new)
    BY <2>2 DEF Owes
  <2>4. QED
    BY <1>2, <2>2, <2>3
<1>6. CASE Unpairs(f)
  <2>1. PICK w : Begins(f, [Ready EXCEPT !.op = "unpair", !.at = "end", !.world = w])
    BY <1>6 DEF Unpairs
  <2> DEFINE new == [Ready EXCEPT !.op = "unpair", !.at = "end", !.world = w]
  <2>2. new.op = "unpair" /\ Begins(f, new)
    BY <1>1, <2>1 DEF Commanding
  <2> HIDE DEF new
  <2>3. Owes(new)
    BY <2>2 DEF Owes
  <2>4. QED
    BY <1>2, <2>2, <2>3
<1>7. CASE Relabels(f)
  <2> DEFINE new == [Ready EXCEPT !.op = "label", !.at = "save", !.copy = register]
  <2>1. new.op = "label" /\ Begins(f, new)
    BY <1>1, <1>7 DEF Commanding, Relabels
  <2> HIDE DEF new
  <2>2. Owes(new)
    BY <2>1 DEF Owes
  <2>3. QED
    BY <1>2, <2>1, <2>2
<1>8. ASSUME NEW w \in PairedShips, NEW h,
             Begins(f, [Ready EXCEPT !.op = "hull", !.at = "put", !.world = w,
                             !.key = record[w].key, !.captain = record[w].captain,
                             !.id = record[w].id, !.hull = h])
      PROVE  Whole'
  <2> DEFINE new == [Ready EXCEPT !.op = "hull", !.at = "put", !.world = w, !.key = record[w].key,
                           !.captain = record[w].captain, !.id = record[w].id, !.hull = h]
  <2>1. new.op = "hull" /\ new.world = w /\ new.id = record[w].id /\ Begins(f, new)
    BY <1>1, <1>8 DEF Commanding
  <2>2. w \notin LegacyWorlds => Noted(record[w].id)
    BY PairedHasRecord DEF Whole, Rec
  <2> HIDE DEF new
  <2>3. Owes(new)
    BY <2>1, <2>2 DEF Owes
  <2>4. QED
    BY <1>2, <2>1, <2>3
<1>9. CASE RenamesHull(f)
  BY <1>8, <1>9 DEF RenamesHull
<1>10. CASE FollowsWorld(f)
  <2>1. PICK w \in PairedShips :
           \/ Begins(f, [Ready EXCEPT !.op = "hull", !.at = "put", !.world = w,
                              !.key = record[w].key, !.captain = record[w].captain,
                              !.id = record[w].id, !.hull = hullName[record[w].key]])
           \/ Begins(f, Ready)
    BY <1>10 DEF FollowsWorld
  <2>2. CASE Begins(f, Ready)
    BY <1>2, <2>2, ReadyOwes
  <2>3. CASE Begins(f, [Ready EXCEPT !.op = "hull", !.at = "put", !.world = w,
                             !.key = record[w].key, !.captain = record[w].captain,
                             !.id = record[w].id, !.hull = hullName[record[w].key]])
    BY <1>8, <2>3
  <2>4. QED
    BY <2>1, <2>2, <2>3
<1>11. QED
  BY <1>3, <1>4, <1>5, <1>6, <1>7, <1>9, <1>10 DEF Gives

\* Of identities there is at most one, any two are one.
LEMMA AtMostOne ==
    ASSUME NEW S \in SUBSET Ids, Cardinality(S) <= 1, NEW i \in S, NEW j \in S
    PROVE  i = j
<1>1. IsFiniteSet(S)
  BY StoresAssumption, FS_Subset
<1>2. SUFFICES ASSUME i # j PROVE FALSE
  OBVIOUS
<1>3. {i, j} \subseteq S /\ Cardinality({i, j}) <= Cardinality(S)
  BY <1>1, FS_Subset
<1>4. Cardinality({i, j}) = 2
  <2>1. IsFiniteSet({i}) /\ Cardinality({i}) = 1
    BY FS_Singleton
  <2>2. Cardinality({i} \cup {j}) = Cardinality({i}) + 1
    BY <1>2, <2>1, FS_AddElement
  <2>3. {i} \cup {j} = {i, j}
    OBVIOUS
  <2>4. QED
    BY <2>1, <2>2, <2>3
<1>5. Cardinality(S) \in Nat
  BY <1>1, FS_CardinalityType
<1>6. QED
  BY <1>3, <1>4, <1>5

\* A captain who has an identity keeps it.
LEMMA EnsuresSame ==
    ASSUME FilesTyped, CommandsOK, NEW f \in Fronts, EnsuresId(f), ~Ends(f)
    PROVE  \E id \in Ids :
              /\ Goes(f, [front[f] EXCEPT !.at = "settle", !.id = id, !.found = {}])
              /\ \A i \in front[f].found \cup ({front[f].id} \ {None}) : i = id
<1> DEFINE p == front[f]
           all == p.found \cup ({p.id} \ {None})
<1>1. p \in Commanding /\ all \in SUBSET Ids
  BY CommandTold DEF Commanding
<1>2. Cardinality(all) <= 1
  BY DEF EnsuresId
<1>3. PICK id \in IF all # {} THEN all ELSE Mint(Ids \ Minted) :
         Goes(f, [p EXCEPT !.at = "settle", !.id = id, !.found = {}])
  BY DEF EnsuresId
<1>4. id \in Ids
  BY <1>1, <1>3 DEF Mint
<1>5. ASSUME NEW i \in all PROVE i = id
  <2>1. id \in all
    BY <1>3, <1>5
  <2> HIDE DEF all
  <2>2. QED
    BY <1>1, <1>2, <1>5, <2>1, AtMostOne
<1>6. QED
  BY <1>3, <1>4, <1>5

\* A command that goes on and writes no record.
LEMMA GoesOnWhole ==
    ASSUME FilesTyped, CommandsOK, CommandsOK', Whole, NamesStand, NEW f \in Fronts,
           \/ EnsuresId(f) \/ ChecksName(f) \/ Commissions(f) \/ SavesRegister(f)
           \/ WritesKey(f) \/ Decommissions(f) \/ Dies(f)
    PROVE  Whole'
<1> DEFINE p == front[f]
<1>0. UNCHANGED record
  BY DEF EnsuresId, ChecksName, Commissions, SavesRegister, WritesKey, Decommissions, Dies, store
<1>1. p \in Commanding /\ InOrder(p) /\ Owes(p)
  BY CommandTold DEF Whole
<1>2. ASSUME NEW new, Goes(f, new), Owes(new) PROVE Whole'
  BY <1>0, <1>2, GoesMoves, WholeMoves
<1>3. CASE Ends(f)
  BY <1>2, <1>3, ReadyOwes DEF Ends
<1>4. CASE EnsuresId(f) /\ ~Ends(f)
  <2>1. PICK id \in Ids :
           /\ Goes(f, [p EXCEPT !.at = "settle", !.id = id, !.found = {}])
           /\ \A i \in p.found \cup ({p.id} \ {None}) : i = id
    BY <1>4, EnsuresSame
  <2> DEFINE new == [p EXCEPT !.at = "settle", !.id = id, !.found = {}]
  <2>2. new.op = p.op /\ new.world = p.world /\ new.at = "settle" /\ new.id = id /\ Goes(f, new)
    BY <1>1, <2>1 DEF Commanding
  <2>3. p.id # None => p.id = id
    BY <2>1
  <2> HIDE DEF new
  <2>4. Owes(new)
    BY <1>1, <2>2, <2>3 DEF Owes, Noted
  <2>5. QED
    BY <1>2, <2>2, <2>4
<1>5. CASE ChecksName(f) /\ ~Ends(f)
  <2> DEFINE new == [p EXCEPT !.at = "name"]
  <2>1. /\ new.op = p.op /\ new.world = p.world /\ new.at = "name" /\ new.id = p.id
        /\ Goes(f, new)
    BY <1>1, <1>5 DEF Commanding, ChecksName
  <2> HIDE DEF new
  <2>2. Owes(new)
    BY <1>1, <2>1 DEF Owes
  <2>3. QED
    BY <1>2, <2>1, <2>2
<1>6. CASE Commissions(f)
  <2>1. PICK w : Goes(f, [p EXCEPT !.at = "save", !.world = w,
                                  !.copy = [register EXCEPT ![w] = "commissioned"]])
    BY <1>6 DEF Commissions
  <2> DEFINE new == [p EXCEPT !.at = "save", !.world = w, !.copy = [register EXCEPT ![w] = "commissioned"]]
  <2>2. /\ new.op = "pair" /\ p.op = "pair" /\ p.at = "commission" /\ new.id = p.id
        /\ Goes(f, new)
    BY <1>1, <1>6, <2>1 DEF Commanding, Commissions, InOrder
  <2>3. Noted(p.id)
    BY <1>1, <2>2 DEF Owes
  <2> HIDE DEF new
  <2>4. Owes(new)
    BY <2>2, <2>3 DEF Owes, Noted
  <2>5. QED
    BY <1>2, <2>2, <2>4
<1>7. CASE SavesRegister(f) /\ p.op = "pair"
  <2> DEFINE new == [p EXCEPT !.at = "board", !.copy = Ready.copy]
  <2>1. /\ new.op = "pair" /\ p.at = "save" /\ new.at = "board" /\ new.id = p.id
        /\ Goes(f, new)
    BY <1>1, <1>7 DEF Commanding, SavesRegister
  <2> HIDE DEF new
  <2>2. Owes(new)
    BY <1>1, <1>7, <2>1 DEF Owes
  <2>3. QED
    BY <1>2, <2>1, <2>2
<1>8. CASE WritesKey(f)
  <2> DEFINE new == [p EXCEPT !.at = "record"]
  <2>1. /\ new.op = "pair" /\ p.op = "pair" /\ p.at = "board" /\ new.at = "record" /\ new.id = p.id
        /\ Goes(f, new)
    BY <1>1, <1>8 DEF Commanding, WritesKey, InOrder
  <2> HIDE DEF new
  <2>2. Owes(new)
    BY <1>1, <2>1 DEF Owes
  <2>3. QED
    BY <1>2, <2>1, <2>2
<1>9. CASE Decommissions(f) /\ ~Ends(f)
  <2> DEFINE new == [p EXCEPT !.at = "save", !.copy = [register EXCEPT ![p.world] = "decommissioned"]]
  <2>1. new.op = "unpair" /\ Goes(f, new)
    BY <1>1, <1>9 DEF Commanding, Decommissions, InOrder
  <2> HIDE DEF new
  <2>2. Owes(new)
    BY <2>1 DEF Owes
  <2>3. QED
    BY <1>2, <2>1, <2>2
<1>10. SavesRegister(f) /\ p.op # "pair" => Ends(f)
  BY DEF SavesRegister
<1>11. Dies(f) => Ends(f)
  BY DEF Dies
<1>12. QED
  BY <1>3, <1>4, <1>5, <1>6, <1>7, <1>8, <1>9, <1>10, <1>11

LEMMA NamingWhole ==
    ASSUME FilesTyped, CommandsOK, CommandsOK', Whole, NamesStand, NEW f \in Fronts,
           NamesComputer(f) \/ NotesNames(f)
    PROVE  Whole'
<1> DEFINE p == front[f]
<1>0. \A w \in Worlds : record'[w] # None => Rec(w) /\ record'[w].id = record[w].id
  BY DEF NamesComputer, NotesNames, Rec
<1>1. p \in Commanding /\ InOrder(p) /\ Owes(p)
  BY CommandTold DEF Whole
<1>2. CASE NamesComputer(f)
  <2> DEFINE new == [p EXCEPT !.at = "note"]
  <2>1. Moves(f, new) /\ new.op = p.op /\ new.world = p.world /\ new.at = "note" /\ new.id = p.id
        /\ p.at = "name"
    BY <1>1, <1>2, GoesMoves DEF Commanding, NamesComputer
  <2>2. computer'[p.id] # None
    BY <1>2, NamesComputerNames
  <2>3. front'[f].op = p.op /\ front'[f].world = p.world /\ front'[f].at = "note" /\ front'[f].id = p.id
    BY <2>1 DEF Moves
  <2>4. p.op \in {"rename", "hull"} /\ p.world \notin LegacyWorlds => Noted(p.id)'
    <3>1. PICK id : id = p.id
      OBVIOUS
    <3>2. p.op \in {"rename", "hull"} /\ p.world \notin LegacyWorlds => Noted(id) /\ id \in Ids
      BY <1>1, <3>1 DEF Owes, Noted, Commanding
    <3>3. p.op \in {"rename", "hull"} /\ p.world \notin LegacyWorlds => Noted(id)'
      BY <3>2, NotedStays
    <3>4. id = front'[f].id
      BY <2>3, <3>1
    <3>5. QED
      BY <2>3, <3>1, <3>3, <3>4 DEF Noted
  <2>5. Owes(front[f])'
    BY <2>2, <2>3, <2>4 DEF Owes, Noted
  <2>6. QED
    BY <1>0, <2>1, <2>5, WholeWrites DEF Moves
<1>3. CASE NotesNames(f)
  <2>1. CASE p.op # "pair"
    <3>1. Moves(f, Ready) /\ UNCHANGED record
      BY <1>3, <2>1, GoesMoves DEF NotesNames, Ends
    <3>2. QED
      BY <3>1, ReadyOwes, WholeMoves
  <2>2. CASE p.op = "pair"
    <3> DEFINE new == [p EXCEPT !.at = "commission"]
    <3>1. /\ Moves(f, new) /\ new.op = "pair" /\ new.at = "commission" /\ new.id = p.id
          /\ p.at = "note" /\ p.id \in Ids
      BY <1>1, <1>3, <2>2, GoesMoves DEF Commanding, NotesNames, InOrder, Identified
    <3>2. front'[f].op = "pair" /\ front'[f].at = "commission" /\ front'[f].id = p.id
      BY <3>1 DEF Moves
    <3>3. computer'[p.id] # None
      BY <1>1, <2>2, <3>1 DEF Owes, NamesStand
    <3>4. \E e \in ledger' : e.kind = "captain" /\ e.holder = p.id
      <4>1. [kind |-> "captain", name |-> p.captain, holder |-> p.id, act |-> "paired"] \in ledger'
        BY <1>3, <2>2 DEF NotesNames
      <4>2. QED
        BY <4>1
    <3>5. \E e \in ledger' : e.kind = "computer" /\ e.holder = p.id
      <4>1. [kind |-> "computer", name |-> Wears(p), holder |-> p.id,
             act |-> IF p.given # None THEN "named" ELSE "joined"] \in ledger'
        BY <1>3 DEF NotesNames
      <4>2. QED
        BY <4>1
    <3>6. Noted(front[f].id)'
      BY <3>1, <3>2, <3>3, <3>4, <3>5, PairingAssumption DEF Noted
    <3>7. Owes(front[f])'
      BY <3>2, <3>6 DEF Owes
    <3>8. QED
      BY <1>0, <3>1, <3>7, WholeWrites DEF Moves
  <2>3. QED
    BY <2>1, <2>2
<1>4. QED
  BY <1>2, <1>3

LEMMA SettlesWhole ==
    ASSUME FilesTyped, CommandsOK, CommandsOK', WorldsApart, Whole, NamesStand, NEW f \in Fronts,
           Settles(f)
    PROVE  Whole'
<1> DEFINE p == front[f]
           next == [p EXCEPT !.at = IF p.given # None THEN "free" ELSE "name"]
<1>1. /\ p \in Commanding /\ InOrder(p) /\ Owes(p) /\ Told(p) /\ record' = WithIds(p)
      /\ p.at = "settle"
  BY CommandTold DEF Whole, WorldsApart, Settles
<1>2. ASSUME NEW w \in Worlds \ LegacyWorlds, record'[w] # None
      PROVE  \/ Rec(w) /\ record'[w].id = record[w].id
             \/ \E id \in Ids : Noted(id) /\ record'[w].id = id
  <2>1. Rec(w)
    BY <1>1, <1>2, WithIdsStand
  <2>2. record[w].id # None
    BY <2>1 DEF Whole, Noted
  <2>3. \/ record'[w].id = record[w].id
        \/ p.op = "rename" /\ w = p.world /\ record'[w].id = p.id
    BY <1>1, <2>1, <2>2, WithIdsStand
  <2>4. CASE p.op = "rename" /\ w = p.world /\ record'[w].id = p.id
    <3>1. Noted(p.id)
      BY <1>1, <1>2, <2>4 DEF Owes
    <3>2. p.id \in Ids
      BY <1>1, <3>1 DEF Noted, Commanding
    <3>3. QED
      BY <2>4, <3>1, <3>2
  <2>5. QED
    BY <2>1, <2>3, <2>4
<1>3. Owes(front[f])'
  <2>1. CASE p.op = "adopt"
    <3>1. front'[f] = Ready
      BY <1>1, <2>1, GoesMoves DEF Settles, Ends, Moves
    <3>2. QED
      BY <3>1, ReadyOK DEF Owes
  <2>2. CASE p.op # "adopt"
    <3>1. Moves(f, next) /\ next.op = p.op /\ next.world = p.world /\ next.id = p.id
          /\ next.at \in {"free", "name"}
      BY <1>1, <2>2, GoesMoves DEF Settles, Commanding
    <3>2. front'[f] = next
      BY <3>1 DEF Moves
    <3> HIDE DEF next
    <3>3. PICK new : new = front'[f]
      OBVIOUS
    <3>4. Owes(new) /\ new \in Commanding /\ InOrder(new)
      BY <1>1, <3>1, <3>2, <3>3, CommandTold DEF Owes, CommandsOK, InOrder, Identified, Boards
    <3>5. Owes(new)'
      BY <3>4, OwesStays
    <3>6. QED
      BY <3>3, <3>5 DEF Owes, Noted
  <2>3. QED
    BY <2>1, <2>2
<1>4. \A g \in Fronts \ {f} : front'[g] = front[g]
  BY GoesMoves DEF Settles, Ends, Moves
<1>5. QED
  BY <1>2, <1>3, <1>4, WholeWrites

LEMMA WritesWhole ==
    ASSUME FilesTyped, CommandsOK, CommandsOK', Whole, NamesStand, NEW f \in Fronts,
           WritesRecord(f) \/ PutsRecord(f)
    PROVE  Whole'
<1> DEFINE p == front[f]
           written == [captain |-> p.captain, id |-> p.id, key |-> p.key, hull |-> p.hull]
<1>1. /\ p \in Commanding /\ InOrder(p) /\ Owes(p)
      /\ record' = [record EXCEPT ![p.world] = written] /\ Moves(f, Ready)
  BY CommandTold, GoesMoves DEF Whole, WritesRecord, PutsRecord, Ends
<1>2. p.world \notin LegacyWorlds => Noted(p.id)
  BY <1>1 DEF WritesRecord, PutsRecord, Owes, InOrder
<1>3. ASSUME NEW w \in Worlds \ LegacyWorlds, record'[w] # None
      PROVE  \/ Rec(w) /\ record'[w].id = record[w].id
             \/ \E id \in Ids : Noted(id) /\ record'[w].id = id
  <2>1. CASE w = p.world
    BY <1>1, <1>2, <1>3, <2>1 DEF FilesTyped, Noted, Commanding
  <2>2. CASE w # p.world
    BY <1>1, <1>3, <2>2 DEF FilesTyped, Rec
  <2>3. QED
    BY <2>1, <2>2
<1>4. Owes(front[f])'
  BY <1>1, ReadyOK DEF Moves, Owes
<1>5. QED
  BY <1>1, <1>3, <1>4, WholeWrites DEF Moves

LEMMA WholeStill ==
    ASSUME FilesTyped, CommandsOK, Whole, NamesStand, UNCHANGED <<record, front>>
    PROVE  Whole'
<1>1. ASSUME NEW w \in Worlds \ LegacyWorlds, record'[w] # None PROVE Noted(record[w].id)'
  <2>1. PICK id : id = record[w].id
    OBVIOUS
  <2>2. Noted(id) /\ id \in Ids
    BY <1>1, <2>1 DEF Whole, Noted, Rec, FilesTyped, Records
  <2>3. Noted(id)'
    BY <2>2, NotedStays
  <2>4. QED
    BY <2>1, <2>3 DEF Noted
<1>2. ASSUME NEW f \in Fronts PROVE Owes(front[f])'
  <2>1. PICK p : p = front[f]
    OBVIOUS
  <2>2. Owes(p)'
    BY <2>1, CommandTold, OwesStays DEF Whole
  <2>3. QED
    BY <2>1, <2>2 DEF Owes, Noted
<1>3. QED
  BY <1>1, <1>2 DEF Whole, Rec

LEMMA WholeKept ==
    ASSUME FilesTyped, CommandsOK, WorldsApart, Whole, [Next]_vars
    PROVE  Whole'
<1>1. NamesStand /\ CommandsOK'
  BY NamesKept, TypedKept
<1>2. CASE \E f \in Fronts : Gives(f)
  BY <1>1, <1>2, GivesWhole
<1>3. CASE \E f \in Fronts : GoesOn(f)
  BY <1>1, <1>3, GoesOnWhole, NamingWhole, SettlesWhole, WritesWhole DEF GoesOn
<1>4. CASE (\E c \in Captains : NamedElsewhere(c)) \/ (\E k \in Keys : HullNamedElsewhere(k))
  BY <1>1, <1>4, WholeStill DEF NamedElsewhere, HullNamedElsewhere, store
<1>5. CASE UNCHANGED vars
  BY <1>1, <1>5, WholeStill DEF vars, store
<1>6. QED
  BY <1>2, <1>3, <1>4, <1>5 DEF Next

-----------------------------------------------------------------------------
(* However commands overlap.                                                *)

PairInv == FilesTyped /\ CommandsOK /\ WorldsApart /\ Whole

LEMMA InitPair == Init => PairInv
<1> SUFFICES ASSUME Init PROVE PairInv
  OBVIOUS
<1>1. \A f \in Fronts : front[f] = Ready
  BY DEF Init
<1>2. \A f \in Fronts : ~Boards(front[f]) /\ Told(front[f]) /\ Owes(front[f])
  BY <1>1, ReadyOK, ReadyOwes DEF Boards, Told
<1>3. WorldsApart
  BY <1>2 DEF Init, WorldsApart
<1>4. Whole
  BY <1>2 DEF Init, Whole, Rec
<1>5. QED
  BY <1>3, <1>4, InitTyped DEF PairInv

LEMMA StepPair == PairInv /\ [Next]_vars => PairInv'
BY TypedKept, ApartKept, WholeKept DEF PairInv

\* At every step of every behaviour.
THEOREM PairInvariance == Spec => []PairInv
BY InitPair, StepPair, PTL DEF Spec

\* The registry's files, the exchange's side of the names, and every command under way hold
\* what they are declared to hold.
THEOREM TypeCorrect == Spec => []TypeOK
<1>1. PairInv => TypeOK
  BY TypesTell DEF PairInv
<1>2. QED
  BY <1>1, PairInvariance, PTL

\* A hull a captain unpaired is never flown again: its key is gone, its record keeps its
\* world from being paired into anew, and a register saved late brings back the world alone.
THEOREM UnpairedStays == Spec => []Revoked
<1>1. PairInv => Revoked
  BY DEF PairInv, WorldsApart, Revoked, PairedShips, Paired
<1>2. QED
  BY <1>1, PairInvariance, PTL

\* Whatever command was cut short, and wherever, a ship the supervisor would fly has an
\* identity, a computer that answers, and both names in the ledger.
THEOREM WholeOrNotAtAll == Spec => []PairedIsWhole
<1>1. PairInv => PairedIsWhole
  <2> SUFFICES ASSUME PairInv, NEW w \in PairedShips \ LegacyWorlds
               PROVE  /\ record[w].id # None /\ computer[record[w].id] # None
                      /\ \E e \in ledger : e.kind = "captain" /\ e.holder = record[w].id
                      /\ \E e \in ledger : e.kind = "computer" /\ e.holder = record[w].id
    BY DEF PairedIsWhole
  <2>1. w \in Worlds /\ Rec(w)
    BY PairedHasRecord DEF PairInv, Rec
  <2>2. Noted(record[w].id)
    BY <2>1 DEF PairInv, Whole
  <2>3. QED
    BY <2>2 DEF Noted
<1>2. QED
  BY <1>1, PairInvariance, PTL

-----------------------------------------------------------------------------
(* Commands one after another.                                              *)

\* The captain's ships, flown or not, that bear an identity.
Of(c) == {w \in Worlds : Rec(w) /\ record[w].captain = c /\ record[w].id # None}

\* A captain's ships bear one identity, and when any does every ship that flies does; a
\* ship with a record is in the register.
IdsAgree ==
    /\ \A v, w \in Worlds :
          Rec(v) /\ Rec(w) /\ record[v].captain = record[w].captain /\ record[v].id # None =>
             record[w].id \in {None, record[v].id} /\ (Paired(w) => record[w].id # None)
    /\ \A w \in Worlds : Rec(w) => register[w] # "none"

Alone == \A f, g \in Fronts : front[f].at # "idle" /\ front[g].at # "idle" => f = g

\* The key being paired is still no ship's.
KeyHeld(p) == p.op = "pair" => \A w \in PairedShips : record[w].key # p.key

\* The register is still as it was loaded, but for the one change.
CopyFresh(p) ==
    p.at = "save" =>
       p.copy = IF p.op = "label" THEN register
                ELSE [register EXCEPT ![p.world] =
                         IF p.op = "pair" THEN "commissioned" ELSE "decommissioned"]

Commissioned(p) == p.at \in {"board", "record"} => register[p.world] = "commissioned"

\* Every identity a ship of the captain's bears is among those found, and then the one
\* that was settled on.
FoundAll(p) ==
    /\ p.at = "identity" => \A w \in Of(p.captain) : record[w].id \in p.found \cup ({p.id} \ {None})
    /\ Identified(p) => \A w \in Of(p.captain) : record[w].id = p.id

\* No ship of the captain's that flies is left without an identity.
AllAdopted(p) ==
    p.op = "pair" /\ p.at \notin {"identity", "settle"} =>
       \A w \in PairedShips : record[w].captain = p.captain => record[w].id # None

ShipHeld(p) ==
    /\ p.op = "rename" /\ p.at \in {"identity", "settle"} => Paired(p.world)
    /\ p.op = "hull" => record[p.world].id = p.id

\* The name being given is still in nobody else's line of the ledger.
NameHeld(p) ==
    p.at \in {"name", "note"} /\ p.given \notin {None, Root} =>
       \A e \in ledger : e.kind = "computer" /\ e.name = p.given => e.holder = p.id

\* What a command read it may still rely on.
Sure(p) ==
    /\ KeyHeld(p) /\ CopyFresh(p) /\ Commissioned(p) /\ FoundAll(p) /\ AllAdopted(p)
    /\ ShipHeld(p) /\ NameHeld(p)

FilesAgree == IdsAgree /\ OneKeyOneHull /\ OneBearer

InTurn == FilesAgree /\ Alone /\ \A f \in Fronts : front[f].at # "idle" => Sure(front[f])

Ordered == overlapped \/ InTurn

LEMMA OneIsOne == IdsAgree /\ FilesTyped => OneIdentity
<1> SUFFICES ASSUME IdsAgree, FilesTyped, NEW c \in Captains
             PROVE  Cardinality(IdsAmong({w \in Worlds : Rec(w) /\ record[w].captain = c})) <= 1
  BY DEF OneIdentity, Rec
<1> DEFINE ids == IdsAmong({w \in Worlds : Rec(w) /\ record[w].captain = c})
<1>1. \A i, j \in ids : i = j
  BY DEF IdsAmong, IdsAgree
<1>2. CASE ids = {}
  BY <1>2, FS_EmptySet
<1>3. CASE ids # {}
  <2>1. PICK i : i \in ids
    BY <1>3
  <2> HIDE DEF ids
  <2>2. ids = {i}
    BY <1>1, <2>1
  <2>3. Cardinality(ids) = 1
    BY <2>2, FS_Singleton
  <2>4. Cardinality(ids) <= 1
    BY <2>3
  <2>5. QED
    BY <2>4 DEF ids
<1>4. QED
  BY <1>2, <1>3

LEMMA SureStays ==
    ASSUME UNCHANGED <<register, record, keyed, ledger>>, NEW p, Sure(p)
    PROVE  Sure(p)'
<1>1. PairedShips' = PairedShips /\ \A w \in Worlds : Paired(w)' = Paired(w)
  BY DEF PairedShips, Paired
<1>2. \A c : Of(c)' = Of(c)
  BY DEF Of, Rec
<1>3. KeyHeld(p)' /\ CopyFresh(p)' /\ Commissioned(p)' /\ AllAdopted(p)'
  BY <1>1 DEF Sure, KeyHeld, CopyFresh, Commissioned, AllAdopted
<1>4. FoundAll(p)'
  BY <1>2 DEF Sure, FoundAll, Identified
<1>5. ShipHeld(p)' /\ NameHeld(p)'
  BY DEF Sure, ShipHeld, NameHeld, Paired
<1>6. QED
  BY <1>3, <1>4, <1>5 DEF Sure

LEMMA FilesAgreeStill ==
    ASSUME UNCHANGED <<register, record, keyed, ledger>>, FilesAgree
    PROVE  FilesAgree'
BY DEF FilesAgree, IdsAgree, Rec, Paired, OneKeyOneHull, PairedShips, OneBearer

\* The one command under way moves on, and is sure of what it goes on with.
LEMMA TurnMoves ==
    ASSUME FilesAgree', NEW f \in Fronts,
           \A g \in Fronts \ {f} : front'[g] = front[g] /\ front[g].at = "idle",
           front'[f].at # "idle" => Sure(front[f])'
    PROVE  InTurn'
<1>1. \A g \in Fronts : front'[g].at # "idle" => g = f
  OBVIOUS
<1>2. Alone'
  BY <1>1 DEF Alone
<1>3. ASSUME NEW g \in Fronts, front'[g].at # "idle" PROVE Sure(front[g])'
  <2>1. g = f
    BY <1>1, <1>3
  <2>2. QED
    BY <1>3, <2>1
<1>4. QED
  BY <1>2, <1>3 DEF InTurn

\* It moves on without touching register, records, keys or ledger.
LEMMA TurnQuiet ==
    ASSUME CommandsOK, FilesAgree, UNCHANGED <<register, record, keyed, ledger>>,
           NEW f \in Fronts, NEW new, Moves(f, new),
           \A g \in Fronts \ {f} : front[g].at = "idle",
           new.at # "idle" => Sure(new)
    PROVE  InTurn'
<1>1. FilesAgree'
  BY FilesAgreeStill
<1>2. front'[f] = new /\ \A g \in Fronts \ {f} : front'[g] = front[g]
  BY DEF Moves
<1>3. ASSUME front'[f].at # "idle" PROVE Sure(front[f])'
  <2>1. Sure(new)'
    BY <1>2, <1>3, SureStays
  <2>2. QED
    BY <1>2, <2>1 DEF Sure, KeyHeld, CopyFresh, Commissioned, FoundAll, AllAdopted, ShipHeld,
                      NameHeld, Of, Rec, Identified, PairedShips, Paired
<1>4. QED
  BY <1>1, <1>2, <1>3, TurnMoves

\* A command that begins alone begins with every other front end idle.
LEMMA BeginsAlone ==
    ASSUME CommandsOK, overlapped \in BOOLEAN, Ordered, NEW f \in Fronts, NEW new,
           Begins(f, new), ~overlapped'
    PROVE  /\ ~overlapped /\ InTurn /\ Moves(f, new)
           /\ \A g \in Fronts : front[g].at = "idle"
<1>1. ~overlapped /\ \A g \in Fronts : front[g].at = "idle"
  BY DEF Begins
<1>2. Moves(f, new)
  BY GoesMoves DEF Begins
<1>3. QED
  BY <1>1, <1>2 DEF Ordered

LEMMA GivesOrdered ==
    ASSUME FilesTyped, CommandsOK, Ordered, NEW f \in Fronts,
           Pairs(f) \/ Renames(f) \/ AdoptsIds(f) \/ Relabels(f) \/ RenamesHull(f)
    PROVE  Ordered'
<1>0. UNCHANGED <<register, record, keyed, ledger>> /\ overlapped \in BOOLEAN
  BY DEF Pairs, Renames, AdoptsIds, Relabels, RenamesHull, store, FilesTyped
<1>1. Ready \in Commanding
  BY ReadyOK
<1>2. ASSUME NEW new, Begins(f, new), ~overlapped', Sure(new) PROVE InTurn'
  <2>1. InTurn /\ Moves(f, new) /\ \A g \in Fronts : front[g].at = "idle"
    BY <1>0, <1>2, BeginsAlone
  <2>2. QED
    BY <1>0, <1>2, <2>1, TurnQuiet DEF InTurn
<1> SUFFICES ASSUME ~overlapped' PROVE InTurn'
  BY DEF Ordered
<1>3. FilesAgree
  BY <1>0, BeginsAlone DEF Pairs, Renames, AdoptsIds, Relabels, RenamesHull, InTurn
<1>4. CASE Pairs(f)
  <2>1. PICK k, given, known, clash :
           /\ k \in Keys
           /\ Begins(f, [Ready EXCEPT !.op = "pair", !.at = "identity", !.key = k,
                             !.captain = CaptainOf[k], !.id = known, !.given = given,
                             !.hull = hullName[k], !.found = IdsAmong(Siblings(CaptainOf[k])),
                             !.clash = clash])
           /\ KeyFree(k)
    BY <1>4 DEF Pairs
  <2> DEFINE new == [Ready EXCEPT !.op = "pair", !.at = "identity", !.key = k,
                           !.captain = CaptainOf[k], !.id = known, !.given = given,
                           !.hull = hullName[k], !.found = IdsAmong(Siblings(CaptainOf[k])),
                           !.clash = clash]
  <2>2. /\ new.op = "pair" /\ new.at = "identity" /\ new.key = k /\ new.captain = CaptainOf[k]
        /\ new.found = IdsAmong(Siblings(CaptainOf[k])) /\ Begins(f, new)
    BY <1>1, <2>1 DEF Commanding
  <2> HIDE DEF new
  <2>3. \A w \in Of(new.captain) : record[w].id \in new.found
    BY <1>3, <2>2 DEF Of, Rec, FilesAgree, IdsAgree, Siblings, Retired, IdsAmong
  <2>4. KeyHeld(new)
    BY <2>1, <2>2 DEF KeyHeld, KeyFree
  <2>5. Sure(new)
    BY <2>2, <2>3, <2>4 DEF Sure, CopyFresh, Commissioned, FoundAll, Identified, AllAdopted,
                            ShipHeld, NameHeld
  <2>6. QED
    BY <1>2, <2>2, <2>5
<1>5. CASE Renames(f)
  <2>1. PICK w, given, clash :
           w \in PairedShips /\ Begins(f, [Ready EXCEPT !.op = "rename", !.at = "identity", !.world = w,
                           !.key = record[w].key, !.captain = record[w].captain,
                           !.id = record[w].id, !.given = given, !.hull = record[w].hull,
                           !.clash = clash,
                           !.found = IdsAmong({v \in PairedShips : record[v].captain = record[w].captain})])
    BY <1>5 DEF Renames
  <2> DEFINE new == [Ready EXCEPT !.op = "rename", !.at = "identity", !.world = w,
                           !.key = record[w].key, !.captain = record[w].captain,
                           !.id = record[w].id, !.given = given, !.hull = record[w].hull,
                           !.clash = clash,
                           !.found = IdsAmong({v \in PairedShips : record[v].captain = record[w].captain})]
  <2>2. /\ new.op = "rename" /\ new.at = "identity" /\ new.world = w
        /\ new.captain = record[w].captain /\ new.id = record[w].id /\ Begins(f, new)
    BY <1>1, <2>1 DEF Commanding
  <2> HIDE DEF new
  <2>3. w \in Worlds /\ Rec(w) /\ Paired(w)
    BY <2>1, PairedHasRecord DEF Rec, PairedShips
  <2>4. \A v \in Of(new.captain) : record[v].id \in {new.id} \ {None}
    BY <1>3, <2>2, <2>3 DEF Of, Rec, FilesAgree, IdsAgree
  <2>5. Sure(new)
    BY <2>2, <2>3, <2>4 DEF Sure, KeyHeld, CopyFresh, Commissioned, FoundAll, Identified,
                            AllAdopted, ShipHeld, NameHeld
  <2>6. QED
    BY <1>2, <2>2, <2>5
<1>6. CASE AdoptsIds(f)
  <2>1. PICK w, found, clash :
           /\ w \in PairedShips
           /\ record[w].id = None
           /\ Begins(f, [Ready EXCEPT !.op = "adopt", !.at = "identity",
                             !.captain = record[w].captain, !.clash = clash, !.found = found])
    BY <1>6 DEF AdoptsIds
  <2> DEFINE new == [Ready EXCEPT !.op = "adopt", !.at = "identity",
                             !.captain = record[w].captain, !.clash = clash, !.found = found]
  <2>2. new.op = "adopt" /\ new.at = "identity" /\ new.captain = record[w].captain /\ Begins(f, new)
    BY <1>1, <2>1 DEF Commanding
  <2> HIDE DEF new
  <2>3. w \in Worlds /\ Rec(w) /\ Paired(w)
    BY <2>1, PairedHasRecord DEF Rec, PairedShips
  <2>4. Of(new.captain) = {}
    BY <1>3, <2>1, <2>2, <2>3 DEF Of, Rec, FilesAgree, IdsAgree
  <2>5. Sure(new)
    BY <2>2, <2>4 DEF Sure, KeyHeld, CopyFresh, Commissioned, FoundAll, Identified, AllAdopted,
                      ShipHeld, NameHeld
  <2>6. QED
    BY <1>2, <2>2, <2>5
<1>7. CASE Relabels(f)
  <2> DEFINE new == [Ready EXCEPT !.op = "label", !.at = "save", !.copy = register]
  <2>1. new.op = "label" /\ new.at = "save" /\ new.copy = register /\ Begins(f, new)
    BY <1>1, <1>7 DEF Commanding, Relabels
  <2> HIDE DEF new
  <2>2. Sure(new)
    BY <2>1 DEF Sure, KeyHeld, CopyFresh, Commissioned, FoundAll, Identified, AllAdopted,
                ShipHeld, NameHeld
  <2>3. QED
    BY <1>2, <2>1, <2>2
<1>8. CASE RenamesHull(f)
  <2>1. PICK w, h :
           w \in PairedShips /\ Begins(f, [Ready EXCEPT !.op = "hull", !.at = "put", !.world = w,
                           !.key = record[w].key, !.captain = record[w].captain,
                           !.id = record[w].id, !.hull = h])
    BY <1>8 DEF RenamesHull
  <2> DEFINE new == [Ready EXCEPT !.op = "hull", !.at = "put", !.world = w, !.key = record[w].key,
                           !.captain = record[w].captain, !.id = record[w].id, !.hull = h]
  <2>2. /\ new.op = "hull" /\ new.at = "put" /\ new.world = w /\ new.id = record[w].id
        /\ Begins(f, new)
    BY <1>1, <2>1 DEF Commanding
  <2> HIDE DEF new
  <2>3. Sure(new)
    BY <2>2 DEF Sure, KeyHeld, CopyFresh, Commissioned, FoundAll, Identified, AllAdopted,
                ShipHeld, NameHeld
  <2>4. QED
    BY <1>2, <2>2, <2>3
<1>9. QED
  BY <1>4, <1>5, <1>6, <1>7, <1>8

\* Fewer ships fly, no record changes, and no line gives a computer a name.
LEMMA FewerAgree ==
    ASSUME FilesAgree, UNCHANGED record, \A w \in Worlds : Paired(w)' => Paired(w),
           \A w \in Worlds : Rec(w) => register'[w] # "none",
           \A e \in ledger' : e \in ledger \/ e.act # "named"
    PROVE  FilesAgree'
<1>1. IdsAgree'
  BY DEF FilesAgree, IdsAgree, Rec
<1>2. OneKeyOneHull'
  BY DEF FilesAgree, OneKeyOneHull, PairedShips
<1>3. OneBearer'
  BY DEF FilesAgree, OneBearer
<1>4. QED
  BY <1>1, <1>2, <1>3 DEF FilesAgree

LEMMA UnpairsOrdered ==
    ASSUME FilesTyped, CommandsOK, Ordered, NEW f \in Fronts, Unpairs(f)
    PROVE  Ordered'
<1> SUFFICES ASSUME ~overlapped' PROVE InTurn'
  BY DEF Ordered
<1>1. PICK w \in PairedShips :
         /\ Begins(f, [Ready EXCEPT !.op = "unpair", !.at = "end", !.world = w])
         /\ keyed' = keyed \ {w} /\ UNCHANGED <<register, record, ledger>>
  BY DEF Unpairs
<1> DEFINE new == [Ready EXCEPT !.op = "unpair", !.at = "end", !.world = w]
<1>2. new.op = "unpair" /\ new.at = "end"
  BY ReadyOK DEF Commanding
<1>3. InTurn /\ Moves(f, new) /\ \A g \in Fronts : front[g].at = "idle"
  BY <1>1, BeginsAlone DEF FilesTyped
<1> HIDE DEF new
<1>4. FilesAgree'
  BY <1>1, <1>3, FewerAgree DEF InTurn, FilesAgree, IdsAgree, Rec, Paired
<1>5. front'[f].op = "unpair" /\ front'[f].at = "end"
  BY <1>2, <1>3 DEF Moves
<1>6. Sure(front[f])'
  BY <1>5 DEF Sure, KeyHeld, CopyFresh, Commissioned, FoundAll, Identified, AllAdopted, ShipHeld,
              NameHeld
<1>7. QED
  BY <1>3, <1>4, <1>6, TurnMoves DEF Moves

LEMMA FollowsOrdered ==
    ASSUME FilesTyped, CommandsOK, Ordered, NEW f \in Fronts, FollowsWorld(f)
    PROVE  Ordered'
<1> SUFFICES ASSUME ~overlapped' PROVE InTurn'
  BY DEF Ordered
<1>1. PICK w \in PairedShips : FollowsFor(f, w)
  BY DEF FollowsWorld, FollowsFor
<1> DEFINE new == [Ready EXCEPT !.op = "hull", !.at = "put", !.world = w, !.key = record[w].key,
                         !.captain = record[w].captain, !.id = record[w].id,
                         !.hull = hullName[record[w].key]]
<1>2. new.op = "hull" /\ new.at = "put" /\ new.world = w /\ new.id = record[w].id
  BY ReadyOK DEF Commanding
<1>3. UNCHANGED <<register, record, keyed>> /\ (Begins(f, new) \/ Begins(f, Ready))
  BY <1>1 DEF FollowsFor
<1> HIDE DEF new
<1>4. /\ InTurn
      /\ Moves(f, new) \/ Moves(f, Ready)
      /\ \A g \in Fronts : front[g].at = "idle"
  <2>1. overlapped \in BOOLEAN
    BY DEF FilesTyped
  <2>2. CASE Begins(f, new)
    BY <2>1, <2>2, BeginsAlone
  <2>3. CASE Begins(f, Ready)
    BY <2>1, <2>3, BeginsAlone
  <2>4. QED
    BY <1>3, <2>2, <2>3
<1>5. \A e \in ledger' : e \in ledger \/ e.act # "named"
  BY <1>1 DEF FollowsFor
<1>6. FilesAgree'
  BY <1>3, <1>4, <1>5, FewerAgree DEF InTurn, FilesAgree, IdsAgree, Rec, Paired
<1>7. front'[f].at # "idle" => Sure(front[f])'
  <2>1. CASE Moves(f, Ready)
    BY <2>1, ReadyOK DEF Moves
  <2>2. CASE Moves(f, new)
    <3>1. /\ front'[f].op = "hull" /\ front'[f].at = "put"
          /\ record'[front'[f].world].id = front'[f].id
      BY <1>2, <1>3, <2>2 DEF Moves
    <3>2. QED
      BY <3>1 DEF Sure, KeyHeld, CopyFresh, Commissioned, FoundAll, Identified, AllAdopted,
                  ShipHeld, NameHeld
  <2>3. QED
    BY <1>4, <2>1, <2>2
<1>8. QED
  BY <1>4, <1>6, <1>7, TurnMoves DEF Moves

\* A command that goes on alone has every other front end idle.
LEMMA GoesOnAlone ==
    ASSUME InTurn, NEW f \in Fronts, front[f].at # "idle"
    PROVE  /\ Sure(front[f]) /\ FilesAgree
           /\ \A g \in Fronts \ {f} : front[g].at = "idle"
BY DEF InTurn, Alone

\* A command that goes on, touching neither register, records, keys nor ledger.
LEMMA GoesOnOrdered ==
    ASSUME FilesTyped, CommandsOK, Ordered, NEW f \in Fronts,
           \/ EnsuresId(f) \/ ChecksName(f) \/ NamesComputer(f) \/ Commissions(f)
           \/ Decommissions(f) \/ Dies(f)
    PROVE  Ordered'
<1> DEFINE p == front[f]
<1>0. UNCHANGED <<register, record, keyed, ledger, overlapped>> /\ p.at # "idle"
  BY DEF EnsuresId, ChecksName, NamesComputer, Commissions, Decommissions, Dies, Same, store
<1> SUFFICES ASSUME ~overlapped PROVE InTurn'
  BY <1>0 DEF Ordered
<1>1. /\ InTurn /\ p \in Commanding /\ InOrder(p) /\ Sure(p) /\ FilesAgree
      /\ \A g \in Fronts \ {f} : front[g].at = "idle"
  BY <1>0, CommandTold, GoesOnAlone DEF Ordered
<1>2. ASSUME NEW new, Goes(f, new), new.at # "idle" => Sure(new) PROVE InTurn'
  BY <1>0, <1>1, <1>2, GoesMoves, TurnQuiet
<1>3. CASE Ends(f)
  BY <1>2, <1>3, ReadyOK DEF Ends
<1>4. CASE EnsuresId(f) /\ ~Ends(f)
  <2>1. PICK id \in Ids :
           /\ Goes(f, [p EXCEPT !.at = "settle", !.id = id, !.found = {}])
           /\ \A i \in p.found \cup ({p.id} \ {None}) : i = id
    BY <1>4, EnsuresSame
  <2> DEFINE new == [p EXCEPT !.at = "settle", !.id = id, !.found = {}]
  <2>2. /\ new.op = p.op /\ new.world = p.world /\ new.at = "settle" /\ new.id = id
        /\ new.key = p.key /\ new.captain = p.captain /\ Goes(f, new)
    BY <1>1, <2>1 DEF Commanding
  <2>3. p.at = "identity" /\ p.op \in {"pair", "rename", "adopt"}
    BY <1>1, <1>4 DEF EnsuresId, InOrder
  <2> HIDE DEF new
  <2>4. FoundAll(new)
    BY <1>1, <2>1, <2>2, <2>3 DEF Sure, FoundAll, Identified
  <2>5. KeyHeld(new) /\ ShipHeld(new)
    BY <1>1, <2>2, <2>3 DEF Sure, KeyHeld, ShipHeld
  <2>6. Sure(new)
    BY <2>2, <2>4, <2>5 DEF Sure, CopyFresh, Commissioned, AllAdopted, NameHeld
  <2>7. QED
    BY <1>2, <2>2, <2>6
<1>5. CASE ChecksName(f) /\ ~Ends(f)
  <2> DEFINE new == [p EXCEPT !.at = "name"]
  <2>1. /\ new.op = p.op /\ new.world = p.world /\ new.at = "name" /\ new.id = p.id
        /\ new.key = p.key /\ new.captain = p.captain /\ new.given = p.given
        /\ p.at = "free" /\ ComputerNameFree(p.given, p.captain, p.id) /\ Goes(f, new)
    BY <1>1, <1>5 DEF Commanding, ChecksName
  <2>2. p.op \in {"pair", "rename"}
    BY <1>1, <2>1 DEF InOrder
  <2> HIDE DEF new
  <2>3. NameHeld(new)
    BY <2>1 DEF NameHeld, ComputerNameFree
  <2>4. FoundAll(new)
    BY <1>1, <2>1, <2>2 DEF Sure, FoundAll, Identified
  <2>5. KeyHeld(new) /\ AllAdopted(new)
    BY <1>1, <2>1 DEF Sure, KeyHeld, AllAdopted
  <2>6. Sure(new)
    BY <2>1, <2>2, <2>3, <2>4, <2>5 DEF Sure, CopyFresh, Commissioned, ShipHeld
  <2>7. QED
    BY <1>2, <2>1, <2>6
<1>6. CASE NamesComputer(f)
  <2> DEFINE new == [p EXCEPT !.at = "note"]
  <2>1. /\ new.op = p.op /\ new.world = p.world /\ new.at = "note" /\ new.id = p.id
        /\ new.key = p.key /\ new.captain = p.captain /\ new.given = p.given
        /\ p.at = "name" /\ Goes(f, new)
    BY <1>1, <1>6 DEF Commanding, NamesComputer
  <2>2. p.op \in {"pair", "rename"}
    BY <1>1, <2>1 DEF InOrder
  <2> HIDE DEF new
  <2>3. NameHeld(new)
    BY <1>1, <2>1 DEF Sure, NameHeld
  <2>4. FoundAll(new)
    BY <1>1, <2>1, <2>2 DEF Sure, FoundAll, Identified
  <2>5. KeyHeld(new) /\ AllAdopted(new)
    BY <1>1, <2>1 DEF Sure, KeyHeld, AllAdopted
  <2>6. Sure(new)
    BY <2>1, <2>2, <2>3, <2>4, <2>5 DEF Sure, CopyFresh, Commissioned, ShipHeld
  <2>7. QED
    BY <1>2, <2>1, <2>6
<1>7. CASE Commissions(f)
  <2>1. PICK w : Goes(f, [p EXCEPT !.at = "save", !.world = w,
                                  !.copy = [register EXCEPT ![w] = "commissioned"]])
    BY <1>7 DEF Commissions
  <2> DEFINE new == [p EXCEPT !.at = "save", !.world = w, !.copy = [register EXCEPT ![w] = "commissioned"]]
  <2>2. /\ new.op = "pair" /\ p.op = "pair" /\ new.world = w /\ new.at = "save" /\ new.id = p.id
        /\ new.key = p.key /\ new.captain = p.captain /\ p.at = "commission"
        /\ new.copy = [register EXCEPT ![w] = "commissioned"] /\ Goes(f, new)
    BY <1>1, <1>7, <2>1 DEF Commanding, Commissions, InOrder
  <2> HIDE DEF new
  <2>3. FoundAll(new)
    BY <1>1, <2>2 DEF Sure, FoundAll, Identified
  <2>4. KeyHeld(new) /\ AllAdopted(new)
    BY <1>1, <2>2 DEF Sure, KeyHeld, AllAdopted
  <2>5. CopyFresh(new)
    BY <2>2 DEF CopyFresh
  <2>6. Sure(new)
    BY <2>2, <2>3, <2>4, <2>5 DEF Sure, Commissioned, ShipHeld, NameHeld
  <2>7. QED
    BY <1>2, <2>2, <2>6
<1>8. CASE Decommissions(f) /\ ~Ends(f)
  <2> DEFINE new == [p EXCEPT !.at = "save", !.copy = [register EXCEPT ![p.world] = "decommissioned"]]
  <2>1. /\ new.op = "unpair" /\ new.world = p.world /\ new.at = "save"
        /\ new.copy = [register EXCEPT ![p.world] = "decommissioned"] /\ Goes(f, new)
    BY <1>1, <1>8 DEF Commanding, Decommissions, InOrder
  <2> HIDE DEF new
  <2>2. CopyFresh(new)
    BY <2>1 DEF CopyFresh
  <2>3. Sure(new)
    BY <2>1, <2>2 DEF Sure, KeyHeld, Commissioned, FoundAll, Identified, AllAdopted, ShipHeld,
                      NameHeld
  <2>4. QED
    BY <1>2, <2>1, <2>3
<1>9. Dies(f) => Ends(f)
  BY DEF Dies
<1>10. QED
  BY <1>3, <1>4, <1>5, <1>6, <1>7, <1>8, <1>9

\* While no record changes and no more ships fly, what was found stays so.
LEMMA SureFewer ==
    ASSUME UNCHANGED record, \A w \in Worlds : Paired(w)' => Paired(w), NEW p,
           KeyHeld(p), FoundAll(p), AllAdopted(p)
    PROVE  KeyHeld(p)' /\ FoundAll(p)' /\ AllAdopted(p)'
<1>1. PairedShips' \subseteq PairedShips
  BY DEF PairedShips
<1>2. \A c : Of(c)' = Of(c)
  BY DEF Of, Rec
<1>3. QED
  BY <1>1, <1>2 DEF KeyHeld, FoundAll, AllAdopted, Identified

\* An identity that is settled on reaches every ship of the captain's that flies.
LEMMA WithIdsAdopts ==
    ASSUME FilesTyped, NEW p \in Commanding, p.id # None, NEW w \in Worlds, Paired(w),
           record[w].captain = p.captain
    PROVE  WithIds(p)[w].id # None
<1>1. CASE p.op = "rename" /\ w = p.world
  BY <1>1 DEF WithIds
<1>2. CASE ~(p.op = "rename" /\ w = p.world)
  <2>1. record[w] \in Records
    BY DEF Paired, FilesTyped
  <2>2. CASE record[w].id = None
    <3>1. WithIds(p)[w] = [record[w] EXCEPT !.id = p.id]
      BY <1>2, <2>2 DEF WithIds
    <3>2. QED
      BY <2>1, <3>1 DEF Records
  <2>3. CASE record[w].id # None
    BY <1>2, <2>3 DEF WithIds
  <2>4. QED
    BY <2>2, <2>3
<1>3. QED
  BY <1>1, <1>2

LEMMA SettlesOrdered ==
    ASSUME FilesTyped, CommandsOK, WorldsApart, Ordered, NEW f \in Fronts, Settles(f)
    PROVE  Ordered'
<1> DEFINE p == front[f]
           next == [p EXCEPT !.at = IF p.given # None THEN "free" ELSE "name"]
<1>0. UNCHANGED <<register, keyed, ledger, overlapped>> /\ p.at = "settle" /\ record' = WithIds(p)
  BY DEF Settles, Same
<1> SUFFICES ASSUME ~overlapped PROVE InTurn'
  BY <1>0 DEF Ordered
<1>1. /\ InTurn /\ p \in Commanding /\ InOrder(p) /\ Sure(p) /\ FilesAgree /\ Told(p)
      /\ \A g \in Fronts \ {f} : front[g].at = "idle"
  BY <1>0, CommandTold, GoesOnAlone DEF Ordered, WorldsApart
<1>2. /\ p.op \in {"pair", "rename", "adopt"} /\ Identified(p) /\ p.id \in Ids /\ p.id # None
      /\ p.captain \in Captains
  BY <1>0, <1>1, PairingAssumption DEF InOrder, Identified
<1>3. \A w \in Worlds :
         /\ Rec(w) => record'[w] # None /\ record'[w].key = record[w].key
                      /\ record'[w].captain = record[w].captain
         /\ ~Rec(w) => record'[w] = None
  BY <1>0, <1>1, WithIdsStand
<1>4. \A w \in Worlds : Rec(w) /\ record[w].captain # p.captain => record'[w].id = record[w].id
  BY <1>0, <1>1, WithIdsStand DEF Told
<1>5. \A w \in Worlds : Rec(w) /\ record[w].captain = p.captain => record'[w].id \in {None, p.id}
  <2>1. ASSUME NEW w \in Worlds, Rec(w), record[w].captain = p.captain
        PROVE  record'[w].id \in {None, p.id}
    <3>1. record[w].id \in {None, p.id}
      BY <1>1, <1>2, <2>1 DEF Sure, FoundAll, Of
    <3>2. record'[w].id = record[w].id \/ record'[w].id = p.id
      BY <1>0, <1>1, <2>1, WithIdsStand
    <3>3. QED
      BY <3>1, <3>2
  <2>2. QED
    BY <2>1
<1>6. \A w \in Worlds : Paired(w)' <=> Paired(w)
  BY <1>0, <1>3 DEF Paired, Rec
<1>7. \A w \in Worlds : Paired(w) /\ record[w].captain = p.captain => record'[w].id # None
  BY <1>0, <1>1, <1>2, WithIdsAdopts
<1>8. IdsAgree'
  <2>1. ASSUME NEW v \in Worlds, NEW w \in Worlds, record'[v] # None, record'[w] # None,
               record'[v].captain = record'[w].captain, record'[v].id # None
        PROVE  record'[w].id \in {None, record'[v].id} /\ (Paired(w)' => record'[w].id # None)
    <3>1. Rec(v) /\ Rec(w) /\ record[v].captain = record[w].captain
      BY <1>3, <2>1
    <3>2. CASE record[v].captain = p.captain
      BY <1>5, <1>6, <1>7, <2>1, <3>1, <3>2
    <3>3. CASE record[v].captain # p.captain
      BY <1>1, <1>4, <1>6, <2>1, <3>1, <3>3 DEF FilesAgree, IdsAgree
    <3>4. QED
      BY <3>2, <3>3
  <2>2. \A w \in Worlds : record'[w] # None => register'[w] # "none"
    BY <1>0, <1>1, <1>3 DEF FilesAgree, IdsAgree
  <2>3. QED
    BY <2>1, <2>2 DEF IdsAgree, Rec
<1>9. PairedShips' = PairedShips /\ \A w \in PairedShips : w \in Worlds /\ Rec(w) /\ Paired(w)
  BY <1>6, PairedHasRecord DEF PairedShips, Rec
<1>10. OneKeyOneHull' /\ OneBearer'
  BY <1>0, <1>1, <1>3, <1>9 DEF FilesAgree, OneKeyOneHull, OneBearer
<1>11. FilesAgree'
  BY <1>8, <1>10 DEF FilesAgree
<1>12. CASE p.op = "adopt"
  <2>1. Moves(f, Ready)
    BY <1>12, GoesMoves DEF Settles, Ends
  <2>2. QED
    BY <1>1, <1>11, <2>1, TurnMoves, ReadyOK DEF Moves
<1>13. CASE p.op # "adopt"
  <2>1. /\ Moves(f, next) /\ next.op = p.op /\ next.world = p.world /\ next.id = p.id
        /\ next.key = p.key /\ next.captain = p.captain /\ next.given = p.given
        /\ next.at \in {"free", "name"} /\ (next.at = "name" => p.given = None)
    BY <1>1, <1>13, GoesMoves DEF Settles, Commanding
  <2> HIDE DEF next
  <2>2. PICK new : new = front'[f]
    OBVIOUS
  <2>3. /\ new.op = p.op /\ new.id = p.id /\ new.key = p.key /\ new.captain = p.captain
        /\ new.at \in {"free", "name"} /\ (new.at = "name" => new.given = None)
    BY <2>1, <2>2 DEF Moves
  <2>4. KeyHeld(new)'
    BY <1>1, <1>3, <1>9, <2>3 DEF Sure, KeyHeld
  <2>5. FoundAll(new)'
    BY <1>3, <1>5, <2>3 DEF FoundAll, Of, Rec
  <2>6. AllAdopted(new)'
    BY <1>3, <1>7, <1>9, <2>3 DEF AllAdopted
  <2>7. Sure(new)'
    BY <1>2, <2>3, <2>4, <2>5, <2>6 DEF Sure, CopyFresh, Commissioned, ShipHeld, NameHeld
  <2>8. Sure(front[f])'
    BY <2>2, <2>7 DEF Sure, KeyHeld, CopyFresh, Commissioned, FoundAll, AllAdopted, ShipHeld,
                      NameHeld, Of, Rec, Identified, PairedShips, Paired
  <2>9. QED
    BY <1>1, <1>11, <2>1, <2>8, TurnMoves DEF Moves
<1>14. QED
  BY <1>12, <1>13

LEMMA NotesOrdered ==
    ASSUME FilesTyped, CommandsOK, Ordered, NEW f \in Fronts, NotesNames(f)
    PROVE  Ordered'
<1> DEFINE p == front[f]
           named == [kind |-> "computer", name |-> Wears(p), holder |-> p.id,
                     act |-> IF p.given # None THEN "named" ELSE "joined"]
           paired == [kind |-> "captain", name |-> p.captain, holder |-> p.id, act |-> "paired"]
<1>0. /\ UNCHANGED <<register, record, keyed, overlapped>> /\ p.at = "note"
      /\ ledger' = ledger \cup {named} \cup (IF p.op = "pair" THEN {paired} ELSE {})
      /\ IF p.op = "pair" THEN Goes(f, [p EXCEPT !.at = "commission"]) ELSE Ends(f)
  BY DEF NotesNames, Same
<1> SUFFICES ASSUME ~overlapped PROVE InTurn'
  BY <1>0 DEF Ordered
<1>1. /\ InTurn /\ p \in Commanding /\ InOrder(p) /\ Sure(p) /\ FilesAgree
      /\ \A g \in Fronts \ {f} : front[g].at = "idle"
  BY <1>0, CommandTold, GoesOnAlone DEF Ordered
<1>2. \A e \in ledger' : e \in ledger \/ e.act # "named"
                         \/ (e.name = p.given /\ e.holder = p.id /\ p.given # None)
  BY <1>0 DEF Wears
<1>3. \A e \in ledger : e.act = "named" /\ e.name = p.given /\ p.given \notin {None, Root} => e.holder = p.id
  <2>1. \A e \in ledger : e.act = "named" => e.kind = "computer"
    BY DEF FilesTyped, Entries
  <2>2. QED
    BY <1>0, <1>1, <2>1 DEF Sure, NameHeld
<1>4. OneBearer'
  <2>1. ASSUME NEW d \in ledger', NEW e \in ledger', d.act = "named", e.act = "named",
               d.name = e.name, d.name # Root
        PROVE  d.holder = e.holder
    <3>1. d \in ledger \/ (d.name = p.given /\ d.holder = p.id /\ p.given # None)
      BY <1>2, <2>1
    <3>2. e \in ledger \/ (e.name = p.given /\ e.holder = p.id /\ p.given # None)
      BY <1>2, <2>1
    <3>3. CASE d \in ledger /\ e \in ledger
      BY <1>1, <2>1, <3>3 DEF FilesAgree, OneBearer
    <3>4. CASE d \notin ledger \/ e \notin ledger
      BY <1>3, <2>1, <3>1, <3>2, <3>4
    <3>5. QED
      BY <3>3, <3>4
  <2>2. QED
    BY <2>1 DEF OneBearer
<1>5. FilesAgree'
  BY <1>0, <1>1, <1>4 DEF FilesAgree, IdsAgree, Rec, Paired, OneKeyOneHull, PairedShips
<1>6. CASE p.op # "pair"
  <2>1. Moves(f, Ready)
    BY <1>0, <1>6, GoesMoves DEF Ends
  <2>2. QED
    BY <1>1, <1>5, <2>1, TurnMoves, ReadyOK DEF Moves
<1>7. CASE p.op = "pair"
  <2> DEFINE next == [p EXCEPT !.at = "commission"]
  <2>1. /\ Moves(f, next) /\ next.op = "pair" /\ next.id = p.id /\ next.key = p.key
        /\ next.captain = p.captain /\ next.at = "commission"
    BY <1>0, <1>1, <1>7, GoesMoves DEF Commanding
  <2> HIDE DEF next
  <2>2. PICK new : new = front'[f]
    OBVIOUS
  <2>3. /\ new.op = "pair" /\ new.id = p.id /\ new.key = p.key
        /\ new.captain = p.captain /\ new.at = "commission"
    BY <2>1, <2>2 DEF Moves
  <2>4. KeyHeld(new) /\ FoundAll(new) /\ AllAdopted(new)
    BY <1>0, <1>1, <1>7, <2>3 DEF Sure, KeyHeld, FoundAll, AllAdopted, Identified
  <2>5. KeyHeld(new)' /\ FoundAll(new)' /\ AllAdopted(new)'
    BY <1>0, <2>4, SureFewer DEF Paired
  <2>6. Sure(new)'
    BY <2>3, <2>5 DEF Sure, CopyFresh, Commissioned, ShipHeld, NameHeld
  <2>7. Sure(front[f])'
    BY <2>2, <2>6 DEF Sure, KeyHeld, CopyFresh, Commissioned, FoundAll, AllAdopted, ShipHeld,
                      NameHeld, Of, Rec, Identified, PairedShips, Paired
  <2>8. QED
    BY <1>1, <1>5, <2>1, <2>7, TurnMoves DEF Moves
<1>8. QED
  BY <1>6, <1>7

LEMMA SavesOrdered ==
    ASSUME FilesTyped, CommandsOK, WorldsApart, Ordered, NEW f \in Fronts, SavesRegister(f)
    PROVE  Ordered'
<1> DEFINE p == front[f]
<1>0. /\ UNCHANGED <<record, keyed, ledger, overlapped>> /\ p.at = "save" /\ register' = p.copy
      /\ IF p.op = "pair" THEN Goes(f, [p EXCEPT !.at = "board", !.copy = Ready.copy]) ELSE Ends(f)
  BY DEF SavesRegister, Same
<1> SUFFICES ASSUME ~overlapped PROVE InTurn'
  BY <1>0 DEF Ordered
<1>1. /\ InTurn /\ p \in Commanding /\ InOrder(p) /\ Sure(p) /\ FilesAgree
      /\ \A g \in Fronts \ {f} : front[g].at = "idle"
  BY <1>0, CommandTold, GoesOnAlone DEF Ordered
<1>2. register' = IF p.op = "label" THEN register
                  ELSE [register EXCEPT ![p.world] =
                           IF p.op = "pair" THEN "commissioned" ELSE "decommissioned"]
  BY <1>0, <1>1 DEF Sure, CopyFresh
<1>3. p.op = "pair" => p.world \in Worlds /\ ~Rec(p.world)
  BY <1>0, <1>1 DEF InOrder, Boards, WorldsApart
<1>4. \A w \in Worlds : Paired(w)' => Paired(w)
  BY <1>0, <1>2, <1>3 DEF Paired, Rec, FilesTyped
<1>5. \A w \in Worlds : Rec(w) => register'[w] # "none"
  BY <1>1, <1>2 DEF FilesAgree, IdsAgree, FilesTyped
<1>6. FilesAgree'
  BY <1>0, <1>1, <1>4, <1>5, FewerAgree
<1>7. CASE p.op # "pair"
  <2>1. Moves(f, Ready)
    BY <1>0, <1>7, GoesMoves DEF Ends
  <2>2. QED
    BY <1>1, <1>6, <2>1, TurnMoves, ReadyOK DEF Moves
<1>8. CASE p.op = "pair"
  <2> DEFINE next == [p EXCEPT !.at = "board", !.copy = Ready.copy]
  <2>1. /\ Moves(f, next) /\ next.op = "pair" /\ next.id = p.id /\ next.key = p.key
        /\ next.captain = p.captain /\ next.at = "board" /\ next.world = p.world
    BY <1>0, <1>1, <1>8, GoesMoves DEF Commanding
  <2> HIDE DEF next
  <2>2. PICK new : new = front'[f]
    OBVIOUS
  <2>3. /\ new.op = "pair" /\ new.id = p.id /\ new.key = p.key
        /\ new.captain = p.captain /\ new.at = "board" /\ new.world = p.world
    BY <2>1, <2>2 DEF Moves
  <2>4. KeyHeld(new) /\ FoundAll(new) /\ AllAdopted(new)
    BY <1>0, <1>1, <1>8, <2>3 DEF Sure, KeyHeld, FoundAll, AllAdopted, Identified
  <2>5. KeyHeld(new)' /\ FoundAll(new)' /\ AllAdopted(new)'
    BY <1>0, <1>4, <2>4, SureFewer
  <2>6. Commissioned(new)'
    BY <1>2, <1>3, <1>8, <2>3 DEF Commissioned, FilesTyped
  <2>7. Sure(new)'
    BY <2>3, <2>5, <2>6 DEF Sure, CopyFresh, ShipHeld, NameHeld
  <2>8. Sure(front[f])'
    BY <2>2, <2>7 DEF Sure, KeyHeld, CopyFresh, Commissioned, FoundAll, AllAdopted, ShipHeld,
                      NameHeld, Of, Rec, Identified, PairedShips, Paired
  <2>9. QED
    BY <1>1, <1>6, <2>1, <2>8, TurnMoves DEF Moves
<1>9. QED
  BY <1>7, <1>8

LEMMA WritesKeyOrdered ==
    ASSUME FilesTyped, CommandsOK, WorldsApart, Ordered, NEW f \in Fronts, WritesKey(f)
    PROVE  Ordered'
<1> DEFINE p == front[f]
           next == [p EXCEPT !.at = "record"]
<1>0. /\ UNCHANGED <<register, record, overlapped>> /\ p.at = "board"
      /\ keyed' = keyed \cup {p.world} /\ Goes(f, next)
      /\ \A e \in ledger' : e \in ledger \/ e.act # "named"
  BY DEF WritesKey, Same
<1> SUFFICES ASSUME ~overlapped PROVE InTurn'
  BY <1>0 DEF Ordered
<1>1. /\ InTurn /\ p \in Commanding /\ InOrder(p) /\ Sure(p) /\ FilesAgree
      /\ \A g \in Fronts \ {f} : front[g].at = "idle"
  BY <1>0, CommandTold, GoesOnAlone DEF Ordered
<1>2. p.op = "pair" /\ ~Rec(p.world)
  BY <1>0, <1>1 DEF InOrder, Boards, WorldsApart
<1>3. \A w \in Worlds : Paired(w)' => Paired(w)
  BY <1>0, <1>2 DEF Paired, Rec
<1>4. FilesAgree'
  BY <1>0, <1>1, <1>3, FewerAgree DEF FilesAgree, IdsAgree
<1>5. /\ Moves(f, next) /\ next.op = "pair" /\ next.id = p.id /\ next.key = p.key
      /\ next.captain = p.captain /\ next.at = "record" /\ next.world = p.world
  BY <1>0, <1>1, <1>2, GoesMoves DEF Commanding
<1> HIDE DEF next
<1>6. PICK new : new = front'[f]
  OBVIOUS
<1>7. /\ new.op = "pair" /\ new.id = p.id /\ new.key = p.key
      /\ new.captain = p.captain /\ new.at = "record" /\ new.world = p.world
  BY <1>5, <1>6 DEF Moves
<1>8. KeyHeld(new) /\ FoundAll(new) /\ AllAdopted(new)
  BY <1>0, <1>1, <1>2, <1>7 DEF Sure, KeyHeld, FoundAll, AllAdopted, Identified
<1>9. KeyHeld(new)' /\ FoundAll(new)' /\ AllAdopted(new)'
  BY <1>0, <1>3, <1>8, SureFewer
<1>10. Commissioned(new)'
  BY <1>0, <1>1, <1>7 DEF Sure, Commissioned
<1>11. Sure(new)'
  BY <1>7, <1>9, <1>10 DEF Sure, CopyFresh, ShipHeld, NameHeld
<1>12. Sure(front[f])'
  BY <1>6, <1>11 DEF Sure, KeyHeld, CopyFresh, Commissioned, FoundAll, AllAdopted, ShipHeld,
                     NameHeld, Of, Rec, Identified, PairedShips, Paired
<1>13. QED
  BY <1>1, <1>4, <1>5, <1>12, TurnMoves DEF Moves

\* The ship's record is written last: of a key no other ship has, with the identity the
\* captain's other ships bear.
LEMMA WritesRecordOrdered ==
    ASSUME FilesTyped, CommandsOK, WorldsApart, Ordered, NEW f \in Fronts, WritesRecord(f)
    PROVE  Ordered'
<1> DEFINE p == front[f]
           written == [captain |-> p.captain, id |-> p.id, key |-> p.key, hull |-> p.hull]
<1>0. /\ UNCHANGED <<register, keyed, ledger, overlapped>> /\ p.at = "record"
      /\ record' = [record EXCEPT ![p.world] = written] /\ Ends(f)
  BY DEF WritesRecord, Same
<1> SUFFICES ASSUME ~overlapped PROVE InTurn'
  BY <1>0 DEF Ordered
<1>1. /\ InTurn /\ p \in Commanding /\ InOrder(p) /\ Sure(p) /\ FilesAgree
      /\ \A g \in Fronts \ {f} : front[g].at = "idle"
  BY <1>0, CommandTold, GoesOnAlone DEF Ordered
<1>2. /\ p.op = "pair" /\ p.world \in Worlds /\ ~Rec(p.world) /\ Identified(p) /\ p.id \in Ids
      /\ p.id # None /\ register[p.world] = "commissioned"
  BY <1>0, <1>1, PairingAssumption
     DEF InOrder, Boards, Identified, WorldsApart, Sure, Commissioned
<1>3. \A w \in Worlds : record'[w] = IF w = p.world THEN written ELSE record[w]
  BY <1>0 DEF FilesTyped
<1>4. \A w \in Worlds \ {p.world} : Paired(w)' <=> Paired(w)
  BY <1>0, <1>3 DEF Paired
<1>5. \A w \in Worlds : Rec(w) /\ record[w].captain = p.captain => record[w].id \in {None, p.id}
  BY <1>1, <1>2 DEF Sure, FoundAll, Of
<1>6. \A w \in Worlds : Paired(w) /\ record[w].captain = p.captain => record[w].id # None
  BY <1>0, <1>1, <1>2 DEF Sure, AllAdopted, PairedShips
<1>7. \A w \in Worlds : Paired(w) => record[w].key # p.key
  BY <1>1, <1>2 DEF Sure, KeyHeld, PairedShips
<1>8. IdsAgree'
  <2>1. ASSUME NEW v \in Worlds, NEW w \in Worlds, record'[v] # None, record'[w] # None,
               record'[v].captain = record'[w].captain, record'[v].id # None
        PROVE  record'[w].id \in {None, record'[v].id} /\ (Paired(w)' => record'[w].id # None)
    <3>1. CASE v = p.world /\ w = p.world
      BY <1>2, <1>3, <3>1
    <3>2. CASE v = p.world /\ w # p.world
      BY <1>3, <1>4, <1>5, <1>6, <2>1, <3>2 DEF Rec
    <3>3. CASE v # p.world /\ w = p.world
      BY <1>2, <1>3, <1>5, <2>1, <3>3 DEF Rec
    <3>4. CASE v # p.world /\ w # p.world
      BY <1>1, <1>3, <1>4, <2>1, <3>4 DEF FilesAgree, IdsAgree, Rec
    <3>5. QED
      BY <3>1, <3>2, <3>3, <3>4
  <2>2. \A w \in Worlds : record'[w] # None => register'[w] # "none"
    BY <1>0, <1>1, <1>2, <1>3 DEF FilesAgree, IdsAgree, Rec
  <2>3. QED
    BY <2>1, <2>2 DEF IdsAgree, Rec
<1>9. OneKeyOneHull'
  <2>1. ASSUME NEW v \in Worlds, NEW w \in Worlds, Paired(v)', Paired(w)', record'[v].key = record'[w].key
        PROVE  v = w
    <3>1. CASE v # p.world /\ w # p.world
      BY <1>1, <1>3, <1>4, <2>1, <3>1 DEF FilesAgree, OneKeyOneHull, PairedShips
    <3>2. CASE v # p.world /\ w = p.world
      BY <1>3, <1>4, <1>7, <2>1, <3>2
    <3>3. CASE v = p.world /\ w # p.world
      BY <1>3, <1>4, <1>7, <2>1, <3>3
    <3>4. QED
      BY <3>1, <3>2, <3>3
  <2>2. QED
    BY <2>1 DEF OneKeyOneHull, PairedShips
<1>10. FilesAgree'
  BY <1>0, <1>1, <1>8, <1>9 DEF FilesAgree, OneBearer
<1>11. Moves(f, Ready)
  BY <1>0, GoesMoves DEF Ends
<1>12. QED
  BY <1>1, <1>10, <1>11, TurnMoves, ReadyOK DEF Moves

LEMMA PutsRecordOrdered ==
    ASSUME FilesTyped, CommandsOK, WorldsApart, Ordered, NEW f \in Fronts, PutsRecord(f)
    PROVE  Ordered'
<1> DEFINE p == front[f]
           written == [captain |-> p.captain, id |-> p.id, key |-> p.key, hull |-> p.hull]
<1>0. /\ UNCHANGED <<register, keyed, overlapped>> /\ p.at = "put"
      /\ record' = [record EXCEPT ![p.world] = written] /\ Ends(f)
      /\ \A e \in ledger' : e \in ledger \/ e.act # "named"
  BY DEF PutsRecord, Same
<1> SUFFICES ASSUME ~overlapped PROVE InTurn'
  BY <1>0 DEF Ordered
<1>1. /\ InTurn /\ p \in Commanding /\ InOrder(p) /\ Sure(p) /\ FilesAgree /\ Told(p)
      /\ \A g \in Fronts \ {f} : front[g].at = "idle"
  BY <1>0, CommandTold, GoesOnAlone DEF Ordered, WorldsApart
<1>2. /\ p.op = "hull" /\ p.world \in Worlds /\ Rec(p.world) /\ record[p.world].key = p.key
      /\ record[p.world].captain = p.captain /\ record[p.world].id = p.id /\ written # None
  BY <1>0, <1>1, RecordTyped, RecordsAssumption DEF InOrder, Told, Sure, ShipHeld
<1>3. \A w \in Worlds : /\ (record'[w] # None) <=> Rec(w)
                        /\ record'[w].key = record[w].key
                        /\ record'[w].captain = record[w].captain /\ record'[w].id = record[w].id
  BY <1>0, <1>2 DEF FilesTyped, Rec
<1>4. \A w \in Worlds : Paired(w)' <=> Paired(w)
  BY <1>0, <1>3 DEF Paired, Rec
<1>5. IdsAgree'
  BY <1>0, <1>1, <1>3, <1>4 DEF FilesAgree, IdsAgree, Rec
<1>6. OneKeyOneHull'
  BY <1>1, <1>3, <1>4 DEF FilesAgree, OneKeyOneHull, PairedShips
<1>7. OneBearer'
  BY <1>0, <1>1 DEF FilesAgree, OneBearer
<1>8. Moves(f, Ready)
  BY <1>0, GoesMoves DEF Ends
<1>9. QED
  BY <1>1, <1>5, <1>6, <1>7, <1>8, TurnMoves, ReadyOK DEF Moves, FilesAgree

LEMMA OrderedKept ==
    ASSUME FilesTyped, CommandsOK, WorldsApart, Ordered, [Next]_vars
    PROVE  Ordered'
<1>1. CASE UNCHANGED <<register, record, keyed, ledger, front, overlapped>>
  <2>1. CASE overlapped
    BY <1>1, <2>1 DEF Ordered
  <2>2. CASE InTurn
    <3>1. FilesAgree'
      BY <1>1, <2>2, FilesAgreeStill DEF InTurn
    <3>2. ASSUME NEW f \in Fronts, front'[f].at # "idle" PROVE Sure(front[f])'
      <4>1. PICK p : p = front[f] /\ Sure(p)
        BY <1>1, <2>2, <3>2 DEF InTurn
      <4>2. Sure(p)' /\ p = front'[f]
        BY <1>1, <4>1, SureStays
      <4>3. QED
        BY <4>2 DEF Sure, KeyHeld, CopyFresh, Commissioned, FoundAll, AllAdopted, ShipHeld,
                    NameHeld, Of, Rec, Identified, PairedShips, Paired
    <3>3. QED
      BY <1>1, <2>2, <3>1, <3>2 DEF Ordered, InTurn, Alone
  <2>3. QED
    BY <2>1, <2>2 DEF Ordered
<1>2. CASE \E f \in Fronts : Gives(f)
  BY <1>2, GivesOrdered, UnpairsOrdered, FollowsOrdered DEF Gives
<1>3. CASE \E f \in Fronts : GoesOn(f)
  BY <1>3, GoesOnOrdered, SettlesOrdered, NotesOrdered, SavesOrdered, WritesKeyOrdered,
     WritesRecordOrdered, PutsRecordOrdered DEF GoesOn
<1>4. CASE (\E c \in Captains : NamedElsewhere(c)) \/ (\E k \in Keys : HullNamedElsewhere(k))
  BY <1>1, <1>4 DEF NamedElsewhere, HullNamedElsewhere, store
<1>5. CASE UNCHANGED vars
  BY <1>1, <1>5 DEF vars, store
<1>6. QED
  BY <1>2, <1>3, <1>4, <1>5 DEF Next

LEMMA InitOrdered == Init => Ordered
<1> SUFFICES ASSUME Init PROVE InTurn
  BY DEF Ordered
<1>1. \A f \in Fronts : front[f].at = "idle"
  BY ReadyOK DEF Init
<1>2. \A w \in Worlds :
         Rec(w) => record[w].id = None /\ record[w].key = Legacy[w] /\ register[w] # "none"
  BY DEF Init, Rec
<1>3. IdsAgree
  BY <1>2 DEF IdsAgree
<1>4. OneKeyOneHull
  <2>1. \A w \in PairedShips : w \in LegacyWorlds /\ record[w].key = Legacy[w]
    BY <1>2 DEF Init, PairedShips, Paired, Rec
  <2>2. QED
    BY <2>1, PairingAssumption DEF OneKeyOneHull
<1>5. OneBearer
  BY DEF Init, OneBearer
<1>6. QED
  BY <1>1, <1>3, <1>4, <1>5 DEF InTurn, FilesAgree, Alone

\* So long as no two commands overlap, wherever they are cut short: one key is one hull, a
\* captain has one identity over all hulls flown or not, and no two captains were ever given
\* one name for their computers.
THEOREM ApartInTurn == Spec => []EachItsOwn
<1>1. Init => PairInv /\ Ordered
  BY InitPair, InitOrdered
<1>2. PairInv /\ Ordered /\ [Next]_vars => (PairInv /\ Ordered)'
  BY StepPair, OrderedKept DEF PairInv
<1>3. PairInv /\ Ordered => EachItsOwn
  BY OneIsOne DEF PairInv, Ordered, InTurn, FilesAgree, EachItsOwn
<1>4. QED
  BY <1>1, <1>2, <1>3, PTL DEF Spec

=============================================================================
