-------------------------------- MODULE Pairing --------------------------------
(***************************************************************************)
(* The fleet's register of hulls, captains and names (crates/cli/src/      *)
(* fleet.rs, crates/world/src/instance.rs).  Pairing, renaming, unpairing  *)
(* and adopting are commands of several steps over shared files, given by  *)
(* several front ends at once (the server starts each as a process of its  *)
(* own) and cut short at any step.  Only two steps hold the migration      *)
(* lock: giving a captain an identity, and a line of the ledger.  The      *)
(* register is loaded, changed and saved whole under no lock.  How the two *)
(* files of a computer change as one is Persona's subject.                 *)
(***************************************************************************)
EXTENDS Integers, FiniteSets

CONSTANTS Fronts,       \* processes that give commands
          Captains,     \* captains by their display names
          Keys,         \* exchange keys; each answers for one hull
          CaptainOf,    \* whose key it is
          CoPilotKeys,  \* keys whose name filings the exchange does not take
          Slug,         \* the store a captain had before identities: a lossy function of the name
          Names, Root,  \* names of computers; Root is worn by one nobody named
          HullNames,
          HullOf,       \* the name a key's hull has at first
          Worlds, Ids,  \* worlds and identities, numbered; what is minted is opaque and fresh
          Legacy,       \* hulls paired before identities: world |-> key
          None,
          MaxCommands   \* bound on the commands given

LegacyWorlds == DOMAIN Legacy

ASSUME PairingAssumption ==
    /\ CaptainOf \in [Keys -> Captains] /\ CoPilotKeys \subseteq Keys
    /\ LegacyWorlds \subseteq Worlds /\ \A w \in LegacyWorlds : Legacy[w] \in Keys
    /\ \A v, w \in LegacyWorlds : Legacy[v] = Legacy[w] => v = w
    /\ HullOf \in [Keys -> HullNames] /\ \A k, l \in Keys : k # l => HullOf[k] # HullOf[l]
    /\ DOMAIN Slug = Captains /\ Root \in Names
    /\ None \notin Names /\ None \notin HullNames /\ None \notin Ids
    /\ None \notin Worlds /\ None \notin Keys
    /\ Worlds \subseteq Nat /\ Ids \subseteq Nat
    /\ MaxCommands \in Nat

Slugs == {Slug[c] : c \in Captains}
Stores == Ids \cup Slugs

\* An identity is minted of the instant and the pid ("cpt-..."), nothing a captain is called.
ASSUME StoresAssumption == IsFiniteSet(Ids) /\ Slugs \cap Ids = {}

Records == [captain : Captains, id : Ids \cup {None}, key : Keys, hull : HullNames]
Entries == [kind : {"captain"}, name : Captains, holder : Ids, act : {"paired"}]
           \cup [kind : {"hull"}, name : HullNames, holder : Worlds, act : {"paired", "renamed"}]
           \cup [kind : {"computer"}, name : Names, holder : Ids, act : {"named", "joined", "adopted"}]

ASSUME RecordsAssumption == None \notin Records

Lifecycles == {"none", "commissioned", "decommissioned"}

VARIABLES register,   \* worlds/instances.json
          record,     \* each ship's captain.json
          keyed,      \* ships whose store holds a key (ucf.env)
          computer,   \* the name in a store's persona.json
          ledger,     \* captains/names.jsonl
          hullName,   \* the exchange: a key's hull
          filed,      \* the exchange: the computer names a captain has worn, the one worn now
          front,      \* the command each front end is at
          revoked,    \* history: worlds a captain unpaired
          overlapped, \* history: two commands were under way at once
          commands

exchange == <<hullName, filed>>
store == <<register, record, keyed, computer, ledger>>
vars == <<store, exchange, front, revoked, overlapped, commands>>

Ready == [op |-> "none", at |-> "idle", world |-> None, key |-> None, captain |-> None,
          id |-> None, given |-> None, hull |-> None, found |-> {}, clash |-> FALSE,
          copy |-> [w \in Worlds |-> "none"]]

Phases == {"idle", "identity", "settle", "free", "name", "note", "commission", "save", "board",
           "record", "end", "put"}

TypeOK ==
    /\ register \in [Worlds -> Lifecycles]
    /\ record \in [Worlds -> Records \cup {None}]
    /\ keyed \subseteq Worlds
    /\ computer \in [Stores -> Names \cup {None}]
    /\ ledger \subseteq Entries
    /\ hullName \in [Keys -> HullNames]
    /\ filed \in [Captains -> [worn : Names \cup {None}, ever : SUBSET Names]]
    /\ \A f \in Fronts :
          /\ DOMAIN front[f] = DOMAIN Ready
          /\ front[f].at \in Phases /\ front[f].id \in Ids \cup {None}
          /\ front[f].given \in Names \cup {None} /\ front[f].found \subseteq Ids
          /\ front[f].copy \in [Worlds -> Lifecycles]
    /\ revoked \subseteq Worlds /\ overlapped \in BOOLEAN /\ commands \in 0..MaxCommands

Init ==
    /\ register = [w \in Worlds |-> IF w \in LegacyWorlds THEN "commissioned" ELSE "none"]
    /\ hullName = HullOf
    /\ record = [w \in Worlds |->
                    IF w \in LegacyWorlds
                    THEN [captain |-> CaptainOf[Legacy[w]], id |-> None, key |-> Legacy[w],
                          hull |-> HullOf[Legacy[w]]]
                    ELSE None]
    /\ keyed = LegacyWorlds
    /\ \E old \in Names \cup {None} :
          computer = [s \in Stores |->
             IF \E w \in LegacyWorlds : s = Slug[CaptainOf[Legacy[w]]] THEN old ELSE None]
    /\ ledger = {}
    /\ filed = [c \in Captains |-> [worn |-> None, ever |-> {}]]
    /\ front = [f \in Fronts |-> Ready]
    /\ revoked = {} /\ overlapped = FALSE /\ commands = 0

-----------------------------------------------------------------------------
(* Reading the register.                                                    *)

Paired(w) == register[w] = "commissioned" /\ record[w] # None /\ w \in keyed

PairedShips == {w \in Worlds : Paired(w)}

\* retired_captains: identities outlive the hulls that bore them.
Retired == {w \in Worlds : register[w] # "none" /\ record[w] # None /\ record[w].id # None}

Siblings(c) == {w \in PairedShips \cup Retired : record[w].captain = c}

IdsAmong(ships) == {record[w].id : w \in ships} \ {None}

\* A legacy store two captains' names both lead to.
SlugClash(c) == \E w \in PairedShips : /\ record[w].captain # c /\ record[w].id = None
                                       /\ Slug[record[w].captain] = Slug[c]

HullNameFree(hull, key) ==
    \A w \in PairedShips : record[w].hull = hull => record[w].key = key

\* persona_for, of a paired hull.
StoreOf(r) == IF r.id # None THEN r.id ELSE Slug[r.captain]

\* computer_name_free: no other captain's computer wears it, and the ledger knows of none
\* that ever did.
ComputerNameFree(name, c, id) ==
    \/ name = Root
    \/ /\ \A e \in ledger : e.kind = "computer" /\ e.name = name => e.holder = id
       /\ \A w \in PairedShips :
             record[w].id = id \/ record[w].captain = c \/ computer[StoreOf(record[w])] # name

Minted == {record[w].id : w \in {w \in Worlds : record[w] # None}}
          \cup {front[f].id : f \in Fronts} \cup {s \in Ids : computer[s] # None}
          \cup {e.holder : e \in ledger}

\* The next of the fresh ones: which one is minted makes no difference.
Mint(fresh) == {n \in fresh : \A m \in fresh : n <= m}

-----------------------------------------------------------------------------
(* Commands.                                                                *)

Goes(f, new) == front' = [front EXCEPT ![f] = new]

Ends(f) == Goes(f, Ready)

Begins(f, new) ==
    /\ front[f].at = "idle" /\ commands < MaxCommands /\ commands' = commands + 1
    /\ overlapped' = (overlapped \/ \E g \in Fronts : front[g].at # "idle")
    /\ Goes(f, new)

Same == UNCHANGED <<revoked, overlapped, commands>>

KeyFree(k) == \A w \in PairedShips : record[w].key # k

\* A mutation: the key is not looked for among the hulls.
PairsAnyKey(f) ==
    \E k \in Keys, given \in Names \cup {None}, known \in Ids \cup {None} :
        LET c == CaptainOf[k]
        IN  /\ HullNameFree(hullName[k], k)
            /\ known # None => known \in IdsAmong(Siblings(c))
            /\ Begins(f, [Ready EXCEPT !.op = "pair", !.at = "identity", !.key = k, !.captain = c,
                                       !.id = known, !.given = given, !.hull = hullName[k],
                                       !.found = IdsAmong(Siblings(c)), !.clash = SlugClash(c)])
            /\ UNCHANGED <<store, exchange, revoked>>

\* fleet pair, up to the siblings: the key answers, its hull's name and the key itself are
\* free, and the captain's other hulls, flown or not, say who the captain is.
Pairs(f) ==
    \E k \in Keys, given \in Names \cup {None}, known \in Ids \cup {None} :
        LET c == CaptainOf[k]
        IN  /\ HullNameFree(hullName[k], k) /\ KeyFree(k)
            /\ known # None => known \in IdsAmong(Siblings(c))
            /\ Begins(f, [Ready EXCEPT !.op = "pair", !.at = "identity", !.key = k, !.captain = c,
                                       !.id = known, !.given = given, !.hull = hullName[k],
                                       !.found = IdsAmong(Siblings(c)), !.clash = SlugClash(c)])
            /\ UNCHANGED <<store, exchange, revoked>>

\* fleet rename, up to the siblings: of hulls flown today only.
Renames(f) ==
    \E w \in PairedShips, given \in Names :
        LET r == record[w]
        IN  /\ Begins(f, [Ready EXCEPT !.op = "rename", !.at = "identity", !.world = w, !.key = r.key,
                                       !.captain = r.captain, !.id = r.id, !.given = given,
                                       !.hull = r.hull, !.clash = SlugClash(r.captain),
                                       !.found = IdsAmong({v \in PairedShips : record[v].captain = r.captain})])
            /\ UNCHANGED <<store, exchange, revoked>>

\* fleet adopt-ids, of one captain: every hull of the captain's without an identity.
AdoptsIds(f) ==
    \E w \in PairedShips :
        LET r == record[w]
        IN  /\ r.id = None
            /\ Begins(f, [Ready EXCEPT !.op = "adopt", !.at = "identity", !.captain = r.captain,
                                       !.clash = SlugClash(r.captain),
                                       !.found = IdsAmong({v \in PairedShips : record[v].captain = r.captain})])
            /\ UNCHANGED <<store, exchange, revoked>>

\* ensure_captain_id, under the migration lock: more than one identity is refused, the one
\* there is is joined, and else one is minted; a legacy store moves under it.
EnsuresId(f) ==
    LET p   == front[f]
        all == p.found \cup ({p.id} \ {None})
    IN  /\ p.at = "identity"
        /\ \/ /\ Cardinality(all) > 1 \/ (p.id = None /\ p.clash)
              /\ Ends(f) /\ UNCHANGED computer
           \/ /\ Cardinality(all) <= 1 /\ (p.id = None => ~p.clash)
              /\ \E id \in IF all # {} THEN all ELSE Mint(Ids \ Minted) :
                    LET s == Slug[p.captain]
                    IN  /\ computer' = IF p.id = None /\ computer[s] # None /\ computer[id] = None
                                       THEN [computer EXCEPT ![id] = computer[s], ![s] = None]
                                       ELSE computer
                        /\ Goes(f, [p EXCEPT !.at = "settle", !.id = id, !.found = {}])
        /\ UNCHANGED <<register, record, keyed, ledger, exchange>> /\ Same

\* adopt_siblings; a rename writes its own ship's record first, as it read it.
WithIds(p) ==
    [w \in Worlds |->
        IF p.op = "rename" /\ w = p.world
        THEN [captain |-> p.captain, id |-> p.id, key |-> p.key, hull |-> p.hull]
        ELSE IF Paired(w) /\ record[w].captain = p.captain /\ record[w].id = None
        THEN [record[w] EXCEPT !.id = p.id] ELSE record[w]]

\* A mutation: the ship is commissioned, and boarded, before its computer is settled.
SettlesLast(f) ==
    LET p == front[f]
    IN  /\ p.at = "settle"
        /\ record' = WithIds(p)
        /\ Goes(f, [p EXCEPT !.at = "commission"])
        /\ UNCHANGED <<register, keyed, computer, ledger, exchange>> /\ Same

\* The captain's computer, wherever it is, and the hulls that share it.  What a joining
\* pairing will write is the name it finds.
Settles(f) ==
    LET p == front[f]
    IN  /\ p.at = "settle"
        /\ record' = WithIds(p)
        /\ IF p.op = "adopt" THEN Ends(f)
           ELSE Goes(f, [p EXCEPT !.at = IF p.given # None THEN "free" ELSE "name"])
        /\ UNCHANGED <<register, keyed, computer, ledger, exchange>> /\ Same

\* file_computer_name: the exchange refuses a name another captain ever wore, and takes none
\* from a co-pilot's key; it may not answer.
Files(p) ==
    \/ /\ p.key \notin CoPilotKeys
       /\ \A c \in Captains \ {p.captain} : p.given \notin filed[c].ever
       /\ filed' = [filed EXCEPT ![p.captain] = [worn |-> p.given, ever |-> @.ever \cup {p.given}]]
    \/ UNCHANGED filed

NameRefused(p) ==
    p.key \notin CoPilotKeys /\ \E c \in Captains \ {p.captain} : p.given \in filed[c].ever

ChecksName(f) ==
    LET p == front[f]
    IN  /\ p.at = "free"
        /\ \/ /\ ComputerNameFree(p.given, p.captain, p.id) /\ Files(p)
              /\ Goes(f, [p EXCEPT !.at = "name"])
           \/ /\ ~ComputerNameFree(p.given, p.captain, p.id) \/ NameRefused(p)
              /\ Ends(f) /\ UNCHANGED filed
        /\ UNCHANGED <<store, hullName>> /\ Same

\* A mutation: a pairing that gives no name is taken at its word.
WearsWhatWasGiven(p) == p.given

Wears(p) ==
    IF p.given # None THEN p.given
    ELSE IF computer[p.id] # None THEN computer[p.id] ELSE Root

\* persona::name.
NamesComputer(f) ==
    LET p == front[f]
    IN  /\ p.at = "name"
        /\ computer' = [computer EXCEPT ![p.id] = Wears(p)]
        /\ Goes(f, [p EXCEPT !.at = "note"])
        /\ UNCHANGED <<register, record, keyed, ledger, exchange>> /\ Same

\* record_name: the captain, and the computer's name under them.
NotesNames(f) ==
    LET p == front[f]
    IN  /\ p.at = "note"
        /\ ledger' = ledger \cup
              {[kind |-> "computer", name |-> Wears(p), holder |-> p.id,
                act |-> IF p.given # None THEN "named" ELSE "joined"]}
              \cup (IF p.op = "pair"
                    THEN {[kind |-> "captain", name |-> p.captain, holder |-> p.id, act |-> "paired"]}
                    ELSE {})
        /\ IF p.op = "pair" THEN Goes(f, [p EXCEPT !.at = "commission"]) ELSE Ends(f)
        /\ UNCHANGED <<register, record, keyed, computer, exchange>> /\ Same

Unused == {w \in Worlds : register[w] = "none" /\ record[w] = None
                          /\ \A f \in Fronts : front[f].world # w}

\* instance::commission: a store of its own, and the register loaded ...
Commissions(f) ==
    LET p == front[f]
    IN  /\ p.at = "commission"
        /\ \E w \in Mint(Unused) :
              Goes(f, [p EXCEPT !.at = "save", !.world = w,
                                !.copy = [register EXCEPT ![w] = "commissioned"]])
        /\ UNCHANGED <<store, exchange>> /\ Same

\* ... and saved, over whatever it is by now.  (decommission and the change of a label do
\* the same.)
SavesRegister(f) ==
    LET p == front[f]
    IN  /\ p.at = "save"
        /\ register' = p.copy
        /\ IF p.op = "pair" THEN Goes(f, [p EXCEPT !.at = "board", !.copy = Ready.copy]) ELSE Ends(f)
        /\ UNCHANGED <<record, keyed, computer, ledger, exchange>> /\ Same

\* The key goes into the ship's store first, then the hull's name into the ledger, ...
WritesKey(f) ==
    LET p == front[f]
    IN  /\ p.at = "board"
        /\ keyed' = keyed \cup {p.world}
        /\ ledger' = ledger \cup {[kind |-> "hull", name |-> p.hull, holder |-> p.world, act |-> "paired"]}
        /\ Goes(f, [p EXCEPT !.at = "record"])
        /\ UNCHANGED <<register, record, computer, exchange>> /\ Same

\* ... and the captain's record last.
WritesRecord(f) ==
    LET p == front[f]
    IN  /\ p.at = "record"
        /\ record' = [record EXCEPT ![p.world] =
                         [captain |-> p.captain, id |-> p.id, key |-> p.key, hull |-> p.hull]]
        /\ Ends(f)
        /\ UNCHANGED <<register, keyed, computer, ledger, exchange>> /\ Same

-----------------------------------------------------------------------------
(* Unpairing, labels, hulls and the world's own records.                    *)

\* A mutation: the key stays with the ship.
UnpairsKeepingKey(f) ==
    \E w \in PairedShips :
        /\ Begins(f, [Ready EXCEPT !.op = "unpair", !.at = "end", !.world = w])
        /\ revoked' = revoked \cup {w}
        /\ UNCHANGED <<store, exchange>>

\* fleet unpair: the pilot is stopped and the key destroyed, then the authority ended.
Unpairs(f) ==
    \E w \in PairedShips :
        /\ Begins(f, [Ready EXCEPT !.op = "unpair", !.at = "end", !.world = w])
        /\ keyed' = keyed \ {w} /\ revoked' = revoked \cup {w}
        /\ UNCHANGED <<register, record, computer, ledger, exchange>>

\* instance::decommission, its loading half; a world the register has lost is an error.
Decommissions(f) ==
    LET p == front[f]
    IN  /\ p.at = "end"
        /\ IF register[p.world] = "none" THEN Ends(f)
           ELSE Goes(f, [p EXCEPT !.at = "save",
                                  !.copy = [register EXCEPT ![p.world] = "decommissioned"]])
        /\ UNCHANGED <<store, exchange>> /\ Same

\* world rename: a label changes, the register is written whole all the same.
Relabels(f) ==
    /\ \E w \in Worlds : register[w] # "none"
    /\ Begins(f, [Ready EXCEPT !.op = "label", !.at = "save", !.copy = register])
    /\ UNCHANGED <<store, exchange, revoked>>

\* fleet hull: the ship's name, checked, then changed on the exchange ...
RenamesHull(f) ==
    \E w \in PairedShips, new \in HullNames :
        LET r == record[w]
        IN  /\ HullNameFree(new, r.key)
            /\ Begins(f, [Ready EXCEPT !.op = "hull", !.at = "put", !.world = w, !.key = r.key,
                                       !.captain = r.captain, !.id = r.id, !.hull = new])
            /\ hullName' = [hullName EXCEPT ![r.key] = new]
            /\ UNCHANGED <<store, filed, revoked>>

\* fleet captains --adopt, of one hull: its name as the world calls it, and the computer's
\* name as the world's record has it; where the world holds none the familiar files its own.
\* The record is written when something of it changed (the world's id for the captain, too).
FollowsWorld(f) ==
    \E w \in PairedShips :
        LET r == record[w]
            world == filed[r.captain].worn
            own == computer[StoreOf(r)]
            p == [Ready EXCEPT !.op = "hull", !.at = "put", !.world = w, !.key = r.key,
                               !.captain = r.captain, !.id = r.id, !.hull = hullName[r.key]]
        IN  /\ Begins(f, p) \/ (hullName[r.key] = r.hull /\ Begins(f, Ready))
            /\ \/ /\ world # None /\ world # own
                  /\ computer' = [computer EXCEPT ![StoreOf(r)] = world]
                  /\ ledger' = IF r.id = None THEN ledger
                               ELSE ledger \cup {[kind |-> "computer", name |-> world,
                                                  holder |-> r.id, act |-> "adopted"]}
                  /\ UNCHANGED filed
               \/ /\ world = None /\ own \notin {None, Root}
                  /\ Files([p EXCEPT !.given = own])
                  /\ UNCHANGED <<computer, ledger>>
               \/ /\ world = own \/ (world = None /\ own \in {None, Root})
                  /\ UNCHANGED <<computer, ledger, filed>>
            /\ UNCHANGED <<register, record, keyed, hullName, revoked>>

\* ... and on the record, written whole as it was read, and in the ledger.
PutsRecord(f) ==
    LET p == front[f]
    IN  /\ p.at = "put"
        /\ record' = [record EXCEPT ![p.world] =
                         [captain |-> p.captain, id |-> p.id, key |-> p.key, hull |-> p.hull]]
        /\ ledger' = IF record[p.world].hull = p.hull THEN ledger
                     ELSE ledger \cup {[kind |-> "hull", name |-> p.hull, holder |-> p.world,
                                        act |-> "renamed"]}
        /\ Ends(f)
        /\ UNCHANGED <<register, keyed, computer, exchange>> /\ Same

\* The process ends, or a write fails: what it has written stays.
Dies(f) ==
    /\ front[f].at # "idle" /\ Ends(f)
    /\ UNCHANGED <<store, exchange>> /\ Same

-----------------------------------------------------------------------------
(* The exchange: a captain names a computer or a ship in another app.       *)

NamedElsewhere(c) ==
    /\ commands < MaxCommands /\ commands' = commands + 1
    /\ \E n \in Names \ {Root} :
          /\ \A b \in Captains \ {c} : n \notin filed[b].ever
          /\ filed' = [filed EXCEPT ![c] = [worn |-> n, ever |-> @.ever \cup {n}]]
    /\ UNCHANGED <<store, hullName, front, revoked, overlapped>>

HullNamedElsewhere(k) ==
    /\ commands < MaxCommands /\ commands' = commands + 1
    /\ \E n \in HullNames : hullName' = [hullName EXCEPT ![k] = n]
    /\ UNCHANGED <<store, filed, front, revoked, overlapped>>

Gives(f) ==
    Pairs(f) \/ Renames(f) \/ AdoptsIds(f) \/ Unpairs(f) \/ Relabels(f) \/ RenamesHull(f)
    \/ FollowsWorld(f)

GoesOn(f) ==
    \/ EnsuresId(f) \/ Settles(f) \/ ChecksName(f) \/ NamesComputer(f) \/ NotesNames(f)
    \/ Commissions(f) \/ SavesRegister(f) \/ WritesKey(f) \/ WritesRecord(f)
    \/ Decommissions(f) \/ PutsRecord(f) \/ Dies(f)

Next ==
    \/ \E f \in Fronts : Gives(f) \/ GoesOn(f)
    \/ \E c \in Captains : NamedElsewhere(c)
    \/ \E k \in Keys : HullNamedElsewhere(k)

Spec == Init /\ [][Next]_vars

-----------------------------------------------------------------------------
(* Properties.                                                              *)

\* A ship the supervisor would fly has its captain's identity, a computer that answers, and
\* both in the ledger, wherever commands were cut short.
PairedIsWhole ==
    \A w \in PairedShips \ LegacyWorlds :
        /\ record[w].id # None /\ computer[record[w].id] # None
        /\ \E e \in ledger : e.kind = "captain" /\ e.holder = record[w].id
        /\ \E e \in ledger : e.kind = "computer" /\ e.holder = record[w].id

\* A hull a captain unpaired is not flown again, though a register saved late may bring its
\* world back.
Revoked == revoked \cap PairedShips = {}

\* One key is one hull.
OneKeyOneHull == \A v, w \in PairedShips : record[v].key = record[w].key => v = w

\* A captain has one identity, over all hulls flown or not.
OneIdentity ==
    \A c \in Captains :
        Cardinality(IdsAmong({w \in Worlds : record[w] # None /\ record[w].captain = c})) <= 1

\* No two captains were ever given one name for their computers.
OneBearer ==
    \A d, e \in ledger :
        d.act = "named" /\ e.act = "named" /\ d.name = e.name /\ d.name # Root => d.holder = e.holder

\* Keys, identities and names stay apart, wherever commands are cut short, so long as no two
\* of them overlap.
EachItsOwn == overlapped \/ (OneKeyOneHull /\ OneIdentity /\ OneBearer)
=============================================================================
