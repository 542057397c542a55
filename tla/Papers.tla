--------------------------------- MODULE Papers ---------------------------------
(***************************************************************************)
(* Whose papers fly a hull: the pilot's choice of a key at the head of     *)
(* every fold (crates/pilot/src/main.rs, candidate_papers, select_papers   *)
(* and the fold that uses them; pick_papers and the record in store.rs),   *)
(* and the commands that keep the captain's record and sign co-pilots      *)
(* (crates/cli/src/papers.rs), against an exchange on which a captain's    *)
(* own keys answer for the hull the captain stands on and a co-pilot key   *)
(* for the hull it was signed for.  One captain; verbs are of two kinds,   *)
(* freight and what only the captain's own papers may file.  Left out: the *)
(* lease before the choice, the leased hull's repair, the fleet's name.    *)
(***************************************************************************)
EXTENDS Sequences, SequencesExt, FiniteSets, Integers, Lists

CONSTANTS Hulls, Piloted, Desks, None,
          Own,          \* UCF_KEY of a hull: a key of the captain's own
          CoPilots,     \* the secrets still to be minted
          MaxCommands, MaxMoves, MaxHauls, MaxRevoked, MaxFaults

CaptainKeys == {Own[h] : h \in Hulls}

Keys == CaptainKeys \cup CoPilots

ASSUME PapersAssumption ==
    /\ Piloted \subseteq Hulls /\ IsFiniteSet(Hulls)
    /\ None \notin Hulls \cup Keys /\ None \notin BOOLEAN /\ CaptainKeys \cap CoPilots = {}
    /\ \A h, g \in Hulls : Own[h] = Own[g] => h = g
    /\ {MaxCommands, MaxMoves, MaxHauls, MaxRevoked, MaxFaults} \subseteq Nat

VARIABLES aboard, live, bound, licence,  \* the exchange
          copilot,                       \* UCF_COPILOT_KEY of a hull's ucf.env
          record,                        \* papers.json
          pilot, desk,
          spent,                         \* bounds
          signed,                        \* history: what the commands signed and stored
          overlapped,                    \* history: another signed, or the captain moved, amid a signing
          signedOver                     \* history: a signing retired a key nobody gave up

exchange == <<aboard, live, bound, licence>>
files == <<copilot, record>>
history == <<signed, overlapped, signedOver>>
vars == <<exchange, files, pilot, desk, spent, history>>

Candidates == [key : Keys, captain : BOOLEAN \cup {None}]
Papers == [key : Keys, captain : BOOLEAN, hull : Hulls]

\* `hull' is what the key answered for, None if it was refused or did not answer.
Answers == [captain : BOOLEAN, hull : Hulls \cup {None}]

\* The record names a key once, and an idle desk or pilot keeps nothing but what the code
\* keeps between its runs.
TypeOK ==
    /\ aboard \in Hulls /\ live \subseteq Keys
    /\ bound \in [CoPilots -> Hulls \cup {None}]
    /\ licence \in [Hulls -> {"none", "pending", "active", "refused"}]
    /\ copilot \in [Hulls -> CoPilots \cup {None}]
    /\ record \in Seq(Papers) /\ \A i, j \in DOMAIN record : record[i].key = record[j].key => i = j
    /\ \A h \in Piloted :
          /\ pilot[h].at \in {"idle", "asking", "flying"} /\ pilot[h].asks \in Seq(Candidates)
          /\ pilot[h].heard \in Seq(Answers) /\ Len(pilot[h].heard) <= Len(pilot[h].asks)
          /\ pilot[h].flying \in Keys \cup {None} /\ {pilot[h].denied, pilot[h].moved} \subseteq BOOLEAN
          /\ pilot[h].at = "flying" => \E i \in DOMAIN pilot[h].asks : pilot[h].asks[i].key = pilot[h].flying
    /\ \A d \in Desks : /\ desk[d].copy \in Seq(Papers)
                        /\ desk[d].at \in {"idle", "filed"} => desk[d].copy = <<>>
    /\ signed \subseteq {c \in CoPilots : bound[c] # None}

Grounded == [at |-> "idle", asks |-> <<>>, heard |-> <<>>, flying |-> None, denied |-> FALSE, moved |-> FALSE]

Away == [at |-> "idle", copy |-> <<>>, target |-> None, replace |-> FALSE, key |-> None, new |-> None, clean |-> TRUE]

Init ==
    /\ aboard \in Hulls /\ live = CaptainKeys
    /\ bound = [c \in CoPilots |-> None] /\ licence = [h \in Hulls |-> "none"]
    /\ copilot = [h \in Hulls |-> None] /\ record = <<>>
    /\ pilot = [h \in Piloted |-> Grounded] /\ desk = [d \in Desks |-> Away]
    /\ spent = [commands |-> 0, moves |-> 0, hauls |-> 0, revoked |-> 0, faults |-> 0]
    /\ signed = {} /\ overlapped = FALSE /\ signedOver = FALSE

Spends(what, most) == spent[what] < most /\ spent' = [spent EXCEPT ![what] = @ + 1]

\* The hull a live key answers for.
AnswersFor(k) == IF k \in CaptainKeys THEN aboard ELSE bound[k]

Fails == Spends("faults", MaxFaults)

Holds(papers, k) == \E i \in DOMAIN papers : papers[i].key = k

-----------------------------------------------------------------------------
(* The exchange, the captain, and another signer.                           *)

\* The captain changes ship; every act of the old hull's still to come is for the new one.
Moves ==
    /\ Spends("moves", MaxMoves) /\ aboard' \in Hulls \ {aboard}
    /\ pilot' = [h \in Piloted |-> [pilot[h] EXCEPT !.moved = pilot[h].at # "idle"]]
    /\ desk' = [d \in Desks |-> [desk[d] EXCEPT !.clean = desk[d].at = "idle"]]
    /\ UNCHANGED <<live, bound, licence, files, history>>

\* The fold decides a licence bought.
Decides(h) ==
    /\ licence[h] = "pending" /\ licence' = [licence EXCEPT ![h] = "active"]
    /\ UNCHANGED <<aboard, live, bound, files, pilot, desk, spent, history>>

RefusesLicence(h) ==
    /\ Fails /\ licence[h] = "pending" /\ licence' = [licence EXCEPT ![h] = "refused"]
    /\ UNCHANGED <<aboard, live, bound, files, pilot, desk, history>>

CoPilotsOf(h) == {c \in CoPilots \cap live : bound[c] = h}

\* Minting retires every live co-pilot of the hull.
Mint(c, h) ==
    /\ c \in CoPilots /\ bound[c] = None /\ bound' = [bound EXCEPT ![c] = h]
    /\ live' = (live \ CoPilotsOf(h)) \cup {c}

\* Haul signs a co-pilot of its own for a hull, on a licence of its own.
HaulSigns(h) ==
    /\ Spends("hauls", MaxHauls) /\ licence' = [licence EXCEPT ![h] = "active"]
    /\ \E c \in CoPilots : Mint(c, h)
    /\ desk' = [d \in Desks |-> [desk[d] EXCEPT !.clean = desk[d].at = "idle"]]
    /\ UNCHANGED <<aboard, files, pilot, history>>

\* A key of the captain's goes off the books.
Revokes(k) ==
    /\ Spends("revoked", MaxRevoked) /\ k \in live \cap CaptainKeys /\ live' = live \ {k}
    /\ UNCHANGED <<aboard, bound, licence, files, pilot, desk, history>>

-----------------------------------------------------------------------------
(* The pilot.                                                               *)

\* candidate_papers: the hull's own key, the captain's record, the hull's co-pilot.
CandidatePapers(h) ==
    LET own == [key |-> Own[h], captain |-> None]
        others == Only(record, {p \in Range(record) : p.key # Own[h]})
        filed == [i \in DOMAIN others |-> [key |-> others[i].key, captain |-> others[i].captain]]
        second == [key |-> copilot[h], captain |-> FALSE]
    IN <<own>> \o filed \o IF copilot[h] = None \/ Holds(others, copilot[h]) THEN <<>> ELSE <<second>>

\* What each key is stays remembered.
Remembered(fresh, asks) ==
    [i \in DOMAIN fresh |->
        IF fresh[i].captain = None /\ \E j \in DOMAIN asks : asks[j].key = fresh[i].key
        THEN CHOOSE c \in Range(asks) : c.key = fresh[i].key
        ELSE fresh[i]]

Reads(h) ==
    /\ pilot[h].at = "idle"
    /\ pilot' = [pilot EXCEPT ![h].at = "asking", ![h].heard = <<>>, ![h].moved = FALSE,
                              ![h].asks = Remembered(CandidatePapers(h), @)]
    /\ UNCHANGED <<exchange, files, desk, spent, history>>

\* The verbs are those of the papers when the key is another than the last fold's.
Flying(p, k, captain) ==
    [p EXCEPT !.at = "flying", !.flying = k, !.denied = IF p.flying = k THEN @ ELSE ~captain]

\* A mutation: the first captain's key to answer flies, whatever it answers for.
WinsAnyway(h, answer) == answer.captain /\ answer.hull # None

\* The captain's own papers answering for this hull win outright.
Wins(h, answer) == answer.captain /\ answer.hull = h

\* A key is asked what it is, unless that is known, and what it answers for.
Asks(h) ==
    LET p == pilot[h]
        i == Len(p.heard) + 1
        c == p.asks[i]
        hears(captain, hull) ==
            LET answer == [captain |-> captain = TRUE, hull |-> hull]
                q == [p EXCEPT !.asks[i].captain = captain, !.heard = Append(@, answer)]
            IN pilot' = [pilot EXCEPT ![h] =
                  IF i = 1 /\ hull = None /\ (c.key \in live \/ Len(p.asks) = 1) THEN [q EXCEPT !.at = "idle"]
                  ELSE IF Wins(h, answer) THEN Flying(q, c.key, TRUE) ELSE q]
        is == IF c.captain = None THEN c.key \in CaptainKeys ELSE c.captain
    IN  /\ p.at = "asking" /\ i <= Len(p.asks)
        /\ \/ c.key \in live /\ hears(is, AnswersFor(c.key)) /\ UNCHANGED spent
           \/ c.key \notin live /\ hears(c.captain, None) /\ UNCHANGED spent
           \/ c.key \in live /\ Fails
              /\ \/ c.captain = None /\ hears(None, AnswersFor(c.key))
                 \/ hears(is, None)
        /\ UNCHANGED <<exchange, files, desk, history>>

\* pick_papers among keys none of which won outright: the hull's co-pilot, or what is not
\* known to be anything else.
Picked(h) == {i \in DOMAIN pilot[h].heard : pilot[h].heard[i].hull = h}

\* All were asked: a co-pilot's papers, a hold, or nobody answered.
Picks(h) ==
    LET p == pilot[h] IN
    /\ p.at = "asking" /\ Len(p.heard) = Len(p.asks)
    /\ pilot' = [pilot EXCEPT ![h] =
          IF Picked(h) # {}
          THEN LET i == CHOOSE i \in Picked(h) : \A j \in Picked(h) : i <= j
               IN Flying(p, p.asks[i].key, FALSE)
          ELSE IF \A i \in DOMAIN p.heard : p.heard[i].hull = None THEN [p EXCEPT !.at = "idle"]
          ELSE [p EXCEPT !.at = "idle", !.flying = None]]
    /\ UNCHANGED <<exchange, files, desk, spent, history>>

\* The fold files what it decides on the key chosen, and is over.
Folds(h) ==
    /\ pilot[h].at = "flying" /\ pilot' = [pilot EXCEPT ![h].at = "idle"]
    /\ UNCHANGED <<exchange, files, desk, spent, history>>

Restarts(h) ==
    /\ Fails /\ pilot[h] # Grounded /\ pilot' = [pilot EXCEPT ![h] = Grounded]
    /\ UNCHANGED <<exchange, files, desk, history>>

-----------------------------------------------------------------------------
(* fleet papers.                                                            *)

Goes(d, new) == desk' = [desk EXCEPT ![d] = new]

Ends(d) == Goes(d, Away)

\* What a command does once the record holds the keys of the ship stores.
Filed(d) == IF desk[d].target = None THEN Away ELSE [desk[d] EXCEPT !.at = "filed", !.copy = <<>>]

Begins(d) ==
    /\ desk[d].at = "idle" /\ Spends("commands", MaxCommands)
    /\ \E target \in Hulls \cup {None}, replace \in BOOLEAN :
          /\ target = None => ~replace
          /\ Goes(d, [Away EXCEPT !.at = "loaded", !.copy = record, !.target = target, !.replace = replace])
    /\ UNCHANGED <<exchange, files, pilot, history>>

\* The keys the ship stores hold that answer.
Stored(silent) == {k \in ({Own[h] : h \in Hulls} \cup {copilot[h] : h \in Hulls}) \ {None, silent} : k \in live}

\* Keys filed on a record, in the order of the stores, whatever that is.
Entered(papers, keys) ==
    LET order == SetToSeq(keys)
    IN  papers \o [i \in 1..Cardinality(keys) |->
                     [key |-> order[i], captain |-> order[i] \in CaptainKeys, hull |-> AnswersFor(order[i])]]

\* A mutation: a key on the record already is filed once more.
GatheredAgain(papers, silent) == Entered(papers, Stored(silent))

\* gather: every key the ship stores hold that answers, and is not on the record yet.
Gathered(papers, silent) == Entered(papers, {k \in Stored(silent) : ~Holds(papers, k)})

Gathers(d) ==
    /\ desk[d].at = "loaded"
    /\ \E silent \in Keys \cup {None} :
          /\ IF silent = None THEN UNCHANGED spent ELSE Fails
          /\ LET all == Gathered(desk[d].copy, silent)
             IN Goes(d, IF all = desk[d].copy THEN Filed(d) ELSE [desk[d] EXCEPT !.at = "gathered", !.copy = all])
    /\ UNCHANGED <<exchange, files, pilot, history>>

Saves(d) ==
    /\ desk[d].at = "gathered" /\ record' = desk[d].copy /\ Goes(d, Filed(d))
    /\ UNCHANGED <<exchange, copilot, pilot, spent, history>>

Signing(at) == at \in {"checked", "waiting", "minted", "stored"}

\* Never signs over a co-pilot on the record that answers; one that does not is struck.
\* The papers are a captain's key that answers for the hull this minute.
Checks(d) ==
    LET target == desk[d].target
        ofHull(p) == ~p.captain /\ p.hull = target
        held == {p.key : p \in {q \in Range(record) : ofHull(q)}}
        struck == Only(record, {p \in Range(record) : ~ofHull(p)})
    IN  /\ desk[d].at = "filed"
        /\ \E silent \in Keys \cup {None} :
              LET answering == live \ {silent}
                  own == {k \in CaptainKeys \cap answering : Holds(struck, k) /\ aboard = target}
              IN  /\ IF silent = None THEN UNCHANGED spent ELSE Fails
                  /\ \/ /\ held \cap answering # {} \/ own = {}
                        /\ Ends(d) /\ UNCHANGED overlapped
                     \/ /\ held \cap answering = {}
                        /\ \E k \in own :
                              Goes(d, [desk[d] EXCEPT !.at = "checked", !.copy = struck, !.key = k])
                        /\ overlapped' = (overlapped \/ \E e \in Desks \ {d} : Signing(desk[e].at))
        /\ UNCHANGED <<exchange, files, pilot, signed, signedOver>>

\* A hull with a licence may have a co-pilot already.
Licenses(d) ==
    LET h == AnswersFor(desk[d].key) IN
    /\ desk[d].at = "checked"
    /\ \/ /\ desk[d].key \notin live \/ (licence[h] = "active" /\ ~desk[d].replace)
          /\ Ends(d) /\ UNCHANGED licence
       \/ /\ desk[d].key \in live /\ (licence[h] = "active" => desk[d].replace)
          /\ Goes(d, [desk[d] EXCEPT !.at = "waiting"])
          /\ licence' = [licence EXCEPT ![h] = IF @ \in {"none", "refused"} THEN "pending" ELSE @]
    /\ UNCHANGED <<aboard, live, bound, files, pilot, spent, history>>

\* The licence is refused, or has not come by the deadline.
GivesUp(d) ==
    /\ desk[d].at = "waiting"
    /\ desk[d].key \notin live \/ licence[AnswersFor(desk[d].key)] # "active"
    /\ Ends(d)
    /\ UNCHANGED <<exchange, files, pilot, spent, history>>

\* The mint is for the hull the captain stands on now; its answer may be lost.
Mints(d) ==
    LET h == AnswersFor(desk[d].key) IN
    /\ desk[d].at = "waiting" /\ desk[d].key \in live /\ licence[h] = "active"
    /\ \E c \in CoPilots :
          /\ Mint(c, h)
          /\ \/ /\ UNCHANGED spent
                /\ desk' = [e \in Desks |-> IF e = d THEN [desk[d] EXCEPT !.at = "minted", !.new = c]
                                            ELSE [desk[e] EXCEPT !.clean = desk[e].at = "idle"]]
             \/ Fails /\ Ends(d)
    /\ signedOver' = (signedOver \/ (CoPilotsOf(h) # {} /\ ~desk[d].replace))
    /\ overlapped' = (overlapped \/ ~desk[d].clean)
    /\ UNCHANGED <<aboard, licence, files, pilot, signed>>

\* A mutation: the secret is left to the record.
StoresNowhere(d) ==
    /\ desk[d].at = "minted" /\ Goes(d, [desk[d] EXCEPT !.at = "stored"])
    /\ signed' = signed \cup {desk[d].new}
    /\ UNCHANGED <<exchange, files, pilot, spent, overlapped, signedOver>>

\* The secret is shown once: it is stored before anything else can fail.
Stores(d) ==
    /\ desk[d].at = "minted" /\ copilot' = [copilot EXCEPT ![desk[d].target] = desk[d].new]
    /\ Goes(d, [desk[d] EXCEPT !.at = "stored"])
    /\ signed' = signed \cup {desk[d].new}
    /\ UNCHANGED <<exchange, record, pilot, spent, overlapped, signedOver>>

Records(d) ==
    /\ desk[d].at = "stored"
    /\ record' = Append(desk[d].copy, [key |-> desk[d].new, captain |-> FALSE, hull |-> desk[d].target])
    /\ Ends(d)
    /\ UNCHANGED <<exchange, copilot, pilot, spent, history>>

Dies(d) ==
    /\ Fails /\ desk[d].at # "idle" /\ Ends(d)
    /\ UNCHANGED <<exchange, files, pilot, history>>

-----------------------------------------------------------------------------

Next ==
    \/ Moves \/ \E h \in Hulls : Decides(h) \/ RefusesLicence(h) \/ HaulSigns(h)
    \/ \E k \in CaptainKeys : Revokes(k)
    \/ \E h \in Piloted : Reads(h) \/ Asks(h) \/ Picks(h) \/ Folds(h) \/ Restarts(h)
    \/ \E d \in Desks : Begins(d) \/ Gathers(d) \/ Saves(d) \/ Checks(d) \/ Licenses(d) \/ GivesUp(d)
                        \/ Mints(d) \/ Stores(d) \/ Records(d) \/ Dies(d)

Spec == Init /\ [][Next]_vars

-----------------------------------------------------------------------------
(* Properties.                                                              *)

\* A fold files for the hull its pilot flies and within the papers it flies on, whatever keys
\* are revoked, retired, signed or silent, unless the captain changes ship during the fold
\* (main.rs:1240, store.rs:225).
WithinItsPapers ==
    \A h \in Piloted : pilot[h].at = "flying" /\ ~pilot[h].moved =>
        /\ AnswersFor(pilot[h].flying) = h
        /\ pilot[h].flying \in CaptainKeys \/ pilot[h].denied

\* Unless it is told to replace, or another signs or the captain changes ship in the midst of
\* it, a signing retires no co-pilot; and what it stored and the exchange honours, its hull's
\* pilot will ask, whatever stale copies of the record are saved (papers.rs:267, papers.rs:370).
SignedIsCarried ==
    overlapped \/
        /\ ~signedOver
        /\ \A c \in signed \cap live :
              \E i \in DOMAIN CandidatePapers(bound[c]) : CandidatePapers(bound[c])[i].key = c
=============================================================================
