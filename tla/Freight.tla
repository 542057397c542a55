------------------------------ MODULE Freight ------------------------------
(***************************************************************************)
(* The contracts one hull holds, and what its pilot knows of them.         *)
(*                                                                         *)
(* The pilot (crates/pilot/src/main.rs) keeps one active contract and the  *)
(* companions beside it, in memory only.  Each fold it reads the           *)
(* exchange's record of its freight, adopts what it does not know of,      *)
(* drops what is closed, and files at most a collect, a booking or a leg.  *)
(* An act is filed under an idempotency id, accepted at once, and resolves *)
(* at a later tick; its answer may be lost, and the pilot may die between  *)
(* any two steps.  The exchange is external: it appears as the contracts,  *)
(* the trail of freight events per load, and the acts accepted and not yet *)
(* resolved, which /v1/me shows as pendingActions.                         *)
(***************************************************************************)
EXTENDS Integers, Sequences, FiniteSets, SequencesExt, Lists

CONSTANTS Loads,        \* contracts on the board
          NoLoad,       \* no contract
          BayLimit,     \* BAY_LIMIT: how many contracts the pilot will hold at once
          Bays,         \* how many the worlds it may fly in let a hull hold
          MaxMishaps,   \* bound on crashes, lost replies and failed reads
          MaxCaptain    \* bound on bookings the captain files on the same key

ASSUME FreightAssumption ==
    /\ NoLoad \notin Loads
    /\ BayLimit \in Nat \ {0} /\ Bays \subseteq 1..BayLimit
    /\ MaxMishaps \in Nat /\ MaxCaptain \in Nat

\* The acts on a contract.  Legs, fuel, the yard and the market change none: all they do
\* here is keep a fold from deciding, which any fold may do.
Bodies == [verb : {"book", "collect"}, load : Loads]

\* What the pilot and the exchange know of the id an act was last filed under, within the
\* window of ticks in which the same act is the same intent: never sent, sent and not
\* received, received but not answered, answered.
IdStates == {"none", "unheard", "taken", "acked"}

Events == {"booked", "picked", "delivered", "paid", "reverted", "refused", "full"}

-----------------------------------------------------------------------------
(* Reading the trail of one load.                                           *)

Opens(e) == e \in {"booked", "picked", "delivered"}

Rejects(e) == e \in {"refused", "full"}

\* A mutation of Ends: a refused booking is no loss.
EndsUnlessRefused(trail) == {k \in DOMAIN trail : trail[k] \in {"paid", "reverted"}}

\* Where ledger_word ends: at the payment or the revert, or at a rejection of what was
\* never ours.
Ends(trail) ==
    {k \in DOMAIN trail :
        \/ trail[k] \in {"paid", "reverted"}
        \/ Rejects(trail[k]) /\ ~ \E j \in 1..(k - 1) : Opens(trail[j])}

Closed(trail) == Ends(trail) # {}

Reason(trail) == trail[Min(Ends(trail))]

\* ledger_word, of a load that is not closed.
Word(trail) ==
    IF Contains(trail, "delivered") THEN "delivered"
    ELSE IF Contains(trail, "picked") THEN "picked" ELSE "booked"

\* The adoption's own reading: open unless a payment or a rejection came last.
StillOpen(trail) ==
    /\ trail # << >>
    /\ ~ \E k \in DOMAIN trail :
           /\ trail[k] = "paid" \/ Rejects(trail[k])
           /\ \A j \in (k + 1)..Len(trail) : ~Opens(trail[j])

-----------------------------------------------------------------------------

VARIABLES world,      \* the exchange: how many contracts this world lets a hull hold
          board,      \* the exchange: each load's state, "booked" on for this hull only
          trails,     \* the exchange: the freight events it shows this hull, per load
          newest,     \* the exchange: loads of the trail, the last to move first
          inbox,      \* the exchange: acts accepted and not yet resolved, in order
          at,         \* the pilot: how far its fold is
          me,         \* the pilot: what it read of the exchange this fold
          active,     \* the pilot: the contract the next act is about
          companions, \* the pilot: the rest of its bay
          adopted,    \* the pilot: it need not look for contracts it does not know
          recent,     \* the pilot: the ids of the last window, per act
          lost,       \* the pilot: loads that left it, not to be booked for a while
          bayCap,     \* the pilot: how many contracts it takes this world to allow
          resuming,   \* the pilot: restarted, with an act of its journal unresolved
          sent,       \* the pilot: the act just answered, to be journaled
          mishaps,    \* crashes, lost replies and failed reads so far
          captains    \* the captain's own bookings so far

exchange == <<world, board, trails, newest, inbox>>
bay == <<active, companions, bayCap>>
vars == <<exchange, at, me, bay, adopted, recent, lost, resuming, sent, mishaps, captains>>

States == {"open", "taken", "booked", "picked", "delivered", "paid"}

Ours(state) == state \in {"booked", "picked", "delivered"}

Mine == {l \in Loads : Ours(board[l])}

Due == {l \in Loads : board[l] = "delivered"}

Acts == [body : Bodies, by : {"pilot", "captain"}, logged : BOOLEAN]

NoMe == [pending |-> FALSE, trails |-> [l \in Loads |-> << >>], newest |-> << >>,
         mine |-> {}, due |-> {}, open |-> {}]

Known == (IF active = NoLoad THEN {} ELSE {active}) \cup Range(companions)

NoBody == [verb |-> "none", load |-> NoLoad]

TypeOK ==
    /\ world \in Bays
    /\ board \in [Loads -> States]
    /\ trails \in [Loads -> Seq(Events)]
    /\ newest \in Seq(Loads)
    /\ inbox \in Seq(Acts)
    /\ at \in {"idle", "read", "adopted", "boarded", "deciding", "journal"}
    /\ me \in [pending : BOOLEAN, trails : [Loads -> Seq(Events)], newest : Seq(Loads),
               mine : SUBSET Loads, due : SUBSET Loads, open : SUBSET Loads]
    /\ active \in Loads \cup {NoLoad}
    /\ companions \in Seq(Loads)
    /\ adopted \in BOOLEAN
    /\ recent \in [Bodies -> IdStates]
    /\ lost \in SUBSET Loads
    /\ bayCap \in 1..BayLimit
    /\ resuming \in BOOLEAN
    /\ sent \in Bodies \cup {NoBody}
    /\ mishaps \in 0..MaxMishaps
    /\ captains \in 0..MaxCaptain

Init ==
    /\ world \in Bays
    /\ board = [l \in Loads |-> "open"]
    /\ trails = [l \in Loads |-> << >>]
    /\ newest = << >> /\ inbox = << >>
    /\ at = "idle" /\ me = NoMe
    /\ active = NoLoad /\ companions = << >>
    /\ adopted = FALSE
    /\ recent = [b \in Bodies |-> "none"]
    /\ lost = {}
    /\ bayCap = BayLimit
    /\ resuming = FALSE
    /\ sent = NoBody
    /\ mishaps = 0 /\ captains = 0

Mishap == mishaps < MaxMishaps /\ mishaps' = mishaps + 1

-----------------------------------------------------------------------------
(* The exchange.                                                            *)

\* An event joins the trail; a booking starts it anew, and of a rejection again, which the
\* readings above cannot tell from one, only the place that matters is kept.
Trailed(l, e) ==
    /\ trails' = [trails EXCEPT ![l] = IF e = "booked" THEN <<e>>
                                       ELSE IF ~Contains(@, e) THEN Append(@, e)
                                       ELSE IF Opens(Head(@)) THEN Append(Only(@, Events \ {e}), e)
                                       ELSE @]
    /\ newest' = IF Opens(e) \/ ~Contains(newest, l)
                 THEN <<l>> \o Only(newest, Loads \ {l}) ELSE newest

Becomes(l, state, e) == board' = [board EXCEPT ![l] = state] /\ Trailed(l, e)

\* A booking takes a load that is open while the hull's bay has room in this world.
Books(l) ==
    IF board[l] # "open" THEN Trailed(l, "refused") /\ UNCHANGED board
    ELSE IF Cardinality(Mine) < world THEN Becomes(l, "booked", "booked")
    ELSE Trailed(l, "full") /\ UNCHANGED board

\* The first act in line resolves.
Resolve ==
    /\ inbox # << >>
    /\ inbox' = Tail(inbox)
    /\ LET b == Head(inbox).body
       IN  \/ b.verb = "book" /\ Books(b.load)
           \/ b.verb = "collect" /\ board[b.load] = "delivered" /\ Becomes(b.load, "paid", "paid")
           \/ b.verb = "collect" /\ board[b.load] # "delivered" /\ UNCHANGED <<board, trails, newest>>
    /\ UNCHANGED <<world, at, me, bay, adopted, recent, lost, resuming, sent, mishaps, captains>>

\* A held contract moves on, or the desk takes it back; others come and go on the board.
Moves(l) ==
    /\ \/ board[l] = "booked" /\ Becomes(l, "picked", "picked")
       \/ board[l] = "picked" /\ Becomes(l, "delivered", "delivered")
       \/ board[l] = "booked" /\ Becomes(l, "open", "reverted")
       \/ board[l] = "open" /\ board' = [board EXCEPT ![l] = "taken"] /\ UNCHANGED <<trails, newest>>
       \/ board[l] = "taken" /\ board' = [board EXCEPT ![l] = "open"] /\ UNCHANGED <<trails, newest>>
    /\ UNCHANGED <<world, inbox, at, me, bay, adopted, recent, lost, resuming, sent, mishaps, captains>>

\* The captain books from the desk app, on the same key.
CaptainBooks(l) ==
    /\ captains < MaxCaptain /\ board[l] = "open"
    /\ captains' = captains + 1
    /\ inbox' = Append(inbox, [body |-> [verb |-> "book", load |-> l], by |-> "captain",
                               logged |-> FALSE])
    /\ UNCHANGED <<world, board, trails, newest, at, me, bay, adopted, recent, lost, resuming, sent, mishaps>>

-----------------------------------------------------------------------------
(* The pilot's fold.                                                        *)

EndsFold == at' = "idle" /\ me' = NoMe

\* A mutation of InFlight: only what the pilot journaled is waited for.
InFlightLogged == \E k \in DOMAIN inbox : inbox[k].logged

\* The overlay shows an act that has not resolved, ours or the captain's.
InFlight == inbox # << >>

\* /v1/me and its pending overlay.  A booking seen there means to look again for
\* contracts; a restarted pilot first waits out what its journal says it filed.
ReadHull ==
    /\ at = "idle"
    /\ adopted' = (adopted /\ ~ \E k \in DOMAIN inbox : inbox[k].body.verb = "book")
    /\ IF resuming /\ \E k \in DOMAIN inbox : inbox[k].logged
       THEN UNCHANGED <<at, me, resuming>>
       ELSE /\ at' = "read" /\ resuming' = FALSE
            /\ me' = [pending |-> InFlight, trails |-> trails, newest |-> newest,
                      mine |-> Mine, due |-> Due, open |-> {}]
    /\ UNCHANGED <<exchange, bay, recent, lost, sent, mishaps, captains>>

\* Contracts the hull's record leaves open, the newest first.
OpenInRecord == Only(me.newest, {l \in Loads : StillOpen(me.trails[l])})

\* The rows the board gives this hull of them; a page that cannot be read gives none.
Rows(unread) == Only(OpenInRecord, Mine \ unread)

\* The newest open contract is the active one if its row is found, and the others ride
\* beside it.
Adopt ==
    /\ at = "read"
    /\ at' = "adopted" /\ adopted' = TRUE
    /\ IF adopted THEN UNCHANGED <<active, companions, mishaps>>
       ELSE \E unread \in SUBSET (Range(OpenInRecord) \cap Mine) :
              /\ IF unread = {} THEN UNCHANGED mishaps ELSE Mishap
              /\ IF OpenInRecord # << >> /\ Head(OpenInRecord) \in Mine \ unread
                 THEN active' = Head(OpenInRecord) /\ companions' = Tail(Rows(unread))
                 ELSE UNCHANGED active /\ companions' = Rows(unread)
    /\ UNCHANGED <<exchange, me, bayCap, recent, lost, resuming, sent, captains>>

\* A mutation of Held: the active is not counted.
HeldBeside(k, gone) == Cardinality({j \in 1..k : companions[j] \notin gone})

\* What the bay holds as the k-th companion leaves: those kept before it, and the active.
Held(k, gone) == 1 + Cardinality({j \in 1..k : companions[j] \notin gone})

\* Contracts the trail closes leave the bay, are not booked for a while, and the ids
\* that booked them are forgotten.  The active's end means to look again; a companion
\* refused for want of room teaches the pilot what this world holds.  With no active
\* left, the last companion takes its place.
DropClosed ==
    LET gone  == {l \in Known : Closed(me.trails[l])}
        kept  == Only(companions, Loads \ gone)
        stays == active # NoLoad /\ active \notin gone
        full  == {k \in DOMAIN companions :
                    companions[k] \in gone /\ Reason(me.trails[companions[k]]) = "full"}
        held  == {Held(k, gone) : k \in full}
    IN  /\ lost' = lost \cup gone
        /\ recent' = [b \in Bodies |-> IF b.load \in gone THEN "none" ELSE recent[b]]
        /\ adopted' = (adopted /\ (active = NoLoad \/ stays))
        /\ bayCap' = Min(held \cup {bayCap})
        /\ IF stays \/ kept = << >>
           THEN active' = (IF stays THEN active ELSE NoLoad) /\ companions' = kept
           ELSE active' = Last(kept) /\ companions' = Front(kept)

\* The open board is read only with room in the bay, at a berth or bound for one.
ReadBoard ==
    IF active' = NoLoad \/ 1 + Len(companions') < bayCap'
    THEN me' \in {me, [me EXCEPT !.open = {l \in Loads : board[l] = "open"} \ lost']}
    ELSE UNCHANGED me

Reconcile ==
    /\ at = "adopted" /\ ~me.pending
    /\ DropClosed /\ ReadBoard
    /\ at' = "boarded"
    /\ UNCHANGED <<exchange, resuming, sent, mishaps, captains>>

\* An act is in flight, or another phase of the fold takes it.
Waits ==
    /\ at = "adopted"
    /\ EndsFold
    /\ UNCHANGED <<exchange, bay, adopted, recent, lost, resuming, sent, mishaps, captains>>

Accepts(b) ==
    inbox' = Append(inbox, [body |-> b, by |-> "pilot", logged |-> FALSE])

\* An act under a fresh id.  The exchange takes it and says so; or no answer comes,
\* whether or not it was taken.
FilesOnce(b) ==
    /\ UNCHANGED recent
    /\ \/ Accepts(b) /\ sent' = b /\ at' = "journal" /\ UNCHANGED <<me, mishaps>>
       \/ (Accepts(b) \/ UNCHANGED inbox) /\ Mishap /\ UNCHANGED <<sent, me>> /\ at' = "deciding"

\* A mutation of Strays: the companions' pay is collected here as well.
StraysAndCompanions == me.due \ {active}

\* Delivered contracts whose pay the doctrine will not see to.
Strays == me.due \ Known

\* One stray's pay is filed for ahead of the doctrine; refused, the fold goes on.
CollectStray ==
    /\ at = "boarded"
    /\ \E l \in Strays : FilesOnce([verb |-> "collect", load |-> l])
    /\ UNCHANGED <<world, board, trails, newest, bay, adopted, lost, resuming, captains>>

Delivered(l) == Word(me.trails[l]) = "delivered"

\* What the doctrine may decide on its contracts: money first, the active's before a
\* companion's; then a booking, alone or beside what it holds.
Decisions ==
    IF active # NoLoad /\ Delivered(active) THEN {[verb |-> "collect", load |-> active]}
    ELSE IF active # NoLoad /\ \E k \in DOMAIN companions : Delivered(companions[k])
    THEN {[verb |-> "collect", load |-> companions[k]] :
             k \in {k \in DOMAIN companions : /\ Delivered(companions[k])
                                            /\ \A j \in 1..(k - 1) : ~Delivered(companions[j])}}
    ELSE IF active = NoLoad THEN [verb : {"book"}, load : me.open]
    ELSE IF 1 + Len(companions) < BayLimit THEN [verb : {"book"}, load : me.open \ Known]
    ELSE {}

\* An id the exchange has taken is answered again and does nothing more.
Reaches(b) == IF recent[b] = "taken" THEN UNCHANGED inbox ELSE Accepts(b)

\* An act under the id of the last window's same act, or a fresh one.  One that has been
\* answered is not sent.
Sends(b) ==
    /\ recent[b] # "acked"
    /\ \/ /\ Reaches(b)
          /\ recent' = [recent EXCEPT ![b] = "acked"]
          /\ sent' = b /\ at' = "journal" /\ UNCHANGED <<me, mishaps>>
       \/ /\ Reaches(b)
          /\ recent' = [recent EXCEPT ![b] = "taken"]
          /\ Mishap /\ UNCHANGED sent /\ EndsFold
       \/ /\ UNCHANGED inbox
          /\ recent' = [recent EXCEPT ![b] = IF @ = "none" THEN "unheard" ELSE @]
          /\ Mishap /\ UNCHANGED sent /\ EndsFold

File ==
    /\ at = "deciding" \/ (at = "boarded" /\ Strays = {})
    /\ \E b \in Decisions : Sends(b)
    /\ UNCHANGED <<world, board, trails, newest, bay, adopted, lost, resuming, captains>>

\* The doctrine holds, flies a leg, or decides what was answered within the window.
Holds ==
    /\ at \in {"boarded", "deciding"}
    /\ EndsFold
    /\ UNCHANGED <<exchange, bay, adopted, recent, lost, resuming, sent, mishaps, captains>>

\* The answer is journaled, and a booking joins the bay on the exchange's word.
Journal ==
    /\ at = "journal"
    /\ inbox' = [k \in DOMAIN inbox |->
                    [body |-> inbox[k].body, by |-> inbox[k].by,
                     logged |-> inbox[k].logged \/ (inbox[k].body = sent /\ inbox[k].by = "pilot")]]
    /\ IF sent.verb # "book" THEN UNCHANGED <<active, companions>>
       ELSE IF active = NoLoad THEN active' = sent.load /\ UNCHANGED companions
       ELSE companions' = Append(companions, sent.load) /\ UNCHANGED active
    /\ sent' = NoBody /\ EndsFold
    /\ UNCHANGED <<world, board, trails, newest, bayCap, adopted, recent, lost, resuming, mishaps, captains>>

\* Ticks pass: the window in which an act is the same intent, and the time a lost load is
\* left alone.
Forget ==
    /\ at = "idle"
    /\ \/ \E b \in Bodies : /\ recent[b] # "none" /\ recent' = [recent EXCEPT ![b] = "none"]
                            /\ UNCHANGED lost
       \/ \E l \in lost : lost' = lost \ {l} /\ UNCHANGED recent
    /\ UNCHANGED <<exchange, at, me, bay, adopted, resuming, sent, mishaps, captains>>

\* The pilot dies and is started again: of all this only the journal survives.
Restart ==
    /\ Mishap
    /\ active' = NoLoad /\ companions' = << >> /\ bayCap' = BayLimit
    /\ adopted' = FALSE /\ resuming' = TRUE
    /\ recent' = [b \in Bodies |-> "none"] /\ lost' = {}
    /\ sent' = NoBody /\ EndsFold
    /\ UNCHANGED <<exchange, captains>>

-----------------------------------------------------------------------------

Fold == ReadHull \/ Adopt \/ Waits \/ Reconcile \/ CollectStray \/ File \/ Holds \/ Journal

Next ==
    \/ Fold \/ Forget \/ Restart
    \/ Resolve
    \/ \E l \in Loads : Moves(l) \/ CaptainBooks(l)

Spec == Init /\ [][Next]_vars

-----------------------------------------------------------------------------
(* Properties.                                                              *)

PilotActs == {k \in DOMAIN inbox : inbox[k].by = "pilot"}

\* Whatever replies are lost and whenever the pilot dies, it never has the same act on a
\* contract in flight twice: no load is booked twice, no pay is filed for twice ("RETRY
\* THE ID, NEVER THE INTENT").
NeverTwiceInFlight ==
    \A j, k \in PilotActs :
        inbox[j].body = inbox[k].body => j = k

\* What the pilot decides about is its own: when a fold comes to decide, every contract
\* it takes for held is one the exchange showed this hull as holding in the same fold.
FliesOnlyItsOwn == at \in {"boarded", "deciding"} => Known \subseteq me.mine

\* Pay is filed for only where it is owed: at most one collect of a load is ever in
\* flight, and no paid load is collected again.
CollectsWhatIsOwed ==
    \A k \in PilotActs : inbox[k].body.verb = "collect" => board[inbox[k].body.load] = "delivered"

=============================================================================
