------------------------------ MODULE DialGate ------------------------------
(***************************************************************************)
(* The captain's dial at the pilot's action door.                          *)
(*                                                                         *)
(* One pilot process (crates/pilot/src/main.rs) folds in a loop: it reads  *)
(* the dial file, then the exchange's tick and the standing course, and    *)
(* puts every act its doctrine decides on to DialGate::allow.  Meanwhile   *)
(* two front ends write the same ship store without a lock: the command    *)
(* line (crates/cli/src/autonomy_cmd.rs) and the local service             *)
(* (crates/cli/src/fleet_serve.rs).  They rewrite autonomy.json in place,  *)
(* which a reader can catch empty, and they append the captain's answers   *)
(* to approvals.jsonl.                                                     *)
(***************************************************************************)
EXTENDS Autonomy

CONSTANTS Engages,        \* the intents whose body is an `engage`
          Courses,        \* standing courses, as standing_course words them
          NoCourse,       \* no course stands
          AdviceWindow,   \* ticks before a standing advice is said again, 20 in the code
          Puts,           \* dials a captain saves through the service
          Sets,           \* <<key, level>> pairs a captain sets on the command line
          MaxTick,        \* bound on the exchange's clock
          MaxMoves        \* bound on the captain's words: turns, answers, courses

ASSUME DialGateAssumption ==
    /\ Engages \subseteq Intents
    /\ NoCourse \notin Courses
    /\ AdviceWindow \in Nat
    /\ Puts \subseteq Dials
    /\ Sets \subseteq Keys \X Levels
    /\ MaxTick \in Nat
    /\ MaxMoves \in Nat

VARIABLES dialFile,    \* autonomy.json
          writers,     \* what each front end is doing to it
          moves,       \* how often the captain has spoken
          proposals,   \* proposals.jsonl
          approvals,   \* approvals.jsonl
          course,      \* the standing course orders.json holds now
          clock,       \* the exchange's tick
          fold,        \* the pilot's fold: how far it is and what it has read
          lastSaid,    \* DialGate.last_advice: when each line was last journaled
          ruling,      \* what the gate ruled in the step just taken
          saved,       \* history: the dial the captain saved last
          inForce      \* history: dials the captain had saved during this fold

vars == <<dialFile, writers, moves, proposals, approvals, course, clock, fold,
          lastSaid, ruling, saved, inForce>>

store == <<dialFile, writers, moves, proposals, approvals, course, clock>>

FrontEnds == {"cli", "serve"}

\* What the gate may say of an act it withholds, and the key it remembers that by.
SaidKeys == ({"advice", "lapsed"} \X Intents) \cup ({"under-orders"} \X Courses)

Never == -1

Ticks == 0..MaxTick

NoRuling == [made |-> FALSE]

Rulings == [made : {TRUE}, intent : Intents, tick : Ticks, level : Levels,
            verdict : Verdicts \cup {"under-orders"}, course : Courses \cup {NoCourse}]

Folds == [at : {"idle", "dialled", "deciding"}, dial : Dials, tick : Ticks,
          course : Courses \cup {NoCourse}]

TypeOK ==
    /\ dialFile \in DialFiles
    /\ writers \in [FrontEnds -> [at : {"idle", "holding", "opened"}, dial : Dials]]
    /\ moves \in 0..MaxMoves
    /\ proposals \in Seq(Proposals)
    /\ approvals \in Seq(Approvals)
    /\ course \in Courses \cup {NoCourse}
    /\ clock \in Ticks
    /\ fold \in Folds
    /\ lastSaid \in [SaidKeys -> Ticks \cup {Never}]
    /\ ruling \in Rulings \cup {NoRuling}
    /\ saved \in Dials
    /\ inForce \subseteq Dials

Init ==
    /\ dialFile = EmptyFile
    /\ writers = [w \in FrontEnds |-> [at |-> "idle", dial |-> DefaultDial]]
    /\ moves = 0
    /\ proposals = << >>
    /\ approvals = << >>
    /\ course = NoCourse
    /\ clock = 0
    /\ fold = [at |-> "idle", dial |-> DefaultDial, tick |-> 0, course |-> NoCourse]
    /\ lastSaid = [k \in SaidKeys |-> Never]
    /\ ruling = NoRuling
    /\ saved = DefaultDial
    /\ inForce = {}

-----------------------------------------------------------------------------
(* The captain's front ends.                                                *)

\* `autonomy set`: load the file, set the key, hold the result until it is written.
CliSet(key, level) ==
    /\ writers["cli"].at = "idle" /\ moves < MaxMoves
    /\ moves' = moves + 1
    /\ writers' = [writers EXCEPT !["cli"] =
                      [at |-> "holding", dial |-> SetKey(ParseDial(dialFile), key, level)]]
    /\ ruling' = NoRuling
    /\ UNCHANGED <<dialFile, proposals, approvals, course, clock, fold, lastSaid, saved, inForce>>

\* save_dial is one fs::write: the open truncates the file ...
OpenDial ==
    /\ writers["cli"].at = "holding"
    /\ dialFile' = EmptyFile
    /\ writers' = [writers EXCEPT !["cli"].at = "opened"]
    /\ ruling' = NoRuling
    /\ UNCHANGED <<moves, proposals, approvals, course, clock, fold, lastSaid, saved, inForce>>

\* PUT /ships/{id}/dial: a whole new dial, whatever the file held; it reads nothing
\* before its own open.
ServePut(dial) ==
    /\ writers["serve"].at = "idle" /\ moves < MaxMoves
    /\ moves' = moves + 1
    /\ dialFile' = EmptyFile
    /\ writers' = [writers EXCEPT !["serve"] = [at |-> "opened", dial |-> dial]]
    /\ ruling' = NoRuling
    /\ UNCHANGED <<proposals, approvals, course, clock, fold, lastSaid,
                   saved, inForce>>

\* ... and the write fills it.  Over another writer's text the shorter of the two
\* leaves the longer one's tail behind.
WriteDial(w) ==
    /\ writers[w].at = "opened"
    /\ dialFile' \in IF dialFile.form = "empty" \/ dialFile.says = writers[w].dial
                       THEN {WholeFile(writers[w].dial)}
                       ELSE {WholeFile(writers[w].dial), GarbledFile}
    /\ writers' = [writers EXCEPT ![w] = [at |-> "idle", dial |-> DefaultDial]]
    /\ saved' = writers[w].dial
    /\ inForce' = IF fold.at = "idle" THEN {} ELSE inForce \cup {writers[w].dial}
    /\ ruling' = NoRuling
    /\ UNCHANGED <<moves, proposals, approvals, course, clock, fold, lastSaid>>

\* The writer dies before its text is down: the file keeps what the open left of it.
WriterDies(w) ==
    /\ writers[w].at # "idle"
    /\ writers' = [writers EXCEPT ![w] = [at |-> "idle", dial |-> DefaultDial]]
    /\ ruling' = NoRuling
    /\ UNCHANGED <<dialFile, moves, proposals, approvals, course, clock, fold, lastSaid, saved, inForce>>

\* `autonomy approve|deny` and POST /ships/{id}/approve: a proposal on file may be
\* answered at any time, and answered again.
Answer(i, approved) ==
    /\ moves < MaxMoves
    /\ moves' = moves + 1
    /\ OnFile(proposals, i)
    /\ approvals' = Append(approvals, [id |-> i, approved |-> approved])
    /\ ruling' = NoRuling
    /\ UNCHANGED <<dialFile, writers, proposals, course, clock, fold, lastSaid, saved, inForce>>

\* orders.json gains or loses a standing course; how is module Orders' business.
TurnCourse(c) ==
    /\ moves < MaxMoves
    /\ moves' = moves + 1
    /\ course' = c
    /\ ruling' = NoRuling
    /\ UNCHANGED <<dialFile, writers, proposals, approvals, clock, fold, lastSaid, saved, inForce>>

Tick ==
    /\ clock < MaxTick
    /\ clock' = clock + 1
    /\ ruling' = NoRuling
    /\ UNCHANGED <<dialFile, writers, moves, proposals, approvals, course, fold, lastSaid, saved, inForce>>

-----------------------------------------------------------------------------
(* The pilot.                                                               *)

\* A mutation of BeginFold: the dial is read once, when the pilot starts.
BeginFoldOldDial ==
    /\ fold.at = "idle"
    /\ fold' = [fold EXCEPT !.at = "dialled"]
    /\ inForce' = {saved}
    /\ ruling' = NoRuling
    /\ UNCHANGED <<store, lastSaid, saved>>

\* The top of the loop: the captain may turn the dial at any time.
BeginFold ==
    /\ fold.at = "idle"
    /\ fold' = [fold EXCEPT !.at = "dialled", !.dial = ParseDial(dialFile)]
    /\ inForce' = {saved}
    /\ ruling' = NoRuling
    /\ UNCHANGED <<store, lastSaid, saved>>

\* /v1/status answers with the tick, and orders.json with the standing course.
Survey ==
    /\ fold.at = "dialled"
    /\ fold' = [fold EXCEPT !.at = "deciding", !.tick = clock, !.course = course]
    /\ ruling' = NoRuling
    /\ UNCHANGED <<store, lastSaid, saved, inForce>>

\* The fold is over: every path of it ends in a sleep and a `continue`, and the next
\* fold reads the tick and the course again before it decides anything.
EndFold ==
    /\ fold.at # "idle"
    /\ fold' = [fold EXCEPT !.at = "idle", !.tick = 0, !.course = NoCourse]
    /\ inForce' = {}
    /\ ruling' = NoRuling
    /\ UNCHANGED <<store, lastSaid, saved>>

\* A new process: the file stays, the gate's memory of what it said does not.
Restart ==
    /\ fold' = [at |-> "idle", dial |-> ParseDial(dialFile), tick |-> 0,
                course |-> NoCourse]
    /\ lastSaid' = [k \in SaidKeys |-> Never]
    /\ inForce' = {}
    /\ ruling' = NoRuling
    /\ UNCHANGED <<store, saved>>

\* The key a withheld act is remembered under.
SaidKey(verdict, i, c) ==
    CASE verdict = "under-orders" -> <<"under-orders", c>>
      [] verdict = "advise"       -> <<"advice", i>>
      [] OTHER                    -> <<"lapsed", i>>

\* Journal the line unless it was journaled within the window.
Say(key, tick) ==
    IF lastSaid[key] = Never \/ tick - lastSaid[key] > AdviceWindow
      THEN lastSaid' = [lastSaid EXCEPT ![key] = tick]
      ELSE UNCHANGED lastSaid

\* What allow answers on intent i: the standing course first, then the gate.
Verdict(i) ==
    IF fold.course # NoCourse /\ i \notin Engages
      THEN "under-orders"
      ELSE Gate(fold.dial, i, fold.tick, proposals, approvals)

\* DialGate::allow, put to intent i.
Allow(i) ==
    /\ fold.at = "deciding"
    /\ LET v == Verdict(i)
       IN  /\ ruling' = [made |-> TRUE, intent |-> i, tick |-> fold.tick,
                         level |-> LevelOf(fold.dial, SurfaceOf[i]),
                         verdict |-> v, course |-> fold.course]
           /\ proposals' = IF v = "propose"
                             THEN Append(proposals, NewProposal(i, fold.tick))
                             ELSE proposals
           /\ IF v \in {"under-orders", "advise", "lapsed"}
                THEN Say(SaidKey(v, i, fold.course), fold.tick)
                ELSE UNCHANGED lastSaid
    /\ UNCHANGED <<dialFile, writers, moves, approvals, course, clock, fold, saved, inForce>>

-----------------------------------------------------------------------------

Captain ==
    \/ \E ks \in Sets : CliSet(ks[1], ks[2])
    \/ \E d \in Puts : ServePut(d)
    \/ OpenDial
    \/ \E w \in FrontEnds : WriteDial(w) \/ WriterDies(w)
    \/ \E i \in Intents, yes \in BOOLEAN : Answer(i, yes)
    \/ \E c \in Courses \cup {NoCourse} : TurnCourse(c)

Pilot ==
    \/ BeginFold
    \/ Survey
    \/ EndFold
    \/ Restart
    \/ \E i \in Intents : Allow(i)

Next == Captain \/ Tick \/ Pilot

Spec == Init /\ [][Next]_vars

-----------------------------------------------------------------------------
(* What the bridge tells the captain of a proposal on file.                 *)

\* A mutation of BridgeState: the last tick of a proposal already counts as lapsed.
BridgeStateEager(k, tick) ==
    LET p == proposals[k]
    IN  IF OnFile(approvals, p.id)
          THEN IF Newest(approvals, p.id).approved THEN "approved" ELSE "denied"
        ELSE IF tick >= p.expires THEN "lapsed" ELSE "open"

\* proposals_with_state, one line per proposal on file.
BridgeState(k, tick) ==
    LET p == proposals[k]
    IN  IF OnFile(approvals, p.id)
          THEN IF Newest(approvals, p.id).approved THEN "approved" ELSE "denied"
        ELSE IF tick > p.expires THEN "lapsed" ELSE "open"

-----------------------------------------------------------------------------
(* Properties.                                                              *)

\* The ticks at which a line still counts as said at this tick.
Recently(tick) == (tick - AdviceWindow)..tick \cap Nat

\* An act is let through on a surface set to confirm only if it was put to the
\* captain first and the last word on it was yes: silence, a lapse and a withdrawn
\* yes are never consent (gate, autonomy.rs).
AskedAndAnswered ==
    ruling.made /\ ruling.verdict = "act" /\ ruling.level = "confirm" =>
        /\ \E k \in DOMAIN proposals :
               proposals[k].id = ruling.intent /\ proposals[k].tick <= ruling.tick
        /\ \E k \in DOMAIN approvals :
               /\ approvals[k].id = ruling.intent
               /\ approvals[k].approved
               /\ \A j \in DOMAIN approvals : j > k => approvals[j].id # ruling.intent

\* The same intent on a later fold finds its own earlier proposal, across lapses,
\* answers and restarts, rather than filing another (proposal_id, autonomy.rs).
OneProposalPerIntent ==
    \A j, k \in DOMAIN proposals : proposals[j].id = proposals[k].id => j = k

\* Whatever a reader catches in autonomy.json while it is being rewritten, an act let
\* through as auto was granted by the default dial or by a dial the captain had saved
\* during this very fold: a dial turned down binds from the next fold on, and a torn
\* file never opens a surface with a floor of its own (load_dial, Dial::level).
NothingBeyondWhatWasSaid ==
    ruling.made /\ ruling.verdict = "act" /\ ruling.level = "auto" =>
        SurfaceOf[ruling.intent] \in
            UNION {AutoSurfaces(d) : d \in inForce \cup {DefaultDial}}

\* The gate never withholds an act in silence: the journal holds a line about this
\* act, or about the course that stops it, no older than the advice window, or an
\* open proposal asks for it; repeats are thinned, never lost (DialGate::allow).
NeverSilent ==
    ruling.made /\ ruling.verdict # "act" =>
        CASE ruling.verdict \in {"propose", "proposed"} ->
               \E k \in DOMAIN proposals :
                  /\ proposals[k].id = ruling.intent
                  /\ ruling.tick <= proposals[k].expires
          [] ruling.verdict = "under-orders" ->
               lastSaid[<<"under-orders", ruling.course>>] \in Recently(ruling.tick)
          [] ruling.verdict = "advise" ->
               lastSaid[<<"advice", ruling.intent>>] \in Recently(ruling.tick)
          [] OTHER -> lastSaid[<<"lapsed", ruling.intent>>] \in Recently(ruling.tick)

\* What the bridge shows the captain of a proposal is what the gate makes of it at the
\* same tick, for every proposal on file (proposals_with_state against gate).
BridgeAgreesWithGate ==
    \A k \in DOMAIN proposals :
        LET i == proposals[k].id
            g == Gate(fold.dial, i, clock, proposals, approvals)
        IN  LevelOf(fold.dial, SurfaceOf[i]) = "confirm" =>
              CASE BridgeState(k, clock) = "open"     -> g = "proposed"
                [] BridgeState(k, clock) = "approved" -> g = "act"
                [] OTHER                              -> g = "lapsed"

-----------------------------------------------------------------------------
(* The inductive invariant behind the safety properties.                    *)

\* A whole file holds the dial saved last.
FileHoldsSaved == dialFile.form = "whole" => dialFile.says = saved

\* A fold works from the default dial or from one saved while it ran.
FoldDialInForce == fold.at # "idle" => fold.dial \in inForce \cup {DefaultDial}

\* Nothing on record is later than the exchange's clock, nor than the tick a deciding
\* fold works at.
NothingFromTheFuture ==
    /\ fold.tick <= clock
    /\ \A k \in DOMAIN proposals : proposals[k].tick <= clock
    /\ \A key \in SaidKeys : lastSaid[key] <= clock
    /\ fold.at = "deciding" =>
          /\ \A k \in DOMAIN proposals : proposals[k].tick <= fold.tick
          /\ \A key \in SaidKeys : lastSaid[key] <= fold.tick

\* The captain only ever answers what was put to the captain.
AnswersFollowProposals ==
    \A k \in DOMAIN approvals : OnFile(proposals, approvals[k].id)

GateInv ==
    /\ TypeOK
    /\ FileHoldsSaved
    /\ FoldDialInForce
    /\ NothingFromTheFuture
    /\ OneProposalPerIntent
    /\ AnswersFollowProposals
=============================================================================
