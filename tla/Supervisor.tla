------------------------------- MODULE Supervisor -------------------------------
(***************************************************************************)
(* `fleet run`, the process that keeps a pilot on every paired hull        *)
(* (crates/cli/src/fleet.rs), its pilots as operating-system processes     *)
(* (crates/pilot/src/main.rs), and the leases that give them authority     *)
(* (crates/world/src/lease.rs).  The supervisor works from the paired      *)
(* hulls it gathered at the head of a pass; `fleet unpair` and `world      *)
(* lease` are commands of several steps given meanwhile.  A pilot is known *)
(* by a pid in a file, and a pid outlives its process: the file is not     *)
(* removed when a pilot dies, and the system gives a free pid to anyone.   *)
(***************************************************************************)
EXTENDS Integers, FiniteSets

CONSTANTS Hulls, Pids, None,
          Renew,      \* --renew: a human said the supervisor may renew leases
          Day,        \* hours a lease is issued for
          Renewal,    \* it is renewed with fewer hours than this to go
          MaxFaults,  \* bound on deaths, failed spawns, reboots, strangers' pids
          MaxTurns    \* bound on what the human does: the boundary turned, a lease issued

ASSUME SupervisorAssumption ==
    /\ None \notin Pids /\ None \notin Hulls
    /\ Day \in Nat /\ Renewal \in 1..Day /\ Renew \in BOOLEAN
    /\ MaxFaults \in Nat /\ MaxTurns \in Nat

VARIABLES proc,      \* the processes of the machine, by pid
          pidFile,   \* each ship's whisker.pid
          sup,       \* the supervisor, its pass and its memory
          keyed,     \* hulls whose store holds ucf.env
          ended,     \* hulls decommissioned in the register
          command,   \* per hull, the step a human's command is at
          lease,     \* each ship's lease.json: hours to go and the boundary it projects
          open,      \* the root boundary's allow_network
          unfiled,   \* history: hulls whose pilot was on no file when its supervisor died
          faults, turns

vars == <<proc, pidFile, sup, keyed, ended, command, lease, open, unfiled, faults, turns>>

Free == [of |-> None, at |-> "free"]

Down == [at |-> "down", todo |-> {}, hull |-> None, pid |-> None,
         children |-> [h \in Hulls |-> None], fails |-> [h \in Hulls |-> 0],
         skips |-> [h \in Hulls |-> 0]]

TypeOK ==
    /\ proc \in [Pids -> [of : Hulls \cup {None},
                          at : {"free", "stranger", "starting", "loaded", "flying", "zombie"}]]
    /\ \A p \in Pids : (proc[p].of = None) <=> (proc[p].at \in {"free", "stranger"})
    /\ pidFile \in [Hulls -> Pids \cup {None}]
    /\ sup.at \in {"down", "reap", "gather", "ships", "spawn", "file", "asleep"}
    /\ sup.todo \subseteq Hulls /\ sup.hull \in Hulls \cup {None}
    /\ sup.children \in [Hulls -> Pids \cup {None}]
    /\ sup.fails \in [Hulls -> 0..MaxFaults] /\ sup.skips \in [Hulls -> 0..9]
    /\ keyed \subseteq Hulls /\ ended \subseteq Hulls /\ unfiled \subseteq Hulls
    /\ command \in [Hulls -> {"none", "stopped", "unkeyed", "leasing"}]
    /\ lease \in [Hulls -> [left : 0..Day, open : BOOLEAN]]
    /\ open \in BOOLEAN /\ faults \in 0..MaxFaults /\ turns \in 0..MaxTurns

Init ==
    /\ proc = [p \in Pids |-> Free]
    /\ pidFile = [h \in Hulls |-> None]
    /\ sup = Down
    /\ keyed = Hulls /\ ended = {} /\ unfiled = {}
    /\ command = [h \in Hulls |-> "none"]
    /\ lease = [h \in Hulls |-> [left |-> Day, open |-> TRUE]]
    /\ open = TRUE /\ faults = 0 /\ turns = 0

-----------------------------------------------------------------------------
(* What is read of a process, a lease and a hull.                           *)

Paired(h) == h \in keyed /\ h \notin ended

\* kill(pid, 0): a zombie answers it, and so does a stranger.
PidAlive(h) == pidFile[h] # None /\ proc[pidFile[h]].at # "free"

\* lease::permits, of the lease the pilot re-reads every cycle.
Permits(h) == lease[h].left > 0 /\ lease[h].open

Flying(h) == {p \in Pids : proc[p] = [of |-> h, at |-> "flying"]}

\* The hull's pilot is in its loop and past the gate.
Manned(h) == Flying(h) # {} /\ Permits(h)

Projection == [left |-> Day, open |-> open]

\* A process gone: the parent that has not waited for it keeps it a zombie.
Gone(p) == IF \E h \in Hulls : sup.children[h] = p
           THEN [of |-> proc[p].of, at |-> "zombie"] ELSE Free

\* A mutation: the wait rounded down, which is less than none.
SkipsRoundedDown(fails) == (30 * 2^(IF fails < 5 THEN fails ELSE 5)) \div 60 - 1

\* The wait after a failed spawn, in passes of sixty seconds left out.
Skips(fails) == LET doubled == 30 * 2^(IF fails < 5 THEN fails ELSE 5)
                    wait == IF doubled < 600 THEN doubled ELSE 600
                IN (wait + 59) \div 60 - 1

-----------------------------------------------------------------------------
(* A pass of the supervisor.                                                *)

supervised == <<keyed, ended, command, open, turns>>

Start == /\ sup.at = "down"
         /\ sup' = [Down EXCEPT !.at = "reap"]
         /\ UNCHANGED <<proc, pidFile, lease, unfiled, faults, supervised>>

\* A mutation: a child nobody waits for.
ReapNobody == /\ sup.at = "reap"
              /\ sup' = [sup EXCEPT !.at = "gather"]
              /\ UNCHANGED <<proc, pidFile, lease, unfiled, faults, supervised>>

\* try_wait on every child; of each one gone the pid file is removed.
Reap ==
    /\ sup.at = "reap"
    /\ LET gone == {h \in Hulls : /\ sup.children[h] # None
                                  /\ proc[sup.children[h]].at = "zombie"}
       IN /\ proc' = [p \in Pids |-> IF \E h \in gone : sup.children[h] = p THEN Free ELSE proc[p]]
          /\ pidFile' = [h \in Hulls |-> IF h \in gone THEN None ELSE pidFile[h]]
          /\ sup' = [sup EXCEPT !.at = "gather",
                        !.children = [h \in Hulls |-> IF h \in gone THEN None ELSE @[h]]]
    /\ UNCHANGED <<lease, unfiled, faults, supervised>>

\* A mutation: the hulls are gathered once, when the supervisor starts.
GatherOnce == /\ sup.at = "gather"
              /\ sup' = [sup EXCEPT !.at = "ships", !.todo = Hulls]
              /\ UNCHANGED <<proc, pidFile, lease, unfiled, faults, supervised>>

Gather == /\ sup.at = "gather"
          /\ sup' = [sup EXCEPT !.at = "ships", !.todo = {h \in Hulls : Paired(h)}]
          /\ UNCHANGED <<proc, pidFile, lease, unfiled, faults, supervised>>

\* issue_lease does not ask whether the hull is still paired.
RenewLease(h) == /\ sup.at = "ships" /\ h \in sup.todo
                 /\ sup' = [sup EXCEPT !.at = "spawn", !.todo = @ \ {h}, !.hull = h]
                 /\ lease' = IF Renew /\ lease[h].left < Renewal
                             THEN [lease EXCEPT ![h] = Projection] ELSE lease
                 /\ UNCHANGED <<proc, pidFile, unfiled, faults, supervised>>

\* A mutation: only the supervisor's own children count as aboard.
SomebodyElsesForgotten(h) == sup.children[h] # None

Aboard(h) == sup.children[h] # None \/ PidAlive(h)

Skip == /\ sup.at = "spawn"
        /\ Aboard(sup.hull) \/ sup.skips[sup.hull] > 0
        /\ sup' = [sup EXCEPT !.at = "ships", !.hull = None,
                       !.skips[sup.hull] = IF @ > 0 /\ ~Aboard(sup.hull) THEN @ - 1 ELSE @]
        /\ UNCHANGED <<proc, pidFile, lease, unfiled, faults, supervised>>

Spawn(p) == /\ sup.at = "spawn" /\ ~Aboard(sup.hull) /\ sup.skips[sup.hull] = 0
            /\ proc[p].at = "free"
            /\ proc' = [proc EXCEPT ![p] = [of |-> sup.hull, at |-> "starting"]]
            /\ sup' = [sup EXCEPT !.at = "file", !.pid = p, !.children[sup.hull] = p]
            /\ UNCHANGED <<pidFile, lease, unfiled, faults, supervised>>

SpawnFails == /\ sup.at = "spawn" /\ ~Aboard(sup.hull) /\ sup.skips[sup.hull] = 0
              /\ faults < MaxFaults
              /\ sup' = [sup EXCEPT !.at = "ships", !.hull = None,
                            !.skips[sup.hull] = Skips(sup.fails[sup.hull]),
                            !.fails[sup.hull] = @ + 1]
              /\ faults' = faults + 1
              /\ UNCHANGED <<proc, pidFile, lease, unfiled, supervised>>

FilePid == /\ sup.at = "file"
           /\ pidFile' = [pidFile EXCEPT ![sup.hull] = sup.pid]
           /\ sup' = [sup EXCEPT !.at = "ships", !.hull = None, !.pid = None]
           /\ UNCHANGED <<proc, lease, unfiled, faults, supervised>>

EndPass == /\ sup.at = "ships" /\ sup.todo = {}
           /\ sup' = [sup EXCEPT !.at = "asleep"]
           /\ UNCHANGED <<proc, pidFile, lease, unfiled, faults, supervised>>

Wake == /\ sup.at = "asleep"
        /\ sup' = [sup EXCEPT !.at = "reap"]
        /\ UNCHANGED <<proc, pidFile, lease, unfiled, faults, supervised>>

Pass == \/ Start \/ Reap \/ Gather \/ Skip \/ SpawnFails \/ FilePid \/ EndPass \/ Wake
        \/ \E h \in Hulls : RenewLease(h)
        \/ \E p \in Pids : Spawn(p)

-----------------------------------------------------------------------------
(* A pilot's life.                                                          *)

piloted == <<sup, keyed, ended, command, lease, open, unfiled, turns>>

\* The key is read into memory; a pilot with none on file stops.
Load(p) == /\ proc[p].at = "starting"
           /\ proc' = [proc EXCEPT ![p] = IF proc[p].of \in keyed
                                          THEN [@ EXCEPT !.at = "loaded"] ELSE Gone(p)]
           /\ UNCHANGED <<pidFile, faults, piloted>>

Begin(p) == /\ proc[p].at = "loaded"
            /\ proc' = [proc EXCEPT ![p].at = "flying"]
            /\ pidFile' = [pidFile EXCEPT ![proc[p].of] = p]
            /\ UNCHANGED <<faults, piloted>>

PilotDies(p) == /\ proc[p].at \in {"starting", "loaded", "flying"} /\ faults < MaxFaults
                /\ proc' = [proc EXCEPT ![p] = Gone(p)]
                /\ faults' = faults + 1
                /\ UNCHANGED <<pidFile, piloted>>

\* Another program is given a pid that was freed, and ends.  The machine keeps a free pid.
Stranger(p) == /\ proc[p].at = "free" /\ faults < MaxFaults
               /\ \E q \in Pids \ {p} : proc[q].at = "free"
               /\ proc' = [proc EXCEPT ![p].at = "stranger"]
               /\ faults' = faults + 1
               /\ UNCHANGED <<pidFile, piloted>>

StrangerEnds(p) == /\ proc[p].at = "stranger"
                   /\ proc' = [proc EXCEPT ![p] = Free]
                   /\ UNCHANGED <<pidFile, faults, piloted>>

\* Its children live on; those already gone are reaped by the system.
SupervisorDies ==
    /\ sup.at # "down" /\ faults < MaxFaults
    /\ proc' = [p \in Pids |-> IF proc[p].at = "zombie" THEN Free ELSE proc[p]]
    /\ unfiled' = unfiled \cup {h \in Hulls : \E p \in Pids :
                     /\ proc[p].of = h /\ proc[p].at # "zombie" /\ pidFile[h] # p}
    /\ sup' = Down
    /\ faults' = faults + 1
    /\ UNCHANGED <<pidFile, lease, supervised>>

Reboot == /\ faults < MaxFaults
          /\ proc' = [p \in Pids |-> Free] /\ sup' = Down
          /\ faults' = faults + 1
          /\ UNCHANGED <<pidFile, lease, unfiled, supervised>>

-----------------------------------------------------------------------------
(* What the human does, and time.                                           *)

\* fleet unpair: the pilot the file names is stopped, whoever it is; the key is destroyed;
\* authority ends.  The command may die between the steps.
StopPilot(h) == /\ command[h] = "none" /\ Paired(h)
                /\ IF PidAlive(h)
                   THEN /\ proc' = [proc EXCEPT ![pidFile[h]] =
                                       IF @.at = "stranger" THEN Free ELSE Gone(pidFile[h])]
                        /\ pidFile' = [pidFile EXCEPT ![h] = None]
                   ELSE UNCHANGED <<proc, pidFile>>
                /\ command' = [command EXCEPT ![h] = "stopped"]
                /\ UNCHANGED <<sup, keyed, ended, lease, open, unfiled, faults, turns>>

DestroyKey(h) == /\ command[h] = "stopped"
                 /\ keyed' = keyed \ {h}
                 /\ command' = [command EXCEPT ![h] = "unkeyed"]
                 /\ UNCHANGED <<proc, pidFile, sup, ended, lease, open, unfiled, faults, turns>>

Decommission(h) == /\ command[h] = "unkeyed"
                   /\ ended' = ended \cup {h}
                   /\ command' = [command EXCEPT ![h] = "none"]
                   /\ UNCHANGED <<proc, pidFile, sup, keyed, lease, open, unfiled, faults, turns>>

CommandDies(h) == /\ command[h] # "none" /\ faults < MaxFaults
                  /\ command' = [command EXCEPT ![h] = "none"]
                  /\ faults' = faults + 1
                  /\ UNCHANGED <<proc, pidFile, sup, keyed, ended, lease, open, unfiled, turns>>

\* world lease: refused of a hull decommissioned; the lease is written later.
AskLease(h) == /\ command[h] = "none" /\ h \notin ended /\ turns < MaxTurns
               /\ command' = [command EXCEPT ![h] = "leasing"]
               /\ turns' = turns + 1
               /\ UNCHANGED <<proc, pidFile, sup, keyed, ended, lease, open, unfiled, faults>>

WriteLease(h) == /\ command[h] = "leasing"
                 /\ lease' = [lease EXCEPT ![h] = Projection]
                 /\ command' = [command EXCEPT ![h] = "none"]
                 /\ UNCHANGED <<proc, pidFile, sup, keyed, ended, open, unfiled, faults, turns>>

TurnBoundary == /\ turns < MaxTurns
                /\ open' = ~open /\ turns' = turns + 1
                /\ UNCHANGED <<proc, pidFile, sup, keyed, ended, command, lease, unfiled, faults>>

Hour == /\ \E h \in Hulls : lease[h].left > 0
        /\ lease' = [h \in Hulls |-> [lease[h] EXCEPT !.left = IF @ > 0 THEN @ - 1 ELSE 0]]
        /\ UNCHANGED <<proc, pidFile, sup, keyed, ended, command, open, unfiled, faults, turns>>

Next == \/ Pass \/ SupervisorDies \/ Reboot \/ TurnBoundary \/ Hour
        \/ \E p \in Pids : Load(p) \/ Begin(p) \/ PilotDies(p) \/ Stranger(p) \/ StrangerEnds(p)
        \/ \E h \in Hulls : \/ StopPilot(h) \/ DestroyKey(h) \/ Decommission(h) \/ CommandDies(h)
                            \/ AskLease(h) \/ WriteLease(h)

\* The supervisor is a service: started again when it dies, and its loop goes on.  A pilot
\* that started gets on with it, and time passes.  Nothing is assumed of the human, of
\* strangers or of faults.
Fairness == /\ WF_vars(Pass) /\ WF_vars(Hour)
            /\ \A p \in Pids : WF_vars(Load(p) \/ Begin(p))

Spec == Init /\ [][Next]_vars /\ Fairness

-----------------------------------------------------------------------------
(* What the pid file must be good for.                                      *)

\* The pid file names a process that is not this hull's pilot: nobody flies it while that lasts.
Impostor(h) == pidFile[h] # None /\ proc[pidFile[h]].at # "free" /\ proc[pidFile[h]].of # h

\* Two pilots never fly one hull, whichever supervisor started them: the restarted one
\* knows the pilots of the one that died by the file.  The exception is the window the
\* code leaves: a supervisor that dies between a spawn and the pid on file, while the
\* pilot has not written it itself (fleet.rs:3010, main.rs:819).
AloneAtTheHelm == \A h \in Hulls \ unfiled : Cardinality(Flying(h)) <= 1

\* A hull that stays paired, under an open boundary, is flown again and again, whatever
\* died in between; the two pilots that "sat dead for twenty minutes" as zombies
\* (fleet.rs:2947) were not.  While the file names an impostor it is not.
PairedIsFlown ==
    \A h \in Hulls : <>[](Paired(h) /\ open /\ ~Impostor(h)) => []<>Manned(h)

\* Authority ends: of a hull that is unpaired, or under a boundary shut for good, no pilot
\* is past the gate for ever, not even one that a stale pass started or renewed after
\* the stop had looked for it.
AuthorityEnds ==
    \A h \in Hulls : <>[](h \in ended \/ ~open) => <>[]~Manned(h)
=============================================================================
