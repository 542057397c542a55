-------------------------- MODULE Supervisor_proofs --------------------------
(***************************************************************************)
(* For any hulls, pids and bounds: whatever dies, and whoever is given a   *)
(* freed pid, two pilots never fly one hull, save a hull whose supervisor  *)
(* died with the pilot on no file.  The supervisor knows a hull's pilot as *)
(* its child, and the supervisor after it by the pid file.                 *)
(***************************************************************************)
EXTENDS Supervisor, FiniteSetTheorems, TLAPS

-----------------------------------------------------------------------------
(* The inductive invariant.                                                 *)

Supervisors ==
    [at : {"down", "reap", "gather", "ships", "spawn", "file", "asleep"},
     todo : SUBSET Hulls, hull : Hulls \cup {None}, pid : Pids \cup {None},
     children : [Hulls -> Pids \cup {None}],
     fails : [Hulls -> 0..MaxFaults], skips : [Hulls -> 0..9]]

\* A spawn that failed was a fault; a hull is in hand while one is spawned and filed, and
\* the pid being filed is its child's; a supervisor that is down has no children.
PassInOrder ==
    /\ sup \in Supervisors
    /\ \A h \in Hulls : sup.fails[h] <= faults
    /\ sup.at \in {"spawn", "file"} => sup.hull \in Hulls
    /\ sup.at = "file" => sup.pid \in Pids /\ sup.children[sup.hull] = sup.pid
    /\ sup.at = "down" => \A h \in Hulls : sup.children[h] = None

Lives(p, h) == proc[p].of = h /\ proc[p].at \in {"starting", "loaded", "flying"}

\* Where a hull's pilot is looked for.
KnownPilot(h) == IF sup.children[h] # None THEN sup.children[h] ELSE pidFile[h]

\* A pilot that lives is the one its supervisor would find.
PilotsKnown ==
    \A h \in Hulls \ unfiled : \A p \in Pids : Lives(p, h) => p = KnownPilot(h)

HelmInv == TypeOK /\ PassInOrder /\ PilotsKnown

LEMMA InitHelm == Init => HelmInv
<1> SUFFICES ASSUME Init PROVE HelmInv
  OBVIOUS
<1>1. TypeOK /\ PassInOrder
  BY SupervisorAssumption DEF Init, TypeOK, PassInOrder, Supervisors, Down, Free
<1>2. PilotsKnown
  BY DEF Init, PilotsKnown, Lives, Free
<1>3. QED
  BY <1>1, <1>2 DEF HelmInv

-----------------------------------------------------------------------------
(* What the operators return.                                               *)

\* The wait after a failed spawn is at most ten passes.
LEMMA SkipsType == \A n \in Nat : Skips(n) \in 0..9
<1>1. ASSUME NEW n \in Nat PROVE Skips(n) \in 0..9
  <2>1. 2^0 = 1 /\ 2^1 = 2 /\ 2^2 = 4 /\ 2^3 = 8 /\ 2^4 = 16 /\ 2^5 = 32
    OBVIOUS
  <2>2. n \in 0..4 \/ n >= 5
    OBVIOUS
  <2>3. Skips(n) = LET doubled == 30 * 2^(IF n < 5 THEN n ELSE 5)
                       wait == IF doubled < 600 THEN doubled ELSE 600
                   IN  (wait + 59) \div 60 - 1
    BY DEF Skips
  <2>4. CASE n = 0
    BY <2>1, <2>3, <2>4
  <2>5. CASE n = 1
    BY <2>1, <2>3, <2>5
  <2>6. CASE n = 2
    BY <2>1, <2>3, <2>6
  <2>7. CASE n = 3
    BY <2>1, <2>3, <2>7
  <2>8. CASE n = 4
    BY <2>1, <2>3, <2>8
  <2>9. CASE n >= 5
    BY <2>1, <2>3, <2>9
  <2>10. QED
    BY <2>2, <2>4, <2>5, <2>6, <2>7, <2>8, <2>9
<1>2. QED
  BY <1>1

Procs == [of : Hulls \cup {None}, at : {"free", "stranger", "starting", "loaded", "flying", "zombie"}]

\* A pid is nobody's pilot exactly when it is free or a stranger's.
OfSomeHull(r) == (r.of = None) <=> (r.at \in {"free", "stranger"})

LEMMA GoneType ==
    ASSUME TypeOK, NEW p \in Pids, proc[p].of # None
    PROVE  Gone(p) \in Procs /\ OfSomeHull(Gone(p)) /\ Gone(p).at \in {"free", "zombie"}
BY SupervisorAssumption DEF TypeOK, Gone, Free, Procs, OfSomeHull

\* A process may be set to any record of its type.
LEMMA TypeOfProc ==
    ASSUME HelmInv, NEW p \in Pids, NEW r \in Procs, OfSomeHull(r), proc' = [proc EXCEPT ![p] = r]
    PROVE  proc' \in [Pids -> Procs] /\ \A q \in Pids : OfSomeHull(proc'[q])
<1>1. proc \in [Pids -> Procs] /\ \A q \in Pids : OfSomeHull(proc[q])
  BY DEF HelmInv, TypeOK, Procs, OfSomeHull
<1>2. QED
  BY <1>1

LEMMA FreeType == Free \in Procs /\ OfSomeHull(Free) /\ Free.at = "free"
BY DEF Free, Procs, OfSomeHull

-----------------------------------------------------------------------------
(* The pass.                                                                *)

\* A step of the pass that touches neither processes nor files keeps what it knows.
LEMMA PassMovesOn ==
    ASSUME HelmInv, UNCHANGED <<proc, pidFile, unfiled>>, \A h \in Hulls : sup'.children[h] = sup.children[h]
    PROVE  PilotsKnown'
BY DEF HelmInv, PilotsKnown, Lives, KnownPilot

LEMMA StepStart == HelmInv /\ Start => HelmInv'
<1> SUFFICES ASSUME HelmInv, Start PROVE HelmInv'
  OBVIOUS
<1>1. /\ sup' = [Down EXCEPT !.at = "reap"] /\ sup.at = "down"
      /\ UNCHANGED <<proc, pidFile, keyed, ended, command, lease, open, unfiled, faults, turns>>
  BY DEF Start, supervised
<1>2. sup' \in Supervisors /\ \A h \in Hulls : sup'.children[h] = None /\ sup'.fails[h] = 0
  BY <1>1, SupervisorAssumption DEF Down, Supervisors
<1>3. sup'.at = "reap"
  BY <1>1 DEF Down
<1>4. TypeOK'
  BY <1>1, <1>2 DEF HelmInv, TypeOK, Supervisors
<1>5. PassInOrder'
  BY <1>1, <1>2, <1>3 DEF HelmInv, PassInOrder, TypeOK
<1>6. PilotsKnown'
  BY <1>1, <1>2, PassMovesOn DEF HelmInv, PassInOrder
<1>7. QED
  BY <1>4, <1>5, <1>6 DEF HelmInv

\* A child gone was its hull's only pilot: its file may go with it.
LEMMA StepReap == HelmInv /\ Reap => HelmInv'
<1> SUFFICES ASSUME HelmInv, Reap PROVE HelmInv'
  OBVIOUS
<1> DEFINE gone == {h \in Hulls : /\ sup.children[h] # None
                                  /\ proc[sup.children[h]].at = "zombie"}
<1>1. /\ proc' = [p \in Pids |-> IF \E h \in gone : sup.children[h] = p THEN Free ELSE proc[p]]
      /\ pidFile' = [h \in Hulls |-> IF h \in gone THEN None ELSE pidFile[h]]
      /\ sup' = [sup EXCEPT !.at = "gather",
                    !.children = [h \in Hulls |-> IF h \in gone THEN None ELSE sup.children[h]]]
      /\ UNCHANGED <<keyed, ended, command, lease, open, unfiled, faults, turns>>
      /\ sup.at = "reap"
  BY DEF Reap, supervised, HelmInv, PassInOrder, Supervisors
<1>2. gone \subseteq Hulls /\ \A h \in gone : sup.children[h] # None /\ proc[sup.children[h]].at = "zombie"
  OBVIOUS
<1> HIDE DEF gone
<1>3. sup' \in Supervisors
  BY <1>1 DEF HelmInv, PassInOrder, Supervisors
<1>4. TypeOK'
  <2>1. proc' \in [Pids -> Procs] /\ \A p \in Pids : OfSomeHull(proc'[p])
    BY <1>1, FreeType DEF HelmInv, TypeOK, Procs, OfSomeHull
  <2>2. pidFile' \in [Hulls -> Pids \cup {None}]
    BY <1>1 DEF HelmInv, TypeOK
  <2>3. QED
    BY <1>1, <1>3, <2>1, <2>2 DEF HelmInv, TypeOK, Procs, OfSomeHull, Supervisors
<1>5. PassInOrder'
  BY <1>1, <1>3 DEF HelmInv, PassInOrder, Supervisors
<1>6. PilotsKnown'
  <2> SUFFICES ASSUME NEW h \in Hulls \ unfiled, NEW p \in Pids, Lives(p, h)'
               PROVE  p = KnownPilot(h)'
    BY <1>1 DEF PilotsKnown
  <2>1. Lives(p, h)
    BY <1>1 DEF Lives, Free
  <2>2. p = KnownPilot(h)
    BY <2>1 DEF HelmInv, PilotsKnown
  <2>3. h \notin gone
    BY <1>2, <2>1, <2>2 DEF Lives, KnownPilot
  <2>4. pidFile'[h] = pidFile[h] /\ sup'.children[h] = sup.children[h]
    BY <1>1, <2>3 DEF HelmInv, PassInOrder, Supervisors
  <2>5. QED
    BY <2>2, <2>4 DEF KnownPilot
<1>7. QED
  BY <1>4, <1>5, <1>6 DEF HelmInv

\* The steps that only move the pass along, or renew a lease.
LEMMA StepMovesOn ==
    HelmInv /\ (Gather \/ Skip \/ EndPass \/ Wake \/ \E h \in Hulls : RenewLease(h)) => HelmInv'
<1> SUFFICES ASSUME HelmInv, Gather \/ Skip \/ EndPass \/ Wake \/ \E h \in Hulls : RenewLease(h)
             PROVE  HelmInv'
  OBVIOUS
<1>1. sup \in Supervisors
  BY DEF HelmInv, PassInOrder
<1>2. UNCHANGED <<proc, pidFile, keyed, ended, command, open, unfiled, faults, turns>>
  BY DEF Gather, Skip, EndPass, Wake, RenewLease, supervised
<1> DEFINE Leases == [left : 0..Day, open : BOOLEAN]
<1>3. lease' \in [Hulls -> Leases]
  <2>1. lease \in [Hulls -> Leases] /\ Projection \in Leases
    BY SupervisorAssumption DEF HelmInv, TypeOK, Projection
  <2>2. CASE lease' = lease
    BY <2>1, <2>2
  <2>3. CASE \E h \in Hulls : lease' = [lease EXCEPT ![h] = Projection]
    <3>1. PICK h \in Hulls : lease' = [lease EXCEPT ![h] = Projection]
      BY <2>3
    <3> HIDE DEF Leases
    <3>2. QED
      BY <2>1, <3>1
  <2>4. QED
    BY <2>2, <2>3 DEF Gather, Skip, EndPass, Wake, RenewLease
<1>4. /\ sup' \in Supervisors
      /\ sup'.children = sup.children /\ sup'.fails = sup.fails
      /\ sup'.at \in {"spawn", "reap", "ships", "asleep"}
      /\ sup'.at = "spawn" => sup'.hull \in Hulls
  <2>1. CASE Gather
    BY <1>1, <2>1 DEF Gather, Supervisors
  <2>2. CASE Skip
    <3>1. sup.hull \in Hulls
      BY <2>2 DEF Skip, HelmInv, PassInOrder
    <3>2. PICK n \in 0..9 : sup' = [sup EXCEPT !.at = "ships", !.hull = None, !.skips[sup.hull] = n]
      <4>1. sup.skips[sup.hull] \in 0..9
        BY <1>1, <3>1 DEF Supervisors
      <4> DEFINE m == IF sup.skips[sup.hull] > 0 /\ ~Aboard(sup.hull)
                      THEN sup.skips[sup.hull] - 1 ELSE sup.skips[sup.hull]
      <4>2. m \in 0..9
        BY <4>1
      <4>3. sup' = [sup EXCEPT !.at = "ships", !.hull = None, !.skips[sup.hull] = m]
        BY <1>1, <2>2, <3>1 DEF Skip, Supervisors
      <4> HIDE DEF m
      <4>4. QED
        BY <4>2, <4>3
    <3>3. QED
      BY <1>1, <3>1, <3>2 DEF Supervisors
  <2>3. CASE EndPass \/ Wake
    BY <1>1, <2>3 DEF EndPass, Wake, Supervisors
  <2>4. ASSUME NEW h \in Hulls, RenewLease(h)
        PROVE  sup' = [sup EXCEPT !.at = "spawn", !.todo = sup.todo \ {h}, !.hull = h]
    BY <2>4 DEF RenewLease
  <2>5. CASE \E h \in Hulls : RenewLease(h)
    <3>1. PICK h \in Hulls : RenewLease(h)
      BY <2>5
    <3>2. sup' = [sup EXCEPT !.at = "spawn", !.todo = sup.todo \ {h}, !.hull = h]
      BY <2>4, <3>1
    <3>3. QED
      BY <1>1, <3>2 DEF Supervisors
  <2>6. QED
    BY <2>1, <2>2, <2>3, <2>5
<1>5. TypeOK'
  BY <1>2, <1>4, <1>3 DEF HelmInv, TypeOK, Supervisors
<1>6. PassInOrder'
  BY <1>2, <1>4 DEF HelmInv, PassInOrder
<1>7. PilotsKnown'
  BY <1>2, <1>4, PassMovesOn
<1>8. QED
  BY <1>5, <1>6, <1>7 DEF HelmInv

\* A pilot is spawned only where nobody is aboard, so it is alone.
LEMMA StepSpawn == ASSUME HelmInv, NEW p \in Pids, Spawn(p) PROVE HelmInv'
<1> DEFINE h == sup.hull
<1>1. /\ sup \in Supervisors /\ h \in Hulls /\ sup.at = "spawn"
      /\ sup.children[h] = None /\ ~PidAlive(h) /\ proc[p].at = "free"
  BY DEF Spawn, Aboard, HelmInv, PassInOrder
<1>2. /\ proc' = [proc EXCEPT ![p] = [of |-> h, at |-> "starting"]]
      /\ sup' = [sup EXCEPT !.at = "file", !.pid = p, !.children[h] = p]
      /\ UNCHANGED <<pidFile, lease, unfiled, faults, keyed, ended, command, open, turns>>
  BY DEF Spawn, supervised
<1> HIDE DEF h
<1>3. /\ sup' \in Supervisors /\ sup'.at = "file" /\ sup'.pid = p /\ sup'.hull = h
      /\ sup'.children = [sup.children EXCEPT ![h] = p] /\ sup'.fails = sup.fails
  BY <1>1, <1>2 DEF Supervisors, h
<1>4. TypeOK'
  <2>1. [of |-> h, at |-> "starting"] \in Procs /\ OfSomeHull([of |-> h, at |-> "starting"])
    BY <1>1, SupervisorAssumption DEF Procs, OfSomeHull
  <2>2. proc' \in [Pids -> Procs] /\ \A q \in Pids : OfSomeHull(proc'[q])
    BY <1>2, <2>1, TypeOfProc
  <2>3. QED
    BY <1>2, <1>3, <2>2 DEF HelmInv, TypeOK, Procs, OfSomeHull, Supervisors
<1>5. PassInOrder'
  BY <1>1, <1>2, <1>3 DEF HelmInv, PassInOrder, Supervisors
<1>6. PilotsKnown'
  <2> SUFFICES ASSUME NEW g \in Hulls \ unfiled, NEW q \in Pids, Lives(q, g)'
               PROVE  q = KnownPilot(g)'
    BY <1>2 DEF PilotsKnown
  <2>1. CASE q = p
    BY <1>1, <1>2, <1>3, <2>1, SupervisorAssumption DEF Lives, KnownPilot, HelmInv, TypeOK, Supervisors
  <2>2. CASE q # p
    <3>1. Lives(q, g) /\ q = KnownPilot(g)
      BY <1>2, <2>2 DEF Lives, HelmInv, TypeOK, PilotsKnown
    <3>2. g # h
      BY <1>1, <3>1, SupervisorAssumption DEF KnownPilot, PidAlive, Lives
    <3>3. QED
      BY <1>1, <1>2, <1>3, <3>1, <3>2 DEF KnownPilot, Supervisors
  <2>3. QED
    BY <2>1, <2>2
<1>7. QED
  BY <1>4, <1>5, <1>6 DEF HelmInv

LEMMA StepSpawnFails == HelmInv /\ SpawnFails => HelmInv'
<1> SUFFICES ASSUME HelmInv, SpawnFails PROVE HelmInv'
  OBVIOUS
<1> DEFINE h == sup.hull
           n == sup.fails[h]
<1>1. /\ sup \in Supervisors /\ h \in Hulls /\ n \in Nat /\ n <= faults
      /\ faults \in Nat /\ faults < MaxFaults /\ faults' = faults + 1
  BY SupervisorAssumption DEF SpawnFails, HelmInv, PassInOrder, TypeOK, Supervisors
<1>2. /\ sup' = [sup EXCEPT !.at = "ships", !.hull = None, !.skips[h] = Skips(n), !.fails[h] = n + 1]
      /\ UNCHANGED <<proc, pidFile, lease, unfiled, keyed, ended, command, open, turns>>
  BY <1>1 DEF SpawnFails, supervised, Supervisors
<1>3. Skips(n) \in 0..9 /\ n + 1 \in 0..MaxFaults
  BY <1>1, SkipsType, SupervisorAssumption
<1> HIDE DEF h, n
<1>4. /\ sup' \in Supervisors /\ sup'.at = "ships" /\ sup'.children = sup.children
      /\ \A g \in Hulls : sup'.fails[g] = IF g = h THEN n + 1 ELSE sup.fails[g]
  BY <1>1, <1>2, <1>3 DEF Supervisors
<1>5. TypeOK'
  <2>1. faults' \in 0..MaxFaults
    BY <1>1, SupervisorAssumption
  <2>2. QED
    BY <1>2, <1>4, <2>1 DEF HelmInv, TypeOK, Supervisors
<1>6. PassInOrder'
  <2>1. \A g \in Hulls : sup.fails[g] \in Nat /\ sup.fails[g] <= faults
    BY SupervisorAssumption DEF HelmInv, PassInOrder, Supervisors
  <2>2. \A g \in Hulls : sup'.fails[g] <= faults'
    BY <1>1, <1>4, <2>1
  <2>3. QED
    BY <1>4, <2>2 DEF PassInOrder
<1>7. PilotsKnown'
  BY <1>2, <1>4, PassMovesOn
<1>8. QED
  BY <1>5, <1>6, <1>7 DEF HelmInv

\* The pid filed is the child's: while there is a child, the file is not what it is known by.
LEMMA StepFilePid == HelmInv /\ FilePid => HelmInv'
<1> SUFFICES ASSUME HelmInv, FilePid PROVE HelmInv'
  OBVIOUS
<1> DEFINE h == sup.hull
<1>1. /\ sup \in Supervisors /\ h \in Hulls /\ sup.pid \in Pids /\ sup.children[h] = sup.pid
  BY DEF FilePid, HelmInv, PassInOrder
<1>2. /\ pidFile' = [pidFile EXCEPT ![h] = sup.pid]
      /\ sup' = [sup EXCEPT !.at = "ships", !.hull = None, !.pid = None]
      /\ UNCHANGED <<proc, lease, unfiled, faults, keyed, ended, command, open, turns>>
  BY DEF FilePid, supervised
<1> HIDE DEF h
<1>3. /\ sup' \in Supervisors /\ sup'.at = "ships"
      /\ sup'.children = sup.children /\ sup'.fails = sup.fails
  BY <1>1, <1>2 DEF Supervisors
<1>4. TypeOK'
  BY <1>1, <1>2, <1>3 DEF HelmInv, TypeOK, Supervisors
<1>5. PassInOrder'
  BY <1>2, <1>3 DEF HelmInv, PassInOrder
<1>6. PilotsKnown'
  <2>1. \A g \in Hulls : KnownPilot(g)' = KnownPilot(g)
    BY <1>1, <1>2, <1>3, SupervisorAssumption DEF KnownPilot, HelmInv, TypeOK
  <2>2. QED
    BY <1>2, <2>1 DEF HelmInv, PilotsKnown, Lives
<1>7. QED
  BY <1>4, <1>5, <1>6 DEF HelmInv
-----------------------------------------------------------------------------
(* The pilots, and the machine they run on.                                 *)

\* What a step must show of the machine when the supervisor's pass does not move.
LEMMA MachineType ==
    ASSUME HelmInv, proc' \in [Pids -> Procs], \A p \in Pids : OfSomeHull(proc'[p]),
           pidFile' \in [Hulls -> Pids \cup {None}],
           command' \in [Hulls -> {"none", "stopped", "unkeyed", "leasing"}],
           faults' \in 0..MaxFaults, faults <= faults',
           UNCHANGED <<sup, keyed, ended, lease, open, unfiled, turns>>
    PROVE  TypeOK' /\ PassInOrder'
<1>1. TypeOK'
  BY DEF HelmInv, TypeOK, Procs, OfSomeHull
<1>2. PassInOrder'
  <2>1. \A h \in Hulls : sup.fails[h] \in Nat /\ sup.fails[h] <= faults
    BY SupervisorAssumption DEF HelmInv, PassInOrder, Supervisors
  <2>2. \A h \in Hulls : sup'.fails[h] <= faults'
    BY <2>1, SupervisorAssumption DEF HelmInv, TypeOK
  <2>3. QED
    BY <2>2 DEF HelmInv, PassInOrder
<1>3. QED
  BY <1>1, <1>2

\* Nobody that did not live before lives after: what is known stays known.
LEMMA FewerLive ==
    ASSUME HelmInv, UNCHANGED <<sup, pidFile, unfiled>>,
           \A p \in Pids, h \in Hulls : Lives(p, h)' => Lives(p, h)
    PROVE  PilotsKnown'
BY DEF HelmInv, PilotsKnown, KnownPilot

\* A step that sets one process, and counts a fault or none, keeps the types.
LEMMA OneProcess ==
    ASSUME HelmInv, NEW p \in Pids, NEW r \in Procs, OfSomeHull(r), proc' = [proc EXCEPT ![p] = r],
           pidFile' \in [Hulls -> Pids \cup {None}],
           \/ faults' = faults
           \/ faults < MaxFaults /\ faults' = faults + 1,
           UNCHANGED <<sup, keyed, ended, command, lease, open, unfiled, turns>>
    PROVE  TypeOK' /\ PassInOrder'
<1>1. proc' \in [Pids -> Procs] /\ \A q \in Pids : OfSomeHull(proc'[q])
  BY TypeOfProc
<1>2. faults' \in 0..MaxFaults /\ faults <= faults'
  BY SupervisorAssumption DEF HelmInv, TypeOK
<1>3. command' \in [Hulls -> {"none", "stopped", "unkeyed", "leasing"}]
  BY DEF HelmInv, TypeOK
<1>4. QED
  BY <1>1, <1>2, <1>3, MachineType

\* A pilot of a hull that has one is of a hull.
LEMMA PilotOf ==
    ASSUME HelmInv, NEW p \in Pids, proc[p].at \notin {"free", "stranger"}
    PROVE  proc[p] \in Procs /\ proc[p].of \in Hulls /\ proc[p].of # None
BY DEF HelmInv, TypeOK, Procs

LEMMA StepLoad == ASSUME HelmInv, NEW p \in Pids, Load(p) PROVE HelmInv'
<1>1. /\ proc[p].at = "starting" /\ proc[p] \in Procs /\ proc[p].of # None
      /\ UNCHANGED <<pidFile, faults, sup, keyed, ended, command, lease, open, unfiled, turns>>
  BY PilotOf DEF Load, piloted
<1> DEFINE r == IF proc[p].of \in keyed THEN [proc[p] EXCEPT !.at = "loaded"] ELSE Gone(p)
<1>2. Gone(p) \in Procs /\ OfSomeHull(Gone(p)) /\ Gone(p).at \in {"free", "zombie"}
  BY <1>1, GoneType DEF HelmInv
<1>3. /\ r \in Procs /\ OfSomeHull(r)
      /\ r.at \in {"free", "zombie"} \/ r.of = proc[p].of
  BY <1>1, <1>2 DEF Procs, OfSomeHull
<1>4. proc' = [proc EXCEPT ![p] = r] /\ proc \in [Pids -> Procs]
  BY DEF Load, HelmInv, TypeOK, Procs
<1> HIDE DEF r
<1>5. TypeOK' /\ PassInOrder'
  BY <1>1, <1>3, <1>4, OneProcess DEF HelmInv, TypeOK
<1>6. \A q \in Pids, h \in Hulls : Lives(q, h)' => Lives(q, h)
  BY <1>1, <1>3, <1>4 DEF Lives
<1>7. PilotsKnown'
  BY <1>1, <1>6, FewerLive
<1>8. QED
  BY <1>5, <1>7 DEF HelmInv

\* The pilot puts on file the pid it is known by already, unless nobody knew it.
LEMMA StepBegin == ASSUME HelmInv, NEW p \in Pids, Begin(p) PROVE HelmInv'
<1> DEFINE r == [proc[p] EXCEPT !.at = "flying"]
           h == proc[p].of
<1>1. /\ proc[p].at = "loaded" /\ proc[p] \in Procs /\ h \in Hulls /\ h # None
      /\ UNCHANGED <<faults, sup, keyed, ended, command, lease, open, unfiled, turns>>
      /\ pidFile' = [pidFile EXCEPT ![h] = p]
  BY PilotOf DEF Begin, piloted
<1>2. r \in Procs /\ OfSomeHull(r) /\ r.of = h
  BY <1>1 DEF Procs, OfSomeHull
<1>3. proc' = [proc EXCEPT ![p] = r] /\ proc \in [Pids -> Procs]
  BY DEF Begin, HelmInv, TypeOK, Procs
<1>4. pidFile' \in [Hulls -> Pids \cup {None}] /\ pidFile \in [Hulls -> Pids \cup {None}]
  BY <1>1 DEF HelmInv, TypeOK
<1> HIDE DEF r, h
<1>5. TypeOK' /\ PassInOrder'
  BY <1>1, <1>2, <1>3, <1>4, OneProcess
<1>6. \A q \in Pids, g \in Hulls : Lives(q, g)' => Lives(q, g)
  BY <1>1, <1>2, <1>3 DEF Lives, h
<1>7. Lives(p, h)
  BY <1>1 DEF Lives, h
<1>8. PilotsKnown'
  <2> SUFFICES ASSUME NEW g \in Hulls \ unfiled, NEW q \in Pids, Lives(q, g)'
               PROVE  q = KnownPilot(g)'
    BY <1>1 DEF PilotsKnown
  <2>1. q = KnownPilot(g)
    BY <1>6 DEF HelmInv, PilotsKnown
  <2>2. CASE g # h
    BY <1>1, <1>4, <2>1, <2>2 DEF KnownPilot
  <2>3. CASE g = h
    <3>1. p = q
      BY <1>7, <2>1, <2>3 DEF HelmInv, PilotsKnown
    <3>2. QED
      BY <1>1, <1>4, <2>1, <2>3, <3>1 DEF KnownPilot
  <2>4. QED
    BY <2>2, <2>3
<1>9. QED
  BY <1>5, <1>8 DEF HelmInv

LEMMA StepPilotDies == ASSUME HelmInv, NEW p \in Pids, PilotDies(p) PROVE HelmInv'
<1>1. /\ proc[p].of # None /\ faults < MaxFaults /\ faults' = faults + 1
      /\ UNCHANGED <<pidFile, sup, keyed, ended, command, lease, open, unfiled, turns>>
      /\ proc' = [proc EXCEPT ![p] = Gone(p)] /\ proc \in [Pids -> Procs]
  BY PilotOf DEF PilotDies, piloted, HelmInv, TypeOK, Procs
<1>2. Gone(p) \in Procs /\ OfSomeHull(Gone(p)) /\ Gone(p).at \in {"free", "zombie"}
  BY <1>1, GoneType DEF HelmInv
<1>3. TypeOK' /\ PassInOrder'
  BY <1>1, <1>2, OneProcess DEF HelmInv, TypeOK
<1>4. \A q \in Pids, h \in Hulls : Lives(q, h)' => Lives(q, h)
  BY <1>1, <1>2 DEF Lives
<1>5. PilotsKnown'
  BY <1>1, <1>4, FewerLive
<1>6. QED
  BY <1>3, <1>5 DEF HelmInv

\* A stranger is nobody's pilot, whatever the file says of its pid.
LEMMA StepStranger ==
    ASSUME HelmInv, NEW p \in Pids, Stranger(p) \/ StrangerEnds(p) PROVE HelmInv'
<1>1. proc \in [Pids -> Procs] /\ proc[p] \in Procs /\ OfSomeHull(proc[p])
  BY DEF HelmInv, TypeOK, Procs, OfSomeHull
<1>2. PICK r \in Procs : /\ OfSomeHull(r) /\ r.at \in {"free", "stranger"}
                         /\ proc' = [proc EXCEPT ![p] = r]
  <2>1. CASE Stranger(p)
    <3> DEFINE r == [proc[p] EXCEPT !.at = "stranger"]
    <3>1. proc[p].at = "free" /\ proc' = [proc EXCEPT ![p] = r]
      BY <2>1 DEF Stranger
    <3>2. r \in Procs /\ OfSomeHull(r) /\ r.at = "stranger"
      BY <1>1, <3>1 DEF Procs, OfSomeHull
    <3> HIDE DEF r
    <3>3. QED
      BY <3>1, <3>2
  <2>2. CASE StrangerEnds(p)
    BY <2>2, FreeType DEF StrangerEnds
  <2>3. QED
    BY <2>1, <2>2
<1>3. /\ UNCHANGED <<pidFile, sup, keyed, ended, command, lease, open, unfiled, turns>>
      /\ \/ faults' = faults
         \/ faults < MaxFaults /\ faults' = faults + 1
  BY DEF Stranger, StrangerEnds, piloted
<1>4. TypeOK' /\ PassInOrder'
  BY <1>2, <1>3, OneProcess DEF HelmInv, TypeOK
<1>5. \A q \in Pids, h \in Hulls : Lives(q, h)' => Lives(q, h)
  BY <1>1, <1>2 DEF Lives
<1>6. PilotsKnown'
  BY <1>3, <1>5, FewerLive
<1>7. QED
  BY <1>4, <1>6 DEF HelmInv

\* A supervisor that is down has forgotten its children and its pass.
LEMMA DownInOrder ==
    ASSUME HelmInv, sup' = Down, faults' = faults + 1, faults < MaxFaults
    PROVE  PassInOrder' /\ sup' \in Supervisors /\ faults' \in 0..MaxFaults
           /\ \A h \in Hulls : sup'.children[h] = None
<1>1. sup' \in Supervisors /\ \A h \in Hulls : sup'.children[h] = None /\ sup'.fails[h] = 0
  BY SupervisorAssumption DEF Down, Supervisors
<1>2. sup'.at = "down"
  BY DEF Down
<1>3. faults' \in 0..MaxFaults /\ 0 <= faults'
  BY SupervisorAssumption DEF HelmInv, TypeOK
<1>4. QED
  BY <1>1, <1>2, <1>3 DEF PassInOrder

\* A pilot that outlives its supervisor is on its hull's file, or the hull is not.
LEMMA StepSupervisorDies == HelmInv /\ SupervisorDies => HelmInv'
<1> SUFFICES ASSUME HelmInv, SupervisorDies PROVE HelmInv'
  OBVIOUS
<1>1. /\ proc' = [p \in Pids |-> IF proc[p].at = "zombie" THEN Free ELSE proc[p]]
      /\ unfiled' = unfiled \cup {h \in Hulls : \E p \in Pids :
                       /\ proc[p].of = h /\ proc[p].at # "zombie" /\ pidFile[h] # p}
      /\ sup' = Down /\ faults' = faults + 1 /\ faults < MaxFaults
      /\ UNCHANGED <<pidFile, lease, keyed, ended, command, open, turns>>
  BY DEF SupervisorDies, supervised
<1>2. /\ PassInOrder' /\ sup' \in Supervisors /\ faults' \in 0..MaxFaults
      /\ \A h \in Hulls : sup'.children[h] = None
  BY <1>1, DownInOrder
<1>3. proc' \in [Pids -> Procs] /\ \A p \in Pids : OfSomeHull(proc'[p])
  BY <1>1, FreeType DEF HelmInv, TypeOK, Procs, OfSomeHull
<1>4. unfiled' \subseteq Hulls
  BY <1>1 DEF HelmInv, TypeOK
<1>5. TypeOK'
  BY <1>1, <1>2, <1>3, <1>4 DEF HelmInv, TypeOK, Procs, OfSomeHull, Supervisors
<1>6. PilotsKnown'
  <2> SUFFICES ASSUME NEW h \in Hulls \ unfiled', NEW p \in Pids, Lives(p, h)'
               PROVE  p = KnownPilot(h)'
    BY DEF PilotsKnown
  <2>1. Lives(p, h)
    BY <1>1, FreeType DEF Lives
  <2>2. pidFile[h] = p
    BY <1>1, <2>1 DEF Lives
  <2>3. QED
    BY <1>1, <1>2, <2>2 DEF KnownPilot
<1>7. QED
  BY <1>2, <1>5, <1>6 DEF HelmInv

LEMMA StepReboot == HelmInv /\ Reboot => HelmInv'
<1> SUFFICES ASSUME HelmInv, Reboot PROVE HelmInv'
  OBVIOUS
<1>1. /\ proc' = [p \in Pids |-> Free] /\ sup' = Down
      /\ faults' = faults + 1 /\ faults < MaxFaults
      /\ UNCHANGED <<pidFile, lease, unfiled, keyed, ended, command, open, turns>>
  BY DEF Reboot, supervised
<1>2. PassInOrder' /\ sup' \in Supervisors /\ faults' \in 0..MaxFaults
  BY <1>1, DownInOrder
<1>3. proc' \in [Pids -> Procs] /\ \A p \in Pids : OfSomeHull(proc'[p])
  BY <1>1, FreeType
<1>4. TypeOK'
  BY <1>1, <1>2, <1>3 DEF HelmInv, TypeOK, Procs, OfSomeHull, Supervisors
<1>5. PilotsKnown'
  BY <1>1, FreeType DEF PilotsKnown, Lives
<1>6. QED
  BY <1>2, <1>4, <1>5 DEF HelmInv

-----------------------------------------------------------------------------
(* What the human does.                                                     *)

\* The file is cleared only of a pid that answered, and whoever answered is stopped: the
\* hull's pilot, if it had one on file only.
LEMMA StepStopPilot == ASSUME HelmInv, NEW h \in Hulls, StopPilot(h) PROVE HelmInv'
<1>1. /\ command' = [command EXCEPT ![h] = "stopped"]
      /\ UNCHANGED <<sup, keyed, ended, lease, open, unfiled, faults, turns>>
      /\ proc \in [Pids -> Procs] /\ pidFile \in [Hulls -> Pids \cup {None}]
      /\ \A q \in Pids : OfSomeHull(proc[q])
      /\ faults \in 0..MaxFaults /\ faults <= faults'
  BY SupervisorAssumption DEF StopPilot, HelmInv, TypeOK, Procs, OfSomeHull
<1>2. command' \in [Hulls -> {"none", "stopped", "unkeyed", "leasing"}]
  BY <1>1 DEF HelmInv, TypeOK
<1>3. CASE ~PidAlive(h)
  <2>1. UNCHANGED <<proc, pidFile>>
    BY <1>3 DEF StopPilot
  <2>2. TypeOK' /\ PassInOrder'
    BY <1>1, <1>2, <2>1, MachineType
  <2>3. PilotsKnown'
    BY <1>1, <2>1, FewerLive DEF Lives
  <2>4. QED
    BY <2>2, <2>3 DEF HelmInv
<1>4. CASE PidAlive(h)
  <2> DEFINE p == pidFile[h]
             r == IF proc[p].at = "stranger" THEN Free ELSE Gone(p)
  <2>1. p \in Pids /\ proc[p].at # "free"
    BY <1>1, <1>4 DEF PidAlive
  <2>2. proc' = [proc EXCEPT ![p] = r] /\ pidFile' = [pidFile EXCEPT ![h] = None]
    BY <1>1, <1>4, <2>1 DEF StopPilot
  <2>3. r \in Procs /\ OfSomeHull(r) /\ r.at \in {"free", "zombie"}
    <3>1. CASE proc[p].at = "stranger"
      BY <3>1, FreeType
    <3>2. CASE proc[p].at # "stranger"
      <4>1. proc[p].of # None
        BY <2>1, <3>2, PilotOf
      <4>2. QED
        BY <2>1, <3>2, <4>1, GoneType DEF HelmInv
    <3>3. QED
      BY <3>1, <3>2
  <2> HIDE DEF p, r
  <2>4. proc' \in [Pids -> Procs] /\ \A q \in Pids : OfSomeHull(proc'[q])
    BY <2>1, <2>2, <2>3, TypeOfProc
  <2>5. pidFile' \in [Hulls -> Pids \cup {None}]
    BY <1>1, <2>2
  <2>6. TypeOK' /\ PassInOrder'
    BY <1>1, <1>2, <2>4, <2>5, MachineType
  <2>7. PilotsKnown'
    <3> SUFFICES ASSUME NEW g \in Hulls \ unfiled, NEW q \in Pids, Lives(q, g)'
                 PROVE  q = KnownPilot(g)'
      BY <1>1 DEF PilotsKnown
    <3>1. Lives(q, g) /\ q # p
      BY <1>1, <2>1, <2>2, <2>3 DEF Lives
    <3>2. q = KnownPilot(g)
      BY <3>1 DEF HelmInv, PilotsKnown
    <3>3. KnownPilot(g)' = KnownPilot(g)
      BY <1>1, <2>2, <3>1, <3>2 DEF KnownPilot, p
    <3>4. QED
      BY <3>2, <3>3
  <2>8. QED
    BY <2>6, <2>7 DEF HelmInv
<1>5. QED
  BY <1>3, <1>4

\* The rest of what the human does, and time, touch no process and no file.
LEMMA StepHuman ==
    ASSUME HelmInv,
           \/ TurnBoundary \/ Hour \/ UNCHANGED vars
           \/ \E h \in Hulls : \/ DestroyKey(h) \/ Decommission(h) \/ CommandDies(h)
                               \/ AskLease(h) \/ WriteLease(h)
    PROVE  HelmInv'
<1> DEFINE Leases == [left : 0..Day, open : BOOLEAN]
           Steps == {"none", "stopped", "unkeyed", "leasing"}
<1>1. /\ keyed \subseteq Hulls /\ ended \subseteq Hulls /\ command \in [Hulls -> Steps]
      /\ lease \in [Hulls -> Leases] /\ open \in BOOLEAN
      /\ faults \in 0..MaxFaults /\ turns \in 0..MaxTurns /\ Projection \in Leases
  BY SupervisorAssumption DEF HelmInv, TypeOK, Projection
<1>2. /\ UNCHANGED <<proc, pidFile, sup, unfiled>>
      /\ faults' = faults \/ (faults < MaxFaults /\ faults' = faults + 1)
      /\ turns' = turns \/ (turns < MaxTurns /\ turns' = turns + 1)
  BY DEF TurnBoundary, Hour, vars, DestroyKey, Decommission, CommandDies, AskLease, WriteLease
<1>3. /\ keyed' \subseteq Hulls /\ ended' \subseteq Hulls /\ open' \in BOOLEAN
  BY <1>1 DEF TurnBoundary, Hour, vars, DestroyKey, Decommission, CommandDies, AskLease, WriteLease
<1>4. command' \in [Hulls -> Steps]
  BY <1>1 DEF TurnBoundary, Hour, vars, DestroyKey, Decommission, CommandDies, AskLease, WriteLease
<1>5. lease' \in [Hulls -> Leases]
  <2>1. CASE Hour
    BY <1>1, <2>1, SupervisorAssumption DEF Hour
  <2>2. CASE \E h \in Hulls : WriteLease(h)
    <3>1. PICK h \in Hulls : lease' = [lease EXCEPT ![h] = Projection]
      BY <2>2 DEF WriteLease
    <3> HIDE DEF Leases
    <3>2. QED
      BY <1>1, <3>1
  <2>3. CASE lease' = lease
    BY <1>1, <2>3
  <2>4. QED
    BY <2>1, <2>2, <2>3 DEF TurnBoundary, vars, DestroyKey, Decommission, CommandDies, AskLease
<1>6. faults' \in 0..MaxFaults /\ faults <= faults' /\ turns' \in 0..MaxTurns
  BY <1>1, <1>2, SupervisorAssumption
<1>7. TypeOK'
  BY <1>2, <1>3, <1>4, <1>5, <1>6 DEF HelmInv, TypeOK
<1>8. PassInOrder'
  <2>1. \A h \in Hulls : sup.fails[h] \in Nat /\ sup.fails[h] <= faults
    BY SupervisorAssumption DEF HelmInv, PassInOrder, Supervisors
  <2>2. \A h \in Hulls : sup'.fails[h] <= faults'
    BY <1>1, <1>2, <1>6, <2>1
  <2>3. QED
    BY <1>2, <2>2 DEF HelmInv, PassInOrder
<1>9. PilotsKnown'
  BY <1>2, FewerLive DEF Lives
<1>10. QED
  BY <1>7, <1>8, <1>9 DEF HelmInv

-----------------------------------------------------------------------------
(* The theorems.                                                            *)

LEMMA HelmStep == HelmInv /\ [Next]_vars => HelmInv'
<1> SUFFICES ASSUME HelmInv, [Next]_vars PROVE HelmInv'
  OBVIOUS
<1>1. CASE Pass
  BY <1>1, StepStart, StepReap, StepMovesOn, StepSpawn, StepSpawnFails, StepFilePid DEF Pass
<1>2. CASE SupervisorDies \/ Reboot
  BY <1>2, StepSupervisorDies, StepReboot
<1>3. CASE \E p \in Pids : Load(p) \/ Begin(p) \/ PilotDies(p) \/ Stranger(p) \/ StrangerEnds(p)
  BY <1>3, StepLoad, StepBegin, StepPilotDies, StepStranger
<1>4. CASE \E h \in Hulls : StopPilot(h)
  BY <1>4, StepStopPilot
<1>5. CASE \/ TurnBoundary \/ Hour \/ UNCHANGED vars
           \/ \E h \in Hulls : \/ DestroyKey(h) \/ Decommission(h) \/ CommandDies(h)
                               \/ AskLease(h) \/ WriteLease(h)
  BY <1>5, StepHuman
<1>6. QED
  BY <1>1, <1>2, <1>3, <1>4, <1>5 DEF Next

LEMMA HelmAlways == Spec => []HelmInv
<1>1. QED
  BY InitHelm, HelmStep, PTL DEF Spec

\* Whatever the supervisor, the pilots, the machine and the human do, in any order, every
\* part of the state keeps its type: a pid not free nor a stranger's is some hull's, and a
\* failed spawn is tried again within ten passes.
THEOREM TypeCorrect == Spec => []TypeOK
<1>1. HelmInv => TypeOK
  BY DEF HelmInv
<1>2. QED
  BY <1>1, HelmAlways, PTL

\* Two pilots never fly one hull, whichever supervisor started them, save a hull whose
\* supervisor died before its pilot was on any file.
THEOREM OnePilot == Spec => []AloneAtTheHelm
<1>1. HelmInv => AloneAtTheHelm
  <2> SUFFICES ASSUME HelmInv, NEW h \in Hulls \ unfiled PROVE Cardinality(Flying(h)) <= 1
    BY DEF AloneAtTheHelm
  <2>1. \A p \in Flying(h) : p = KnownPilot(h)
    BY DEF HelmInv, PilotsKnown, Flying, Lives
  <2>2. Flying(h) = {} \/ Flying(h) = {KnownPilot(h)}
    BY <2>1
  <2>3. Cardinality({}) = 0 /\ Cardinality({KnownPilot(h)}) = 1
    BY FS_EmptySet, FS_Singleton
  <2>4. Cardinality(Flying(h)) = 0 \/ Cardinality(Flying(h)) = 1
    BY <2>2, <2>3
  <2>5. QED
    BY <2>4
<1>2. QED
  BY <1>1, HelmAlways, PTL
=============================================================================
