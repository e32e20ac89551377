------------------------- MODULE DaemonGuardProofs -------------------------
(***************************************************************************)
(* The safety of DaemonGuard, for any number of pids, launchers, roots and *)
(* events.                                                                 *)
(***************************************************************************)
EXTENDS DaemonGuard, TLAPS

ProcOK ==
  /\ proc \in [Pids -> {"none", "stranger"} \union Daemonic]
  /\ kind \in [Pids -> Kinds]
  /\ home \in [Pids -> Roots]
  /\ told \subseteq Pids
  /\ reused \subseteq Pids
  /\ mixed \subseteq Pids

FileOK ==
  /\ holder \in Pids \union Clients \union {Nobody}
  /\ guard \in Guards \union {NoGuard}
  /\ snapshot \in Snapshots \union {Nothing}

DraftOK == draft \in [Pids \union Clients -> Snapshots \union {Nothing}]

Requests == [name : {"none", "start", "stop", "restart"}, phase : Phases]

LaunchOK ==
  /\ at \in [Clients -> Places]
  /\ call \in [Clients -> Requests]
  /\ view \in [Clients -> Views]
  /\ target \in [Clients -> Pids \union {Nobody}]

RestOK == active \in Roots /\ eventsLeft \in 0 .. MaxEvents

(* What a launcher has in hand where it stands.                            *)
HasRoot == {"guard", "try", "ungrab", "judge", "spawn"}
Ending == {"kill", "waitExit", "recordRead", "recordWrite"}

Knows(c) ==
  /\ at[c] \in HasRoot => view[c].root \in Roots
  /\ at[c] \in Ending => call[c].phase \in {"decide", "abandon"}
  /\ at[c] \in {"recordRead", "recordWrite"} => call[c].phase = "decide"
  /\ at[c] \in Ending /\ call[c].phase = "decide" => view[c].root \in Roots /\ target[c] \in Pids
  /\ call[c].phase \in {"await", "confirm", "abandon"} => target[c] \in Pids

Minded == \A c \in Clients : Knows(c)

LEMMA TypeParts ==
  /\ TypeOK <=> ProcOK /\ FileOK /\ DraftOK /\ LaunchOK /\ RestOK
  /\ TypeOK' <=> ProcOK' /\ FileOK' /\ DraftOK' /\ LaunchOK' /\ RestOK'
  BY DEF TypeOK, ProcOK, FileOK, DraftOK, LaunchOK, RestOK, Requests

LEMMA EventType == RestOK /\ (Event \/ UNCHANGED eventsLeft) => eventsLeft' \in 0 .. MaxEvents
  BY EventsAssumption DEF RestOK, Event

LEMMA ReadsType ==
  ASSUME FileOK, RestOK, NEW content, Reads(content)
  PROVE  content \in Snapshots \union {Nothing} /\ eventsLeft' \in 0 .. MaxEvents
  BY EventType DEF Reads, FileOK

LEMMA SnapshotType ==
  ASSUME NEW status \in {"starting", "ready", "stopped"}, NEW p \in Pids, NEW root \in Roots, NEW kind_ \in Kinds
  PROVE  Snapshot(status, p, root, kind_) \in Snapshots
  BY DEF Snapshot, Snapshots

LEMMA KeptType ==
  ASSUME NEW new \in Snapshots, NEW current \in Snapshots \union {Nothing}
  PROVE  /\ Kept(new, current) \in Snapshots
         /\ Kept(new, current).status = new.status
         /\ Kept(new, current).pid = new.pid
  BY DEF Kept, Snapshots, Nothing

LEMMA BlankType ==
  /\ Blank \in Views /\ Blank.snap = Nothing
  /\ \A root \in Roots, seen \in Snapshots \union {Nothing} :
       /\ [Blank EXCEPT !.root = root, !.snap = seen] \in Views
       /\ [Blank EXCEPT !.root = root, !.snap = seen].snap = seen
       /\ [Blank EXCEPT !.root = root, !.snap = seen].root = root
  BY DEF Blank, Views

LEMMA BecomesType ==
  ASSUME ProcOK, NEW p \in Pids, NEW stage \in {"none", "stranger"} \union Daemonic, Becomes(p, stage)
  PROVE  /\ proc' \in [Pids -> {"none", "stranger"} \union Daemonic]
         /\ proc'[p] = stage
         /\ \A q \in Pids \ {p} : proc'[q] = proc[q]
  BY DEF ProcOK, Becomes

LEMMA GoesType ==
  ASSUME LaunchOK, NEW c \in Clients, NEW place \in Places, Goes(c, place)
  PROVE  /\ at' \in [Clients -> Places]
         /\ at'[c] = place
         /\ \A d \in Clients \ {c} : at'[d] = at[d]
  BY DEF LaunchOK, Goes

LEMMA FinishedType ==
  ASSUME LaunchOK, NEW c \in Clients, Finished(c)
  PROVE  /\ LaunchOK'
         /\ at'[c] = "idle" /\ call'[c] = NoCall /\ view'[c] = Blank /\ target'[c] = Nobody
         /\ \A d \in Clients \ {c} :
              at'[d] = at[d] /\ call'[d] = call[d] /\ view'[d] = view[d] /\ target'[d] = target[d]
<1>1. NoCall \in Requests
  BY DEF NoCall, Requests, Phases
<1>2. "idle" \in Places
  BY DEF Places
<1> QED
  BY ZenonT(40), <1>1, <1>2, BlankType DEF Finished, Goes, LaunchOK

LEMMA RememberedType ==
  ASSUME ProcOK, NEW p \in Pids, Remembered(p)
  PROVE  reused' \subseteq Pids
  BY DEF ProcOK, Remembered

LEMMA SpawnedType ==
  ASSUME ProcOK, NEW p \in Pids, NEW kind_ \in Kinds, NEW root \in Roots, Spawned(p, kind_, root)
  PROVE  ProcOK'
<1>1. "born" \in Daemonic
  BY DEF Daemonic, Startup
<1>2. proc' \in [Pids -> {"none", "stranger"} \union Daemonic]
  BY <1>1, BecomesType DEF Spawned
<1>3. kind' \in [Pids -> Kinds] /\ home' \in [Pids -> Roots]
  BY DEF ProcOK, Spawned
<1> QED
  BY <1>2, <1>3, RememberedType DEF ProcOK, Spawned

LEMMA GoneType ==
  ASSUME ProcOK, FileOK, DraftOK, NEW p \in Pids, Gone(p)
  PROVE  /\ proc' \in [Pids -> {"none", "stranger"} \union Daemonic]
         /\ FileOK' /\ DraftOK'
<1>1. proc' \in [Pids -> {"none", "stranger"} \union Daemonic]
  BY BecomesType DEF Gone
<1>2. FileOK'
  BY DEF Gone, FileOK
<1>3. DraftOK'
  BY DEF Gone, DraftOK
<1> QED
  BY <1>1, <1>2, <1>3

LEMMA SignalledType ==
  ASSUME ProcOK, FileOK, DraftOK, NEW p \in Pids, Signalled(p), UNCHANGED <<kind, home, reused, mixed>>
  PROVE  ProcOK' /\ FileOK' /\ DraftOK'
<1>1. CASE Gone(p) /\ UNCHANGED told
  BY <1>1, GoneType DEF ProcOK
<1>2. CASE told' \in {told, told \union {p}} /\ UNCHANGED <<proc, draft, files>>
  BY <1>2 DEF ProcOK, FileOK, DraftOK, files
<1> QED
  BY <1>1, <1>2 DEF Signalled

LEMMA PhaseType ==
  ASSUME LaunchOK, NEW c \in Clients, NEW phase_ \in Phases, call' = [call EXCEPT ![c].phase = phase_]
  PROVE  /\ call' \in [Clients -> Requests]
         /\ call'[c].phase = phase_ /\ call'[c].name = call[c].name
         /\ \A d \in Clients \ {c} : call'[d] = call[d]
<1>1. call[c] \in Requests
  BY DEF LaunchOK
<1>2. [call[c] EXCEPT !.phase = phase_] \in Requests
  BY <1>1 DEF Requests
<1> QED
  BY <1>1, <1>2 DEF LaunchOK, Requests

LEMMA ViewType ==
  ASSUME LaunchOK, NEW c \in Clients, NEW seen \in Views, view' = [view EXCEPT ![c] = seen]
  PROVE  /\ view' \in [Clients -> Views]
         /\ view'[c] = seen
         /\ \A d \in Clients \ {c} : view'[d] = view[d]
  BY DEF LaunchOK

LEMMA TargetType ==
  ASSUME LaunchOK, NEW c \in Clients, NEW p \in Pids, target' = [target EXCEPT ![c] = p]
  PROVE  /\ target' \in [Clients -> Pids \union {Nobody}]
         /\ target'[c] = p
         /\ \A d \in Clients \ {c} : target'[d] = target[d]
  BY DEF LaunchOK

LEMMA DraftType ==
  ASSUME DraftOK, NEW w \in Pids \union Clients, NEW new \in Snapshots \union {Nothing}, draft' = [draft EXCEPT ![w] = new]
  PROVE  DraftOK' /\ draft'[w] = new /\ \A x \in (Pids \union Clients) \ {w} : draft'[x] = draft[x]
  BY DEF DraftOK

LEMMA KnowsOthers ==
  ASSUME NEW c \in Clients, Minded, Knows(c)',
         \A d \in Clients \ {c} : at'[d] = at[d] /\ call'[d] = call[d] /\ view'[d] = view[d] /\ target'[d] = target[d]
  PROVE  Minded'
  BY DEF Minded, Knows

LEMMA KnowsSame == Minded /\ UNCHANGED launchers => Minded'
  BY DEF Minded, Knows, launchers

-----------------------------------------------------------------------------
(* The steps of a daemon.                                                  *)

LEMMA BootType ==
  ASSUME TypeOK, NEW p \in Pids, Boot(p)
  PROVE  TypeOK'
<1> USE TypeParts
<1>1. ProcOK'
  BY BecomesType DEF Boot, ProcOK, Daemonic, Startup
<1>2. FileOK'
  BY DEF Boot, FileOK, files
<1>3. DraftOK'
  BY DEF Boot, DraftOK
<1>4. LaunchOK'
  BY DEF Boot, LaunchOK, launchers
<1>5. RestOK'
  BY DEF Boot, RestOK
<1> QED
  BY <1>1, <1>2, <1>3, <1>4, <1>5

LEMMA AcquireType ==
  ASSUME TypeOK, NEW p \in Pids, Acquire(p)
  PROVE  TypeOK'
<1> USE TypeParts
<1>1. ProcOK'
  BY BecomesType DEF Acquire, ProcOK, Daemonic, Guarded
<1>2. FileOK'
  BY DEF Acquire, FileOK
<1>3. DraftOK'
  BY DEF Acquire, DraftOK
<1>4. LaunchOK'
  BY DEF Acquire, LaunchOK, launchers
<1>5. RestOK'
  BY DEF Acquire, RestOK
<1> QED
  BY <1>1, <1>2, <1>3, <1>4, <1>5

LEMMA RefusedType ==
  ASSUME TypeOK, NEW p \in Pids, Refused(p)
  PROVE  TypeOK'
<1> USE TypeParts
<1>1. ProcOK'
  BY BecomesType DEF Refused, ProcOK, Daemonic
<1>2. FileOK'
  BY DEF Refused, FileOK, files
<1>3. DraftOK'
  BY DEF Refused, DraftOK
<1>4. LaunchOK'
  BY DEF Refused, LaunchOK, launchers
<1>5. RestOK'
  BY EventType DEF Refused, RestOK
<1> QED
  BY <1>1, <1>2, <1>3, <1>4, <1>5

LEMMA StampType ==
  ASSUME TypeOK, NEW p \in Pids, Stamp(p)
  PROVE  TypeOK'
<1> USE TypeParts
<1>1. ProcOK'
  BY BecomesType DEF Stamp, ProcOK, Daemonic, Guarded
<1>2. FileOK'
  <2>1. home[p] \in Roots
    BY DEF ProcOK
  <2>2. [pid |-> p, root |-> home[p]] \in Guards
    BY <2>1 DEF Guards
  <2> QED
    BY <2>1, <2>2 DEF Stamp, FileOK
<1>3. DraftOK'
  BY DEF Stamp, DraftOK
<1>4. LaunchOK'
  BY DEF Stamp, LaunchOK, launchers
<1>5. RestOK'
  BY DEF Stamp, RestOK
<1> QED
  BY <1>1, <1>2, <1>3, <1>4, <1>5

LEMMA WriteStartingType ==
  ASSUME TypeOK, NEW p \in Pids, WriteStarting(p)
  PROVE  TypeOK'
<1> USE TypeParts
<1>1. ProcOK'
  BY BecomesType DEF WriteStarting, ProcOK, Daemonic, Guarded
<1>2. FileOK'
  <2>1. home[p] \in Roots /\ kind[p] \in Kinds
    BY DEF ProcOK
  <2>2. Starting(p) \in Snapshots
    BY <2>1, SnapshotType DEF Starting
  <2> QED
    BY <2>1, <2>2 DEF WriteStarting, FileOK
<1>3. DraftOK'
  BY DEF WriteStarting, DraftOK
<1>4. LaunchOK'
  BY DEF WriteStarting, LaunchOK, launchers
<1>5. RestOK'
  BY DEF WriteStarting, RestOK
<1> QED
  BY <1>1, <1>2, <1>3, <1>4, <1>5

LEMMA PrepareType ==
  ASSUME TypeOK, NEW p \in Pids, Prepare(p)
  PROVE  TypeOK'
<1> USE TypeParts
<1>1. ProcOK'
  BY BecomesType DEF Prepare, ProcOK, Daemonic, Guarded
<1>2. FileOK'
  BY DEF Prepare, FileOK, files
<1>3. DraftOK'
  BY DEF Prepare, DraftOK
<1>4. LaunchOK'
  BY DEF Prepare, LaunchOK, launchers
<1>5. RestOK'
  BY EventType DEF Prepare, RestOK
<1> QED
  BY <1>1, <1>2, <1>3, <1>4, <1>5

LEMMA ReadToWriteType ==
  ASSUME TypeOK, NEW p \in Pids, ReadToWrite(p)
  PROVE  TypeOK'
<1> USE TypeParts
<1>1. ProcOK'
  BY BecomesType DEF ReadToWrite, ProcOK, Daemonic, Guarded
<1>2. FileOK'
  BY DEF ReadToWrite, FileOK, files
<1>3. DraftOK'
  <2>1. home[p] \in Roots /\ kind[p] \in Kinds
    BY DEF ProcOK
  <2>2. PICK current \in {snapshot, Nothing} :
         LET status == IF proc[p] = "readyRead" THEN "ready" ELSE "stopped"
         IN  draft' = [draft EXCEPT ![p] = Kept(Snapshot(status, p, home[p], kind[p]), current)]
    BY DEF ReadToWrite
  <2>3. current \in Snapshots \union {Nothing}
    BY <2>2 DEF FileOK
  <2> QED
    BY <2>1, <2>2, <2>3, SnapshotType, KeptType, DraftType
<1>4. LaunchOK'
  BY DEF ReadToWrite, LaunchOK, launchers
<1>5. RestOK'
  BY EventType, ReadsType DEF ReadToWrite, RestOK
<1> QED
  BY <1>1, <1>2, <1>3, <1>4, <1>5

LEMMA WriteStatusType ==
  ASSUME TypeOK, NEW p \in Pids, WriteStatus(p)
  PROVE  TypeOK'
<1> USE TypeParts
<1>1. ProcOK'
  BY BecomesType DEF WriteStatus, ProcOK, Daemonic, Guarded
<1>2. FileOK'
  <2>1. draft[p] \in Snapshots \union {Nothing}
    BY DEF DraftOK
  <2> QED
    BY <2>1 DEF WriteStatus, FileOK
<1>3. DraftOK'
  BY DEF WriteStatus, DraftOK
<1>4. LaunchOK'
  BY DEF WriteStatus, LaunchOK, launchers
<1>5. RestOK'
  BY DEF WriteStatus, RestOK
<1> QED
  BY <1>1, <1>2, <1>3, <1>4, <1>5

LEMMA StopType ==
  ASSUME TypeOK, NEW p \in Pids, Stop(p)
  PROVE  TypeOK'
<1> USE TypeParts
<1>1. ProcOK'
  BY BecomesType DEF Stop, ProcOK, Daemonic, Guarded
<1>2. FileOK'
  BY DEF Stop, FileOK, files
<1>3. DraftOK'
  BY DEF Stop, DraftOK
<1>4. LaunchOK'
  BY DEF Stop, LaunchOK, launchers
<1>5. RestOK'
  BY DEF Stop, RestOK
<1> QED
  BY <1>1, <1>2, <1>3, <1>4, <1>5

LEMMA ReleaseType ==
  ASSUME TypeOK, NEW p \in Pids, Release(p)
  PROVE  TypeOK'
<1> USE TypeParts
<1>1. ProcOK'
  BY BecomesType DEF Release, ProcOK, Daemonic
<1>2. FileOK'
  BY DEF Release, FileOK
<1>3. DraftOK'
  BY DEF Release, DraftOK
<1>4. LaunchOK'
  BY DEF Release, LaunchOK, launchers
<1>5. RestOK'
  BY DEF Release, RestOK
<1> QED
  BY <1>1, <1>2, <1>3, <1>4, <1>5

LEMMA ExitType ==
  ASSUME TypeOK, NEW p \in Pids, Exit(p)
  PROVE  TypeOK'
<1> USE TypeParts
<1>1. ProcOK'
  BY GoneType DEF Exit, ProcOK
<1>2. FileOK'
  BY GoneType DEF Exit
<1>3. DraftOK'
  BY GoneType DEF Exit
<1>4. LaunchOK'
  BY DEF Exit, LaunchOK, launchers
<1>5. RestOK'
  BY DEF Exit, RestOK
<1> QED
  BY <1>1, <1>2, <1>3, <1>4, <1>5

LEMMA RunInTerminalType ==
  ASSUME TypeOK, NEW p \in Pids, RunInTerminal(p)
  PROVE  TypeOK'
<1> USE TypeParts
<1>1. ProcOK'
  <2>1. active \in Roots /\ "foreground" \in Kinds
    BY DEF RestOK, Kinds
  <2> QED
    BY <2>1, SpawnedType DEF RunInTerminal
<1>2. FileOK'
  BY DEF RunInTerminal, FileOK, files
<1>3. DraftOK'
  BY DEF RunInTerminal, DraftOK
<1>4. LaunchOK'
  BY DEF RunInTerminal, LaunchOK, launchers
<1>5. RestOK'
  BY EventType DEF RunInTerminal, RestOK
<1> QED
  BY <1>1, <1>2, <1>3, <1>4, <1>5

LEMMA CrashType ==
  ASSUME TypeOK, NEW p \in Pids, Crash(p)
  PROVE  TypeOK'
<1> USE TypeParts
<1>1. ProcOK'
  BY GoneType DEF Crash, ProcOK
<1>2. FileOK'
  BY GoneType DEF Crash
<1>3. DraftOK'
  BY GoneType DEF Crash
<1>4. LaunchOK'
  BY DEF Crash, LaunchOK, launchers
<1>5. RestOK'
  BY EventType DEF Crash, RestOK
<1> QED
  BY <1>1, <1>2, <1>3, <1>4, <1>5

LEMMA InterruptType ==
  ASSUME TypeOK, NEW p \in Pids, Interrupt(p)
  PROVE  TypeOK'
<1> USE TypeParts
<1>1. ProcOK'
  BY SignalledType DEF Interrupt
<1>2. FileOK'
  BY SignalledType DEF Interrupt
<1>3. DraftOK'
  BY SignalledType DEF Interrupt
<1>4. LaunchOK'
  BY DEF Interrupt, LaunchOK, launchers
<1>5. RestOK'
  BY EventType DEF Interrupt, RestOK
<1> QED
  BY <1>1, <1>2, <1>3, <1>4, <1>5

LEMMA StrangerType ==
  ASSUME TypeOK, NEW p \in Pids, Stranger(p)
  PROVE  TypeOK'
<1> USE TypeParts
<1>1. ProcOK'
  BY BecomesType, RememberedType DEF Stranger, ProcOK
<1>2. FileOK'
  BY DEF Stranger, FileOK, files
<1>3. DraftOK'
  BY DEF Stranger, DraftOK
<1>4. LaunchOK'
  BY DEF Stranger, LaunchOK, launchers
<1>5. RestOK'
  BY EventType DEF Stranger, RestOK
<1> QED
  BY <1>1, <1>2, <1>3, <1>4, <1>5

-----------------------------------------------------------------------------
(* The steps of a launcher.                                                *)

LEMMA CallType ==
  ASSUME TypeOK, Minded, NEW c \in Clients, Call(c)
  PROVE  TypeOK' /\ Minded'
<1> USE TypeParts
<1>1. ProcOK'
  BY DEF Call, ProcOK, processes
<1>2. FileOK'
  BY DEF Call, FileOK, files
<1>3. DraftOK'
  BY DEF Call, DraftOK
<1>4. LaunchOK' /\ Minded'
  <2>1. PICK name \in Calls[c] : call' = [call EXCEPT ![c] = [name |-> name, phase |-> "decide"]]
    BY DEF Call
  <2>2. name \in {"start", "stop", "restart"}
    BY CallsAssumption
  <2>3. [name |-> name, phase |-> "decide"] \in Requests
    BY <2>2 DEF Requests, Phases
  <2>4. call' \in [Clients -> Requests] /\ call'[c].phase = "decide" /\ \A d \in Clients \ {c} : call'[d] = call[d]
    BY <2>1, <2>3 DEF LaunchOK
  <2>5. "look" \in Places
    BY DEF Places
  <2>6. at' \in [Clients -> Places] /\ at'[c] = "look" /\ \A d \in Clients \ {c} : at'[d] = at[d]
    BY <2>5, GoesType DEF Call
  <2>7. UNCHANGED <<view, target>>
    BY DEF Call, launchers
  <2>8. LaunchOK'
    BY <2>1, <2>2, <2>3, <2>4, <2>5, <2>6, <2>7 DEF LaunchOK
  <2>9. Knows(c)'
    BY <2>1, <2>2, <2>3, <2>4, <2>5, <2>6, <2>7 DEF Minded, Knows, HasRoot, Ending
  <2> QED
    BY <2>1, <2>2, <2>3, <2>4, <2>5, <2>6, <2>7, <2>8, <2>9, KnowsOthers
<1>5. RestOK'
  BY EventType DEF Call, RestOK
<1> QED
  BY <1>1, <1>2, <1>3, <1>4, <1>5

LEMMA LookType ==
  ASSUME TypeOK, Minded, NEW c \in Clients, Look(c)
  PROVE  TypeOK' /\ Minded'
<1> USE TypeParts
<1>1. ProcOK'
  BY DEF Look, ProcOK, processes
<1>2. FileOK'
  BY DEF Look, FileOK, files
<1>3. DraftOK'
  BY DEF Look, DraftOK
<1>4. LaunchOK' /\ Minded'
  <2>1. PICK seen \in {snapshot, Nothing} : view' = [view EXCEPT ![c] = [Blank EXCEPT !.root = active, !.snap = seen]]
    BY DEF Look
  <2>2. seen \in Snapshots \union {Nothing} /\ active \in Roots
    BY DEF FileOK, RestOK
  <2>3. view' \in [Clients -> Views] /\ view'[c].root = active /\ \A d \in Clients \ {c} : view'[d] = view[d]
    BY <2>1, <2>2, BlankType, ViewType
  <2>4. "guard" \in Places
    BY DEF Places
  <2>5. at' \in [Clients -> Places] /\ at'[c] = "guard" /\ \A d \in Clients \ {c} : at'[d] = at[d]
    BY <2>4, GoesType DEF Look
  <2>6. UNCHANGED <<call, target>>
    BY DEF Look, launchers
  <2>7. LaunchOK'
    BY <2>1, <2>2, <2>3, <2>4, <2>5, <2>6 DEF LaunchOK
  <2>8. Knows(c)'
    BY <2>1, <2>2, <2>3, <2>4, <2>5, <2>6 DEF Minded, Knows, HasRoot, Ending
  <2> QED
    BY <2>1, <2>2, <2>3, <2>4, <2>5, <2>6, <2>7, <2>8, KnowsOthers
<1>5. RestOK'
  BY EventType, ReadsType DEF Look, RestOK
<1> QED
  BY <1>1, <1>2, <1>3, <1>4, <1>5

LEMMA ReadGuardType ==
  ASSUME TypeOK, Minded, NEW c \in Clients, ReadGuard(c)
  PROVE  TypeOK' /\ Minded'
<1> USE TypeParts
<1>1. ProcOK'
  BY DEF ReadGuard, ProcOK, processes
<1>2. FileOK'
  BY DEF ReadGuard, FileOK, files
<1>3. DraftOK'
  BY DEF ReadGuard, DraftOK
<1>4. LaunchOK' /\ Minded'
  <2>1. view[c] \in Views
    BY DEF LaunchOK
  <2>2. [view[c] EXCEPT !.guard = guard] \in Views /\ [view[c] EXCEPT !.guard = guard].root = view[c].root
    BY <2>1 DEF Views, FileOK
  <2>3. view' = [view EXCEPT ![c] = [view[c] EXCEPT !.guard = guard]]
    BY DEF ReadGuard
  <2>4. view' \in [Clients -> Views] /\ view'[c].root = view[c].root /\ \A d \in Clients \ {c} : view'[d] = view[d]
    BY <2>2, <2>3, ViewType
  <2>5. "try" \in Places
    BY DEF Places
  <2>6. at' \in [Clients -> Places] /\ at[c] = "guard" /\ at'[c] = "try" /\ \A d \in Clients \ {c} : at'[d] = at[d]
    BY <2>5, GoesType DEF ReadGuard
  <2>7. UNCHANGED <<call, target>>
    BY DEF ReadGuard, launchers
  <2>8. LaunchOK'
    BY <2>1, <2>2, <2>3, <2>4, <2>5, <2>6, <2>7 DEF LaunchOK
  <2>9. Knows(c)'
    BY <2>1, <2>2, <2>3, <2>4, <2>5, <2>6, <2>7 DEF Minded, Knows, HasRoot, Ending
  <2> QED
    BY <2>1, <2>2, <2>3, <2>4, <2>5, <2>6, <2>7, <2>8, <2>9, KnowsOthers
<1>5. RestOK'
  BY DEF ReadGuard, RestOK
<1> QED
  BY <1>1, <1>2, <1>3, <1>4, <1>5

LEMMA TryGuardType ==
  ASSUME TypeOK, Minded, NEW c \in Clients, TryGuard(c)
  PROVE  TypeOK' /\ Minded'
<1> USE TypeParts
<1>1. ProcOK'
  BY DEF TryGuard, ProcOK, processes
<1>2. FileOK'
  BY DEF TryGuard, FileOK
<1>3. DraftOK'
  BY DEF TryGuard, DraftOK
<1>4. LaunchOK' /\ Minded'
  <2>1. view[c] \in Views
    BY DEF LaunchOK
  <2>2. [view[c] EXCEPT !.refused = TRUE] \in Views /\ [view[c] EXCEPT !.refused = TRUE].root = view[c].root
    BY <2>1 DEF Views
  <2>3. view' = [view EXCEPT ![c] = [view[c] EXCEPT !.refused = TRUE]] \/ view' = view
    BY DEF TryGuard
  <2>4. view' \in [Clients -> Views] /\ view'[c].root = view[c].root /\ \A d \in Clients \ {c} : view'[d] = view[d]
    BY <2>2, <2>3, ViewType DEF LaunchOK
  <2>5. "ungrab" \in Places /\ "judge" \in Places
    BY DEF Places
  <2>6. at' \in [Clients -> Places] /\ at[c] = "try" /\ at'[c] \in {"ungrab", "judge"} /\ \A d \in Clients \ {c} : at'[d] = at[d]
    BY <2>5, GoesType DEF TryGuard
  <2>7. UNCHANGED <<call, target>>
    BY DEF TryGuard, launchers
  <2>8. LaunchOK'
    BY <2>1, <2>2, <2>3, <2>4, <2>5, <2>6, <2>7 DEF LaunchOK
  <2>9. Knows(c)'
    BY <2>1, <2>2, <2>3, <2>4, <2>5, <2>6, <2>7 DEF Minded, Knows, HasRoot, Ending
  <2> QED
    BY <2>1, <2>2, <2>3, <2>4, <2>5, <2>6, <2>7, <2>8, <2>9, KnowsOthers
<1>5. RestOK'
  BY EventType DEF TryGuard, RestOK
<1> QED
  BY <1>1, <1>2, <1>3, <1>4, <1>5

LEMMA UngrabType ==
  ASSUME TypeOK, Minded, NEW c \in Clients, Ungrab(c)
  PROVE  TypeOK' /\ Minded'
<1> USE TypeParts
<1>1. ProcOK'
  BY DEF Ungrab, ProcOK, processes
<1>2. FileOK'
  BY DEF Ungrab, FileOK
<1>3. DraftOK'
  BY DEF Ungrab, DraftOK
<1>4. LaunchOK' /\ Minded'
  <2>1. "judge" \in Places
    BY DEF Places
  <2>2. at' \in [Clients -> Places] /\ at[c] = "ungrab" /\ at'[c] = "judge" /\ \A d \in Clients \ {c} : at'[d] = at[d]
    BY <2>1, GoesType DEF Ungrab
  <2>3. UNCHANGED <<call, view, target>>
    BY DEF Ungrab, launchers
  <2>4. LaunchOK'
    BY <2>1, <2>2, <2>3 DEF LaunchOK
  <2>5. Knows(c)'
    BY <2>1, <2>2, <2>3 DEF Minded, Knows, HasRoot, Ending
  <2> QED
    BY <2>1, <2>2, <2>3, <2>4, <2>5, KnowsOthers
<1>5. RestOK'
  BY DEF Ungrab, RestOK
<1> QED
  BY <1>1, <1>2, <1>3, <1>4, <1>5

LEMMA DecideType ==
  ASSUME TypeOK, Minded, NEW c \in Clients, Decide(c)
  PROVE  TypeOK' /\ Minded'
<1> USE TypeParts
<1>1. ProcOK'
  BY DEF Decide, ProcOK, processes
<1>2. FileOK'
  BY DEF Decide, FileOK, files
<1>3. DraftOK'
  BY DEF Decide, DraftOK
<1>4. LaunchOK' /\ Minded'
  <2>1. CASE MayStop(c)
    <3>1. "kill" \in Places
      BY DEF Places
    <3>2. at' \in [Clients -> Places] /\ at[c] = "judge" /\ at'[c] = "kill" /\ \A d \in Clients \ {c} : at'[d] = at[d]
      BY <2>1, <3>1, GoesType DEF Decide
    <3>3. call[c].phase = "decide"
      BY DEF Decide
    <3>4. view[c].snap.pid \in Pids
      BY <2>1 DEF MayStop, Healthy, Running
    <3>5. target' \in [Clients -> Pids \union {Nobody}] /\ target'[c] \in Pids /\ \A d \in Clients \ {c} : target'[d] = target[d]
      BY <2>1, <3>4, TargetType DEF Decide
    <3>6. UNCHANGED <<call, view>>
      BY <2>1 DEF Decide, launchers
    <3>7. LaunchOK'
      BY <3>1, <3>2, <3>3, <3>4, <3>5, <3>6 DEF LaunchOK
    <3>8. Knows(c)'
      BY <3>1, <3>2, <3>3, <3>4, <3>5, <3>6 DEF Minded, Knows, HasRoot, Ending
    <3> QED
      BY <3>1, <3>2, <3>3, <3>4, <3>5, <3>6, <3>7, <3>8, KnowsOthers
  <2>2. CASE ~MayStop(c) /\ MaySpawn(c)
    <3>1. "spawn" \in Places
      BY DEF Places
    <3>2. at' \in [Clients -> Places] /\ at[c] = "judge" /\ at'[c] = "spawn" /\ \A d \in Clients \ {c} : at'[d] = at[d]
      BY <2>2, <3>1, GoesType DEF Decide
    <3>3. UNCHANGED <<call, view, target>>
      BY <2>2 DEF Decide, launchers
    <3>4. LaunchOK'
      BY <3>1, <3>2, <3>3 DEF LaunchOK
    <3>5. Knows(c)'
      BY <3>1, <3>2, <3>3 DEF Minded, Knows, HasRoot, Ending
    <3> QED
      BY <3>1, <3>2, <3>3, <3>4, <3>5, KnowsOthers
  <2>3. CASE ~MayStop(c) /\ ~MaySpawn(c)
    <3>1. Finished(c)
      BY <2>3 DEF Decide
    <3>2. Knows(c)'
      BY <3>1, FinishedType DEF Knows, HasRoot, Ending, NoCall
    <3> QED
      BY <3>1, <3>2, FinishedType, KnowsOthers
  <2> QED
    BY <2>1, <2>2, <2>3 DEF Decide
<1>5. RestOK'
  BY DEF Decide, RestOK
<1> QED
  BY <1>1, <1>2, <1>3, <1>4, <1>5

LEMMA SpawnType ==
  ASSUME TypeOK, Minded, NEW c \in Clients, Spawn(c)
  PROVE  TypeOK' /\ Minded'
<1> USE TypeParts
<1>1. ProcOK'
  <2>1. view[c].root \in Roots /\ "background" \in Kinds
    BY DEF Spawn, Minded, Knows, HasRoot, Kinds
  <2> QED
    BY <2>1, SpawnedType DEF Spawn
<1>2. FileOK'
  BY DEF Spawn, FileOK, files
<1>3. DraftOK'
  BY DEF Spawn, DraftOK
<1>4. LaunchOK' /\ Minded'
  <2>1. PICK p \in Pids : target' = [target EXCEPT ![c] = p]
    BY DEF Spawn
  <2>2. target' \in [Clients -> Pids \union {Nobody}] /\ target'[c] \in Pids /\ \A d \in Clients \ {c} : target'[d] = target[d]
    BY <2>1, TargetType
  <2>3. "look" \in Places /\ "await" \in Phases
    BY DEF Places, Phases
  <2>4. at' \in [Clients -> Places] /\ at'[c] = "look" /\ \A d \in Clients \ {c} : at'[d] = at[d]
    BY <2>3, GoesType DEF Spawn
  <2>5. view' \in [Clients -> Views] /\ view'[c] = Blank /\ \A d \in Clients \ {c} : view'[d] = view[d]
    BY BlankType, ViewType DEF Spawn
  <2>6. call' \in [Clients -> Requests] /\ call'[c].phase = "await" /\ \A d \in Clients \ {c} : call'[d] = call[d]
    BY <2>3, PhaseType DEF Spawn
  <2>7. LaunchOK'
    BY <2>1, <2>2, <2>3, <2>4, <2>5, <2>6 DEF LaunchOK
  <2>8. Knows(c)'
    BY <2>1, <2>2, <2>3, <2>4, <2>5, <2>6 DEF Minded, Knows, HasRoot, Ending
  <2> QED
    BY <2>1, <2>2, <2>3, <2>4, <2>5, <2>6, <2>7, <2>8, KnowsOthers
<1>5. RestOK'
  BY DEF Spawn, RestOK
<1> QED
  BY <1>1, <1>2, <1>3, <1>4, <1>5

LEMMA AwaitType ==
  ASSUME TypeOK, Minded, NEW c \in Clients, Await(c)
  PROVE  TypeOK' /\ Minded'
<1> USE TypeParts
<1>1. ProcOK'
  BY DEF Await, ProcOK, processes
<1>2. FileOK'
  BY DEF Await, FileOK, files
<1>3. DraftOK'
  BY DEF Await, DraftOK
<1>4. LaunchOK' /\ Minded'
  <2>1. "look" \in Places /\ "confirm" \in Phases
    BY DEF Places, Phases
  <2>2. at' \in [Clients -> Places] /\ at[c] = "judge" /\ at'[c] = "look" /\ \A d \in Clients \ {c} : at'[d] = at[d]
    BY <2>1, GoesType DEF Await
  <2>3. view' \in [Clients -> Views] /\ view'[c] = Blank /\ \A d \in Clients \ {c} : view'[d] = view[d]
    BY BlankType, ViewType DEF Await
  <2>4. call' = [call EXCEPT ![c].phase = "confirm"] \/ call' = call
    BY DEF Await
  <2>5. call[c].phase = "await"
    BY DEF Await
  <2>6. call' \in [Clients -> Requests] /\ call'[c].phase \in {"await", "confirm"} /\ \A d \in Clients \ {c} : call'[d] = call[d]
    BY <2>1, <2>4, <2>5, PhaseType DEF LaunchOK
  <2>7. UNCHANGED <<target>>
    BY DEF Await, launchers
  <2>8. LaunchOK'
    BY <2>1, <2>2, <2>3, <2>4, <2>5, <2>6, <2>7 DEF LaunchOK
  <2>9. Knows(c)'
    BY <2>1, <2>2, <2>3, <2>4, <2>5, <2>6, <2>7 DEF Minded, Knows, HasRoot, Ending
  <2> QED
    BY <2>1, <2>2, <2>3, <2>4, <2>5, <2>6, <2>7, <2>8, <2>9, KnowsOthers
<1>5. RestOK'
  BY DEF Await, RestOK
<1> QED
  BY <1>1, <1>2, <1>3, <1>4, <1>5

LEMMA TimeoutType ==
  ASSUME TypeOK, Minded, NEW c \in Clients, Timeout(c)
  PROVE  TypeOK' /\ Minded'
<1> USE TypeParts
<1>1. ProcOK'
  BY DEF Timeout, ProcOK, processes
<1>2. FileOK'
  BY DEF Timeout, FileOK, files
<1>3. DraftOK'
  BY DEF Timeout, DraftOK
<1>4. LaunchOK' /\ Minded'
  <2>1. "kill" \in Places /\ "abandon" \in Phases
    BY DEF Places, Phases
  <2>2. at' \in [Clients -> Places] /\ at[c] = "judge" /\ at'[c] = "kill" /\ \A d \in Clients \ {c} : at'[d] = at[d]
    BY <2>1, GoesType DEF Timeout
  <2>3. view' \in [Clients -> Views] /\ view'[c] = Blank /\ \A d \in Clients \ {c} : view'[d] = view[d]
    BY BlankType, ViewType DEF Timeout
  <2>4. call[c].phase = "await"
    BY DEF Timeout
  <2>5. call' \in [Clients -> Requests] /\ call'[c].phase = "abandon" /\ \A d \in Clients \ {c} : call'[d] = call[d]
    BY <2>1, PhaseType DEF Timeout
  <2>6. UNCHANGED <<target>>
    BY DEF Timeout, launchers
  <2>7. LaunchOK'
    BY <2>1, <2>2, <2>3, <2>4, <2>5, <2>6 DEF LaunchOK
  <2>8. Knows(c)'
    BY <2>1, <2>2, <2>3, <2>4, <2>5, <2>6 DEF Minded, Knows, HasRoot, Ending
  <2> QED
    BY <2>1, <2>2, <2>3, <2>4, <2>5, <2>6, <2>7, <2>8, KnowsOthers
<1>5. RestOK'
  BY EventType DEF Timeout, RestOK
<1> QED
  BY <1>1, <1>2, <1>3, <1>4, <1>5

LEMMA ConfirmType ==
  ASSUME TypeOK, Minded, NEW c \in Clients, Confirm(c)
  PROVE  TypeOK' /\ Minded'
<1> USE TypeParts
<1>1. ProcOK'
  BY DEF Confirm, ProcOK, processes
<1>2. FileOK'
  BY DEF Confirm, FileOK, files
<1>3. DraftOK'
  BY DEF Confirm, DraftOK
<1>4. LaunchOK' /\ Minded'
  <2>1. CASE Healthy(c) /\ view[c].snap.kind = "background"
    <3>1. Finished(c)
      BY <2>1 DEF Confirm
    <3>2. Knows(c)'
      BY <3>1, FinishedType DEF Knows, HasRoot, Ending, NoCall
    <3> QED
      BY <3>1, <3>2, FinishedType, KnowsOthers
  <2>2. CASE ~(Healthy(c) /\ view[c].snap.kind = "background")
    <3>1. "kill" \in Places
      BY DEF Places
    <3>2. at' \in [Clients -> Places] /\ at[c] = "judge" /\ at'[c] = "kill" /\ \A d \in Clients \ {c} : at'[d] = at[d]
      BY <2>2, <3>1, GoesType DEF Confirm
    <3>3. "abandon" \in Phases /\ call[c].phase = "confirm"
      BY DEF Phases, Confirm
    <3>4. call' \in [Clients -> Requests] /\ call'[c].phase = "abandon" /\ \A d \in Clients \ {c} : call'[d] = call[d]
      BY <2>2, <3>3, PhaseType DEF Confirm
    <3>5. UNCHANGED <<view, target>>
      BY <2>2 DEF Confirm, launchers
    <3>6. LaunchOK'
      BY <3>1, <3>2, <3>3, <3>4, <3>5 DEF LaunchOK
    <3>7. Knows(c)'
      BY <3>1, <3>2, <3>3, <3>4, <3>5 DEF Minded, Knows, HasRoot, Ending
    <3> QED
      BY <3>1, <3>2, <3>3, <3>4, <3>5, <3>6, <3>7, KnowsOthers
  <2> QED
    BY <2>1, <2>2 DEF Confirm
<1>5. RestOK'
  BY DEF Confirm, RestOK
<1> QED
  BY <1>1, <1>2, <1>3, <1>4, <1>5

LEMMA KillType ==
  ASSUME TypeOK, Minded, NEW c \in Clients, Kill(c)
  PROVE  TypeOK' /\ Minded'
<1> USE TypeParts
<1>0. Running(target[c]) => target[c] \in Pids
  BY DEF Running
<1>1. ProcOK'
  BY <1>0, SignalledType DEF Kill, ProcOK
<1>2. FileOK'
  BY <1>0, SignalledType DEF Kill, FileOK, files
<1>3. DraftOK'
  BY <1>0, SignalledType DEF Kill, DraftOK
<1>4. LaunchOK' /\ Minded'
  <2>1. CASE Running(target[c])
    <3>1. "waitExit" \in Places
      BY DEF Places
    <3>2. at' \in [Clients -> Places] /\ at[c] = "kill" /\ at'[c] = "waitExit" /\ \A d \in Clients \ {c} : at'[d] = at[d]
      BY <2>1, <3>1, GoesType DEF Kill
    <3>3. UNCHANGED <<call, view, target>>
      BY <2>1 DEF Kill, launchers
    <3>4. LaunchOK'
      BY <3>1, <3>2, <3>3 DEF LaunchOK
    <3>5. Knows(c)'
      BY <3>1, <3>2, <3>3 DEF Minded, Knows, HasRoot, Ending
    <3> QED
      BY <3>1, <3>2, <3>3, <3>4, <3>5, KnowsOthers
  <2>2. CASE ~Running(target[c])
    <3>1. Finished(c)
      BY <2>2 DEF Kill
    <3>2. Knows(c)'
      BY <3>1, FinishedType DEF Knows, HasRoot, Ending, NoCall
    <3> QED
      BY <3>1, <3>2, FinishedType, KnowsOthers
  <2> QED
    BY <2>1, <2>2 DEF Kill
<1>5. RestOK'
  BY DEF Kill, RestOK
<1> QED
  BY <1>1, <1>2, <1>3, <1>4, <1>5

LEMMA WaitExitType ==
  ASSUME TypeOK, Minded, NEW c \in Clients, WaitExit(c)
  PROVE  TypeOK' /\ Minded'
<1> USE TypeParts
<1>1. ProcOK'
  BY DEF WaitExit, ProcOK, processes
<1>2. FileOK'
  BY DEF WaitExit, FileOK, files
<1>3. DraftOK'
  BY DEF WaitExit, DraftOK
<1>4. LaunchOK' /\ Minded'
  <2>1. CASE call[c].phase = "abandon"
    <3>1. Finished(c)
      BY <2>1 DEF WaitExit
    <3>2. Knows(c)'
      BY <3>1, FinishedType DEF Knows, HasRoot, Ending, NoCall
    <3> QED
      BY <3>1, <3>2, FinishedType, KnowsOthers
  <2>2. CASE call[c].phase # "abandon"
    <3>1. "recordRead" \in Places
      BY DEF Places
    <3>2. at' \in [Clients -> Places] /\ at[c] = "waitExit" /\ at'[c] = "recordRead" /\ \A d \in Clients \ {c} : at'[d] = at[d]
      BY <2>2, <3>1, GoesType DEF WaitExit
    <3>3. call[c].phase # "abandon"
      BY <2>2
    <3>4. UNCHANGED <<call, view, target>>
      BY <2>2 DEF WaitExit, launchers
    <3>5. LaunchOK'
      BY <3>1, <3>2, <3>3, <3>4 DEF LaunchOK
    <3>6. Knows(c)'
      BY <3>1, <3>2, <3>3, <3>4 DEF Minded, Knows, HasRoot, Ending
    <3> QED
      BY <3>1, <3>2, <3>3, <3>4, <3>5, <3>6, KnowsOthers
  <2> QED
    BY <2>1, <2>2 DEF WaitExit
<1>5. RestOK'
  BY EventType DEF WaitExit, RestOK
<1> QED
  BY <1>1, <1>2, <1>3, <1>4, <1>5

LEMMA RecordReadType ==
  ASSUME TypeOK, Minded, NEW c \in Clients, RecordRead(c)
  PROVE  TypeOK' /\ Minded'
<1> USE TypeParts
<1>1. ProcOK'
  BY DEF RecordRead, ProcOK, processes
<1>2. FileOK'
  BY DEF RecordRead, FileOK, files
<1>3. DraftOK'
  <2>1. call[c].phase = "decide" /\ view[c].root \in Roots /\ target[c] \in Pids
    BY DEF RecordRead, Minded, Knows, Ending
  <2>2. PICK current \in {snapshot, Nothing} : draft' = [draft EXCEPT ![c] = Kept(Snapshot("stopped", target[c], view[c].root, "background"), current)]
    BY DEF RecordRead
  <2>3. current \in Snapshots \union {Nothing} /\ "background" \in Kinds
    BY DEF FileOK, Kinds
  <2> QED
    BY <2>1, <2>2, <2>3, SnapshotType, KeptType, DraftType
<1>4. LaunchOK' /\ Minded'
  <2>1. "recordWrite" \in Places
    BY DEF Places
  <2>2. at' \in [Clients -> Places] /\ at[c] = "recordRead" /\ at'[c] = "recordWrite" /\ \A d \in Clients \ {c} : at'[d] = at[d]
    BY <2>1, GoesType DEF RecordRead
  <2>3. UNCHANGED <<call, view, target>>
    BY DEF RecordRead, launchers
  <2>4. LaunchOK'
    BY <2>1, <2>2, <2>3 DEF LaunchOK
  <2>5. Knows(c)'
    BY <2>1, <2>2, <2>3 DEF Minded, Knows, HasRoot, Ending
  <2> QED
    BY <2>1, <2>2, <2>3, <2>4, <2>5, KnowsOthers
<1>5. RestOK'
  BY EventType, ReadsType DEF RecordRead, RestOK
<1> QED
  BY <1>1, <1>2, <1>3, <1>4, <1>5

LEMMA RecordWriteType ==
  ASSUME TypeOK, Minded, NEW c \in Clients, RecordWrite(c)
  PROVE  TypeOK' /\ Minded'
<1> USE TypeParts
<1>1. ProcOK'
  BY DEF RecordWrite, ProcOK
<1>2. FileOK'
  <2>1. draft[c] \in Snapshots \union {Nothing}
    BY DEF DraftOK
  <2> QED
    BY <2>1 DEF RecordWrite, FileOK
<1>3. DraftOK'
  BY DEF RecordWrite, DraftOK
<1>4. LaunchOK' /\ Minded'
  <2>1. CASE call[c].name = "restart"
    <3>1. "spawn" \in Places
      BY DEF Places
    <3>2. at' \in [Clients -> Places] /\ at[c] = "recordWrite" /\ at'[c] = "spawn" /\ \A d \in Clients \ {c} : at'[d] = at[d]
      BY <2>1, <3>1, GoesType DEF RecordWrite
    <3>3. call[c].phase = "decide"
      BY DEF RecordWrite, Minded, Knows
    <3>4. UNCHANGED <<call, view, target>>
      BY <2>1 DEF RecordWrite, launchers
    <3>5. LaunchOK'
      BY <3>1, <3>2, <3>3, <3>4 DEF LaunchOK
    <3>6. Knows(c)'
      BY <3>1, <3>2, <3>3, <3>4 DEF Minded, Knows, HasRoot, Ending
    <3> QED
      BY <3>1, <3>2, <3>3, <3>4, <3>5, <3>6, KnowsOthers
  <2>2. CASE call[c].name # "restart"
    <3>1. Finished(c)
      BY <2>2 DEF RecordWrite
    <3>2. Knows(c)'
      BY <3>1, FinishedType DEF Knows, HasRoot, Ending, NoCall
    <3> QED
      BY <3>1, <3>2, FinishedType, KnowsOthers
  <2> QED
    BY <2>1, <2>2 DEF RecordWrite
<1>5. RestOK'
  BY DEF RecordWrite, RestOK
<1> QED
  BY <1>1, <1>2, <1>3, <1>4, <1>5

-----------------------------------------------------------------------------
(* One daemon.                                                             *)

(* Between its test and its release the launcher has the lock.             *)
Grabbed == \A c \in Clients : at[c] = "ungrab" => holder = c

Locked == OneDaemon /\ Grabbed

LEMMA BootLocked ==
  ASSUME TypeOK, Locked, NEW p \in Pids, Boot(p)
  PROVE  Locked'
<1>1. ProcOK /\ FileOK /\ LaunchOK
  BY TypeParts
<1> QED
  BY <1>1, NobodyAssumption, ApartAssumption
  DEF Boot, Locked, OneDaemon, Grabbed, Becomes, Guarded, Startup, Daemonic, ProcOK, FileOK, LaunchOK, launchers, files, processes

LEMMA AcquireLocked ==
  ASSUME TypeOK, Locked, NEW p \in Pids, Acquire(p)
  PROVE  Locked'
<1>1. ProcOK /\ FileOK /\ LaunchOK
  BY TypeParts
<1> QED
  BY <1>1, NobodyAssumption, ApartAssumption
  DEF Acquire, Locked, OneDaemon, Grabbed, Becomes, Guarded, Startup, Daemonic, ProcOK, FileOK, LaunchOK, launchers, files, processes, MayLock

LEMMA RefusedLocked ==
  ASSUME TypeOK, Locked, NEW p \in Pids, Refused(p)
  PROVE  Locked'
<1>1. ProcOK /\ FileOK /\ LaunchOK
  BY TypeParts
<1> QED
  BY <1>1, NobodyAssumption, ApartAssumption
  DEF Refused, Locked, OneDaemon, Grabbed, Becomes, Guarded, Startup, Daemonic, ProcOK, FileOK, LaunchOK, launchers, files, processes

LEMMA StampLocked ==
  ASSUME TypeOK, Locked, NEW p \in Pids, Stamp(p)
  PROVE  Locked'
<1>1. ProcOK /\ FileOK /\ LaunchOK
  BY TypeParts
<1> QED
  BY <1>1, NobodyAssumption, ApartAssumption
  DEF Stamp, Locked, OneDaemon, Grabbed, Becomes, Guarded, Startup, Daemonic, ProcOK, FileOK, LaunchOK, launchers, files, processes

LEMMA WriteStartingLocked ==
  ASSUME TypeOK, Locked, NEW p \in Pids, WriteStarting(p)
  PROVE  Locked'
<1>1. ProcOK /\ FileOK /\ LaunchOK
  BY TypeParts
<1> QED
  BY <1>1, NobodyAssumption, ApartAssumption
  DEF WriteStarting, Locked, OneDaemon, Grabbed, Becomes, Guarded, Startup, Daemonic, ProcOK, FileOK, LaunchOK, launchers, files, processes

LEMMA PrepareLocked ==
  ASSUME TypeOK, Locked, NEW p \in Pids, Prepare(p)
  PROVE  Locked'
<1>1. ProcOK /\ FileOK /\ LaunchOK
  BY TypeParts
<1> QED
  BY <1>1, NobodyAssumption, ApartAssumption
  DEF Prepare, Locked, OneDaemon, Grabbed, Becomes, Guarded, Startup, Daemonic, ProcOK, FileOK, LaunchOK, launchers, files, processes

LEMMA ReadToWriteLocked ==
  ASSUME TypeOK, Locked, NEW p \in Pids, ReadToWrite(p)
  PROVE  Locked'
<1>1. ProcOK /\ FileOK /\ LaunchOK
  BY TypeParts
<1> QED
  BY <1>1, NobodyAssumption, ApartAssumption
  DEF ReadToWrite, Locked, OneDaemon, Grabbed, Becomes, Guarded, Startup, Daemonic, ProcOK, FileOK, LaunchOK, launchers, files, processes

LEMMA WriteStatusLocked ==
  ASSUME TypeOK, Locked, NEW p \in Pids, WriteStatus(p)
  PROVE  Locked'
<1>1. ProcOK /\ FileOK /\ LaunchOK
  BY TypeParts
<1> QED
  BY <1>1, NobodyAssumption, ApartAssumption
  DEF WriteStatus, Locked, OneDaemon, Grabbed, Becomes, Guarded, Startup, Daemonic, ProcOK, FileOK, LaunchOK, launchers, files, processes

LEMMA StopLocked ==
  ASSUME TypeOK, Locked, NEW p \in Pids, Stop(p)
  PROVE  Locked'
<1>1. ProcOK /\ FileOK /\ LaunchOK
  BY TypeParts
<1> QED
  BY <1>1, NobodyAssumption, ApartAssumption
  DEF Stop, Locked, OneDaemon, Grabbed, Becomes, Guarded, Startup, Daemonic, ProcOK, FileOK, LaunchOK, launchers, files, processes

LEMMA ReleaseLocked ==
  ASSUME TypeOK, Locked, NEW p \in Pids, Release(p)
  PROVE  Locked'
<1>1. ProcOK /\ FileOK /\ LaunchOK
  BY TypeParts
<1> QED
  BY <1>1, NobodyAssumption, ApartAssumption
  DEF Release, Locked, OneDaemon, Grabbed, Becomes, Guarded, Startup, Daemonic, ProcOK, FileOK, LaunchOK, launchers, files, processes

LEMMA ExitLocked ==
  ASSUME TypeOK, Locked, NEW p \in Pids, Exit(p)
  PROVE  Locked'
<1>1. ProcOK /\ FileOK /\ LaunchOK
  BY TypeParts
<1> QED
  BY <1>1, NobodyAssumption, ApartAssumption
  DEF Exit, Locked, OneDaemon, Grabbed, Becomes, Guarded, Startup, Daemonic, ProcOK, FileOK, LaunchOK, launchers, files, processes, Gone

LEMMA RunInTerminalLocked ==
  ASSUME TypeOK, Locked, NEW p \in Pids, RunInTerminal(p)
  PROVE  Locked'
<1>1. ProcOK /\ FileOK /\ LaunchOK
  BY TypeParts
<1> QED
  BY <1>1, NobodyAssumption, ApartAssumption
  DEF RunInTerminal, Locked, OneDaemon, Grabbed, Becomes, Guarded, Startup, Daemonic, ProcOK, FileOK, LaunchOK, launchers, files, processes, Spawned, Free

LEMMA CrashLocked ==
  ASSUME TypeOK, Locked, NEW p \in Pids, Crash(p)
  PROVE  Locked'
<1>1. ProcOK /\ FileOK /\ LaunchOK
  BY TypeParts
<1> QED
  BY <1>1, NobodyAssumption, ApartAssumption
  DEF Crash, Locked, OneDaemon, Grabbed, Becomes, Guarded, Startup, Daemonic, ProcOK, FileOK, LaunchOK, launchers, files, processes, Gone

LEMMA InterruptLocked ==
  ASSUME TypeOK, Locked, NEW p \in Pids, Interrupt(p)
  PROVE  Locked'
<1>1. ProcOK /\ FileOK /\ LaunchOK
  BY TypeParts
<1> QED
  BY <1>1, NobodyAssumption, ApartAssumption
  DEF Interrupt, Locked, OneDaemon, Grabbed, Becomes, Guarded, Startup, Daemonic, ProcOK, FileOK, LaunchOK, launchers, files, processes, Gone, Signalled

LEMMA StrangerLocked ==
  ASSUME TypeOK, Locked, NEW p \in Pids, Stranger(p)
  PROVE  Locked'
<1>1. ProcOK /\ FileOK /\ LaunchOK
  BY TypeParts
<1> QED
  BY <1>1, NobodyAssumption, ApartAssumption
  DEF Stranger, Locked, OneDaemon, Grabbed, Becomes, Guarded, Startup, Daemonic, ProcOK, FileOK, LaunchOK, launchers, files, processes, Free

LEMMA CallLocked ==
  ASSUME TypeOK, Locked, NEW c \in Clients, Call(c)
  PROVE  Locked'
<1>1. ProcOK /\ FileOK /\ LaunchOK
  BY TypeParts
<1> QED
  BY <1>1, NobodyAssumption, ApartAssumption
  DEF Call, Locked, OneDaemon, Grabbed, Goes, Guarded, Startup, Daemonic, ProcOK, FileOK, LaunchOK, launchers, files, processes

LEMMA LookLocked ==
  ASSUME TypeOK, Locked, NEW c \in Clients, Look(c)
  PROVE  Locked'
<1>1. ProcOK /\ FileOK /\ LaunchOK
  BY TypeParts
<1> QED
  BY <1>1, NobodyAssumption, ApartAssumption
  DEF Look, Locked, OneDaemon, Grabbed, Goes, Guarded, Startup, Daemonic, ProcOK, FileOK, LaunchOK, launchers, files, processes

LEMMA ReadGuardLocked ==
  ASSUME TypeOK, Locked, NEW c \in Clients, ReadGuard(c)
  PROVE  Locked'
<1>1. ProcOK /\ FileOK /\ LaunchOK
  BY TypeParts
<1> QED
  BY <1>1, NobodyAssumption, ApartAssumption
  DEF ReadGuard, Locked, OneDaemon, Grabbed, Goes, Guarded, Startup, Daemonic, ProcOK, FileOK, LaunchOK, launchers, files, processes

LEMMA TryGuardLocked ==
  ASSUME TypeOK, Locked, NEW c \in Clients, TryGuard(c)
  PROVE  Locked'
<1>1. ProcOK /\ FileOK /\ LaunchOK
  BY TypeParts
<1> QED
  BY <1>1, NobodyAssumption, ApartAssumption
  DEF TryGuard, Locked, OneDaemon, Grabbed, Goes, Guarded, Startup, Daemonic, ProcOK, FileOK, LaunchOK, launchers, files, processes

LEMMA UngrabLocked ==
  ASSUME TypeOK, Locked, NEW c \in Clients, Ungrab(c)
  PROVE  Locked'
<1>1. ProcOK /\ FileOK /\ LaunchOK
  BY TypeParts
<1> QED
  BY <1>1, NobodyAssumption, ApartAssumption
  DEF Ungrab, Locked, OneDaemon, Grabbed, Goes, Guarded, Startup, Daemonic, ProcOK, FileOK, LaunchOK, launchers, files, processes

LEMMA DecideLocked ==
  ASSUME TypeOK, Locked, NEW c \in Clients, Decide(c)
  PROVE  Locked'
<1>1. ProcOK /\ FileOK /\ LaunchOK
  BY TypeParts
<1> QED
  BY <1>1, NobodyAssumption, ApartAssumption
  DEF Decide, Locked, OneDaemon, Grabbed, Goes, Guarded, Startup, Daemonic, ProcOK, FileOK, LaunchOK, launchers, files, processes, Finished

LEMMA SpawnLocked ==
  ASSUME TypeOK, Locked, NEW c \in Clients, Spawn(c)
  PROVE  Locked'
<1>1. ProcOK /\ FileOK /\ LaunchOK
  BY TypeParts
<1> QED
  BY <1>1, NobodyAssumption, ApartAssumption
  DEF Spawn, Locked, OneDaemon, Grabbed, Goes, Guarded, Startup, Daemonic, ProcOK, FileOK, LaunchOK, launchers, files, processes, Spawned, Free, Becomes

LEMMA AwaitLocked ==
  ASSUME TypeOK, Locked, NEW c \in Clients, Await(c)
  PROVE  Locked'
<1>1. ProcOK /\ FileOK /\ LaunchOK
  BY TypeParts
<1> QED
  BY <1>1, NobodyAssumption, ApartAssumption
  DEF Await, Locked, OneDaemon, Grabbed, Goes, Guarded, Startup, Daemonic, ProcOK, FileOK, LaunchOK, launchers, files, processes

LEMMA TimeoutLocked ==
  ASSUME TypeOK, Locked, NEW c \in Clients, Timeout(c)
  PROVE  Locked'
<1>1. ProcOK /\ FileOK /\ LaunchOK
  BY TypeParts
<1> QED
  BY <1>1, NobodyAssumption, ApartAssumption
  DEF Timeout, Locked, OneDaemon, Grabbed, Goes, Guarded, Startup, Daemonic, ProcOK, FileOK, LaunchOK, launchers, files, processes

LEMMA ConfirmLocked ==
  ASSUME TypeOK, Locked, NEW c \in Clients, Confirm(c)
  PROVE  Locked'
<1>1. ProcOK /\ FileOK /\ LaunchOK
  BY TypeParts
<1> QED
  BY <1>1, NobodyAssumption, ApartAssumption
  DEF Confirm, Locked, OneDaemon, Grabbed, Goes, Guarded, Startup, Daemonic, ProcOK, FileOK, LaunchOK, launchers, files, processes, Finished

LEMMA KillLocked ==
  ASSUME TypeOK, Locked, NEW c \in Clients, Kill(c)
  PROVE  Locked'
<1>1. ProcOK /\ FileOK /\ LaunchOK
  BY TypeParts
<1> QED
  BY <1>1, NobodyAssumption, ApartAssumption
  DEF Kill, Locked, OneDaemon, Grabbed, Goes, Guarded, Startup, Daemonic, ProcOK, FileOK, LaunchOK, launchers, files, processes, Finished, Gone, Signalled, Becomes, Running

LEMMA WaitExitLocked ==
  ASSUME TypeOK, Locked, NEW c \in Clients, WaitExit(c)
  PROVE  Locked'
<1>1. ProcOK /\ FileOK /\ LaunchOK
  BY TypeParts
<1> QED
  BY <1>1, NobodyAssumption, ApartAssumption
  DEF WaitExit, Locked, OneDaemon, Grabbed, Goes, Guarded, Startup, Daemonic, ProcOK, FileOK, LaunchOK, launchers, files, processes, Finished

LEMMA RecordReadLocked ==
  ASSUME TypeOK, Locked, NEW c \in Clients, RecordRead(c)
  PROVE  Locked'
<1>1. ProcOK /\ FileOK /\ LaunchOK
  BY TypeParts
<1> QED
  BY <1>1, NobodyAssumption, ApartAssumption
  DEF RecordRead, Locked, OneDaemon, Grabbed, Goes, Guarded, Startup, Daemonic, ProcOK, FileOK, LaunchOK, launchers, files, processes

LEMMA RecordWriteLocked ==
  ASSUME TypeOK, Locked, NEW c \in Clients, RecordWrite(c)
  PROVE  Locked'
<1>1. ProcOK /\ FileOK /\ LaunchOK
  BY TypeParts
<1> QED
  BY <1>1, NobodyAssumption, ApartAssumption
  DEF RecordWrite, Locked, OneDaemon, Grabbed, Goes, Guarded, Startup, Daemonic, ProcOK, FileOK, LaunchOK, launchers, files, processes, Finished

-----------------------------------------------------------------------------
(* What is about to be written, and what was.                              *)

Drafted ==
  /\ \A p \in Pids : proc[p] \in {"readyWrite", "stopWrite"} =>
       /\ draft[p] \in Snapshots /\ draft[p].pid = p
       /\ proc[p] = "stopWrite" => draft[p].status = "stopped"
  /\ \A c \in Clients : at[c] = "recordWrite" => draft[c] \in Snapshots /\ draft[c].status = "stopped"

(* SnapshotTellsOfDaemon on the way to the loop.                           *)
Tells ==
  \A p \in Pids \ mixed :
    /\ proc[p] \in {"prepare", "readyRead"} => snapshot = Starting(p)
    /\ proc[p] = "readyWrite" => draft[p] = Snapshot("ready", p, home[p], kind[p])
    /\ proc[p] = "loop" => snapshot = Snapshot("ready", p, home[p], kind[p])

LEMMA KeptOfStarting ==
  ASSUME NEW p
  PROVE  /\ Kept(Snapshot("ready", p, home[p], kind[p]), Starting(p)) = Snapshot("ready", p, home[p], kind[p])
         /\ Kept(Snapshot("ready", p, home[p], kind[p]), Nothing) = Snapshot("ready", p, home[p], kind[p])
  BY DEF Kept, Starting, Snapshot

LEMMA BootTells ==
  ASSUME TypeOK, Locked, Drafted, Tells, NEW p \in Pids, Boot(p)
  PROVE  Drafted' /\ Tells'
<1>1. ProcOK /\ FileOK /\ LaunchOK /\ DraftOK
  BY TypeParts
<1> QED
  BY <1>1, ApartAssumption
  DEF Boot, Locked, OneDaemon, Drafted, Tells, Starting, Becomes, Guarded, Startup, Daemonic, ProcOK, FileOK, LaunchOK, DraftOK, launchers, files, processes

LEMMA AcquireTells ==
  ASSUME TypeOK, Locked, Drafted, Tells, NEW p \in Pids, Acquire(p)
  PROVE  Drafted' /\ Tells'
<1>1. ProcOK /\ FileOK /\ LaunchOK /\ DraftOK
  BY TypeParts
<1> QED
  BY <1>1, ApartAssumption
  DEF Acquire, Locked, OneDaemon, Drafted, Tells, Starting, Becomes, Guarded, Startup, Daemonic, ProcOK, FileOK, LaunchOK, DraftOK, launchers, files, processes

LEMMA RefusedTells ==
  ASSUME TypeOK, Locked, Drafted, Tells, NEW p \in Pids, Refused(p)
  PROVE  Drafted' /\ Tells'
<1>1. ProcOK /\ FileOK /\ LaunchOK /\ DraftOK
  BY TypeParts
<1> QED
  BY <1>1, ApartAssumption
  DEF Refused, Locked, OneDaemon, Drafted, Tells, Starting, Becomes, Guarded, Startup, Daemonic, ProcOK, FileOK, LaunchOK, DraftOK, launchers, files, processes

LEMMA StampTells ==
  ASSUME TypeOK, Locked, Drafted, Tells, NEW p \in Pids, Stamp(p)
  PROVE  Drafted' /\ Tells'
<1>1. ProcOK /\ FileOK /\ LaunchOK /\ DraftOK
  BY TypeParts
<1> QED
  BY <1>1, ApartAssumption
  DEF Stamp, Locked, OneDaemon, Drafted, Tells, Starting, Becomes, Guarded, Startup, Daemonic, ProcOK, FileOK, LaunchOK, DraftOK, launchers, files, processes

LEMMA WriteStartingTells ==
  ASSUME TypeOK, Locked, Drafted, Tells, NEW p \in Pids, WriteStarting(p)
  PROVE  Drafted' /\ Tells'
<1>1. ProcOK /\ FileOK /\ LaunchOK /\ DraftOK
  BY TypeParts
<1> QED
  BY <1>1, ApartAssumption
  DEF WriteStarting, Locked, OneDaemon, Drafted, Tells, Starting, Becomes, Guarded, Startup, Daemonic, ProcOK, FileOK, LaunchOK, DraftOK, launchers, files, processes

LEMMA PrepareTells ==
  ASSUME TypeOK, Locked, Drafted, Tells, NEW p \in Pids, Prepare(p)
  PROVE  Drafted' /\ Tells'
<1>1. ProcOK /\ FileOK /\ LaunchOK /\ DraftOK
  BY TypeParts
<1> QED
  BY <1>1, ApartAssumption
  DEF Prepare, Locked, OneDaemon, Drafted, Tells, Starting, Becomes, Guarded, Startup, Daemonic, ProcOK, FileOK, LaunchOK, DraftOK, launchers, files, processes

LEMMA ReadToWriteTells ==
  ASSUME TypeOK, Locked, Drafted, Tells, NEW p \in Pids, ReadToWrite(p)
  PROVE  Drafted' /\ Tells'
<1> DEFINE status == IF proc[p] = "readyRead" THEN "ready" ELSE "stopped"
           new == Snapshot(status, p, home[p], kind[p])
<1>0. ProcOK /\ FileOK /\ LaunchOK /\ DraftOK
  BY TypeParts
<1>1. PICK current \in {snapshot, Nothing} : draft' = [draft EXCEPT ![p] = Kept(new, current)]
  BY DEF ReadToWrite
<1>2. new \in Snapshots /\ new.pid = p /\ new.status = status
  BY <1>0, SnapshotType DEF ProcOK, Snapshot
<1>3. current \in Snapshots \union {Nothing}
  BY <1>0 DEF FileOK
<1>4. Kept(new, current) \in Snapshots /\ Kept(new, current).pid = p /\ Kept(new, current).status = status
  BY <1>2, <1>3, KeptType
<1>5. draft'[p] = Kept(new, current) /\ \A x \in (Pids \union Clients) \ {p} : draft'[x] = draft[x]
  BY <1>0, <1>1, <1>4, DraftType
<1>6. proc'[p] = (IF proc[p] = "readyRead" THEN "readyWrite" ELSE "stopWrite") /\ \A q \in Pids \ {p} : proc'[q] = proc[q]
  BY <1>0 DEF ReadToWrite, Becomes, ProcOK
<1>7. proc[p] \in {"readyRead", "stopRead"} /\ UNCHANGED <<kind, home, mixed, snapshot, at>>
  BY DEF ReadToWrite, files, launchers
<1>8. Drafted'
  <2>1. \A c \in Clients : c # p
    BY ApartAssumption
  <2> HIDE DEF new, status
  <2>2. draft'[p] \in Snapshots /\ draft'[p].pid = p /\ (proc'[p] = "stopWrite" => draft'[p].status = "stopped")
    BY <1>4, <1>5, <1>6, <1>7 DEF status
  <2> QED
    BY <1>5, <1>6, <1>7, <2>1, <2>2 DEF Drafted
<1>9. Tells'
  <2>1. proc[p] = "readyRead" /\ p \notin mixed => draft'[p] = Snapshot("ready", p, home[p], kind[p])
    BY <1>1, <1>5, KeptOfStarting DEF Tells
  <2> QED
    BY <1>5, <1>6, <1>7, <2>1 DEF Tells, Starting
<1> QED
  BY <1>8, <1>9

LEMMA WriteStatusTells ==
  ASSUME TypeOK, Locked, Drafted, Tells, NEW p \in Pids, WriteStatus(p)
  PROVE  Drafted' /\ Tells'
<1>1. ProcOK /\ FileOK /\ LaunchOK /\ DraftOK
  BY TypeParts
<1> QED
  BY <1>1, ApartAssumption
  DEF WriteStatus, Locked, OneDaemon, Drafted, Tells, Starting, Becomes, Guarded, Startup, Daemonic, ProcOK, FileOK, LaunchOK, DraftOK, launchers, files, processes

LEMMA StopTells ==
  ASSUME TypeOK, Locked, Drafted, Tells, NEW p \in Pids, Stop(p)
  PROVE  Drafted' /\ Tells'
<1>1. ProcOK /\ FileOK /\ LaunchOK /\ DraftOK
  BY TypeParts
<1> QED
  BY <1>1, ApartAssumption
  DEF Stop, Locked, OneDaemon, Drafted, Tells, Starting, Becomes, Guarded, Startup, Daemonic, ProcOK, FileOK, LaunchOK, DraftOK, launchers, files, processes

LEMMA ReleaseTells ==
  ASSUME TypeOK, Locked, Drafted, Tells, NEW p \in Pids, Release(p)
  PROVE  Drafted' /\ Tells'
<1>1. ProcOK /\ FileOK /\ LaunchOK /\ DraftOK
  BY TypeParts
<1> QED
  BY <1>1, ApartAssumption
  DEF Release, Locked, OneDaemon, Drafted, Tells, Starting, Becomes, Guarded, Startup, Daemonic, ProcOK, FileOK, LaunchOK, DraftOK, launchers, files, processes

LEMMA ExitTells ==
  ASSUME TypeOK, Locked, Drafted, Tells, NEW p \in Pids, Exit(p)
  PROVE  Drafted' /\ Tells'
<1>1. ProcOK /\ FileOK /\ LaunchOK /\ DraftOK
  BY TypeParts
<1> QED
  BY <1>1, ApartAssumption
  DEF Exit, Locked, OneDaemon, Drafted, Tells, Starting, Becomes, Guarded, Startup, Daemonic, ProcOK, FileOK, LaunchOK, DraftOK, launchers, files, processes, Gone

LEMMA RunInTerminalTells ==
  ASSUME TypeOK, Locked, Drafted, Tells, NEW p \in Pids, RunInTerminal(p)
  PROVE  Drafted' /\ Tells'
<1>1. ProcOK /\ FileOK /\ LaunchOK /\ DraftOK
  BY TypeParts
<1> QED
  BY <1>1, ApartAssumption
  DEF RunInTerminal, Locked, OneDaemon, Drafted, Tells, Starting, Becomes, Guarded, Startup, Daemonic, ProcOK, FileOK, LaunchOK, DraftOK, launchers, files, processes, Spawned, Free

LEMMA CrashTells ==
  ASSUME TypeOK, Locked, Drafted, Tells, NEW p \in Pids, Crash(p)
  PROVE  Drafted' /\ Tells'
<1>1. ProcOK /\ FileOK /\ LaunchOK /\ DraftOK
  BY TypeParts
<1> QED
  BY <1>1, ApartAssumption
  DEF Crash, Locked, OneDaemon, Drafted, Tells, Starting, Becomes, Guarded, Startup, Daemonic, ProcOK, FileOK, LaunchOK, DraftOK, launchers, files, processes, Gone

LEMMA InterruptTells ==
  ASSUME TypeOK, Locked, Drafted, Tells, NEW p \in Pids, Interrupt(p)
  PROVE  Drafted' /\ Tells'
<1>1. ProcOK /\ FileOK /\ LaunchOK /\ DraftOK
  BY TypeParts
<1> QED
  BY <1>1, ApartAssumption
  DEF Interrupt, Locked, OneDaemon, Drafted, Tells, Starting, Becomes, Guarded, Startup, Daemonic, ProcOK, FileOK, LaunchOK, DraftOK, launchers, files, processes, Gone, Signalled

LEMMA StrangerTells ==
  ASSUME TypeOK, Locked, Drafted, Tells, NEW p \in Pids, Stranger(p)
  PROVE  Drafted' /\ Tells'
<1>1. ProcOK /\ FileOK /\ LaunchOK /\ DraftOK
  BY TypeParts
<1> QED
  BY <1>1, ApartAssumption
  DEF Stranger, Locked, OneDaemon, Drafted, Tells, Starting, Becomes, Guarded, Startup, Daemonic, ProcOK, FileOK, LaunchOK, DraftOK, launchers, files, processes, Free

LEMMA CallTells ==
  ASSUME TypeOK, Minded, Locked, Drafted, Tells, NEW c \in Clients, Call(c)
  PROVE  Drafted' /\ Tells'
<1>1. ProcOK /\ FileOK /\ LaunchOK /\ DraftOK
  BY TypeParts
<1> QED
  BY <1>1, ApartAssumption
  DEF Call, Locked, OneDaemon, Drafted, Tells, Starting, Goes, Guarded, Startup, Daemonic, ProcOK, FileOK, LaunchOK, DraftOK, launchers, files, processes

LEMMA LookTells ==
  ASSUME TypeOK, Minded, Locked, Drafted, Tells, NEW c \in Clients, Look(c)
  PROVE  Drafted' /\ Tells'
<1>1. ProcOK /\ FileOK /\ LaunchOK /\ DraftOK
  BY TypeParts
<1> QED
  BY <1>1, ApartAssumption
  DEF Look, Locked, OneDaemon, Drafted, Tells, Starting, Goes, Guarded, Startup, Daemonic, ProcOK, FileOK, LaunchOK, DraftOK, launchers, files, processes

LEMMA ReadGuardTells ==
  ASSUME TypeOK, Minded, Locked, Drafted, Tells, NEW c \in Clients, ReadGuard(c)
  PROVE  Drafted' /\ Tells'
<1>1. ProcOK /\ FileOK /\ LaunchOK /\ DraftOK
  BY TypeParts
<1> QED
  BY <1>1, ApartAssumption
  DEF ReadGuard, Locked, OneDaemon, Drafted, Tells, Starting, Goes, Guarded, Startup, Daemonic, ProcOK, FileOK, LaunchOK, DraftOK, launchers, files, processes

LEMMA TryGuardTells ==
  ASSUME TypeOK, Minded, Locked, Drafted, Tells, NEW c \in Clients, TryGuard(c)
  PROVE  Drafted' /\ Tells'
<1>1. ProcOK /\ FileOK /\ LaunchOK /\ DraftOK
  BY TypeParts
<1> QED
  BY <1>1, ApartAssumption
  DEF TryGuard, Locked, OneDaemon, Drafted, Tells, Starting, Goes, Guarded, Startup, Daemonic, ProcOK, FileOK, LaunchOK, DraftOK, launchers, files, processes

LEMMA UngrabTells ==
  ASSUME TypeOK, Minded, Locked, Drafted, Tells, NEW c \in Clients, Ungrab(c)
  PROVE  Drafted' /\ Tells'
<1>1. ProcOK /\ FileOK /\ LaunchOK /\ DraftOK
  BY TypeParts
<1> QED
  BY <1>1, ApartAssumption
  DEF Ungrab, Locked, OneDaemon, Drafted, Tells, Starting, Goes, Guarded, Startup, Daemonic, ProcOK, FileOK, LaunchOK, DraftOK, launchers, files, processes

LEMMA DecideTells ==
  ASSUME TypeOK, Minded, Locked, Drafted, Tells, NEW c \in Clients, Decide(c)
  PROVE  Drafted' /\ Tells'
<1>1. ProcOK /\ FileOK /\ LaunchOK /\ DraftOK
  BY TypeParts
<1> QED
  BY <1>1, ApartAssumption
  DEF Decide, Locked, OneDaemon, Drafted, Tells, Starting, Goes, Guarded, Startup, Daemonic, ProcOK, FileOK, LaunchOK, DraftOK, launchers, files, processes, Finished

LEMMA SpawnTells ==
  ASSUME TypeOK, Minded, Locked, Drafted, Tells, NEW c \in Clients, Spawn(c)
  PROVE  Drafted' /\ Tells'
<1>1. ProcOK /\ FileOK /\ LaunchOK /\ DraftOK
  BY TypeParts
<1> QED
  BY <1>1, ApartAssumption
  DEF Spawn, Locked, OneDaemon, Drafted, Tells, Starting, Goes, Guarded, Startup, Daemonic, ProcOK, FileOK, LaunchOK, DraftOK, launchers, files, processes, Spawned, Free, Becomes

LEMMA AwaitTells ==
  ASSUME TypeOK, Minded, Locked, Drafted, Tells, NEW c \in Clients, Await(c)
  PROVE  Drafted' /\ Tells'
<1>1. ProcOK /\ FileOK /\ LaunchOK /\ DraftOK
  BY TypeParts
<1> QED
  BY <1>1, ApartAssumption
  DEF Await, Locked, OneDaemon, Drafted, Tells, Starting, Goes, Guarded, Startup, Daemonic, ProcOK, FileOK, LaunchOK, DraftOK, launchers, files, processes

LEMMA TimeoutTells ==
  ASSUME TypeOK, Minded, Locked, Drafted, Tells, NEW c \in Clients, Timeout(c)
  PROVE  Drafted' /\ Tells'
<1>1. ProcOK /\ FileOK /\ LaunchOK /\ DraftOK
  BY TypeParts
<1> QED
  BY <1>1, ApartAssumption
  DEF Timeout, Locked, OneDaemon, Drafted, Tells, Starting, Goes, Guarded, Startup, Daemonic, ProcOK, FileOK, LaunchOK, DraftOK, launchers, files, processes

LEMMA ConfirmTells ==
  ASSUME TypeOK, Minded, Locked, Drafted, Tells, NEW c \in Clients, Confirm(c)
  PROVE  Drafted' /\ Tells'
<1>1. ProcOK /\ FileOK /\ LaunchOK /\ DraftOK
  BY TypeParts
<1> QED
  BY <1>1, ApartAssumption
  DEF Confirm, Locked, OneDaemon, Drafted, Tells, Starting, Goes, Guarded, Startup, Daemonic, ProcOK, FileOK, LaunchOK, DraftOK, launchers, files, processes, Finished

LEMMA KillTells ==
  ASSUME TypeOK, Minded, Locked, Drafted, Tells, NEW c \in Clients, Kill(c)
  PROVE  Drafted' /\ Tells'
<1>1. ProcOK /\ FileOK /\ LaunchOK /\ DraftOK
  BY TypeParts
<1> QED
  BY <1>1, ApartAssumption
  DEF Kill, Locked, OneDaemon, Drafted, Tells, Starting, Goes, Guarded, Startup, Daemonic, ProcOK, FileOK, LaunchOK, DraftOK, launchers, files, processes, Gone, Signalled, Becomes, Running, Finished

LEMMA WaitExitTells ==
  ASSUME TypeOK, Minded, Locked, Drafted, Tells, NEW c \in Clients, WaitExit(c)
  PROVE  Drafted' /\ Tells'
<1>1. ProcOK /\ FileOK /\ LaunchOK /\ DraftOK
  BY TypeParts
<1> QED
  BY <1>1, ApartAssumption
  DEF WaitExit, Locked, OneDaemon, Drafted, Tells, Starting, Goes, Guarded, Startup, Daemonic, ProcOK, FileOK, LaunchOK, DraftOK, launchers, files, processes, Finished

LEMMA RecordReadTells ==
  ASSUME TypeOK, Minded, Locked, Drafted, Tells, NEW c \in Clients, RecordRead(c)
  PROVE  Drafted' /\ Tells'
<1> DEFINE new == Snapshot("stopped", target[c], view[c].root, "background")
<1>0. ProcOK /\ FileOK /\ LaunchOK /\ DraftOK
  BY TypeParts
<1>1. PICK current \in {snapshot, Nothing} : draft' = [draft EXCEPT ![c] = Kept(new, current)]
  BY DEF RecordRead
<1>2. view[c].root \in Roots /\ target[c] \in Pids /\ "background" \in Kinds
  BY DEF RecordRead, Minded, Knows, Ending, Kinds
<1>3. new \in Snapshots /\ new.status = "stopped"
  BY <1>2, SnapshotType DEF Snapshot
<1>4. Kept(new, current) \in Snapshots /\ Kept(new, current).status = "stopped"
  BY <1>0, <1>3, KeptType DEF FileOK
<1>5. draft'[c] = Kept(new, current) /\ \A x \in (Pids \union Clients) \ {c} : draft'[x] = draft[x]
  BY <1>0, <1>1, <1>4, DraftType
<1> HIDE DEF new
<1>6. UNCHANGED <<proc, kind, home, mixed, snapshot>> /\ \A d \in Clients \ {c} : at'[d] = at[d]
  BY <1>0 DEF RecordRead, Goes, LaunchOK, processes, files
<1>7. \A p \in Pids : p # c
  BY ApartAssumption
<1>8. Drafted'
  BY <1>4, <1>5, <1>6, <1>7 DEF Drafted
<1>9. Tells'
  BY <1>5, <1>6, <1>7 DEF Tells, Starting
<1> QED
  BY <1>8, <1>9

LEMMA RecordWriteTells ==
  ASSUME TypeOK, Minded, Locked, Drafted, Tells, NEW c \in Clients, RecordWrite(c)
  PROVE  Drafted' /\ Tells'
<1>1. ProcOK /\ FileOK /\ LaunchOK /\ DraftOK
  BY TypeParts
<1> QED
  BY <1>1, ApartAssumption
  DEF RecordWrite, Locked, OneDaemon, Drafted, Tells, Starting, Goes, Guarded, Startup, Daemonic, ProcOK, FileOK, LaunchOK, DraftOK, launchers, files, processes, Finished

-----------------------------------------------------------------------------
(* Whom a launcher may signal.                                             *)

(* A pid that is, or was, a background daemon's, or that the property      *)
(* makes an exception of.                                                  *)
Child(p) == kind[p] = "background" /\ proc[p] \in Daemonic \union {"none"}
Ours(p) == p \in reused \union mixed \/ Child(p)

Claims(seen) == seen # Nothing /\ seen.kind = "background" /\ seen.status \in {"starting", "ready"}

Means(c) ==
  /\ Claims(view[c].snap) => Ours(view[c].snap.pid)
  /\ at[c] = "kill" /\ call[c].phase = "decide" => Ours(target[c])
  /\ call[c].phase \in {"await", "confirm", "abandon"} => Child(target[c])

Background ==
  /\ Claims(snapshot) => Ours(snapshot.pid)
  /\ \A c \in Clients : Means(c)

(* A step that gives no pid out.                                           *)
Stays ==
  /\ kind' = kind /\ reused' = reused /\ mixed \subseteq mixed'
  /\ \A p \in Pids : proc[p] \in Daemonic \union {"none"} => proc'[p] \in Daemonic \union {"none"}

LEMMA PidsType ==
  ASSUME TypeOK, Minded
  PROVE  /\ snapshot # Nothing => snapshot.pid \in Pids
         /\ \A c \in Clients :
              /\ view[c].snap # Nothing => view[c].snap.pid \in Pids
              /\ at[c] = "kill" /\ call[c].phase = "decide" => target[c] \in Pids
              /\ call[c].phase \in {"await", "confirm", "abandon"} => target[c] \in Pids
<1>1. FileOK /\ LaunchOK
  BY TypeParts
<1>2. \A c \in Clients : view[c].snap \in Snapshots \union {Nothing}
  BY <1>1 DEF LaunchOK, Views
<1> QED
  BY <1>1, <1>2 DEF FileOK, Snapshots, Minded, Knows, Ending

LEMMA StaysOurs ==
  ASSUME Stays, NEW p \in Pids
  PROVE  (Ours(p) => Ours(p)') /\ (Child(p) => Child(p)')
  BY DEF Stays, Ours, Child

LEMMA StaysMeans ==
  ASSUME TypeOK, Minded, Stays, NEW c \in Clients, Means(c),
         at'[c] = at[c], call'[c] = call[c], view'[c] = view[c], target'[c] = target[c]
  PROVE  Means(c)'
  BY PidsType, StaysOurs DEF Means, Claims

LEMMA MovesMeans ==
  ASSUME TypeOK, Minded, Stays, NEW c \in Clients, Means(c),
         view'[c].snap \in {view[c].snap, Nothing}, target'[c] = target[c],
         at'[c] = "kill" => call'[c].phase # "decide",
         call'[c].phase \in {"await", "confirm", "abandon"} => call[c].phase \in {"await", "confirm", "abandon"}
  PROVE  Means(c)'
<1>1. (Claims(view[c].snap) => Ours(view[c].snap.pid))'
  BY PidsType, StaysOurs DEF Means, Claims
<1>2. (call[c].phase \in {"await", "confirm", "abandon"} => Child(target[c]))'
  BY PidsType, StaysOurs DEF Means
<1> QED
  BY <1>1, <1>2 DEF Means

LEMMA FinishedMeans ==
  ASSUME LaunchOK, NEW c \in Clients, Finished(c)
  PROVE  Means(c)'
<1>1. at'[c] = "idle" /\ call'[c] = NoCall /\ view'[c] = Blank
  BY FinishedType
<1>2. NoCall.phase = "none" /\ Blank.snap = Nothing
  BY BlankType DEF NoCall
<1> QED
  BY <1>1, <1>2 DEF Means, Claims

LEMMA StaysBackground ==
  ASSUME TypeOK, Minded, Background, Stays, UNCHANGED launchers,
         snapshot' = snapshot \/ (Claims(snapshot) => Ours(snapshot.pid))'
  PROVE  Background'
<1>1. \A c \in Clients : Means(c)'
  BY StaysMeans DEF Background, launchers
<1>2. CASE snapshot' = snapshot
  BY <1>1, <1>2, PidsType, StaysOurs DEF Background, Claims
<1> QED
  BY <1>1, <1>2 DEF Background

LEMMA StaysLauncher ==
  ASSUME TypeOK, Minded, Background, Stays, NEW c \in Clients, Means(c)',
         \A d \in Clients \ {c} : at'[d] = at[d] /\ call'[d] = call[d] /\ view'[d] = view[d] /\ target'[d] = target[d],
         snapshot' = snapshot \/ (Claims(snapshot) => Ours(snapshot.pid))'
  PROVE  Background'
<1>1. \A d \in Clients \ {c} : Means(d)'
  BY StaysMeans DEF Background
<1>2. CASE snapshot' = snapshot
  BY <1>1, <1>2, PidsType, StaysOurs DEF Background, Claims
<1> QED
  BY <1>1, <1>2 DEF Background

(* A pid that is given out is nobody's child, and counts as reused when it *)
(* is in somebody's mind.                                                  *)
LEMMA GivenOut ==
  ASSUME TypeOK, Minded, Background, NEW p \in Pids, Free(p), Remembered(p),
         \A q \in Pids \ {p} : proc'[q] = proc[q] /\ kind'[q] = kind[q],
         mixed' \in {mixed, mixed \ {p}}
  PROVE  /\ \A q \in Pids : Seen(q) /\ Ours(q) => Ours(q)'
         /\ \A c \in Clients : call[c].phase \in {"await", "confirm", "abandon"} =>
              kind'[target[c]] = "background" /\ proc'[target[c]] \in Daemonic \union {"none"}
<1>1. \A q \in Pids : Seen(q) /\ Ours(q) => Ours(q)'
  BY DEF Remembered, Ours, Child
<1>2. ASSUME NEW c \in Clients, call[c].phase \in {"await", "confirm", "abandon"}
      PROVE  kind'[target[c]] = "background" /\ proc'[target[c]] \in Daemonic \union {"none"}
  <2>1. target[c] \in Pids /\ Child(target[c])
    BY <1>2, PidsType DEF Background, Means
  <2>2. target[c] # p
    BY <1>2 DEF Free
  <2> QED
    BY <2>1, <2>2 DEF Child
<1> QED
  BY <1>1, <1>2

LEMMA BootBackground ==
  ASSUME TypeOK, Minded, Drafted, Tells, Background, NEW p \in Pids, Boot(p)
  PROVE  Background'
<1>0. ProcOK
  BY TypeParts
<1>1. Stays
  BY <1>0 DEF Boot, Stays, Becomes, ProcOK, Daemonic, Startup, Guarded, processes
<1>2. UNCHANGED <<launchers, snapshot>>
  BY DEF Boot, files
<1> QED
  BY <1>1, <1>2, StaysBackground

LEMMA AcquireBackground ==
  ASSUME TypeOK, Minded, Drafted, Tells, Background, NEW p \in Pids, Acquire(p)
  PROVE  Background'
<1>0. ProcOK
  BY TypeParts
<1>1. Stays
  BY <1>0 DEF Acquire, Stays, Becomes, ProcOK, Daemonic, Startup, Guarded, processes
<1>2. UNCHANGED <<launchers, snapshot>>
  BY DEF Acquire, files
<1> QED
  BY <1>1, <1>2, StaysBackground

LEMMA RefusedBackground ==
  ASSUME TypeOK, Minded, Drafted, Tells, Background, NEW p \in Pids, Refused(p)
  PROVE  Background'
<1>0. ProcOK
  BY TypeParts
<1>1. Stays
  BY <1>0 DEF Refused, Stays, Becomes, ProcOK, Daemonic, Startup, Guarded, processes
<1>2. UNCHANGED <<launchers, snapshot>>
  BY DEF Refused, files
<1> QED
  BY <1>1, <1>2, StaysBackground

LEMMA StampBackground ==
  ASSUME TypeOK, Minded, Drafted, Tells, Background, NEW p \in Pids, Stamp(p)
  PROVE  Background'
<1>0. ProcOK
  BY TypeParts
<1>1. Stays
  BY <1>0 DEF Stamp, Stays, Becomes, ProcOK, Daemonic, Startup, Guarded, processes
<1>2. UNCHANGED <<launchers, snapshot>>
  BY DEF Stamp, files
<1> QED
  BY <1>1, <1>2, StaysBackground

LEMMA WriteStartingBackground ==
  ASSUME TypeOK, Minded, Drafted, Tells, Background, NEW p \in Pids, WriteStarting(p)
  PROVE  Background'
<1>0. ProcOK
  BY TypeParts
<1>1. Stays
  BY <1>0 DEF WriteStarting, Stays, Becomes, ProcOK, Daemonic, Startup, Guarded, processes
<1>2. UNCHANGED launchers /\ snapshot' = Starting(p) /\ proc'[p] \in Daemonic
  BY <1>0 DEF WriteStarting, Becomes, ProcOK, Daemonic, Guarded
<1>3. (Claims(snapshot) => Ours(snapshot.pid))'
  BY <1>1, <1>2 DEF Claims, Ours, Child, Starting, Snapshot, Stays
<1> QED
  BY <1>1, <1>2, <1>3, StaysBackground

LEMMA PrepareBackground ==
  ASSUME TypeOK, Minded, Drafted, Tells, Background, NEW p \in Pids, Prepare(p)
  PROVE  Background'
<1>0. ProcOK
  BY TypeParts
<1>1. Stays
  BY <1>0 DEF Prepare, Stays, Becomes, ProcOK, Daemonic, Startup, Guarded, processes
<1>2. UNCHANGED <<launchers, snapshot>>
  BY DEF Prepare, files
<1> QED
  BY <1>1, <1>2, StaysBackground

LEMMA ReadToWriteBackground ==
  ASSUME TypeOK, Minded, Drafted, Tells, Background, NEW p \in Pids, ReadToWrite(p)
  PROVE  Background'
<1>0. ProcOK
  BY TypeParts
<1>1. Stays
  BY <1>0 DEF ReadToWrite, Stays, Becomes, ProcOK, Daemonic, Startup, Guarded, processes
<1>2. UNCHANGED <<launchers, snapshot>>
  BY DEF ReadToWrite, files
<1> QED
  BY <1>1, <1>2, StaysBackground

LEMMA WriteStatusBackground ==
  ASSUME TypeOK, Minded, Drafted, Tells, Background, NEW p \in Pids, WriteStatus(p)
  PROVE  Background'
<1>0. ProcOK
  BY TypeParts
<1>1. Stays
  BY <1>0 DEF WriteStatus, Stays, Becomes, ProcOK, Daemonic, Startup, Guarded, processes
<1>2. UNCHANGED launchers /\ snapshot' = draft[p] /\ proc'[p] \in Daemonic
  BY <1>0 DEF WriteStatus, Becomes, ProcOK, Daemonic, Guarded
<1>3. draft[p].pid = p /\ (proc[p] = "stopWrite" => draft[p].status = "stopped")
  BY DEF WriteStatus, Drafted
<1>4. proc[p] = "readyWrite" => p \in mixed \/ draft[p].kind = kind[p]
  <2>1. proc[p] = "readyWrite" /\ p \notin mixed => draft[p] = Snapshot("ready", p, home[p], kind[p])
    BY DEF Tells
  <2>2. Snapshot("ready", p, home[p], kind[p]).kind = kind[p]
    BY DEF Snapshot
  <2> QED
    BY <2>1, <2>2
<1>5. (Claims(snapshot) => Ours(snapshot.pid))'
  BY <1>1, <1>2, <1>3, <1>4 DEF Claims, Ours, Child, Stays, WriteStatus
<1> QED
  BY <1>1, <1>2, <1>5, StaysBackground

LEMMA StopBackground ==
  ASSUME TypeOK, Minded, Drafted, Tells, Background, NEW p \in Pids, Stop(p)
  PROVE  Background'
<1>0. ProcOK
  BY TypeParts
<1>1. Stays
  BY <1>0 DEF Stop, Stays, Becomes, ProcOK, Daemonic, Startup, Guarded, processes
<1>2. UNCHANGED <<launchers, snapshot>>
  BY DEF Stop, files
<1> QED
  BY <1>1, <1>2, StaysBackground

LEMMA ReleaseBackground ==
  ASSUME TypeOK, Minded, Drafted, Tells, Background, NEW p \in Pids, Release(p)
  PROVE  Background'
<1>0. ProcOK
  BY TypeParts
<1>1. Stays
  BY <1>0 DEF Release, Stays, Becomes, ProcOK, Daemonic, Startup, Guarded, processes
<1>2. UNCHANGED <<launchers, snapshot>>
  BY DEF Release, files
<1> QED
  BY <1>1, <1>2, StaysBackground

LEMMA ExitBackground ==
  ASSUME TypeOK, Minded, Drafted, Tells, Background, NEW p \in Pids, Exit(p)
  PROVE  Background'
<1>0. ProcOK
  BY TypeParts
<1>1. Stays
  BY <1>0 DEF Exit, Stays, Becomes, ProcOK, Daemonic, Startup, Guarded, processes, Gone
<1>2. UNCHANGED <<launchers, snapshot>>
  BY DEF Exit, files, Gone
<1> QED
  BY <1>1, <1>2, StaysBackground

LEMMA RunInTerminalBackground ==
  ASSUME TypeOK, Minded, Drafted, Tells, Background, NEW p \in Pids, RunInTerminal(p)
  PROVE  Background'
<1>1. /\ Free(p) /\ Remembered(p) /\ mixed' \in {mixed, mixed \ {p}}
      /\ \A q \in Pids \ {p} : proc'[q] = proc[q] /\ kind'[q] = kind[q]
  BY TypeParts DEF RunInTerminal, Spawned, Becomes, ProcOK
<1>2. UNCHANGED <<launchers, snapshot>>
  BY DEF RunInTerminal, files
<1>3. /\ \A q \in Pids : Seen(q) /\ Ours(q) => Ours(q)'
      /\ \A c \in Clients : call[c].phase \in {"await", "confirm", "abandon"} =>
           kind'[target[c]] = "background" /\ proc'[target[c]] \in Daemonic \union {"none"}
  BY <1>1, GivenOut
<1>4. (Claims(snapshot) => Ours(snapshot.pid))'
  BY <1>2, <1>3, PidsType DEF Background, Claims, Seen
<1>5. ASSUME NEW c \in Clients
      PROVE  Means(c)'
  <2>1. view'[c] = view[c] /\ at'[c] = at[c] /\ call'[c] = call[c] /\ target'[c] = target[c]
    BY <1>2 DEF launchers
  <2>2. Means(c)
    BY DEF Background
  <2>3. Claims(view[c].snap) => Ours(view[c].snap.pid)'
    BY <1>3, <2>1, <2>2, PidsType DEF Means, Claims, Seen
  <2>4. at[c] = "kill" /\ call[c].phase = "decide" => Ours(target[c])'
    BY <1>3, <2>1, <2>2, PidsType DEF Means, Seen
  <2> QED
    BY <1>3, <2>1, <2>3, <2>4 DEF Means, Child, Claims
<1> QED
  BY <1>4, <1>5 DEF Background

LEMMA CrashBackground ==
  ASSUME TypeOK, Minded, Drafted, Tells, Background, NEW p \in Pids, Crash(p)
  PROVE  Background'
<1>0. ProcOK
  BY TypeParts
<1>1. Stays
  BY <1>0 DEF Crash, Stays, Becomes, ProcOK, Daemonic, Startup, Guarded, processes, Gone
<1>2. UNCHANGED <<launchers, snapshot>>
  BY DEF Crash, files, Gone
<1> QED
  BY <1>1, <1>2, StaysBackground

LEMMA InterruptBackground ==
  ASSUME TypeOK, Minded, Drafted, Tells, Background, NEW p \in Pids, Interrupt(p)
  PROVE  Background'
<1>0. ProcOK
  BY TypeParts
<1>1. Stays
  BY <1>0 DEF Interrupt, Stays, Becomes, ProcOK, Daemonic, Startup, Guarded, processes, Gone, Signalled
<1>2. UNCHANGED <<launchers, snapshot>>
  BY DEF Interrupt, files, Gone, Signalled
<1> QED
  BY <1>1, <1>2, StaysBackground

LEMMA StrangerBackground ==
  ASSUME TypeOK, Minded, Drafted, Tells, Background, NEW p \in Pids, Stranger(p)
  PROVE  Background'
<1>1. /\ Free(p) /\ Remembered(p) /\ mixed' \in {mixed, mixed \ {p}}
      /\ \A q \in Pids \ {p} : proc'[q] = proc[q] /\ kind'[q] = kind[q]
  BY TypeParts DEF Stranger, Spawned, Becomes, ProcOK
<1>2. UNCHANGED <<launchers, snapshot>>
  BY DEF Stranger, files
<1>3. /\ \A q \in Pids : Seen(q) /\ Ours(q) => Ours(q)'
      /\ \A c \in Clients : call[c].phase \in {"await", "confirm", "abandon"} =>
           kind'[target[c]] = "background" /\ proc'[target[c]] \in Daemonic \union {"none"}
  BY <1>1, GivenOut
<1>4. (Claims(snapshot) => Ours(snapshot.pid))'
  BY <1>2, <1>3, PidsType DEF Background, Claims, Seen
<1>5. ASSUME NEW c \in Clients
      PROVE  Means(c)'
  <2>1. view'[c] = view[c] /\ at'[c] = at[c] /\ call'[c] = call[c] /\ target'[c] = target[c]
    BY <1>2 DEF launchers
  <2>2. Means(c)
    BY DEF Background
  <2>3. Claims(view[c].snap) => Ours(view[c].snap.pid)'
    BY <1>3, <2>1, <2>2, PidsType DEF Means, Claims, Seen
  <2>4. at[c] = "kill" /\ call[c].phase = "decide" => Ours(target[c])'
    BY <1>3, <2>1, <2>2, PidsType DEF Means, Seen
  <2> QED
    BY <1>3, <2>1, <2>3, <2>4 DEF Means, Child, Claims
<1> QED
  BY <1>4, <1>5 DEF Background

LEMMA CallBackground ==
  ASSUME TypeOK, Minded, Drafted, Tells, Background, NEW c \in Clients, Call(c)
  PROVE  Background'
<1>0. ProcOK /\ LaunchOK /\ FileOK
  BY TypeParts
<1>1. Stays
  BY <1>0 DEF Call, Stays, Becomes, ProcOK, Daemonic, Startup, Guarded, processes
<1>2. \A d \in Clients \ {c} : at'[d] = at[d] /\ call'[d] = call[d] /\ view'[d] = view[d] /\ target'[d] = target[d]
  BY <1>0 DEF Call, Goes, LaunchOK, launchers
<1>3. snapshot' = snapshot
  BY DEF Call, files
<1>4. Means(c)
  BY DEF Background
<1>5. call'[c].phase = "decide" /\ view'[c] = view[c] /\ target'[c] = target[c] /\ at'[c] = "look"
  BY <1>0 DEF Call, Goes, LaunchOK, launchers, Requests, Views
<1>8. Means(c)'
  BY <1>1, <1>4, <1>5, MovesMeans, BlankType
<1> QED
  BY <1>1, <1>2, <1>3, <1>8, StaysLauncher

LEMMA LookBackground ==
  ASSUME TypeOK, Minded, Drafted, Tells, Background, NEW c \in Clients, Look(c)
  PROVE  Background'
<1>0. ProcOK /\ LaunchOK /\ FileOK
  BY TypeParts
<1>1. Stays
  BY <1>0 DEF Look, Stays, Becomes, ProcOK, Daemonic, Startup, Guarded, processes
<1>2. \A d \in Clients \ {c} : at'[d] = at[d] /\ call'[d] = call[d] /\ view'[d] = view[d] /\ target'[d] = target[d]
  BY <1>0 DEF Look, Goes, LaunchOK, launchers
<1>3. snapshot' = snapshot
  BY DEF Look, files
<1>4. Means(c)
  BY DEF Background
<1>5. PICK seen \in {snapshot, Nothing} : view' = [view EXCEPT ![c] = [Blank EXCEPT !.root = active, !.snap = seen]]
  BY DEF Look
<1>6. view'[c].snap = seen /\ call'[c] = call[c] /\ target'[c] = target[c] /\ at'[c] = "guard"
  <2>1. seen \in Snapshots \union {Nothing} /\ active \in Roots
    BY <1>0, TypeParts DEF FileOK, RestOK
  <2>2. view'[c].snap = seen
    BY ZenonT(40), <1>0, <1>5, <2>1, BlankType, ViewType
  <2> QED
    BY <1>0, <2>2 DEF Look, Goes, LaunchOK
<1>7. Claims(seen) => Ours(seen.pid)'
  BY <1>1, PidsType, StaysOurs DEF Background, Claims
<1>8. Means(c)'
  BY <1>1, <1>4, <1>6, <1>7, PidsType, StaysOurs DEF Means, Claims
<1> QED
  BY <1>1, <1>2, <1>3, <1>8, StaysLauncher

LEMMA ReadGuardBackground ==
  ASSUME TypeOK, Minded, Drafted, Tells, Background, NEW c \in Clients, ReadGuard(c)
  PROVE  Background'
<1>0. ProcOK /\ LaunchOK /\ FileOK
  BY TypeParts
<1>1. Stays
  BY <1>0 DEF ReadGuard, Stays, Becomes, ProcOK, Daemonic, Startup, Guarded, processes
<1>2. \A d \in Clients \ {c} : at'[d] = at[d] /\ call'[d] = call[d] /\ view'[d] = view[d] /\ target'[d] = target[d]
  BY <1>0 DEF ReadGuard, Goes, LaunchOK, launchers
<1>3. snapshot' = snapshot
  BY DEF ReadGuard, files
<1>4. Means(c)
  BY DEF Background
<1>5. call'[c] = call[c] /\ view'[c].snap = view[c].snap /\ target'[c] = target[c] /\ at'[c] = "try"
  BY <1>0 DEF ReadGuard, Goes, LaunchOK, launchers, Requests, Views
<1>8. Means(c)'
  BY <1>1, <1>4, <1>5, MovesMeans, BlankType
<1> QED
  BY <1>1, <1>2, <1>3, <1>8, StaysLauncher

LEMMA TryGuardBackground ==
  ASSUME TypeOK, Minded, Drafted, Tells, Background, NEW c \in Clients, TryGuard(c)
  PROVE  Background'
<1>0. ProcOK /\ LaunchOK /\ FileOK
  BY TypeParts
<1>1. Stays
  BY <1>0 DEF TryGuard, Stays, Becomes, ProcOK, Daemonic, Startup, Guarded, processes
<1>2. \A d \in Clients \ {c} : at'[d] = at[d] /\ call'[d] = call[d] /\ view'[d] = view[d] /\ target'[d] = target[d]
  BY <1>0 DEF TryGuard, Goes, LaunchOK, launchers
<1>3. snapshot' = snapshot
  BY DEF TryGuard, files
<1>4. Means(c)
  BY DEF Background
<1>5. call'[c] = call[c] /\ view'[c].snap = view[c].snap /\ target'[c] = target[c] /\ at'[c] \in {"ungrab", "judge"}
  BY <1>0 DEF TryGuard, Goes, LaunchOK, launchers, Requests, Views
<1>8. Means(c)'
  BY <1>1, <1>4, <1>5, MovesMeans, BlankType
<1> QED
  BY <1>1, <1>2, <1>3, <1>8, StaysLauncher

LEMMA UngrabBackground ==
  ASSUME TypeOK, Minded, Drafted, Tells, Background, NEW c \in Clients, Ungrab(c)
  PROVE  Background'
<1>0. ProcOK /\ LaunchOK /\ FileOK
  BY TypeParts
<1>1. Stays
  BY <1>0 DEF Ungrab, Stays, Becomes, ProcOK, Daemonic, Startup, Guarded, processes
<1>2. \A d \in Clients \ {c} : at'[d] = at[d] /\ call'[d] = call[d] /\ view'[d] = view[d] /\ target'[d] = target[d]
  BY <1>0 DEF Ungrab, Goes, LaunchOK, launchers
<1>3. snapshot' = snapshot
  BY DEF Ungrab, files
<1>4. Means(c)
  BY DEF Background
<1>5. call'[c] = call[c] /\ view'[c] = view[c] /\ target'[c] = target[c] /\ at'[c] = "judge"
  BY <1>0 DEF Ungrab, Goes, LaunchOK, launchers, Requests, Views
<1>8. Means(c)'
  BY <1>1, <1>4, <1>5, MovesMeans, BlankType
<1> QED
  BY <1>1, <1>2, <1>3, <1>8, StaysLauncher

LEMMA DecideBackground ==
  ASSUME TypeOK, Minded, Drafted, Tells, Background, NEW c \in Clients, Decide(c)
  PROVE  Background'
<1>0. ProcOK /\ LaunchOK /\ FileOK
  BY TypeParts
<1>1. Stays
  BY <1>0 DEF Decide, Stays, Becomes, ProcOK, Daemonic, Startup, Guarded, processes
<1>2. \A d \in Clients \ {c} : at'[d] = at[d] /\ call'[d] = call[d] /\ view'[d] = view[d] /\ target'[d] = target[d]
  BY <1>0 DEF Decide, Goes, LaunchOK, launchers, Finished
<1>3. snapshot' = snapshot
  BY DEF Decide, files
<1>4. Means(c)
  BY DEF Background
<1>8. Means(c)'
  <2>1. CASE MayStop(c)
    <3>1. Claims(view[c].snap)
      BY <2>1 DEF MayStop, Healthy, Claims
    <3>2. call'[c] = call[c] /\ view'[c] = view[c] /\ target'[c] = view[c].snap.pid /\ call[c].phase = "decide"
      BY <1>0, <2>1 DEF Decide, Goes, LaunchOK
    <3>3. view[c].snap.pid \in Pids /\ Ours(view[c].snap.pid)
      BY <1>4, <3>1, PidsType DEF Means, Claims
    <3>4. Ours(target[c])'
      BY <1>1, <3>2, <3>3, StaysOurs DEF Ours, Child, Stays
    <3>5. (Claims(view[c].snap) => Ours(view[c].snap.pid))'
      BY <3>2, <3>4 DEF Ours, Child
    <3> QED
      BY <3>2, <3>4, <3>5 DEF Means
  <2>2. CASE ~MayStop(c) /\ MaySpawn(c)
    <3>1. call'[c] = call[c] /\ view'[c] = view[c] /\ target'[c] = target[c] /\ at'[c] = "spawn"
      BY <1>0, <2>2 DEF Decide, Goes, LaunchOK
    <3> QED
      BY <1>1, <1>4, <3>1, MovesMeans
  <2>3. CASE Finished(c)
    BY <1>0, <2>3, FinishedMeans
  <2> QED
    BY <2>1, <2>2, <2>3 DEF Decide
<1> QED
  BY <1>1, <1>2, <1>3, <1>8, StaysLauncher

LEMMA SpawnBackground ==
  ASSUME TypeOK, Minded, Drafted, Tells, Background, NEW c \in Clients, Spawn(c)
  PROVE  Background'
<1>0. ProcOK /\ LaunchOK
  BY TypeParts
<1>1. PICK p \in Pids : Spawned(p, "background", view[c].root) /\ target' = [target EXCEPT ![c] = p]
  BY DEF Spawn
<1>2. /\ Free(p) /\ Remembered(p) /\ mixed' \in {mixed, mixed \ {p}}
      /\ \A q \in Pids \ {p} : proc'[q] = proc[q] /\ kind'[q] = kind[q]
  BY <1>0, <1>1 DEF Spawned, Becomes, ProcOK
<1>3. /\ \A q \in Pids : Seen(q) /\ Ours(q) => Ours(q)'
      /\ \A d \in Clients : call[d].phase \in {"await", "confirm", "abandon"} =>
           kind'[target[d]] = "background" /\ proc'[target[d]] \in Daemonic \union {"none"}
  BY <1>2, GivenOut
<1>4. proc'[p] \in Daemonic /\ kind'[p] = "background"
  BY <1>0, <1>1 DEF Spawned, Becomes, ProcOK, Daemonic, Startup
<1>5. /\ snapshot' = snapshot /\ target'[c] = p /\ at'[c] = "look" /\ view'[c] = Blank
      /\ \A d \in Clients \ {c} : at'[d] = at[d] /\ call'[d] = call[d] /\ view'[d] = view[d] /\ target'[d] = target[d]
  BY <1>0, <1>1 DEF Spawn, Goes, LaunchOK, launchers, files
<1>6. (Claims(snapshot) => Ours(snapshot.pid))'
  BY <1>3, <1>5, PidsType DEF Background, Claims, Seen
<1>7. Means(c)'
  BY <1>4, <1>5, BlankType DEF Means, Child, Claims
<1>8. ASSUME NEW d \in Clients \ {c}
      PROVE  Means(d)'
  <2>1. view'[d] = view[d] /\ at'[d] = at[d] /\ call'[d] = call[d] /\ target'[d] = target[d]
    BY <1>5
  <2>2. Means(d)
    BY DEF Background
  <2>3. Claims(view[d].snap) => Ours(view[d].snap.pid)'
    BY <1>3, <2>1, <2>2, PidsType DEF Means, Claims, Seen
  <2>4. at[d] = "kill" /\ call[d].phase = "decide" => Ours(target[d])'
    BY <1>3, <2>1, <2>2, PidsType DEF Means, Seen
  <2> QED
    BY <1>3, <2>1, <2>3, <2>4 DEF Means, Child, Claims
<1> QED
  BY <1>6, <1>7, <1>8 DEF Background

LEMMA AwaitBackground ==
  ASSUME TypeOK, Minded, Drafted, Tells, Background, NEW c \in Clients, Await(c)
  PROVE  Background'
<1>0. ProcOK /\ LaunchOK /\ FileOK
  BY TypeParts
<1>1. Stays
  BY <1>0 DEF Await, Stays, Becomes, ProcOK, Daemonic, Startup, Guarded, processes
<1>2. \A d \in Clients \ {c} : at'[d] = at[d] /\ call'[d] = call[d] /\ view'[d] = view[d] /\ target'[d] = target[d]
  BY <1>0 DEF Await, Goes, LaunchOK, launchers
<1>3. snapshot' = snapshot
  BY DEF Await, files
<1>4. Means(c)
  BY DEF Background
<1>5. call[c].phase = "await" /\ view'[c] = Blank /\ target'[c] = target[c] /\ at'[c] = "look"
  BY <1>0 DEF Await, Goes, LaunchOK, launchers, Requests, Views
<1>8. Means(c)'
  BY <1>1, <1>4, <1>5, MovesMeans, BlankType
<1> QED
  BY <1>1, <1>2, <1>3, <1>8, StaysLauncher

LEMMA TimeoutBackground ==
  ASSUME TypeOK, Minded, Drafted, Tells, Background, NEW c \in Clients, Timeout(c)
  PROVE  Background'
<1>0. ProcOK /\ LaunchOK /\ FileOK
  BY TypeParts
<1>1. Stays
  BY <1>0 DEF Timeout, Stays, Becomes, ProcOK, Daemonic, Startup, Guarded, processes
<1>2. \A d \in Clients \ {c} : at'[d] = at[d] /\ call'[d] = call[d] /\ view'[d] = view[d] /\ target'[d] = target[d]
  BY <1>0 DEF Timeout, Goes, LaunchOK, launchers
<1>3. snapshot' = snapshot
  BY DEF Timeout, files
<1>4. Means(c)
  BY DEF Background
<1>5. call[c].phase = "await" /\ view'[c] = Blank /\ target'[c] = target[c] /\ call'[c].phase = "abandon"
  BY <1>0 DEF Timeout, Goes, LaunchOK, launchers, Requests, Views
<1>8. Means(c)'
  BY <1>1, <1>4, <1>5, MovesMeans, BlankType
<1> QED
  BY <1>1, <1>2, <1>3, <1>8, StaysLauncher

LEMMA ConfirmBackground ==
  ASSUME TypeOK, Minded, Drafted, Tells, Background, NEW c \in Clients, Confirm(c)
  PROVE  Background'
<1>0. ProcOK /\ LaunchOK /\ FileOK
  BY TypeParts
<1>1. Stays
  BY <1>0 DEF Confirm, Stays, Becomes, ProcOK, Daemonic, Startup, Guarded, processes
<1>2. \A d \in Clients \ {c} : at'[d] = at[d] /\ call'[d] = call[d] /\ view'[d] = view[d] /\ target'[d] = target[d]
  BY <1>0 DEF Confirm, Goes, LaunchOK, launchers, Finished
<1>3. snapshot' = snapshot
  BY DEF Confirm, files
<1>4. Means(c)
  BY DEF Background
<1>8. Means(c)'
  <2>1. CASE Finished(c)
    BY <1>0, <2>1, FinishedMeans
  <2>2. CASE ~Finished(c)
    <3>1. call'[c].phase = "abandon" /\ call[c].phase = "confirm" /\ view'[c] = view[c] /\ target'[c] = target[c]
      BY <1>0, <2>2 DEF Confirm, Goes, LaunchOK, Requests
    <3> QED
      BY <1>1, <1>4, <3>1, MovesMeans
  <2> QED
    BY <2>1, <2>2
<1> QED
  BY <1>1, <1>2, <1>3, <1>8, StaysLauncher

LEMMA KillBackground ==
  ASSUME TypeOK, Minded, Drafted, Tells, Background, NEW c \in Clients, Kill(c)
  PROVE  Background'
<1>0. ProcOK /\ LaunchOK /\ FileOK
  BY TypeParts
<1>1. Stays
  BY <1>0 DEF Kill, Stays, Becomes, ProcOK, Daemonic, Startup, Guarded, processes, Gone, Signalled, Running
<1>2. \A d \in Clients \ {c} : at'[d] = at[d] /\ call'[d] = call[d] /\ view'[d] = view[d] /\ target'[d] = target[d]
  BY <1>0 DEF Kill, Goes, LaunchOK, launchers, Finished
<1>3. snapshot' = snapshot
  BY DEF Kill, files, Gone, Signalled, Running
<1>4. Means(c)
  BY DEF Background
<1>8. Means(c)'
  <2>1. CASE Finished(c)
    BY <1>0, <2>1, FinishedMeans
  <2>2. CASE ~Finished(c)
    <3>1. call'[c] = call[c] /\ view'[c] = view[c] /\ target'[c] = target[c] /\ at'[c] = "waitExit"
      BY <1>0, <2>2 DEF Kill, Goes, LaunchOK, Requests
    <3> QED
      BY <1>1, <1>4, <3>1, MovesMeans
  <2> QED
    BY <2>1, <2>2
<1> QED
  BY <1>1, <1>2, <1>3, <1>8, StaysLauncher

LEMMA WaitExitBackground ==
  ASSUME TypeOK, Minded, Drafted, Tells, Background, NEW c \in Clients, WaitExit(c)
  PROVE  Background'
<1>0. ProcOK /\ LaunchOK /\ FileOK
  BY TypeParts
<1>1. Stays
  BY <1>0 DEF WaitExit, Stays, Becomes, ProcOK, Daemonic, Startup, Guarded, processes
<1>2. \A d \in Clients \ {c} : at'[d] = at[d] /\ call'[d] = call[d] /\ view'[d] = view[d] /\ target'[d] = target[d]
  BY <1>0 DEF WaitExit, Goes, LaunchOK, launchers, Finished
<1>3. snapshot' = snapshot
  BY DEF WaitExit, files
<1>4. Means(c)
  BY DEF Background
<1>8. Means(c)'
  <2>1. CASE Finished(c)
    BY <1>0, <2>1, FinishedMeans
  <2>2. CASE ~Finished(c)
    <3>1. call'[c] = call[c] /\ view'[c] = view[c] /\ target'[c] = target[c] /\ at'[c] = "recordRead"
      BY <1>0, <2>2 DEF WaitExit, Goes, LaunchOK, Requests
    <3> QED
      BY <1>1, <1>4, <3>1, MovesMeans
  <2> QED
    BY <2>1, <2>2
<1> QED
  BY <1>1, <1>2, <1>3, <1>8, StaysLauncher

LEMMA RecordReadBackground ==
  ASSUME TypeOK, Minded, Drafted, Tells, Background, NEW c \in Clients, RecordRead(c)
  PROVE  Background'
<1>0. ProcOK /\ LaunchOK /\ FileOK
  BY TypeParts
<1>1. Stays
  BY <1>0 DEF RecordRead, Stays, Becomes, ProcOK, Daemonic, Startup, Guarded, processes
<1>2. \A d \in Clients \ {c} : at'[d] = at[d] /\ call'[d] = call[d] /\ view'[d] = view[d] /\ target'[d] = target[d]
  BY <1>0 DEF RecordRead, Goes, LaunchOK, launchers
<1>3. snapshot' = snapshot
  BY DEF RecordRead, files
<1>4. Means(c)
  BY DEF Background
<1>5. call'[c] = call[c] /\ view'[c] = view[c] /\ target'[c] = target[c] /\ at'[c] = "recordWrite"
  BY <1>0 DEF RecordRead, Goes, LaunchOK, launchers, Requests, Views
<1>8. Means(c)'
  BY <1>1, <1>4, <1>5, MovesMeans, BlankType
<1> QED
  BY <1>1, <1>2, <1>3, <1>8, StaysLauncher

LEMMA RecordWriteBackground ==
  ASSUME TypeOK, Minded, Drafted, Tells, Background, NEW c \in Clients, RecordWrite(c)
  PROVE  Background'
<1>0. ProcOK /\ LaunchOK /\ FileOK
  BY TypeParts
<1>1. Stays
  BY <1>0 DEF RecordWrite, Stays, Becomes, ProcOK, Daemonic, Startup, Guarded, processes
<1>2. \A d \in Clients \ {c} : at'[d] = at[d] /\ call'[d] = call[d] /\ view'[d] = view[d] /\ target'[d] = target[d]
  BY <1>0 DEF RecordWrite, Goes, LaunchOK, launchers, Finished
<1>3. (Claims(snapshot) => Ours(snapshot.pid))'
  BY DEF RecordWrite, Drafted, Claims
<1>4. Means(c)
  BY DEF Background
<1>8. Means(c)'
  <2>1. CASE Finished(c)
    BY <1>0, <2>1, FinishedMeans
  <2>2. CASE ~Finished(c)
    <3>1. call'[c] = call[c] /\ view'[c] = view[c] /\ target'[c] = target[c] /\ at'[c] = "spawn"
      BY <1>0, <2>2 DEF RecordWrite, Goes, LaunchOK, Requests
    <3> QED
      BY <1>1, <1>4, <3>1, MovesMeans
  <2> QED
    BY <2>1, <2>2
<1> QED
  BY <1>1, <1>2, <1>3, <1>8, StaysLauncher

-----------------------------------------------------------------------------
(* The inductive invariant.                                                *)

GuardInv == TypeOK /\ Minded /\ Locked /\ Drafted /\ Tells /\ Background

LEMMA GuardInit == Init => GuardInv
<1> SUFFICES ASSUME Init
             PROVE  GuardInv
  OBVIOUS
<1>1. TypeOK
  <2>1. ProcOK
    BY RootsAssumption DEF Init, ProcOK, Kinds
  <2>2. FileOK /\ DraftOK /\ RestOK
    BY RootsAssumption, EventsAssumption DEF Init, FileOK, DraftOK, RestOK
  <2>3. LaunchOK
    BY BlankType DEF Init, LaunchOK, Places, NoCall, Requests, Phases
  <2> QED
    BY <2>1, <2>2, <2>3, TypeParts
<1>2. \A c \in Clients : at[c] = "idle" /\ call[c].phase = "none" /\ view[c] = Blank
  BY DEF Init, NoCall
<1>3. \A p \in Pids : proc[p] = "none"
  BY DEF Init
<1>4. Minded /\ Locked
  BY <1>2, <1>3 DEF Minded, Knows, HasRoot, Ending, Locked, OneDaemon, Grabbed, Guarded
<1>5. Drafted /\ Tells
  BY <1>2, <1>3 DEF Drafted, Tells
<1>6. Background
  BY <1>2, BlankType DEF Background, Means, Claims, Init
<1> QED
  BY <1>1, <1>4, <1>5, <1>6 DEF GuardInv

(* A step that touches no process, no file, no draft and no launcher.      *)
LEMMA QuietStep ==
  ASSUME GuardInv, UNCHANGED <<processes, files, draft, launchers>>, RestOK'
  PROVE  GuardInv'
<1>1. TypeOK'
  BY TypeParts DEF GuardInv, ProcOK, FileOK, DraftOK, LaunchOK, processes, files, launchers
<1>2. Minded'
  BY KnowsSame DEF GuardInv
<1>3. Locked'
  BY DEF GuardInv, Locked, OneDaemon, Grabbed, processes, files, launchers
<1>4. Drafted' /\ Tells'
  BY DEF GuardInv, Drafted, Tells, Starting, processes, files, launchers
<1>5. Background'
  BY DEF GuardInv, Background, Means, Claims, Ours, Child, processes, files, launchers
<1> QED
  BY <1>1, <1>2, <1>3, <1>4, <1>5 DEF GuardInv

LEMMA DaemonStep ==
  ASSUME GuardInv, NEW p \in Pids,
         DaemonSteps(p) \/ RunInTerminal(p) \/ Crash(p) \/ Interrupt(p) \/ Stranger(p)
  PROVE  GuardInv'
<1> USE DEF GuardInv
<1>0. UNCHANGED launchers
  BY DEF DaemonSteps, Boot, Acquire, Refused, Stamp, WriteStarting, Prepare, ReadToWrite, WriteStatus, Stop, Release, Exit, RunInTerminal, Crash, Interrupt, Stranger
<1>1. Minded'
  BY <1>0, KnowsSame
<1>2. CASE Boot(p)
  BY <1>2, <1>1, BootType, BootLocked, BootTells, BootBackground
<1>3. CASE Acquire(p)
  BY <1>3, <1>1, AcquireType, AcquireLocked, AcquireTells, AcquireBackground
<1>4. CASE Refused(p)
  BY <1>4, <1>1, RefusedType, RefusedLocked, RefusedTells, RefusedBackground
<1>5. CASE Stamp(p)
  BY <1>5, <1>1, StampType, StampLocked, StampTells, StampBackground
<1>6. CASE WriteStarting(p)
  BY <1>6, <1>1, WriteStartingType, WriteStartingLocked, WriteStartingTells, WriteStartingBackground
<1>7. CASE Prepare(p)
  BY <1>7, <1>1, PrepareType, PrepareLocked, PrepareTells, PrepareBackground
<1>8. CASE ReadToWrite(p)
  BY <1>8, <1>1, ReadToWriteType, ReadToWriteLocked, ReadToWriteTells, ReadToWriteBackground
<1>9. CASE WriteStatus(p)
  BY <1>9, <1>1, WriteStatusType, WriteStatusLocked, WriteStatusTells, WriteStatusBackground
<1>10. CASE Stop(p)
  BY <1>10, <1>1, StopType, StopLocked, StopTells, StopBackground
<1>11. CASE Release(p)
  BY <1>11, <1>1, ReleaseType, ReleaseLocked, ReleaseTells, ReleaseBackground
<1>12. CASE Exit(p)
  BY <1>12, <1>1, ExitType, ExitLocked, ExitTells, ExitBackground
<1>13. CASE RunInTerminal(p)
  BY <1>13, <1>1, RunInTerminalType, RunInTerminalLocked, RunInTerminalTells, RunInTerminalBackground
<1>14. CASE Crash(p)
  BY <1>14, <1>1, CrashType, CrashLocked, CrashTells, CrashBackground
<1>15. CASE Interrupt(p)
  BY <1>15, <1>1, InterruptType, InterruptLocked, InterruptTells, InterruptBackground
<1>16. CASE Stranger(p)
  BY <1>16, <1>1, StrangerType, StrangerLocked, StrangerTells, StrangerBackground
<1> QED
  BY <1>2, <1>3, <1>4, <1>5, <1>6, <1>7, <1>8, <1>9, <1>10, <1>11, <1>12, <1>13, <1>14, <1>15, <1>16 DEF DaemonSteps

LEMMA LauncherStep ==
  ASSUME GuardInv, NEW c \in Clients, Call(c) \/ LauncherSteps(c)
  PROVE  GuardInv'
<1> USE DEF GuardInv
<1>1. CASE Call(c)
  BY <1>1, CallType, CallLocked, CallTells, CallBackground
<1>2. CASE Look(c)
  BY <1>2, LookType, LookLocked, LookTells, LookBackground
<1>3. CASE ReadGuard(c)
  BY <1>3, ReadGuardType, ReadGuardLocked, ReadGuardTells, ReadGuardBackground
<1>4. CASE TryGuard(c)
  BY <1>4, TryGuardType, TryGuardLocked, TryGuardTells, TryGuardBackground
<1>5. CASE Ungrab(c)
  BY <1>5, UngrabType, UngrabLocked, UngrabTells, UngrabBackground
<1>6. CASE Decide(c)
  BY <1>6, DecideType, DecideLocked, DecideTells, DecideBackground
<1>7. CASE Spawn(c)
  BY <1>7, SpawnType, SpawnLocked, SpawnTells, SpawnBackground
<1>8. CASE Await(c)
  BY <1>8, AwaitType, AwaitLocked, AwaitTells, AwaitBackground
<1>9. CASE Timeout(c)
  BY <1>9, TimeoutType, TimeoutLocked, TimeoutTells, TimeoutBackground
<1>10. CASE Confirm(c)
  BY <1>10, ConfirmType, ConfirmLocked, ConfirmTells, ConfirmBackground
<1>11. CASE Kill(c)
  BY <1>11, KillType, KillLocked, KillTells, KillBackground
<1>12. CASE WaitExit(c)
  BY <1>12, WaitExitType, WaitExitLocked, WaitExitTells, WaitExitBackground
<1>13. CASE RecordRead(c)
  BY <1>13, RecordReadType, RecordReadLocked, RecordReadTells, RecordReadBackground
<1>14. CASE RecordWrite(c)
  BY <1>14, RecordWriteType, RecordWriteLocked, RecordWriteTells, RecordWriteBackground
<1> QED
  BY <1>1, <1>2, <1>3, <1>4, <1>5, <1>6, <1>7, <1>8, <1>9, <1>10, <1>11, <1>12, <1>13, <1>14 DEF LauncherSteps

LEMMA GuardStep == GuardInv /\ [Next]_vars => GuardInv'
<1> SUFFICES ASSUME GuardInv, [Next]_vars
             PROVE  GuardInv'
  OBVIOUS
<1>0. RestOK
  BY TypeParts DEF GuardInv
<1>1. CASE \E p \in Pids : DaemonSteps(p) \/ RunInTerminal(p) \/ Crash(p) \/ Interrupt(p) \/ Stranger(p)
  BY <1>1, DaemonStep
<1>2. CASE \E c \in Clients : Call(c) \/ LauncherSteps(c)
  BY <1>2, LauncherStep
<1>3. CASE AttachRoot
  <2>1. RestOK'
    BY <1>0, <1>3, EventType DEF AttachRoot, RestOK
  <2> QED
    BY <1>3, <2>1, QuietStep DEF AttachRoot
<1>4. CASE UNCHANGED vars
  <2>1. RestOK'
    BY <1>0, <1>4 DEF vars, RestOK
  <2> QED
    BY <1>4, <2>1, QuietStep DEF vars
<1> QED
  BY <1>1, <1>2, <1>3, <1>4 DEF Next

LEMMA GuardInvariant == Spec => []GuardInv
<1>1. Init => GuardInv
  BY GuardInit
<1>2. GuardInv /\ [Next]_vars => GuardInv'
  BY GuardStep
<1> QED
  BY <1>1, <1>2, PTL DEF Spec

-----------------------------------------------------------------------------

(* Processes, files and launchers are what they are meant to be: no        *)
(* snapshot has a status, a pid or a controller of another kind.           *)
THEOREM GuardTyped == Spec => []TypeOK
<1>1. GuardInv => TypeOK
  BY DEF GuardInv
<1> QED
  BY <1>1, GuardInvariant, PTL

(* Of any number of daemons that are started together only the one with    *)
(* the lock works, and daemon.lock names it.                               *)
THEOREM GuardAdmitsOne == Spec => []OneDaemon
<1>1. GuardInv => OneDaemon
  BY DEF GuardInv, Locked
<1> QED
  BY <1>1, GuardInvariant, PTL

(* daemon.json tells of the daemon at work, whatever crashed daemons and   *)
(* interrupted writes have left in it, unless a launcher wrote over it.    *)
THEOREM GuardSnapshotTells == Spec => []SnapshotTellsOfDaemon
<1>1. GuardInv => SnapshotTellsOfDaemon
  BY DEF GuardInv, Tells, SnapshotTellsOfDaemon
<1> QED
  BY <1>1, GuardInvariant, PTL

(* The only step of a launcher from "kill" to "waitExit" is a signal.      *)
LEMMA OnlyKills ==
  ASSUME TypeOK, [Next]_vars, NEW c \in Clients, at[c] = "kill", at'[c] = "waitExit"
  PROVE  Kill(c)
<1>0. LaunchOK
  BY TypeParts
<1>1. ASSUME NEW p \in Pids, DaemonSteps(p) \/ RunInTerminal(p) \/ Crash(p) \/ Interrupt(p) \/ Stranger(p)
      PROVE  UNCHANGED launchers
  BY <1>1 DEF DaemonSteps, Boot, Acquire, Refused, Stamp, WriteStarting, Prepare, ReadToWrite, WriteStatus, Stop, Release, Exit, RunInTerminal, Crash, Interrupt, Stranger
<1>2. ASSUME NEW d \in Clients, Call(d) \/ LauncherSteps(d)
      PROVE  d = c
  <2>1. \A e \in Clients \ {d} : at'[e] = at[e]
    BY <1>0, <1>2 DEF LauncherSteps, Call, Look, ReadGuard, TryGuard, Ungrab, Decide, Spawn, Await, Timeout, Confirm, Kill, WaitExit, RecordRead, RecordWrite, Goes, Finished, LaunchOK, launchers
  <2> QED
    BY <2>1
<1>3. Call(c) \/ LauncherSteps(c)
  BY <1>1, <1>2 DEF Next, AttachRoot, vars, launchers
<1> QED
  BY <1>3 DEF LauncherSteps, Call, Look, ReadGuard, TryGuard, Ungrab, Decide, Spawn, Await, Timeout, Confirm, WaitExit, RecordRead, RecordWrite

(* A launcher signals no daemon of a terminal and no other program, but    *)
(* for a pid given out again or a snapshot written over.                   *)
THEOREM GuardStopsOnlyBackground == Spec => StopsOnlyBackground
<1> DEFINE Aimed == \A c \in Clients : at[c] = "kill" /\ at'[c] = "waitExit" =>
                      \/ target[c] \in reused \union mixed
                      \/ proc[target[c]] \in Daemonic /\ kind[target[c]] = "background"
<1>1. GuardInv /\ [Next]_vars => Aimed
  <2> SUFFICES ASSUME GuardInv, [Next]_vars, NEW c \in Clients, at[c] = "kill", at'[c] = "waitExit"
               PROVE  \/ target[c] \in reused \union mixed
                      \/ proc[target[c]] \in Daemonic /\ kind[target[c]] = "background"
    OBVIOUS
  <2>1. Kill(c) /\ LaunchOK
    BY OnlyKills, TypeParts DEF GuardInv
  <2>2. Running(target[c])
    BY <2>1 DEF Kill, Finished, Goes, LaunchOK
  <2>3. call[c].phase \in {"decide", "abandon"}
    BY DEF GuardInv, Minded, Knows, Ending
  <2>4. Ours(target[c])
    BY <2>3 DEF GuardInv, Background, Means, Ours
  <2> QED
    BY <2>2, <2>4 DEF Running, Ours, Child
<1>2. [][Aimed]_vars => StopsOnlyBackground
  BY PTL DEF StopsOnlyBackground
<1> QED
  BY <1>1, <1>2, GuardInvariant, PTL DEF Spec

=============================================================================
