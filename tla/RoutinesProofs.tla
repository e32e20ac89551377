--------------------------- MODULE RoutinesProofs ---------------------------
(***************************************************************************)
(* What the routines promise, each proved of its own specification and for *)
(* every value of its constants: the calls of the language model, the      *)
(* settings and child requests of a source, the caches, opening the        *)
(* runtime database, the commit of a fetched source, the doctor, and the   *)
(* planner of prompts.                                                     *)
(***************************************************************************)
EXTENDS Routines, FiniteSetTheorems, SequenceTheorems, WellFoundedInduction, TLAPS

-----------------------------------------------------------------------------
(***************************************************************************)
(* BackendCall: the circuit breaker of util/retry.py meters the calls of a *)
(* failing backend, for every threshold, number of retries, calls and      *)
(* cancellations.                                                          *)
(***************************************************************************)

CallSpec == CallInit /\ [][CallNext]_callVars

CallTyped ==
    /\ breaker \in [failures : Nat, opened : {"no", "cooling", "elapsed"}, trial : BOOLEAN]
    /\ call \in [at : {"idle", "attempt", "sent", "backoff"}, attempt : Int]
    /\ run \in [failed : Nat, most : Nat, abandoned : BOOLEAN]

(* Shut, the breaker counts what the run counts.  A trial starts at none    *)
(* and may fail once.  Nothing is sent while the breaker is open.          *)
Metered ==
    /\ breaker.opened = "no" /\ ~ breaker.trial =>
         breaker.failures = run.failed /\ run.failed < FailureThreshold /\ run.most = FailureThreshold
    /\ breaker.trial =>
         breaker.opened = "no" /\ run.failed = 0 /\ run.most = 1 /\ (call.at = "sent" \/ run.abandoned)
    /\ breaker.opened # "no" => run.failed <= run.most
    /\ call.at = "sent" => breaker.opened = "no"

CallInv == CallTyped /\ Metered

(* The invariant is what the property needs.                               *)
LEMMA CallInvMeters == CallInv => BreakerMeters
  BY DEF CallInv, CallTyped, Metered, BreakerMeters

(* The breaker starts shut, with nothing counted.                          *)
LEMMA CallInvInit == CallInit => CallInv
  BY ThresholdAssumption DEF CallInit, CallInv, CallTyped, Metered, Closed, NoCall

(* No step of a call, and no passing of the cooldown, breaks the count.    *)
LEMMA CallInvStep == CallInv /\ [CallNext]_callVars => CallInv'
<1> SUFFICES ASSUME CallInv, [CallNext]_callVars PROVE CallInv'
  OBVIOUS
<1> USE ThresholdAssumption DEF CallInv, CallTyped, Metered
<1>1. CASE CallBackend
  BY <1>1 DEF CallBackend
<1>2. CASE TurnedAway
  BY <1>2 DEF TurnedAway, NoCall, IsOpen
<1>3. CASE Sent
  <2>1. CASE breaker.opened = "elapsed"
    BY <1>3, <2>1 DEF Sent, IsOpen, HalfOpen, Closed
  <2>2. CASE breaker.opened # "elapsed"
    BY <1>3, <2>2 DEF Sent, IsOpen
  <2> QED BY <2>1, <2>2
<1>4. CASE Succeeds
  <2>1. breaker' = Closed /\ call' = NoCall
    BY <1>4 DEF Succeeds
  <2>2. run' = [failed |-> 0, most |-> FailureThreshold, abandoned |-> run.abandoned]
    BY <1>4 DEF Succeeds
  <2>3. CallTyped'
    BY <2>1, <2>2 DEF Closed, NoCall
  <2> QED BY <2>1, <2>2, <2>3 DEF Closed, NoCall
<1>5. CASE FailsOnce
  <2>1. call'.at # "sent" /\ call' \in [at : {"idle", "attempt", "sent", "backoff"}, attempt : Int]
    BY <1>5 DEF FailsOnce, NoCall
  <2>2. run' = [failed |-> run.failed + 1, most |-> run.most, abandoned |-> run.abandoned]
    BY <1>5 DEF FailsOnce
  <2>3. call.at = "sent" /\ breaker' = Failure(breaker)
    BY <1>5 DEF FailsOnce
  <2>4. CASE breaker.trial
    <3>1. breaker' = [failures |-> breaker.failures, opened |-> "cooling", trial |-> FALSE]
      BY <2>4, <2>3 DEF Failure
    <3> QED BY <2>1, <2>4, <2>2, <3>1
  <2>5. CASE ~ breaker.trial
    <3>1. breaker' = [failures |-> breaker.failures + 1, trial |-> breaker.trial,
                      opened |-> IF breaker.failures + 1 >= FailureThreshold THEN "cooling" ELSE breaker.opened]
      BY <2>5, <2>3 DEF Failure
    <3>2. CASE breaker.failures + 1 >= FailureThreshold
      BY <2>1, <2>5, <2>2, <2>3, <3>1, <3>2
    <3>3. CASE ~ (breaker.failures + 1 >= FailureThreshold)
      BY <2>1, <2>5, <2>2, <2>3, <3>1, <3>3
    <3> QED BY <3>2, <3>3
  <2> QED BY <2>4, <2>5
<1>6. CASE Backoff
  BY <1>6 DEF Backoff
<1>7. CASE Cancelled
  BY <1>7 DEF Cancelled, NoCall
<1>8. CASE CoolsDown
  BY <1>8 DEF CoolsDown
<1>9. CASE UNCHANGED callVars
  BY <1>9 DEF callVars
<1> QED BY <1>1, <1>2, <1>3, <1>4, <1>5, <1>6, <1>7, <1>8, <1>9 DEF CallNext

(* A failing backend is never asked more often than the breaker allows,    *)
(* and the breaker is shut for good only by a cancelled trial.             *)
THEOREM BackendIsMetered == CallSpec => []BreakerMeters
  BY CallInvInit, CallInvStep, CallInvMeters, PTL DEF CallSpec

-----------------------------------------------------------------------------
(***************************************************************************)
(* SourceSettings: a child request and a setting are lost in the named ways *)
(* alone, for any number of updates, children, polls and mishaps.          *)
(***************************************************************************)

SettingsSpec == SettingsInit /\ [][SettingsNext]_settingsVars

Manifests == [state : {"awaiting", "materialized", "stale", "missing"},
              attach : {"on", "off"}, version : Nat]

(* What the two sides know where they use it: an update has read a         *)
(* manifest before it writes one, and so has a poll.                       *)
Commands == [at : {"idle", "read", "write", "request"}, fetch : {"keep", "yes", "no"},
             attach : {"keep", "on", "off"}, path : BOOLEAN, existing : Nat, number : Nat,
             read : Manifests \cup {<<>>}]

UpdatesTyped ==
    /\ update \in [Updaters -> Commands]
    /\ \A u \in Updaters :
         /\ update[u].at \in {"read", "write"} => update[u].attach # "keep"
         /\ update[u].at = "write" => update[u].read \in Manifests

PollTyped ==
    /\ poll \in [at : {"away", "lease", "ask", "heard", "read", "write", "drop"}, request : Nat,
                 source : Manifests \cup {<<>>}, read : Manifests \cup {<<>>},
                 writes : {"nothing", "content", "missing", "found"}, version : Nat,
                 asked : BOOLEAN, left : SUBSET ChildPages, missed : BOOLEAN]
    /\ poll.at = "write" => poll.read \in Manifests
    /\ poll.at \in {"read", "write"} => poll.writes # "nothing"

SettingsTyped ==
    /\ parent \in Manifests
    /\ wished \in Nat /\ page \in Nat /\ updates \in Nat
    /\ UpdatesTyped
    /\ PollTyped

(* No copy of the manifest is ahead of the page, nor, while the poll       *)
(* carries a fetched page, of that one.                                    *)
Behind(v) ==
    /\ parent.version <= v
    /\ \A u \in Updaters : update[u].at = "write" => update[u].read.version <= v
    /\ poll.at = "write" => poll.read.version <= v

NothingAhead ==
    /\ Behind(page)
    /\ poll.at \in {"read", "write"} /\ poll.writes = "content" => poll.version <= page /\ Behind(poll.version)

(* Only a poll that fetched the page asks for the children, and a child it *)
(* is done with and did not miss is registered.                            *)
ChildrenKept ==
    /\ poll.asked => /\ poll.at \in {"read", "write", "heard", "drop"}
                     /\ poll.at \in {"read", "write"} => poll.writes = "content"
    /\ poll.at = "drop" /\ poll.asked /\ ~ poll.missed => ChildPages \subseteq registered \cup poll.left

SettingsInv == SettingsTyped /\ NothingAhead /\ ChildrenKept

(* The source was added and nobody works on it.                            *)
LEMMA SettingsInvInit == SettingsInit => SettingsInv
  BY DEF SettingsInit, AsAdded, NoUpdate, NoPoll, Manifests, Commands, Behind,
         SettingsInv, SettingsTyped, UpdatesTyped, PollTyped, NothingAhead, ChildrenKept

(* The steps of an update.                                                 *)
LEMMA UpdateStep ==
  ASSUME SettingsInv, NEW u \in Updaters,
         BeginUpdate(u) \/ ReadSettings(u) \/ WriteSettings(u) \/ SaveRequest(u)
  PROVE  SettingsInv'
<1> USE DEF SettingsInv, SettingsTyped, PollTyped, NothingAhead, Behind, ChildrenKept
<1>1. CASE BeginUpdate(u)
  <2>1. PICK fetch \in {"keep", "yes", "no"}, attach \in {"keep", "on", "off"}, path \in BOOLEAN :
          update' = [update EXCEPT ![u] =
            [at |-> IF attach = "keep" THEN "request" ELSE "read", fetch |-> fetch, attach |-> attach,
             path |-> path, existing |-> wished, number |-> updates', read |-> <<>>]]
    BY <1>1 DEF BeginUpdate
  <2> DEFINE new == [at |-> IF attach = "keep" THEN "request" ELSE "read", fetch |-> fetch, attach |-> attach,
                     path |-> path, existing |-> wished, number |-> updates', read |-> <<>>]
  <2>2. updates' = updates + 1 /\ UNCHANGED <<parent, wished, page, registered, poll>>
    BY <1>1 DEF BeginUpdate
  <2>3. new \in Commands /\ new.at # "write" /\ (new.at = "read" => new.attach # "keep")
    BY <2>2 DEF Commands
  <2>4. UpdatesTyped'
    BY <2>1, <2>3 DEF UpdatesTyped
  <2>5. \A v \in Updaters : update'[v].at = "write" => update[v].at = "write" /\ update'[v].read = update[v].read
    BY <2>1, <2>3 DEF UpdatesTyped
  <2> QED BY <2>2, <2>4, <2>5
<1>2. CASE ReadSettings(u)
  <2>1. UpdatesTyped'
    <3> DEFINE new == [update[u] EXCEPT !.at = "write", !.read = parent]
    <3>1. update' = [update EXCEPT ![u] = new] /\ update[u].at = "read"
      BY <1>2 DEF ReadSettings, UpdatesTyped
    <3>2. new \in Commands /\ new.at = "write" /\ new.read = parent /\ new.attach = update[u].attach
      BY ZenonT(40) DEF UpdatesTyped, Commands
    <3> QED BY <1>2, <3>1, <3>2 DEF ReadSettings, UpdatesTyped
  <2>2. \A v \in Updaters : update'[v].at = "write" =>
          \/ update[v].at = "write" /\ update'[v].read = update[v].read
          \/ update'[v].read = parent
    BY <1>2 DEF ReadSettings, UpdatesTyped, Commands
  <2> QED BY ZenonT(40), <1>2, <2>1, <2>2 DEF ReadSettings
<1>3. CASE WriteSettings(u)
  <2>1. UpdatesTyped'
    <3> DEFINE new == [update[u] EXCEPT !.at = "request"]
    <3>1. update' = [update EXCEPT ![u] = new]
      BY <1>3 DEF WriteSettings, UpdatesTyped
    <3>2. new \in Commands /\ new.at = "request"
      BY DEF UpdatesTyped, Commands
    <3> QED BY <1>3, <3>1, <3>2 DEF UpdatesTyped
  <2>2. /\ parent' \in Manifests
        /\ parent'.version = update[u].read.version
    BY ZenonT(40), <1>3 DEF WriteSettings, UpdatesTyped, Commands, Manifests
  <2>3. \A v \in Updaters : update'[v].at = "write" => update[v].at = "write" /\ update'[v].read = update[v].read
    BY <1>3 DEF WriteSettings, UpdatesTyped, Commands
  <2> QED BY <1>3, <2>1, <2>2, <2>3 DEF WriteSettings
<1>4. CASE SaveRequest(u)
  <2>1. UpdatesTyped'
    BY <1>4 DEF SaveRequest, NoUpdate, UpdatesTyped, Commands
  <2>2. wished' \in Nat
    BY <1>4 DEF SaveRequest, NextRequest, UpdatesTyped, Commands
  <2>3. \A v \in Updaters : update'[v].at = "write" => update[v].at = "write" /\ update'[v].read = update[v].read
    BY <1>4 DEF SaveRequest, NoUpdate, UpdatesTyped, Commands
  <2> QED BY <1>4, <2>1, <2>2, <2>3 DEF SaveRequest
<1> QED BY <1>1, <1>2, <1>3, <1>4

(* The steps of the daemon, and of the page.                               *)
LEMMA PollStep ==
  ASSUME SettingsInv,
         \/ BeginPoll \/ LoadAgain \/ NothingNew \/ Fetched \/ RemoteMissing \/ PollEnds
         \/ ReadParent \/ WriteParent \/ Discovered \/ DropRequest \/ FileFound \/ PageChanges
         \/ \E k \in ChildPages : RegisterChild(k)
  PROVE  SettingsInv'
<1> USE DEF SettingsInv, SettingsTyped, UpdatesTyped, PollTyped, Manifests, NothingAhead, Behind, ChildrenKept
<1>1. CASE BeginPoll
  BY <1>1 DEF BeginPoll, NoPoll
<1>2. CASE LoadAgain
  <2>1. PollTyped'
    BY ZenonT(40), <1>2 DEF LoadAgain
  <2> QED BY <1>2, <2>1 DEF LoadAgain
<1>3. CASE NothingNew
  BY <1>3 DEF NothingNew
<1>4. CASE Fetched
  <2>1. PICK asked \in BOOLEAN :
          poll' = [poll EXCEPT !.at = "read", !.writes = "content", !.version = page,
                               !.asked = asked /\ poll.request # 0]
    BY <1>4 DEF Fetched
  <2>2. PollTyped'
    BY <1>4, <2>1 DEF Fetched
  <2>3. poll'.at = "read" /\ poll'.version = page /\ poll'.writes = "content"
    BY <2>1
  <2>4. UNCHANGED <<parent, wished, page, registered, update, updates>>
    BY <1>4 DEF Fetched
  <2>5. NothingAhead' /\ ChildrenKept'
    BY <2>3, <2>4
  <2> QED BY <2>2, <2>4, <2>5
<1>5. CASE RemoteMissing
  BY <1>5 DEF RemoteMissing
<1>6. CASE PollEnds
  BY <1>6 DEF PollEnds, NoPoll
<1>7. CASE ReadParent
  BY <1>7 DEF ReadParent
<1>8. CASE WriteParent
  <2>1. /\ parent' \in Manifests
        /\ IF poll.writes = "content" THEN parent'.version = poll.version
           ELSE parent'.version \in {parent.version, poll.read.version}
    <3>1. poll.at = "write" /\ poll.read \in Manifests /\ poll.version \in Nat /\ parent \in Manifests
      BY <1>8 DEF WriteParent
    <3>2. CASE poll.writes = "content"
      BY <1>8, <3>1, <3>2 DEF WriteParent, Rewritten
    <3>3. CASE poll.writes = "missing"
      BY <1>8, <3>1, <3>3 DEF WriteParent, Rewritten
    <3>4. CASE poll.writes = "found"
      BY <1>8, <3>1, <3>4 DEF WriteParent, Rewritten
    <3> QED BY <3>1, <3>2, <3>3, <3>4
  <2>2. /\ PollTyped'
        /\ poll'.at \in {"heard", "drop", "away"}
        /\ poll'.asked => poll'.at = "heard"
    <3>1. CASE poll.writes = "content"
      BY <1>8, <3>1 DEF WriteParent
    <3>2. CASE poll.writes = "missing" /\ poll.request # 0
      BY <1>8, <3>2 DEF WriteParent
    <3>3. CASE poll.writes # "content" /\ ~ (poll.writes = "missing" /\ poll.request # 0)
      BY <1>8, <3>3 DEF WriteParent, NoPoll
    <3> QED BY <3>1, <3>2, <3>3
  <2> QED BY ZenonT(40), <1>8, <2>1, <2>2 DEF WriteParent
<1>9. CASE Discovered
  BY ZenonT(40), <1>9 DEF Discovered, NoPoll
<1>10. CASE DropRequest
  BY <1>10 DEF DropRequest, NoPoll
<1>11. CASE FileFound
  BY <1>11 DEF FileFound, NoPoll
<1>12. CASE PageChanges
  BY <1>12 DEF PageChanges
<1>13. ASSUME NEW k \in ChildPages, RegisterChild(k) PROVE SettingsInv'
  <2>1. poll.at = "drop" /\ UNCHANGED <<parent, wished, page, update, updates>>
    BY <1>13 DEF RegisterChild
  <2>2. CASE registered' = registered \cup {k} /\ poll' = [poll EXCEPT !.left = @ \ {k}]
    <3>1. poll'.at = "drop" /\ poll'.asked = poll.asked /\ poll'.missed = poll.missed /\ poll'.left = poll.left \ {k}
      BY <2>1, <2>2
    <3>2. PollTyped'
      BY <2>1, <2>2
    <3>3. ChildrenKept'
      BY <2>1, <2>2, <3>1
    <3> QED BY <2>1, <3>1, <3>2, <3>3
  <2>3. CASE registered' = registered /\ poll' = [poll EXCEPT !.left = @ \ {k}, !.missed = TRUE]
    <3>1. poll'.at = "drop" /\ poll'.asked = poll.asked /\ poll'.missed
      BY <2>1, <2>3
    <3>2. PollTyped'
      BY <2>1, <2>3
    <3>3. ChildrenKept'
      BY <2>1, <3>1
    <3> QED BY <2>1, <3>1, <3>2, <3>3
  <2> QED BY <1>13, <2>2, <2>3 DEF RegisterChild
<1> QED BY <1>1, <1>2, <1>3, <1>4, <1>5, <1>6, <1>7, <1>8, <1>9, <1>10, <1>11, <1>12, <1>13

(* What a step may do to a request, to the setting and to the version.     *)
RequestHeard == wished # 0 /\ wished' # wished => Heard \/ DroppedUnheard \/ TakenBack
SettingKept == parent'.attach # parent.attach =>
                 \/ PollWrites /\ poll.read # parent
                 \/ \E u \in Updaters : UpdateWrites(u)
VersionKept == parent'.version < parent.version =>
                 \/ PollWrites /\ poll.read # parent
                 \/ \E u \in Updaters : UpdateWrites(u) /\ update[u].read # parent

(* Every step does that and no more.                                       *)
LEMMA StepIsHeard ==
  ASSUME SettingsInv, [SettingsNext]_settingsVars
  PROVE  RequestHeard /\ SettingKept /\ VersionKept
<1>0. parent.version \in Nat
  BY DEF SettingsInv, SettingsTyped, Manifests
<1>1. ASSUME NEW u \in Updaters, SaveRequest(u)
      PROVE RequestHeard /\ SettingKept /\ VersionKept
  <2>1. update[u].at = "request" /\ update'[u].at = "idle" /\ parent' = parent
    BY <1>1 DEF SaveRequest, NoUpdate, SettingsInv, SettingsTyped, UpdatesTyped
  <2>2. wished' # wished => update[u].fetch # "keep" \/ update[u].existing # wished
    BY <1>1 DEF SaveRequest, NextRequest
  <2> QED BY <1>0, <2>1, <2>2 DEF TakenBack, RequestHeard, SettingKept, VersionKept
<1>2. ASSUME NEW u \in Updaters, WriteSettings(u)
      PROVE RequestHeard /\ SettingKept /\ VersionKept
  <2>1. wished' = wished /\ UpdateWrites(u)
    BY <1>2 DEF WriteSettings, UpdateWrites, SettingsInv, SettingsTyped, UpdatesTyped, Commands
  <2>2. parent'.version = update[u].read.version
    BY <1>2 DEF WriteSettings, SettingsInv, SettingsTyped, UpdatesTyped, Manifests
  <2> QED BY <1>0, <2>1, <2>2 DEF RequestHeard, SettingKept, VersionKept
<1>3. CASE WriteParent
  <2>1. wished' = wished /\ PollWrites
    BY <1>3 DEF WriteParent, PollWrites, NoPoll, SettingsInv, SettingsTyped, PollTyped
  <2>2. poll.read = parent => parent'.attach = parent.attach /\ ~ parent'.version < parent.version
    <3> SUFFICES ASSUME poll.read = parent
                 PROVE  parent'.attach = parent.attach /\ ~ parent'.version < parent.version
      OBVIOUS
    <3>1. /\ poll.at = "write" /\ parent \in Manifests /\ poll.version \in Nat
          /\ poll.writes \in {"content", "missing", "found"}
          /\ poll.writes = "content" => parent.version <= poll.version
      BY <1>3 DEF WriteParent, SettingsInv, SettingsTyped, PollTyped, NothingAhead, Behind
    <3>2. CASE poll.writes = "content"
      <4>1. parent' = [poll.read EXCEPT !.state = "materialized", !.version = poll.version]
        BY <1>3, <3>2 DEF WriteParent, Rewritten
      <4> QED BY <3>1, <3>2, <4>1 DEF Manifests
    <3>3. CASE poll.writes = "missing"
      BY <1>3, <3>1, <3>3 DEF WriteParent, Rewritten, Manifests
    <3>4. CASE poll.writes = "found"
      BY <1>3, <3>1, <3>4 DEF WriteParent, Rewritten, Manifests
    <3> QED BY <3>1, <3>2, <3>3, <3>4
  <2> QED BY <2>1, <2>2 DEF RequestHeard, SettingKept, VersionKept
<1>4. CASE DropRequest
  <2>1. poll.at = "drop" /\ poll.left = {} /\ poll'.at = "away" /\ parent' = parent
    BY <1>4 DEF DropRequest, NoPoll
  <2>2. poll.asked /\ ~ poll.missed => ChildPages \subseteq registered
    BY <2>1 DEF SettingsInv, ChildrenKept
  <2> QED BY <1>0, <2>1, <2>2 DEF Heard, DroppedUnheard, RequestHeard, SettingKept, VersionKept
<1>5. ASSUME \/ \E u \in Updaters : BeginUpdate(u) \/ ReadSettings(u)
             \/ BeginPoll \/ LoadAgain \/ NothingNew \/ Fetched \/ RemoteMissing \/ PollEnds
             \/ ReadParent \/ Discovered \/ FileFound \/ PageChanges
             \/ \E k \in ChildPages : RegisterChild(k)
      PROVE  RequestHeard /\ SettingKept /\ VersionKept
  <2>1. parent' = parent /\ wished' = wished
    BY <1>5 DEF BeginUpdate, ReadSettings, BeginPoll, LoadAgain, NothingNew, Fetched, RemoteMissing,
                PollEnds, ReadParent, Discovered, FileFound, PageChanges, RegisterChild
  <2> QED BY <1>0, <2>1 DEF RequestHeard, SettingKept, VersionKept
<1>6. ASSUME NEW u \in Updaters, BeginUpdate(u) \/ ReadSettings(u) \/ WriteSettings(u) \/ SaveRequest(u)
      PROVE  RequestHeard /\ SettingKept /\ VersionKept
  BY <1>1, <1>2, <1>5, <1>6
<1>7. CASE UNCHANGED settingsVars
  <2>1. parent' = parent /\ wished' = wished
    BY <1>7 DEF settingsVars
  <2> QED BY <1>0, <2>1 DEF RequestHeard, SettingKept, VersionKept
<1>8. CASE SettingsNext
  BY <1>3, <1>4, <1>5, <1>6, <1>8 DEF SettingsNext
<1> QED BY <1>7, <1>8

(* Every step keeps the invariant.                                         *)
LEMMA SettingsInvStep == SettingsInv /\ [SettingsNext]_settingsVars => SettingsInv'
<1> SUFFICES ASSUME SettingsInv, [SettingsNext]_settingsVars PROVE SettingsInv'
  OBVIOUS
<1>1. CASE \E u \in Updaters : BeginUpdate(u) \/ ReadSettings(u) \/ WriteSettings(u) \/ SaveRequest(u)
  BY <1>1, UpdateStep
<1>2. CASE UNCHANGED settingsVars
  BY <1>2 DEF settingsVars, SettingsInv, SettingsTyped, UpdatesTyped, PollTyped, NothingAhead, Behind, ChildrenKept
<1> QED BY <1>1, <1>2, PollStep DEF SettingsNext

(* Whatever updates and polls cross, a request leaves the table because    *)
(* its children are registered or a later command says so, and a setting   *)
(* or a version goes back by a command, but for the named ways.            *)
THEOREM AskedIsHeardAlways == SettingsSpec => AskedIsHeard
  BY SettingsInvInit, SettingsInvStep, StepIsHeard, PTL DEF SettingsSpec, AskedIsHeard, RequestHeard, SettingKept, VersionKept

-----------------------------------------------------------------------------
(***************************************************************************)
(* Caches: the caches serve what was held during the call, but for what    *)
(* changed between two reads: for any areas and contents, any number of    *)
(* calls, changes and misreads.                                            *)
(***************************************************************************)

CachesSpec == CachesInit /\ [][CachesNext]_cacheVars

Texts == Contents \cup {Unread}

(* What the parts hold now was held during the call.                       *)
HeldSeen ==
  /\ held \in [Parts -> Contents]
  /\ saw \in [Parts -> SUBSET Contents]
  /\ load.at # "idle" => \A p \in Parts : held[p] \in saw[p]

(* A text and a key of the same length as what was walked.                 *)
Upto(s, n) == s \in Seq(Texts) /\ Len(s) = n

(* The keys of a finished index are those of its texts, the hurt aside.    *)
IndexSound ==
  index.made =>
    /\ Upto(index.entries, AreaCount) /\ Upto(index.snapshot, AreaCount)
    /\ \A a \in IndexAreas \ index.hurt :
         index.entries[a] = index.snapshot[a] /\ index.entries[a] \in Contents

ContextSound ==
  context.made /\ ~ context.hurt => context.text = context.key

Calls ==
  [at : {"idle", "check", "walk", "snapshot", "served", "read", "told"}, mode : Modes, next : Nat,
   key : Seq(Texts) \cup Contents, entries : Seq(Texts), hurt : SUBSET Parts]

(* What each point of a call knows of what it has read.                    *)
Checking ==
  load.at = "check" =>
    /\ index.made /\ load.next \in 1 .. AreaCount + 1
    /\ Upto(load.key, load.next - 1)
    /\ \A a \in 1 .. load.next - 1 : load.key[a] \in saw[a] \cup {Unread}

Walking ==
  load.at = "walk" =>
    /\ load.next \in 1 .. AreaCount + 1
    /\ load.key = <<>> /\ Upto(load.entries, load.next - 1)
    /\ \A a \in 1 .. load.next - 1 : a \in load.hurt \/ load.entries[a] = held[a]

Snapshooting ==
  load.at = "snapshot" =>
    /\ load.next \in 1 .. AreaCount + 1
    /\ Upto(load.entries, AreaCount) /\ Upto(load.key, load.next - 1)
    /\ \A a \in IndexAreas : a \in load.hurt
         \/ /\ load.entries[a] \in saw[a]
            /\ load.entries[a] = IF a < load.next THEN load.key[a] ELSE held[a]

Reading ==
  load.at = "read" =>
    /\ load.mode \in Modes
    /\ load.mode \in load.hurt \/ load.key = held[load.mode]

CachesInv ==
  /\ HeldSeen /\ IndexSound /\ ContextSound /\ load \in Calls
  /\ Checking /\ Walking /\ Snapshooting /\ Reading /\ CachesTellTheTruth

(* Nothing is cached, nothing is asked.                                    *)
LEMMA CachesInvInit == CachesInit => CachesInv
<1> SUFFICES ASSUME CachesInit PROVE CachesInv
  OBVIOUS
<1>1. load \in Calls
  BY DEF CachesInit, NoLoad, Calls, Modes, CoreRaw, CoreSummary
<1>2. HeldSeen
  BY DEF CachesInit, HeldSeen, NoLoad
<1> QED
  BY <1>1, <1>2 DEF CachesInit, CachesInv, IndexSound, ContextSound, Checking, Walking,
         Snapshooting, Reading, CachesTellTheTruth, NoLoad, NoAreaIndex, NoContext

(* A read gives what is held, or it fails.                                 *)
LEMMA ReadFacts ==
  ASSUME HeldSeen, NEW p \in Parts, NEW r \in ReadsOf(p)
  PROVE  r.text \in Texts /\ (r.failed \/ r.text = held[p]) /\ (r.text = held[p] \/ r.text = Unread)
  BY DEF ReadsOf, HeldSeen, Texts

(* A call begins: what is held is what was seen of it.                     *)
LEMMA BeganFacts ==
  ASSUME HeldSeen, NEW with, Began(with), held' = held
  PROVE  HeldSeen' /\ load' = with
  BY DEF Began, HeldSeen

(* The index is asked for.                                                 *)
LEMMA LoadIndexStep == CachesInv /\ LoadIndex => CachesInv'
<1> SUFFICES ASSUME CachesInv, LoadIndex PROVE CachesInv'
  OBVIOUS
<1>1. UNCHANGED <<held, index, context>>
  BY DEF LoadIndex
<1>2. HeldSeen' /\ load' = [NoLoad EXCEPT !.at = IF index.made THEN "check" ELSE "walk", !.next = 1]
  BY <1>1, BeganFacts DEF LoadIndex, CachesInv
<1>3. load' = [at |-> IF index.made THEN "check" ELSE "walk", mode |-> CoreRaw, next |-> 1,
               key |-> <<>>, entries |-> <<>>, hurt |-> {}]
  BY <1>2 DEF NoLoad
<1>4. load' \in Calls
  BY <1>3 DEF Calls, Modes
<1>5. 1 \in 1 .. AreaCount + 1
  BY CachesAssumption
<1>6. Upto(<<>>, 0)
  BY DEF Upto
<1>7. /\ load'.at \in {"check", "walk"} /\ (load'.at = "check" => index.made)
      /\ load'.next = 1 /\ load'.key = <<>> /\ load'.entries = <<>>
  BY <1>3
<1>8. \A a \in 1 .. 1 - 1 : FALSE
  OBVIOUS
<1>9. Checking' /\ Walking'
  BY <1>1, <1>5, <1>6, <1>7, <1>8 DEF Checking, Walking
<1> QED BY <1>1, <1>2, <1>4, <1>7, <1>9
       DEF CachesInv, IndexSound, ContextSound, Snapshooting, Reading, CachesTellTheTruth

(* One part of the key is read.                                            *)
LEMMA CaptureStep == CachesInv /\ Capture => CachesInv'
<1> SUFFICES ASSUME CachesInv, Capture PROVE CachesInv'
  OBVIOUS
<1>1. /\ load.at \in {"check", "snapshot"} /\ load.next \in IndexAreas /\ load \in Calls
      /\ UNCHANGED <<held, index, context, saw>>
  BY DEF Capture, CachesInv
<1> DEFINE a == load.next
<1>2. PICK r \in ReadsOf(a) :
        load' = [load EXCEPT !.next = @ + 1, !.key = Append(@, r.text),
                             !.hurt = @ \cup (IF r.failed THEN {a} ELSE {})]
  BY DEF Capture
<1>3. a \in Parts /\ a \in Nat /\ a - 1 \in Nat /\ a + 1 \in 1 .. AreaCount + 1
  BY <1>1, CachesAssumption DEF Parts, IndexAreas
<1>4. r.text \in Texts /\ (r.failed \/ r.text = held[a]) /\ (r.text = held[a] \/ r.text = Unread)
  BY <1>3, ReadFacts DEF CachesInv
<1>5. Upto(load.key, a - 1)
  BY <1>1 DEF CachesInv, Checking, Snapshooting
<1>6. /\ Upto(Append(load.key, r.text), a)
      /\ \A b \in 1 .. a - 1 : Append(load.key, r.text)[b] = load.key[b]
      /\ Append(load.key, r.text)[a] = r.text
  <2>1. a \in Nat \ {0} /\ r.text \in Texts /\ Upto(load.key, a - 1)
    BY <1>1, <1>4, <1>5 DEF IndexAreas
  <2> HIDE DEF a
  <2> QED BY <2>1 DEF Upto
<1>7. /\ load'.at = load.at /\ load'.mode = load.mode /\ load'.next = a + 1
      /\ load'.key = Append(load.key, r.text) /\ load'.entries = load.entries
      /\ load'.hurt = load.hurt \cup (IF r.failed THEN {a} ELSE {})
      /\ load' \in Calls
  <2>1. Append(load.key, r.text) \in Seq(Texts)
    BY <1>6 DEF Upto
  <2>2. load' = [at |-> load.at, mode |-> load.mode, next |-> a + 1, key |-> Append(load.key, r.text),
                 entries |-> load.entries, hurt |-> load.hurt \cup (IF r.failed THEN {a} ELSE {})]
    BY <1>1, <1>2 DEF Calls
  <2>3. a + 1 \in Nat /\ load.hurt \cup (IF r.failed THEN {a} ELSE {}) \in SUBSET Parts
    BY <1>1, <1>3 DEF Calls
  <2> QED BY <1>1, <2>1, <2>2, <2>3 DEF Calls
<1>8. HeldSeen'
  BY <1>1, <1>7 DEF CachesInv, HeldSeen
<1>9. Checking'
  <2> SUFFICES ASSUME load.at = "check" PROVE Checking'
    BY <1>7 DEF Checking
  <2>1. index.made /\ \A b \in 1 .. a - 1 : load.key[b] \in saw[b] \cup {Unread}
    BY DEF CachesInv, Checking
  <2>2. r.text \in saw[a] \cup {Unread}
    BY <1>3, <1>4 DEF CachesInv, HeldSeen
  <2>3. \A b \in 1 .. a : Append(load.key, r.text)[b] \in saw[b] \cup {Unread}
    <3> TAKE b \in 1 .. a
    <3>1. b = a \/ b \in 1 .. a - 1
      BY <1>3
    <3> QED BY <1>6, <2>1, <2>2, <3>1
  <2>4. (a + 1) - 1 = a
    BY <1>3
  <2> QED BY <1>1, <1>3, <1>6, <1>7, <2>1, <2>3, <2>4 DEF Checking
<1>10. Snapshooting'
  <2> SUFFICES ASSUME load.at = "snapshot" PROVE Snapshooting'
    BY <1>7 DEF Snapshooting
  <2>1. /\ Upto(load.entries, AreaCount)
        /\ \A b \in IndexAreas : b \in load.hurt
             \/ /\ load.entries[b] \in saw[b]
                /\ load.entries[b] = IF b < a THEN load.key[b] ELSE held[b]
    BY DEF CachesInv, Snapshooting
  <2>2. (a + 1) - 1 = a
    BY <1>3
  <2>3. \A b \in IndexAreas : b \in load'.hurt
             \/ /\ load.entries[b] \in saw[b]
                /\ load.entries[b] = IF b < a + 1 THEN load'.key[b] ELSE held[b]
    <3> SUFFICES ASSUME NEW b \in IndexAreas, b \notin load'.hurt
                 PROVE  /\ load.entries[b] \in saw[b]
                        /\ load.entries[b] = IF b < a + 1 THEN load'.key[b] ELSE held[b]
      OBVIOUS
    <3>1. /\ load.entries[b] \in saw[b]
          /\ load.entries[b] = IF b < a THEN load.key[b] ELSE held[b]
      BY <1>7, <2>1
    <3>2. CASE b = a
      <4>1. ~ r.failed /\ ~ a < a /\ a < a + 1
        BY <1>3, <1>7, <3>2
      <4>2. load.entries[a] = held[a] /\ load'.key[a] = r.text
        BY <1>6, <1>7, <3>1, <3>2, <4>1
      <4> QED BY <1>4, <3>1, <3>2, <4>1, <4>2
    <3>3. CASE b # a
      <4>1. b < a + 1 <=> b < a
        BY <1>3, <3>3 DEF IndexAreas
      <4>2. b < a => b \in 1 .. a - 1
        BY <1>3 DEF IndexAreas
      <4> QED BY <1>6, <1>7, <3>1, <4>1, <4>2
    <3> QED BY <3>2, <3>3
  <2> QED BY <1>1, <1>3, <1>6, <1>7, <2>1, <2>2, <2>3 DEF Snapshooting
<1> QED BY <1>1, <1>7, <1>8, <1>9, <1>10
       DEF CachesInv, IndexSound, ContextSound, Walking, Reading, CachesTellTheTruth

(* The index is served as it is, or walked anew.                           *)
LEMMA CheckedStep == CachesInv /\ Checked => CachesInv'
<1> SUFFICES ASSUME CachesInv, Checked PROVE CachesInv'
  OBVIOUS
<1>1. /\ load.at = "check" /\ load.next \notin IndexAreas /\ load \in Calls
      /\ UNCHANGED <<held, index, context, saw>>
  BY DEF Checked, CachesInv
<1>2. load.next = AreaCount + 1 /\ index.made
  BY <1>1, CachesAssumption DEF CachesInv, Checking, IndexAreas
<1>3. CASE IsStaleIndex(load.key)
  <2>1. load' = [at |-> "walk", mode |-> CoreRaw, next |-> 1, key |-> <<>>, entries |-> <<>>, hurt |-> {}]
    BY <1>3 DEF Checked, NoLoad
  <2>2. load' \in Calls /\ 1 \in 1 .. AreaCount + 1 /\ Upto(<<>>, 0)
    BY <2>1, CachesAssumption DEF Calls, Modes, Upto
  <2> QED BY <1>1, <2>1, <2>2
         DEF CachesInv, HeldSeen, IndexSound, ContextSound, Checking, Walking, Snapshooting, Reading, CachesTellTheTruth
<1>4. CASE ~ IsStaleIndex(load.key)
  <2>1. load' = [load EXCEPT !.at = "served"] /\ load.key = index.snapshot
    BY <1>4 DEF Checked, IsStaleIndex
  <2>2. load' \in Calls /\ load'.at = "served"
    BY <1>1, <2>1 DEF Calls
  <2>3. \A a \in IndexAreas \ index.hurt : index.entries[a] \in saw[a]
    <3> TAKE a \in IndexAreas \ index.hurt
    <3>1. index.entries[a] = load.key[a] /\ index.entries[a] \in Contents
      BY <1>2, <2>1 DEF CachesInv, IndexSound
    <3>2. a \in 1 .. load.next - 1
      BY <1>2, CachesAssumption DEF IndexAreas
    <3>3. load.key[a] \in saw[a] \cup {Unread}
      BY <1>1, <3>2 DEF CachesInv, Checking
    <3> QED BY <3>1, <3>3, CachesAssumption
  <2> QED BY <1>1, <2>2, <2>3
         DEF CachesInv, HeldSeen, IndexSound, ContextSound, Checking, Walking, Snapshooting, Reading, CachesTellTheTruth
<1> QED BY <1>3, <1>4

(* One area is walked.                                                     *)
LEMMA WalkStep == CachesInv /\ Walk => CachesInv'
<1> SUFFICES ASSUME CachesInv, Walk PROVE CachesInv'
  OBVIOUS
<1>1. /\ load.at = "walk" /\ load.next \in IndexAreas /\ load \in Calls
      /\ UNCHANGED <<held, index, context, saw>>
  BY DEF Walk, CachesInv
<1> DEFINE a == load.next
<1>2. PICK r \in ReadsOf(a) :
        load' = [load EXCEPT !.next = @ + 1, !.entries = Append(@, r.text),
                             !.hurt = @ \cup (IF r.failed THEN {a} ELSE {})]
  BY DEF Walk
<1>3. a \in Parts /\ a \in Nat /\ a - 1 \in Nat /\ a + 1 \in 1 .. AreaCount + 1
  BY <1>1, CachesAssumption DEF Parts, IndexAreas
<1>4. r.text \in Texts /\ (r.failed \/ r.text = held[a])
  BY <1>3, ReadFacts DEF CachesInv
<1>5. /\ Upto(load.entries, a - 1) /\ load.key = <<>>
      /\ \A b \in 1 .. a - 1 : b \in load.hurt \/ load.entries[b] = held[b]
  BY <1>1 DEF CachesInv, Walking
<1>6. /\ Upto(Append(load.entries, r.text), a)
      /\ \A b \in 1 .. a - 1 : Append(load.entries, r.text)[b] = load.entries[b]
      /\ Append(load.entries, r.text)[a] = r.text
  <2>1. a \in Nat \ {0} /\ r.text \in Texts /\ Upto(load.entries, a - 1)
    BY <1>1, <1>4, <1>5 DEF IndexAreas
  <2> HIDE DEF a
  <2> QED BY <2>1 DEF Upto
<1>7. /\ load'.at = "walk" /\ load'.mode = load.mode /\ load'.next = a + 1
      /\ load'.key = <<>> /\ load'.entries = Append(load.entries, r.text)
      /\ load'.hurt = load.hurt \cup (IF r.failed THEN {a} ELSE {})
      /\ load' \in Calls
  <2>1. Append(load.entries, r.text) \in Seq(Texts)
    BY <1>6 DEF Upto
  <2>2. load' = [at |-> load.at, mode |-> load.mode, next |-> a + 1, key |-> load.key,
                 entries |-> Append(load.entries, r.text),
                 hurt |-> load.hurt \cup (IF r.failed THEN {a} ELSE {})]
    BY <1>1, <1>2 DEF Calls
  <2>3. a + 1 \in Nat /\ load.hurt \cup (IF r.failed THEN {a} ELSE {}) \in SUBSET Parts
    BY <1>1, <1>3 DEF Calls
  <2> QED BY <1>1, <1>5, <2>1, <2>2, <2>3 DEF Calls
<1>8. HeldSeen'
  BY <1>1, <1>7 DEF CachesInv, HeldSeen
<1>9. Walking'
  <2>1. \A b \in 1 .. a : b \in load'.hurt \/ Append(load.entries, r.text)[b] = held[b]
    <3> TAKE b \in 1 .. a
    <3>1. b = a \/ b \in 1 .. a - 1
      BY <1>3
    <3> QED BY <1>4, <1>5, <1>6, <1>7, <3>1
  <2>2. (a + 1) - 1 = a
    BY <1>3
  <2> QED BY <1>1, <1>3, <1>6, <1>7, <2>1, <2>2 DEF Walking
<1> QED BY <1>1, <1>7, <1>8, <1>9
       DEF CachesInv, IndexSound, ContextSound, Checking, Snapshooting, Reading, CachesTellTheTruth

(* The walk is over: what is not hurt is held as it was walked.            *)
LEMMA WalkedStep == CachesInv /\ Walked => CachesInv'
<1> SUFFICES ASSUME CachesInv, Walked PROVE CachesInv'
  OBVIOUS
<1>1. /\ load.at = "walk" /\ load.next \notin IndexAreas /\ load \in Calls
      /\ load' = [load EXCEPT !.at = "snapshot", !.next = 1]
      /\ UNCHANGED <<held, index, context, saw>>
  BY DEF Walked, CachesInv
<1>2. load.next = AreaCount + 1 /\ load.next - 1 = AreaCount
  BY <1>1, CachesAssumption DEF CachesInv, Walking, IndexAreas
<1>3. /\ load.key = <<>> /\ Upto(load.entries, AreaCount)
      /\ \A a \in IndexAreas : a \in load.hurt \/ load.entries[a] = held[a]
  BY <1>1, <1>2 DEF CachesInv, Walking, IndexAreas
<1>4. /\ load'.at = "snapshot" /\ load'.next = 1 /\ load'.key = <<>> /\ load'.entries = load.entries
      /\ load'.hurt = load.hurt /\ load' \in Calls
  BY <1>1, <1>3 DEF Calls
<1>5. Snapshooting'
  <2>1. 1 \in 1 .. AreaCount + 1 /\ Upto(<<>>, 1 - 1)
    BY CachesAssumption DEF Upto
  <2>2. \A a \in IndexAreas : a \in load.hurt
             \/ /\ load.entries[a] \in saw[a]
                /\ load.entries[a] = IF a < 1 THEN <<>>[a] ELSE held[a]
    <3>1. \A a \in IndexAreas : ~ a < 1 /\ held[a] \in saw[a]
      BY <1>1 DEF CachesInv, HeldSeen, IndexAreas, Parts
    <3> TAKE a \in IndexAreas
    <3>2. ~ a < 1 /\ held[a] \in saw[a] /\ (a \in load.hurt \/ load.entries[a] = held[a])
      BY <1>3, <3>1
    <3> QED BY <3>2
  <2> QED BY <1>1, <1>3, <1>4, <2>1, <2>2 DEF Snapshooting
<1> QED BY <1>1, <1>4, <1>5
       DEF CachesInv, HeldSeen, IndexSound, ContextSound, Checking, Walking, Reading, CachesTellTheTruth

(* The new index is kept and served.                                       *)
LEMMA BuiltStep == CachesInv /\ Built => CachesInv'
<1> SUFFICES ASSUME CachesInv, Built PROVE CachesInv'
  OBVIOUS
<1>1. /\ load.at = "snapshot" /\ load.next \notin IndexAreas /\ load \in Calls
      /\ index' = [made |-> TRUE, entries |-> load.entries, snapshot |-> load.key, hurt |-> load.hurt]
      /\ load' = [load EXCEPT !.at = "served"]
      /\ UNCHANGED <<held, context, saw>>
  BY DEF Built, CachesInv
<1>2. load.next = AreaCount + 1 /\ load.next - 1 = AreaCount
  BY <1>1, CachesAssumption DEF CachesInv, Snapshooting, IndexAreas
<1>3. /\ Upto(load.entries, AreaCount) /\ Upto(load.key, AreaCount)
      /\ \A a \in IndexAreas \ load.hurt : load.entries[a] \in saw[a] /\ load.entries[a] = load.key[a]
  <2>1. \A a \in IndexAreas : a < load.next
    BY <1>2, CachesAssumption DEF IndexAreas
  <2> QED BY <1>1, <1>2, <2>1 DEF CachesInv, Snapshooting
<1>4. \A a \in IndexAreas : saw[a] \subseteq Contents
  BY DEF CachesInv, HeldSeen, Parts
<1>5. load'.at = "served" /\ load' \in Calls
  BY <1>1 DEF Calls
<1>6. IndexSound' /\ CachesTellTheTruth'
  BY <1>1, <1>3, <1>4, <1>5 DEF IndexSound, CachesTellTheTruth
<1> QED BY <1>1, <1>5, <1>6
       DEF CachesInv, HeldSeen, ContextSound, Checking, Walking, Snapshooting, Reading

(* The context is asked for, and told at once if its key is the present    *)
(* content.                                                                *)
LEMMA CollectStep == CachesInv /\ CollectContext => CachesInv'
<1> SUFFICES ASSUME CachesInv, CollectContext PROVE CachesInv'
  OBVIOUS
<1>1. UNCHANGED <<held, index, context>>
  BY DEF CollectContext
<1>2. PICK mode \in Modes :
        Began([NoLoad EXCEPT !.at = IF Hit(mode, held[mode]) THEN "told" ELSE "read",
                             !.mode = mode, !.key = held[mode]])
  BY DEF CollectContext
<1>3. HeldSeen' /\ load' = [at |-> IF Hit(mode, held[mode]) THEN "told" ELSE "read", mode |-> mode,
                            next |-> 0, key |-> held[mode], entries |-> <<>>, hurt |-> {}]
  <2>1. HeldSeen /\ held' = held
    BY <1>1 DEF CachesInv
  <2>2. HeldSeen' /\ load' = [NoLoad EXCEPT !.at = IF Hit(mode, held[mode]) THEN "told" ELSE "read",
                                           !.mode = mode, !.key = held[mode]]
    BY <1>2, <2>1, BeganFacts
  <2> QED BY <2>2 DEF NoLoad
<1>4. mode \in Parts /\ held[mode] \in Contents
  BY DEF CachesInv, HeldSeen, Parts
<1>5. load' \in Calls
  BY <1>3, <1>4 DEF Calls
<1>6. Hit(mode, held[mode]) => context.made /\ context.key = held[mode]
  BY DEF Hit
<1>7. held[mode] \in saw'[mode]
  BY <1>1, <1>3, <1>4 DEF HeldSeen
<1>8. CachesTellTheTruth'
  BY <1>1, <1>3, <1>6, <1>7 DEF CachesInv, ContextSound, CachesTellTheTruth
<1> QED BY <1>1, <1>3, <1>4, <1>5, <1>8
       DEF CachesInv, IndexSound, ContextSound, Checking, Walking, Snapshooting, Reading

(* The context is read, after its key.                                     *)
LEMMA ReadCoreStep == CachesInv /\ ReadCore => CachesInv'
<1> SUFFICES ASSUME CachesInv, ReadCore PROVE CachesInv'
  OBVIOUS
<1>1. /\ load.at = "read" /\ load \in Calls /\ load' = [load EXCEPT !.at = "told"]
      /\ UNCHANGED <<held, index, saw>>
  BY DEF ReadCore, CachesInv
<1>2. PICK r \in ReadsOf(load.mode) :
        context' = [made |-> TRUE, mode |-> load.mode, key |-> load.key, text |-> r.text,
                    hurt |-> r.failed \/ load.mode \in load.hurt]
  BY DEF ReadCore
<1>3. load.mode \in Parts /\ (load.mode \in load.hurt \/ load.key = held[load.mode])
  BY <1>1 DEF CachesInv, Reading, Parts
<1>4. r.failed \/ r.text = held[load.mode]
  BY <1>3, ReadFacts DEF CachesInv
<1>5. held[load.mode] \in saw[load.mode]
  BY <1>1, <1>3 DEF CachesInv, HeldSeen
<1>6. load'.at = "told" /\ load'.mode = load.mode /\ load' \in Calls
  BY <1>1 DEF Calls
<1>7. ~ context'.hurt => context'.text = held[load.mode] /\ context'.text = context'.key
  BY <1>2, <1>3, <1>4
<1>8. ContextSound' /\ CachesTellTheTruth'
  BY <1>1, <1>2, <1>5, <1>6, <1>7 DEF ContextSound, CachesTellTheTruth
<1> QED BY <1>1, <1>6, <1>8
       DEF CachesInv, HeldSeen, IndexSound, Checking, Walking, Snapshooting, Reading

(* Others change a part: what had been read of it, and is to be read of it *)
(* again, is hurt.                                                         *)
LEMMA ChangeStep == CachesInv /\ OthersChange => CachesInv'
<1> SUFFICES ASSUME CachesInv, OthersChange PROVE CachesInv'
  OBVIOUS
<1>1. PICK p \in Parts, c \in Contents :
        /\ held' = [held EXCEPT ![p] = c] /\ c # held[p]
        /\ saw' = [saw EXCEPT ![p] = @ \cup {c}]
        /\ load' = IF BetweenItsReads(p) THEN [load EXCEPT !.hurt = @ \cup {p}] ELSE load
  BY DEF OthersChange
<1>2. UNCHANGED <<index, context>> /\ load \in Calls
  BY DEF OthersChange, CachesInv
<1>3. /\ load'.at = load.at /\ load'.mode = load.mode /\ load'.next = load.next
      /\ load'.key = load.key /\ load'.entries = load.entries /\ load' \in Calls
      /\ load.hurt \subseteq load'.hurt /\ (BetweenItsReads(p) => p \in load'.hurt)
  BY <1>1, <1>2 DEF Calls
<1>4. \A q \in Parts : saw[q] \subseteq saw'[q] /\ (q # p => held'[q] = held[q])
  BY <1>1 DEF CachesInv, HeldSeen
<1>5. HeldSeen'
  BY <1>1, <1>3 DEF CachesInv, HeldSeen
<1>6. \A a \in IndexAreas : a \in Parts
  BY DEF Parts
<1>7. Checking'
  <2> SUFFICES ASSUME load.at = "check" PROVE Checking'
    BY <1>3 DEF Checking
  <2>1. load.next \in 1 .. AreaCount + 1
    BY DEF CachesInv, Checking
  <2>2. \A a \in 1 .. load.next - 1 : a \in IndexAreas
    BY <2>1, CachesAssumption DEF IndexAreas
  <2> QED BY <1>2, <1>3, <1>4, <1>6, <2>2 DEF CachesInv, Checking
<1>8. Walking'
  <2> SUFFICES ASSUME load.at = "walk" PROVE Walking'
    BY <1>3 DEF Walking
  <2>1. load.next \in 1 .. AreaCount + 1
    BY DEF CachesInv, Walking
  <2>2. \A a \in 1 .. load.next - 1 : a \in IndexAreas /\ a < load.next
    BY <2>1, CachesAssumption DEF IndexAreas
  <2>3. \A a \in 1 .. load.next - 1 : a = p => a \in load'.hurt
    BY <1>3, <2>2 DEF BetweenItsReads
  <2> QED BY <1>3, <1>4, <1>6, <2>2, <2>3 DEF CachesInv, Walking
<1>9. Snapshooting'
  <2> SUFFICES ASSUME load.at = "snapshot" PROVE Snapshooting'
    BY <1>3 DEF Snapshooting
  <2>1. \A a \in IndexAreas : a = p => a < load.next \/ a \in load'.hurt
    BY <1>2, <1>3 DEF BetweenItsReads, IndexAreas, Calls
  <2>2. \A a \in IndexAreas : a \in load.hurt
             \/ /\ load.entries[a] \in saw[a]
                /\ load.entries[a] = IF a < load.next THEN load.key[a] ELSE held[a]
    BY DEF CachesInv, Snapshooting
  <2>3. \A a \in IndexAreas : a \in load'.hurt
             \/ /\ load.entries[a] \in saw'[a]
                /\ load.entries[a] = IF a < load.next THEN load.key[a] ELSE held'[a]
    BY <1>3, <1>4, <1>6, <2>1, <2>2
  <2> QED BY <1>3, <2>3 DEF CachesInv, Snapshooting
<1>10. Reading'
  <2> SUFFICES ASSUME load.at = "read" PROVE Reading'
    BY <1>3 DEF Reading
  <2>1. load.mode \in Parts /\ (load.mode = p => p \in load'.hurt)
    BY <1>2, <1>3 DEF BetweenItsReads, Parts, Calls
  <2> QED BY <1>3, <1>4, <2>1 DEF CachesInv, Reading
<1>11. CachesTellTheTruth'
  <2>1. load.mode \in Parts
    BY <1>2 DEF Calls, Parts
  <2> QED BY <1>2, <1>3, <1>4, <1>6, <2>1 DEF CachesInv, CachesTellTheTruth
<1> QED BY <1>2, <1>3, <1>5, <1>7, <1>8, <1>9, <1>10, <1>11 DEF CachesInv, IndexSound, ContextSound

(* Every step keeps the invariant.                                         *)
LEMMA CachesInvStep == CachesInv /\ [CachesNext]_cacheVars => CachesInv'
<1> SUFFICES ASSUME CachesInv, [CachesNext]_cacheVars PROVE CachesInv'
  OBVIOUS
<1>1. CASE UNCHANGED cacheVars
  BY <1>1 DEF cacheVars, CachesInv, HeldSeen, IndexSound, ContextSound, Checking, Walking,
              Snapshooting, Reading, CachesTellTheTruth
<1> QED BY <1>1, LoadIndexStep, CaptureStep, CheckedStep, WalkStep, WalkedStep, BuiltStep,
           CollectStep, ReadCoreStep, ChangeStep DEF CachesNext

(* What a caller is given was held during the call, part by part, but for  *)
(* what changed between the reading of its text and of its key.            *)
THEOREM CachesAlwaysTellTheTruth == CachesSpec => []CachesTellTheTruth
<1>1. CachesInv => CachesTellTheTruth
  BY DEF CachesInv
<1> QED BY <1>1, CachesInvInit, CachesInvStep, PTL DEF CachesSpec

-----------------------------------------------------------------------------
(***************************************************************************)
(* RuntimeSchema: what is handed out serves, and a database with rows is   *)
(* upgraded where it is, for any processes, first versions, opens and deaths. *)
(***************************************************************************)

SchemaSpec == SchemaInit /\ [][SchemaNext]_schemaVars

Tables == Allowed \cup {"sync_cache", "path_observations", Legacy}
Database == [version : Nat \cup {NoVersion}, tables : SUBSET Tables,
             remote : BOOLEAN, polled : BOOLEAN, rows : BOOLEAN]
Upgrading == {"script", "stamp", "recreate", "copy"}
Doings == {"away", "again", "tables", "version", "reset", "create", "open"} \cup Upgrading

(* A process has a file open wherever it reads or writes one, and upgrades *)
(* from a version there is an upgrade from.                                *)
SchemaTyped ==
  /\ file \in Files \cup {0} /\ disk \in [Files -> Database]
  /\ doing \in [Openers -> Doings] /\ opened \in [Openers -> Files \cup {0}]
  /\ seen \in [Openers -> SUBSET Tables] /\ at \in [Openers -> Nat \cup {NoVersion}]
  /\ overlapped \in BOOLEAN
  /\ \A p \in Openers :
       /\ doing[p] \in {"away", "again"} <=> opened[p] = 0
       /\ doing[p] \in Upgrading => at[p] \in 23 .. 29
       /\ doing[p] \in {"recreate", "copy"} => at[p] \in {27, 28}

(* Of each version, what an upgrade from there does not add any more.      *)
Coherent(d) ==
  /\ "meta" \in d.tables \/ d.version = NoVersion
  /\ d.version \in {NoVersion, 30} => ~ d.polled /\ ("sync_polling" \in d.tables => d.remote)
  /\ d.version = 30 => Allowed \subseteq d.tables
  /\ d.version \in 23 .. 29 =>
       /\ {"meta", "regen_locks", "token_events"} \subseteq d.tables
       /\ d.version > 23 => "child_discovery_requests" \in d.tables
       /\ d.version > 24 => "operational_events" \in d.tables
       /\ d.version > 25 => "sync_polling" \in d.tables
       /\ d.version = 29 => "source_lifecycle_runtime" \in d.tables

(* The statement of the upgrade from v has been made, its version not yet. *)
Ready(v, d) ==
  /\ v = 23 => "child_discovery_requests" \in d.tables
  /\ v = 24 => "operational_events" \in d.tables
  /\ v = 25 => "sync_polling" \in d.tables
  /\ v \in {26, 27, 28} => "source_lifecycle_runtime" \in d.tables
  /\ v = 29 => d.remote

(* What a process relies on while it creates or upgrades the file it       *)
(* opened: its place in the creation, or its version, is that of the file. *)
Relies(p, d) ==
  /\ doing[p] = "create" =>
       /\ at[p] \in 1 .. Len(Creation) + 1 /\ d.version \in {NoVersion, 30}
       /\ \A i \in CreationSteps : i < at[p] => Creation[i] \in d.tables
  /\ doing[p] \in Upgrading => d.version = at[p]
  /\ doing[p] = "copy" => "source_lifecycle_runtime" \in d.tables
  /\ doing[p] = "stamp" => Ready(at[p], d)
  /\ doing[p] = "open" => d.version = 30

(* Unless an upgrade had company, every file is coherent, and every        *)
(* process may rely on the one it opened.                                  *)
Alone ==
  ~ overlapped =>
    /\ \A f \in Files : Coherent(disk[f])
    /\ \A p \in Openers : opened[p] # 0 => Relies(p, disk[opened[p]])

(* The tables of a database with rows, and of what an upgrade makes of it. *)
Usual == Allowed \cup {"sync_cache", Legacy}
Populated(d) ==
  /\ d.version \in 23 .. 30 /\ "meta" \in d.tables /\ d.tables \subseteq Usual
  /\ "sync_cache" \in d.tables => d.version < 26

(* Nobody creates it, nobody puts sync_cache back into its past, and who   *)
(* would throw it away was misled.                                         *)
Handles(p, d) ==
  /\ opened[p] \in {0, file} /\ doing[p] # "create"
  /\ doing[p] \in Upgrading /\ "sync_cache" \in d.tables => at[p] < 26
  /\ doing[p] = "version" => seen[p] \subseteq Usual
  /\ doing[p] = "reset" => MetSetAside(p) \/ ReadAcrossUpgrade(p)

(* The database with the rows is the one that everybody has open.          *)
RowsAtPath ==
  file # 0 /\ disk[file].rows =>
    Populated(disk[file]) /\ \A p \in Openers : Handles(p, disk[file])

SchemaInv == SchemaTyped /\ Alone /\ RowsAtPath

-----------------------------------------------------------------------------
(* There is a file for everybody, and one more.                            *)
LEMMA FilesFacts == Cardinality(Openers) \in Nat /\ Files \subseteq Nat /\ 0 \notin Files /\ 1 \in Files
  BY SchemaAssumption, FS_CardinalityType DEF Files

(* A new file is one that nobody has open.                                 *)
LEMMA FreshFile ==
  ASSUME opened \in [Openers -> Files \cup {0}], file = 0
  PROVE  \E g \in Files : g \notin Held
<1> SUFFICES ASSUME \A g \in Files : \E p \in Openers : opened[p] = g PROVE FALSE
  BY FilesFacts DEF Held
<1> DEFINE holder == [g \in Files |-> CHOOSE p \in Openers : opened[p] = g]
<1>1. \A g \in Files : holder[g] \in Openers /\ opened[holder[g]] = g
  OBVIOUS
<1>2. holder \in Injection(Files, Openers)
  <2>1. holder \in [Files -> Openers]
    BY <1>1
  <2>2. \A g, h \in Files : holder[g] = holder[h] => g = h
    BY <1>1
  <2> HIDE DEF holder
  <2> QED BY <2>1, <2>2 DEF Injection, IsInjective
<1>3. Cardinality(Files) <= Cardinality(Openers)
  BY <1>2, SchemaAssumption, FS_Injection
<1>4. Cardinality(Files) = Cardinality(Openers) + 1
  BY FilesFacts, FS_Interval DEF Files
<1> QED BY <1>3, <1>4, FilesFacts

(* What CREATE TABLE IF NOT EXISTS makes of a database.                    *)
LEMMA CreatedFacts ==
  ASSUME NEW d \in Database, NEW t \in Allowed
  PROVE  /\ Created(d, t) \in Database
         /\ Created(d, t).tables = d.tables \cup {t}
         /\ Created(d, t).version = d.version /\ Created(d, t).polled = d.polled
         /\ Created(d, t).rows = d.rows
         /\ Created(d, t).remote = (d.remote \/ (t = "sync_polling" /\ t \notin d.tables))
  BY DEF Created, Database, Tables

(* No version is not a version.                                            *)
LEMMA NoVersionIsNone == NoVersion \notin Nat /\ NoVersion # 30 /\ \A n \in 23 .. 29 : n # NoVersion
  BY SchemaAssumption

-----------------------------------------------------------------------------
(* Any database of FirstFiles, or none, is a coherent start.               *)
LEMMA FirstCoherent ==
  ASSUME NEW d \in FirstFiles
  PROVE  d \in Database /\ Coherent(d) /\ (d.rows => Populated(d))
<1> USE NoVersionIsNone
<1>1. \A v \in Nat : /\ TablesOf(v) \subseteq Tables /\ {"meta", "regen_locks", "token_events"} \subseteq TablesOf(v)
                     /\ v > 23 => "child_discovery_requests" \in TablesOf(v)
                     /\ v > 24 => "operational_events" \in TablesOf(v)
                     /\ v > 25 => "sync_polling" \in TablesOf(v)
                     /\ v > 26 => "source_lifecycle_runtime" \in TablesOf(v)
                     /\ "sync_cache" \in TablesOf(v) => v < 26
                     /\ TablesOf(v) \subseteq Usual
  BY DEF TablesOf, Tables, Allowed, Usual
<1>2. Allowed \subseteq TablesOf(30)
  BY DEF TablesOf, Allowed
<1>3. \A v \in Nat : /\ Left(v).version = v /\ Left(v).tables = TablesOf(v)
                     /\ Left(v).remote = (v > 29) /\ Left(v).polled = (v < 30)
                     /\ Left(v).rows = (v \in 23 .. 30) /\ Left(v) \in Database
  BY <1>1 DEF Left, Database
<1>7. CASE d \in {Left(v) : v \in FirstVersions}
  <2>1. PICK v \in Nat : d = Left(v)
    BY <1>7, SchemaAssumption
  <2>2. d.version = v /\ d.tables = TablesOf(v) /\ d \in Database
    BY <1>3, <2>1
  <2>3. (d.remote <=> v > 29) /\ (d.polled <=> v < 30) /\ (d.rows <=> v \in 23 .. 30)
    BY <1>3, <2>1
  <2>4. Coherent(d)
    <3>1. v = 30 => Allowed \subseteq d.tables
      BY <1>2, <2>2
    <3>2. "meta" \in d.tables
      BY <1>1, <2>2
    <3>3. v = 30 => ~ d.polled /\ d.remote
      BY <2>3
    <3>4. v \in 23 .. 29 =>
            /\ {"meta", "regen_locks", "token_events"} \subseteq d.tables
            /\ v > 23 => "child_discovery_requests" \in d.tables
            /\ v > 24 => "operational_events" \in d.tables
            /\ v > 25 => "sync_polling" \in d.tables
            /\ v = 29 => "source_lifecycle_runtime" \in d.tables
      BY <1>1, <2>2
    <3> QED BY <2>2, <3>1, <3>2, <3>3, <3>4 DEF Coherent
  <2>5. d.rows => Populated(d)
    BY <1>1, <2>2, <2>3 DEF Populated
  <2> QED BY <2>2, <2>4, <2>5
<1>4. ASSUME d \in Database, d.version \in {25, 30, NoVersion}, ~ d.rows,
             d.version = 25 => TablesOf(25) \subseteq d.tables,
             d.version # 25 => TablesOf(30) \subseteq d.tables /\ d.remote /\ ~ d.polled
      PROVE  Coherent(d)
  BY <1>1, <1>2, <1>4 DEF Coherent
<1>8. Left(30).remote = TRUE /\ Left(30).polled = FALSE
  <2>1. (30 > 29) = TRUE /\ (30 < 30) = FALSE
    BY SMT
  <2>2. Left(30).remote = (30 > 29) /\ Left(30).polled = (30 < 30)
    BY Zenon DEF Left
  <2> QED BY <2>1, <2>2, Zenon
<1>9. \A v \in {25, 30} : Left(v) \in Database /\ Left(v).version = v /\ Left(v).tables = TablesOf(v)
  BY <1>3
<1>5. CASE \E v \in {25, 30} : d = [Left(v) EXCEPT !.tables = @ \cup {"path_observations"}, !.rows = FALSE]
  <2>1. PICK v \in {25, 30} : d = [Left(v) EXCEPT !.tables = @ \cup {"path_observations"}, !.rows = FALSE]
    BY <1>5
  <2>2. Left(v) \in Database
    BY <1>9
  <2>3. /\ d.version = Left(v).version /\ Left(v).tables \subseteq d.tables /\ d \in Database /\ ~ d.rows
        /\ d.remote = Left(v).remote /\ d.polled = Left(v).polled
    BY <2>1, <2>2 DEF Database, Tables
  <2> QED BY <1>4, <1>8, <1>9, <2>3
<1>6. CASE d = [Left(30) EXCEPT !.version = NoVersion, !.rows = FALSE]
  <2>1. Left(30) \in Database
    BY <1>9
  <2>2. /\ d.version = NoVersion /\ Left(30).tables \subseteq d.tables /\ d \in Database /\ ~ d.rows
        /\ d.remote = Left(30).remote /\ d.polled = Left(30).polled
    BY <1>6, <2>1 DEF Database, Tables
  <2> QED BY <1>4, <1>8, <1>9, <2>2
<1> QED BY <1>5, <1>6, <1>7 DEF FirstFiles

(* An empty file is coherent, and has no rows.                             *)
LEMMA EmptyCoherent == Empty \in Database /\ Coherent(Empty) /\ ~ Empty.rows /\ Empty.version = NoVersion
  BY NoVersionIsNone DEF Empty, Database, Coherent

(* The start.                                                              *)
LEMMA SchemaInvInit == SchemaInit => SchemaInv
<1> SUFFICES ASSUME SchemaInit PROVE SchemaInv
  OBVIOUS
<1>1. /\ file \in Files \cup {0} /\ disk \in [Files -> Database] /\ \A f \in Files : Coherent(disk[f])
      /\ file # 0 /\ disk[file].rows => Populated(disk[file])
  <2>1. CASE file = 0 /\ disk = [f \in Files |-> Empty]
    BY <2>1, EmptyCoherent
  <2>2. CASE file = 1 /\ \E d \in FirstFiles : disk = [[f \in Files |-> Empty] EXCEPT ![1] = d]
    <3>1. PICK d \in FirstFiles : disk = [[f \in Files |-> Empty] EXCEPT ![1] = d]
      BY <2>2
    <3>2. d \in Database /\ Coherent(d) /\ (d.rows => Populated(d)) /\ 1 \in Files
      BY FirstCoherent, FilesFacts
    <3>3. disk[1] = d /\ \A f \in Files \ {1} : disk[f] = Empty
      BY <3>1, <3>2
    <3> QED BY <2>2, <3>1, <3>2, <3>3, EmptyCoherent
  <2> QED BY <2>1, <2>2 DEF SchemaInit
<1>2. \A p \in Openers : doing[p] = "away" /\ opened[p] = 0 /\ seen[p] = {} /\ at[p] = 0
  BY DEF SchemaInit
<1>3. SchemaTyped
  <2>1. /\ doing \in [Openers -> Doings] /\ opened \in [Openers -> Files \cup {0}]
        /\ seen \in [Openers -> SUBSET Tables] /\ at \in [Openers -> Nat \cup {NoVersion}]
        /\ overlapped \in BOOLEAN
    BY DEF SchemaInit, Doings
  <2> QED BY <1>1, <1>2, <2>1 DEF SchemaTyped, Upgrading
<1>4. Alone
  BY <1>1, <1>2 DEF Alone
<1>5. RowsAtPath
  BY <1>1, <1>2 DEF RowsAtPath, Handles, Upgrading
<1> QED BY <1>3, <1>4, <1>5 DEF SchemaInv

-----------------------------------------------------------------------------
(* The other processes go on where they were.                              *)
OthersStay(p) ==
  \A q \in Openers : q # p => /\ doing'[q] = doing[q] /\ opened'[q] = opened[q]
                              /\ seen'[q] = seen[q] /\ at'[q] = at[q]

(* A step that writes no file.                                             *)
LEMMA QuietStep ==
  ASSUME SchemaInv, NEW p \in Openers, OthersStay(p), SchemaTyped',
         UNCHANGED <<disk, overlapped>>, file' \in {file, 0},
         opened'[p] # 0 => opened'[p] = opened[p],
         ~ overlapped /\ opened'[p] # 0 => Relies(p, disk[opened[p]])',
         file' # 0 /\ disk[file].rows => Handles(p, disk[file])'
  PROVE  SchemaInv'
<1>1. Alone'
  <2> SUFFICES ASSUME ~ overlapped, NEW q \in Openers, opened'[q] # 0 PROVE Relies(q, disk[opened[q]])'
    BY DEF Alone, SchemaInv
  <2>1. CASE q = p
    BY <2>1
  <2>2. CASE q # p
    BY <2>2 DEF SchemaInv, Alone, Relies, OthersStay
  <2> QED BY <2>1, <2>2
<1>2. RowsAtPath'
  <2> SUFFICES ASSUME file' # 0, disk[file].rows, NEW q \in Openers PROVE Handles(q, disk[file])'
    BY DEF RowsAtPath, SchemaInv, Populated
  <2>1. CASE q = p
    BY <2>1
  <2>2. CASE q # p
    BY <2>2 DEF SchemaInv, RowsAtPath, Handles, OthersStay, MetSetAside, ReadAcrossUpgrade
  <2> QED BY <2>1, <2>2
<1> QED BY <1>1, <1>2 DEF SchemaInv

(* A statement on the open file, alone with it or while it is created.     *)
LEMMA WriteStep ==
  ASSUME SchemaInv, NEW p \in Openers, opened[p] # 0, NEW d \in Database, d.rows = Here(p).rows,
         NEW to \in {"create", "open"} \cup Upgrading,
         NEW v \in Nat \cup {NoVersion}, to \in Upgrading => v \in 23 .. 29,
         to \in {"recreate", "copy"} => v \in {27, 28},
         Writes(p, d, to), at' = [at EXCEPT ![p] = v],
         ~ overlapped => Coherent(d) /\ Relies(p, d)',
         ~ overlapped /\ doing[p] = "create" =>
            d.version \in {Here(p).version, 30} /\ Here(p).tables \subseteq d.tables,
         opened[p] = file /\ d.rows => Populated(d) /\ Handles(p, d)'
                                       /\ ("sync_cache" \in d.tables => "sync_cache" \in Here(p).tables)
  PROVE  SchemaInv'
<1>1. opened[p] \in Files /\ Here(p) = disk[opened[p]] /\ Here(p) \in Database
  BY DEF SchemaInv, SchemaTyped, Here
<1>2. /\ UNCHANGED <<file, opened, seen>>
      /\ disk' = [disk EXCEPT ![opened[p]] = d] /\ doing' = [doing EXCEPT ![p] = to]
  BY DEF Writes
<1>3. OthersStay(p) /\ doing'[p] = to /\ at'[p] = v
  BY <1>2 DEF OthersStay, SchemaInv, SchemaTyped
<1>4. /\ disk'[opened[p]] = d /\ disk' \in [Files -> Database]
      /\ \A f \in Files : f # opened[p] => disk'[f] = disk[f]
  BY <1>1, <1>2 DEF SchemaInv, SchemaTyped
<1>5. SchemaTyped'
  <2>1. doing' \in [Openers -> Doings] /\ at' \in [Openers -> Nat \cup {NoVersion}] /\ overlapped' \in BOOLEAN
    BY <1>2 DEF SchemaInv, SchemaTyped, Doings, Writes
  <2>2. \A q \in Openers : /\ doing'[q] \in {"away", "again"} <=> opened'[q] = 0
                           /\ doing'[q] \in Upgrading => at'[q] \in 23 .. 29
                           /\ doing'[q] \in {"recreate", "copy"} => at'[q] \in {27, 28}
    <3> TAKE q \in Openers
    <3>1. CASE q = p
      BY <1>2, <1>3, <3>1 DEF Upgrading
    <3>2. CASE q # p
      BY <1>2, <1>3, <3>2 DEF OthersStay, SchemaInv, SchemaTyped
    <3> QED BY <3>1, <3>2
  <2> QED BY <1>2, <1>4, <2>1, <2>2 DEF SchemaInv, SchemaTyped
<1>6. Alone'
  <2> SUFFICES ASSUME ~ overlapped' PROVE (\A f \in Files : Coherent(disk'[f]))
                                          /\ \A q \in Openers : opened'[q] # 0 => Relies(q, disk[opened[q]])'
    BY DEF Alone, Coherent
  <2>1. ~ overlapped /\ (doing[p] = "create" \/ \A q \in Openers \ {p} : opened[q] # opened[p])
    BY DEF Writes
  <2>2. \A f \in Files : Coherent(disk'[f])
    BY <1>4, <2>1 DEF SchemaInv, Alone
  <2>3. ASSUME NEW q \in Openers, opened'[q] # 0
        PROVE  Relies(q, disk[opened[q]])'
    <3>1. CASE q = p
      BY <1>2, <1>4, <2>1, <3>1 DEF Relies
    <3>2. CASE q # p /\ opened[q] # opened[p]
      <4>1. disk'[opened'[q]] = disk[opened[q]] /\ Relies(q, disk[opened[q]])
        BY <1>2, <1>4, <2>1, <2>3, <3>2 DEF SchemaInv, SchemaTyped, Alone
      <4> QED BY <1>3, <3>2, <4>1 DEF OthersStay, Relies
    <3>3. CASE q # p /\ opened[q] = opened[p]
      <4>1. doing[p] = "create" /\ d.version \in {Here(p).version, 30} /\ Here(p).tables \subseteq d.tables
        BY <2>1, <3>3
      <4>2. Relies(p, Here(p)) /\ Relies(q, Here(p))
        BY <1>1, <2>1, <3>3 DEF SchemaInv, Alone
      <4>3. Here(p).version \in {NoVersion, 30}
        BY <4>1, <4>2 DEF Relies
      <4>4. doing[q] \notin Upgrading
        BY <4>2, <4>3, NoVersionIsNone DEF Relies, SchemaInv, SchemaTyped
      <4>5. disk'[opened'[q]] = d /\ doing'[q] = doing[q] /\ at'[q] = at[q]
        BY <1>2, <1>3, <1>4, <3>3 DEF OthersStay
      <4>6. doing[q] = "create" => \A i \in CreationSteps : i < at[q] => Creation[i] \in d.tables
        BY <4>1, <4>2 DEF Relies
      <4>7. doing[q] = "create" => at[q] \in 1 .. Len(Creation) + 1 /\ d.version \in {NoVersion, 30}
        BY <4>1, <4>2, <4>3 DEF Relies
      <4>8. doing[q] = "open" => d.version = 30
        BY <4>1, <4>2 DEF Relies
      <4> QED BY <4>4, <4>5, <4>6, <4>7, <4>8 DEF Relies, Upgrading
    <3> QED BY <3>1, <3>2, <3>3
  <2> QED BY <2>2, <2>3
<1>7. RowsAtPath'
  <2> SUFFICES ASSUME file' # 0, disk'[file'].rows
               PROVE  Populated(disk'[file']) /\ \A q \in Openers : Handles(q, disk[file])'
    BY DEF RowsAtPath, Populated
  <2>1. disk[file].rows /\ file' = file /\ file \in Files
    BY <1>1, <1>2, <1>4 DEF SchemaInv, SchemaTyped
  <2>2. opened[p] = file /\ \A q \in Openers : Handles(q, disk[file])
    BY <1>2, <2>1 DEF SchemaInv, RowsAtPath, Handles
  <2>3. disk'[file'] = d /\ Populated(d) /\ Handles(p, d)' /\ ("sync_cache" \in d.tables => "sync_cache" \in Here(p).tables)
    BY <1>1, <1>4, <2>1, <2>2
  <2>4. ASSUME NEW q \in Openers
        PROVE  Handles(q, disk[file])'
    <3>1. CASE q = p
      BY <2>3, <3>1 DEF Handles, MetSetAside, ReadAcrossUpgrade
    <3>2. CASE q # p
      BY <1>1, <1>2, <1>3, <2>1, <2>2, <2>3, <3>2 DEF Handles, MetSetAside, ReadAcrossUpgrade, OthersStay
    <3> QED BY <3>1, <3>2
  <2> QED BY <2>3, <2>4
<1> QED BY <1>5, <1>6, <1>7 DEF SchemaInv

(* What a step finds: where the process is in _connect, and its file.      *)
LEMMA Finds ==
  ASSUME SchemaInv, NEW p \in Openers, doing[p] \notin {"away", "again"}
  PROVE  /\ opened[p] \in Files /\ opened[p] # 0 /\ Here(p) = disk[opened[p]] /\ Here(p) \in Database
         /\ ~ overlapped => Coherent(Here(p)) /\ Relies(p, Here(p))
         /\ opened[p] = file /\ Here(p).rows => Populated(Here(p)) /\ Handles(p, Here(p))
<1>1. opened[p] \in Files /\ opened[p] # 0 /\ Here(p) = disk[opened[p]] /\ Here(p) \in Database
  BY DEF SchemaInv, SchemaTyped, Here
<1> QED BY <1>1, FilesFacts DEF SchemaInv, Alone, RowsAtPath

(* A process gives the file up: it closed it, it failed, or it died.       *)
LEMMA GivesUp ==
  ASSUME SchemaInv, NEW p \in Openers, NEW to \in {"away", "again"},
         doing' = [doing EXCEPT ![p] = to], opened' = [opened EXCEPT ![p] = 0],
         file' \in {file, 0}, UNCHANGED <<disk, seen, at, overlapped>>
  PROVE  SchemaInv'
<1>1. doing'[p] = to /\ opened'[p] = 0 /\ OthersStay(p)
  BY DEF SchemaInv, SchemaTyped, OthersStay
<1>2. SchemaTyped'
  <2>1. doing' \in [Openers -> Doings] /\ opened' \in [Openers -> Files \cup {0}]
    BY DEF SchemaInv, SchemaTyped, Doings
  <2>2. \A q \in Openers : /\ doing'[q] \in {"away", "again"} <=> opened'[q] = 0
                           /\ doing'[q] \in Upgrading => at'[q] \in 23 .. 29
                           /\ doing'[q] \in {"recreate", "copy"} => at'[q] \in {27, 28}
    BY <1>1 DEF SchemaInv, SchemaTyped, OthersStay, Upgrading
  <2> QED BY <2>1, <2>2 DEF SchemaInv, SchemaTyped
<1>3. Handles(p, disk[file])'
  BY <1>1 DEF Handles, Upgrading
<1> QED BY <1>1, <1>2, <1>3, QuietStep

(* A process looks at its file.                                            *)
LEMMA LooksOn ==
  ASSUME SchemaInv, NEW p \in Openers, doing[p] \notin {"away", "again"},
         NEW to \in {"version", "reset", "create", "open", "script"}, NEW v \in Nat \cup {NoVersion},
         doing' = [doing EXCEPT ![p] = to], at' = [at EXCEPT ![p] = v],
         seen' \in [Openers -> SUBSET Tables], \A q \in Openers : q # p => seen'[q] = seen[q],
         UNCHANGED <<file, disk, opened, overlapped>>,
         to = "script" => v \in 23 .. 29,
         ~ overlapped => Relies(p, Here(p))',
         opened[p] = file /\ Here(p).rows => Handles(p, Here(p))'
  PROVE  SchemaInv'
<1>1. doing'[p] = to /\ at'[p] = v /\ OthersStay(p)
  BY DEF SchemaInv, SchemaTyped, OthersStay
<1>2. SchemaTyped'
  <2>1. doing' \in [Openers -> Doings] /\ at' \in [Openers -> Nat \cup {NoVersion}]
    BY DEF SchemaInv, SchemaTyped, Doings, Upgrading
  <2>2. \A q \in Openers : /\ doing'[q] \in {"away", "again"} <=> opened'[q] = 0
                           /\ doing'[q] \in Upgrading => at'[q] \in 23 .. 29
                           /\ doing'[q] \in {"recreate", "copy"} => at'[q] \in {27, 28}
    BY <1>1 DEF SchemaInv, SchemaTyped, OthersStay, Upgrading
  <2> QED BY <2>1, <2>2 DEF SchemaInv, SchemaTyped
<1>3. ~ overlapped /\ opened'[p] # 0 => Relies(p, disk[opened[p]])'
  BY DEF Here
<1>4. file' # 0 /\ disk[file].rows => Handles(p, disk[file])'
  <2> SUFFICES ASSUME file # 0, disk[file].rows PROVE Handles(p, disk[file])'
    OBVIOUS
  <2>1. opened[p] = file /\ Here(p) = disk[file]
    BY Finds DEF SchemaInv, RowsAtPath, Handles, Here
  <2> QED BY <2>1 DEF Here, Handles, MetSetAside, ReadAcrossUpgrade
<1> QED BY <1>1, <1>2, <1>3, <1>4, QuietStep

(* The tables are read, then the version.                                  *)
LEMMA LooksStep ==
  ASSUME SchemaInv, NEW p \in Openers, LookAtTables(p) \/ LookAtVersion(p)
  PROVE  SchemaInv'
<1>1. doing[p] \in {"tables", "version"}
  BY DEF LookAtTables, LookAtVersion, Step
<1>2. Here(p) \in Database /\ (~ overlapped => Coherent(Here(p)))
      /\ (opened[p] = file /\ Here(p).rows => Populated(Here(p)) /\ Handles(p, Here(p)))
  BY <1>1, Finds
<1>3. CASE LookAtTables(p)
  <2> DEFINE to == IF "meta" \in Here(p).tables THEN "version" ELSE "create"
  <2>1. /\ doing' = [doing EXCEPT ![p] = to] /\ at' = [at EXCEPT ![p] = 1]
        /\ seen' = [seen EXCEPT ![p] = Here(p).tables] /\ UNCHANGED <<file, disk, opened, overlapped>>
    BY <1>3 DEF LookAtTables, Step
  <2>2. doing'[p] = to /\ at'[p] = 1 /\ seen'[p] = Here(p).tables
    BY <2>1 DEF SchemaInv, SchemaTyped
  <2>3. seen' \in [Openers -> SUBSET Tables] /\ \A q \in Openers : q # p => seen'[q] = seen[q]
    BY <1>2, <2>1 DEF SchemaInv, SchemaTyped, Database
  <2>4. ~ overlapped => Relies(p, Here(p))'
    <3>1. Here(p)' = Here(p)
      BY <2>1 DEF Here
    <3>2. to = "create" /\ ~ overlapped => Here(p).version = NoVersion
      BY <1>2 DEF Coherent
    <3>3. 1 \in 1 .. Len(Creation) + 1 /\ \A i \in CreationSteps : ~ i < 1
      BY DEF Creation, CreationSteps
    <3> QED BY <2>2, <3>1, <3>2, <3>3 DEF Relies, Upgrading
  <2>5. opened[p] = file /\ Here(p).rows => Handles(p, Here(p))'
    <3> SUFFICES ASSUME opened[p] = file, Here(p).rows PROVE Handles(p, Here(p))'
      OBVIOUS
    <3>1. Here(p)' = Here(p) /\ opened'[p] = file /\ file' = file
      BY <2>1 DEF Here
    <3>2. to = "version" /\ Here(p).tables \subseteq Usual
      BY <1>2 DEF Populated
    <3> QED BY <2>2, <3>1, <3>2 DEF Handles, Upgrading
  <2> HIDE DEF to
  <2>6. to \in {"version", "create"}
    BY DEF to
  <2> QED BY <1>1, <2>1, <2>3, <2>4, <2>5, <2>6, LooksOn
<1>4. CASE LookAtVersion(p)
  <2> DEFINE v == Here(p).version
             to == Verdict(v, seen[p])
  <2>1. /\ doing' = [doing EXCEPT ![p] = to] /\ at' = [at EXCEPT ![p] = v]
        /\ UNCHANGED <<file, disk, opened, seen, overlapped>> /\ doing[p] = "version"
    BY <1>4 DEF LookAtVersion, Step
  <2>2. doing'[p] = to /\ at'[p] = v /\ v \in Nat \cup {NoVersion}
    BY <1>2, <2>1 DEF SchemaInv, SchemaTyped, Database
  <2>3. /\ to \in {"reset", "open", "script"}
        /\ to = "open" => v = 30
        /\ to = "script" => v \in 23 .. 29
        /\ to = "reset" => v = NoVersion \/ ~ seen[p] \subseteq Expected(v) \/ v \notin 23 .. 30
    BY <2>2 DEF Verdict, SCHEMA_VERSION
  <2> HIDE DEF to
  <2>4. Relies(p, Here(p))'
    <3>1. Here(p)' = Here(p)
      BY <2>1 DEF Here
    <3> QED BY <2>2, <2>3, <3>1 DEF Relies, Upgrading
  <2>5. opened[p] = file /\ Here(p).rows => Handles(p, Here(p))'
    <3> SUFFICES ASSUME opened[p] = file, Here(p).rows PROVE Handles(p, Here(p))'
      OBVIOUS
    <3>1. Here(p)' = Here(p) /\ opened'[p] = file /\ file' = file /\ seen'[p] = seen[p]
      BY <2>1 DEF Here
    <3>2. v \in 23 .. 30 /\ ("sync_cache" \in Here(p).tables => v < 26)
      BY <1>2 DEF Populated
    <3>3. seen[p] \subseteq Usual
      BY <1>2, <2>1 DEF Handles
    <3>4. to = "reset" => Legacy \in seen[p] \/ ("sync_cache" \in seen[p] /\ v >= 26)
      <4>1. to = "reset" => ~ seen[p] \subseteq Expected(v)
        BY <2>3, <3>2, SchemaAssumption
      <4>2. v \in {23, 24, 25} => Usual \subseteq Expected(v) \cup {Legacy}
        BY DEF Usual, Expected
      <4>3. Usual \subseteq Expected(v) \cup {Legacy, "sync_cache"}
        BY DEF Usual, Expected
      <4> QED BY <3>2, <3>3, <4>1, <4>2, <4>3
    <3> QED BY <2>2, <2>3, <3>1, <3>2, <3>4 DEF Handles, Upgrading, MetSetAside, ReadAcrossUpgrade
  <2> QED BY <1>1, <2>1, <2>2, <2>3, <2>4, <2>5, LooksOn DEF SchemaInv, SchemaTyped
<1> QED BY <1>3, <1>4

(* The file at the path is opened, or a new one made.                      *)
LEMMA OpenStep ==
  ASSUME SchemaInv, NEW p \in Openers, Open(p)
  PROVE  SchemaInv'
<1>1. /\ doing[p] \in {"away", "again"} /\ doing' = [doing EXCEPT ![p] = "tables"]
      /\ UNCHANGED <<seen, at, overlapped>>
  BY DEF Open, Step
<1>2. opened[p] = 0
  BY <1>1 DEF SchemaInv, SchemaTyped
<1>3. PICK f \in Files : /\ opened' = [opened EXCEPT ![p] = f] /\ file' = f
                         /\ \/ file # 0 /\ f = file /\ disk' = disk
                            \/ file = 0 /\ f \notin Held /\ disk' = [disk EXCEPT ![f] = Empty]
  <2>1. CASE file # 0
    BY <2>1 DEF Open, SchemaInv, SchemaTyped
  <2>2. CASE file = 0
    <3> DEFINE f == CHOOSE g \in Files : g \notin Held
    <3>1. f \in Files /\ f \notin Held
      BY <2>2, FreshFile DEF SchemaInv, SchemaTyped
    <3>2. opened' = [opened EXCEPT ![p] = f] /\ file' = f /\ disk' = [disk EXCEPT ![f] = Empty]
      BY <2>2 DEF Open
    <3> HIDE DEF f
    <3> QED BY <2>2, <3>1, <3>2
  <2> QED BY <2>1, <2>2
<1>4. OthersStay(p) /\ doing'[p] = "tables" /\ opened'[p] = f
  BY <1>1, <1>3 DEF OthersStay, SchemaInv, SchemaTyped
<1>5. SchemaTyped'
  <2>1. /\ doing' \in [Openers -> Doings] /\ opened' \in [Openers -> Files \cup {0}]
        /\ disk' \in [Files -> Database] /\ file' \in Files \cup {0}
    BY <1>1, <1>3, EmptyCoherent DEF SchemaInv, SchemaTyped, Doings
  <2>2. \A q \in Openers : /\ doing'[q] \in {"away", "again"} <=> opened'[q] = 0
                           /\ doing'[q] \in Upgrading => at'[q] \in 23 .. 29
                           /\ doing'[q] \in {"recreate", "copy"} => at'[q] \in {27, 28}
    BY <1>4, FilesFacts DEF SchemaInv, SchemaTyped, OthersStay, Upgrading
  <2> QED BY <1>1, <2>1, <2>2 DEF SchemaInv, SchemaTyped
<1>6. Relies(p, disk[opened[p]])' /\ Handles(p, disk[file])'
  BY <1>3, <1>4 DEF Relies, Handles, Upgrading
<1>7. CASE file # 0
  <2>1. disk' = disk /\ file' = file
    BY <1>3, <1>7
  <2>2. Alone'
    BY <1>1, <1>4, <1>6, <2>1 DEF SchemaInv, Alone, OthersStay, Relies
  <2>3. RowsAtPath'
    BY <1>4, <1>6, <2>1 DEF SchemaInv, RowsAtPath, OthersStay, Handles, Populated, MetSetAside, ReadAcrossUpgrade
  <2> QED BY <1>5, <2>2, <2>3 DEF SchemaInv
<1>8. CASE file = 0
  <2>1. disk' = [disk EXCEPT ![f] = Empty] /\ file' = f /\ f \notin Held
    BY <1>3, <1>8
  <2>2. disk'[f] = Empty /\ \A g \in Files : g # f => disk'[g] = disk[g]
    BY <2>1 DEF SchemaInv, SchemaTyped
  <2>3. \A q \in Openers : q # p /\ opened[q] # 0 => disk'[opened[q]] = disk[opened[q]]
    BY <2>1, <2>2 DEF Held, SchemaInv, SchemaTyped
  <2>4. Alone'
    <3> SUFFICES ASSUME ~ overlapped PROVE (\A g \in Files : Coherent(disk'[g]))
                                           /\ \A q \in Openers : opened'[q] # 0 => Relies(q, disk[opened[q]])'
      BY <1>1 DEF Alone, Coherent
    <3>1. \A g \in Files : Coherent(disk'[g])
      BY <2>2, EmptyCoherent DEF SchemaInv, Alone
    <3>2. \A q \in Openers : opened'[q] # 0 => Relies(q, disk[opened[q]])'
      BY <1>4, <1>6, <2>3 DEF SchemaInv, Alone, OthersStay, Relies
    <3> QED BY <3>1, <3>2
  <2>5. RowsAtPath'
    BY <2>1, <2>2, EmptyCoherent DEF RowsAtPath
  <2> QED BY <1>5, <2>4, <2>5 DEF SchemaInv
<1> QED BY <1>7, <1>8


(* An exception, a close or the end of the process.                        *)
LEMMA LeavesStep ==
  ASSUME SchemaInv, NEW p \in Openers, Close(p) \/ Dies(p) \/ Reset(p) \/ (Fails(p) /\ UNCHANGED at)
  PROVE  SchemaInv'
<1>1. PICK to \in {"away", "again"} :
        /\ doing' = [doing EXCEPT ![p] = to] /\ opened' = [opened EXCEPT ![p] = 0]
        /\ file' \in {file, 0} /\ UNCHANGED <<disk, seen, at, overlapped>>
  BY DEF Close, Dies, Reset, Fails, Step
<1> QED BY <1>1, GivesUp

(* A script of the creation, or the version that ends it.                  *)
LEMMA CreateStep ==
  ASSUME SchemaInv, NEW p \in Openers, Create(p)
  PROVE  SchemaInv'
<1>1. doing[p] = "create"
  BY DEF Create
<1>2. /\ opened[p] # 0 /\ Here(p) \in Database
      /\ ~ overlapped => Coherent(Here(p)) /\ Relies(p, Here(p))
      /\ opened[p] = file => ~ Here(p).rows
  BY <1>1, Finds DEF Handles
<1>3. at[p] \in Nat \cup {NoVersion}
  BY DEF SchemaInv, SchemaTyped
<1>4. CASE at[p] \in CreationSteps /\ ~ Raises(Here(p), Creation[at[p]])
  <2>1. Creation[at[p]] \in Allowed /\ at[p] \in 1 .. 7
    BY <1>4 DEF Creation, CreationSteps, Allowed
  <2>2. PICK t \in Allowed : t = Creation[at[p]]
    BY <2>1
  <2>3. PICK d \in Database : d = Created(Here(p), t)
    BY <1>2, CreatedFacts
  <2>4. Writes(p, d, "create") /\ at' = [at EXCEPT ![p] = at[p] + 1]
    BY <1>4, <2>2, <2>3 DEF Create
  <2>5. /\ d.tables = Here(p).tables \cup {t} /\ d.version = Here(p).version
        /\ d.polled = Here(p).polled /\ d.rows = Here(p).rows
        /\ d.remote = (Here(p).remote \/ (t = "sync_polling" /\ t \notin Here(p).tables))
    BY <1>2, <2>3, CreatedFacts
  <2>6. doing'[p] = "create" /\ at'[p] = at[p] + 1 /\ at[p] + 1 \in Nat
    BY <2>1, <2>4 DEF Writes, SchemaInv, SchemaTyped
  <2>7. ~ overlapped => Coherent(d) /\ Relies(p, d)'
    <3> SUFFICES ASSUME ~ overlapped PROVE Coherent(d) /\ Relies(p, d)'
      OBVIOUS
    <3>1. Here(p).version \in {NoVersion, 30}
          /\ \A i \in CreationSteps : i < at[p] => Creation[i] \in Here(p).tables
      BY <1>1, <1>2 DEF Relies
    <3>2. d.version \notin 23 .. 29
      BY <2>5, <3>1, NoVersionIsNone
    <3>3. Coherent(d)
      BY <1>2, <2>5, <3>1, <3>2 DEF Coherent
    <3>4. \A i \in CreationSteps : i < at[p] + 1 => Creation[i] \in d.tables
      BY <2>1, <2>2, <2>5, <3>1 DEF CreationSteps
    <3>5. at[p] + 1 \in 1 .. Len(Creation) + 1
      BY <2>1 DEF Creation
    <3> QED BY <2>5, <2>6, <3>1, <3>3, <3>4, <3>5 DEF Relies, Upgrading
  <2> QED BY <1>1, <1>2, <2>4, <2>5, <2>6, <2>7, WriteStep DEF Upgrading
<1>5. CASE at[p] \in CreationSteps /\ Raises(Here(p), Creation[at[p]])
  BY <1>5, LeavesStep DEF Create
<1>6. CASE at[p] \notin CreationSteps
  <2>1. PICK d \in Database : d = [Here(p) EXCEPT !.version = 30]
    BY <1>2 DEF Database
  <2>2. Writes(p, d, "open") /\ at' = [at EXCEPT ![p] = at[p]]
    BY <1>6, <2>1 DEF Create, SCHEMA_VERSION, SchemaInv, SchemaTyped
  <2>3. /\ d.tables = Here(p).tables /\ d.version = 30 /\ d.polled = Here(p).polled
        /\ d.rows = Here(p).rows /\ d.remote = Here(p).remote
    BY <1>2, <2>1 DEF Database
  <2>4. doing'[p] = "open"
    BY <2>2 DEF Writes, SchemaInv, SchemaTyped
  <2>5. ~ overlapped => Coherent(d) /\ Relies(p, d)'
    <3> SUFFICES ASSUME ~ overlapped PROVE Coherent(d) /\ Relies(p, d)'
      OBVIOUS
    <3>1. /\ at[p] \in 1 .. Len(Creation) + 1 /\ Here(p).version \in {NoVersion, 30}
          /\ \A i \in CreationSteps : i < at[p] => Creation[i] \in Here(p).tables
      BY <1>1, <1>2 DEF Relies
    <3>2. at[p] = 8
      BY <1>6, <3>1 DEF Creation, CreationSteps
    <3>3. \A i \in 1 .. 7 : Creation[i] \in Here(p).tables
      BY <3>1, <3>2 DEF Creation, CreationSteps
    <3>4. Allowed \subseteq d.tables
      BY <2>3, <3>3 DEF Creation, Allowed
    <3>5. Coherent(d)
      BY <1>2, <2>3, <3>1, <3>4 DEF Coherent, Allowed
    <3> QED BY <2>3, <2>4, <3>5 DEF Relies, Upgrading
  <2> QED BY <1>1, <1>2, <1>3, <2>2, <2>3, <2>5, WriteStep DEF Upgrading
<1> QED BY <1>4, <1>5, <1>6

(* What a process finds that upgrades.                                     *)
LEMMA UpgradeFinds ==
  ASSUME SchemaInv, NEW p \in Openers, doing[p] \in Upgrading
  PROVE  /\ opened[p] # 0 /\ Here(p) \in Database /\ at[p] \in 23 .. 29
         /\ ~ overlapped => Coherent(Here(p)) /\ Relies(p, Here(p)) /\ Here(p).version = at[p]
         /\ opened[p] = file /\ Here(p).rows =>
              Populated(Here(p)) /\ ("sync_cache" \in Here(p).tables => at[p] < 26)
<1>1. doing[p] \notin {"away", "again"}
  BY DEF Upgrading
<1> QED BY <1>1, Finds DEF SchemaInv, SchemaTyped, Relies, Handles

(* A statement of an upgrade that keeps the version.                       *)
LEMMA UpgradeStep ==
  ASSUME SchemaInv, NEW p \in Openers, doing[p] \in Upgrading,
         NEW d \in Database, NEW to \in {"stamp", "recreate", "copy"},
         Writes(p, d, to), UNCHANGED at, to # "stamp" => at[p] \in {27, 28},
         d.version = Here(p).version, d.rows = Here(p).rows, d.polled = Here(p).polled,
         d.tables \subseteq Here(p).tables \cup Allowed \cup {Legacy},
         Here(p).tables \ {"source_lifecycle_runtime"} \subseteq d.tables,
         at[p] \notin {27, 28} /\ "source_lifecycle_runtime" \in Here(p).tables
            => "source_lifecycle_runtime" \in d.tables,
         to = "stamp" => Ready(at[p], d),
         to = "copy" => "source_lifecycle_runtime" \in d.tables
  PROVE  SchemaInv'
<1>1. /\ opened[p] # 0 /\ Here(p) \in Database /\ at[p] \in 23 .. 29
      /\ ~ overlapped => Coherent(Here(p)) /\ Here(p).version = at[p]
      /\ opened[p] = file /\ Here(p).rows =>
           Populated(Here(p)) /\ ("sync_cache" \in Here(p).tables => at[p] < 26)
  BY UpgradeFinds
<1>2. at' = [at EXCEPT ![p] = at[p]] /\ doing'[p] = to /\ opened'[p] = opened[p] /\ file' = file /\ at'[p] = at[p]
  BY DEF Writes, SchemaInv, SchemaTyped
<1>3. doing[p] # "create"
  BY DEF Upgrading
<1>4. ~ overlapped => Coherent(d) /\ Relies(p, d)'
  <2> SUFFICES ASSUME ~ overlapped PROVE Coherent(d) /\ Relies(p, d)'
    OBVIOUS
  <2>1. d.version = at[p] /\ at[p] # NoVersion /\ at[p] # 30
    BY <1>1, NoVersionIsNone
  <2>2. Coherent(d)
    BY <1>1, <2>1 DEF Coherent
  <2> QED BY <1>2, <2>1, <2>2 DEF Relies, Upgrading
<1>5. "sync_cache" \in d.tables => "sync_cache" \in Here(p).tables
  BY DEF Allowed, Legacy
<1>6. opened[p] = file /\ d.rows => Populated(d) /\ Handles(p, d)'
  <2> SUFFICES ASSUME opened[p] = file, d.rows PROVE Populated(d) /\ Handles(p, d)'
    OBVIOUS
  <2>1. Populated(d)
    BY <1>1, <1>5 DEF Populated, Usual
  <2> QED BY <1>1, <1>2, <1>5, <2>1 DEF Handles, Upgrading
<1>7. to \in {"create", "open"} \cup Upgrading /\ (to \in {"recreate", "copy"} => at[p] \in {27, 28})
  BY DEF Upgrading
<1>8. at[p] \in Nat \cup {NoVersion} /\ at[p] \in 23 .. 29
  BY <1>1
<1>9. opened[p] = file /\ d.rows => Populated(d) /\ Handles(p, d)'
                                  /\ ("sync_cache" \in d.tables => "sync_cache" \in Here(p).tables)
  BY <1>5, <1>6
<1>10. at' = [at EXCEPT ![p] = at[p]]
  BY <1>2
<1>11. opened[p] # 0
  BY <1>1
<1> QED BY <1>3, <1>4, <1>7, <1>8, <1>9, <1>10, <1>11, WriteStep

(* The statements that make a table or a column.                           *)
LEMMA AddsStep ==
  ASSUME SchemaInv, NEW p \in Openers, AddTable(p) \/ SetAside(p) \/ Recreate(p) \/ AddColumn(p)
  PROVE  SchemaInv'
<1>1. doing[p] \in Upgrading /\ UNCHANGED at
  BY DEF AddTable, SetAside, Recreate, AddColumn, Upgrading
<1>2. opened[p] # 0 /\ Here(p) \in Database /\ at[p] \in 23 .. 29
  BY <1>1, UpgradeFinds
<1>3. "source_lifecycle_runtime" \in Allowed
  BY DEF Allowed
<1>4. ASSUME NEW t \in Allowed, NEW to \in {"stamp", "copy"}, Writes(p, Created(Here(p), t), to),
             to = "stamp" => Ready(at[p], [tables |-> {t}]) /\ at[p] # 29,
             to = "copy" => t = "source_lifecycle_runtime" /\ at[p] \in {27, 28}
      PROVE  SchemaInv'
  <2>1. PICK d \in Database : d = Created(Here(p), t)
    BY <1>2, CreatedFacts
  <2>2. /\ d.tables = Here(p).tables \cup {t} /\ d.version = Here(p).version
        /\ d.polled = Here(p).polled /\ d.rows = Here(p).rows
    BY <1>2, <2>1, CreatedFacts
  <2>3. Writes(p, d, to)
    BY <1>4, <2>1
  <2>4. to = "stamp" => Ready(at[p], d)
    BY <1>4, <2>2 DEF Ready
  <2>5. to = "copy" => "source_lifecycle_runtime" \in d.tables
    BY <1>4, <2>2
  <2> QED BY <1>1, <1>4, <2>2, <2>3, <2>4, <2>5, UpgradeStep
<1>5. CASE AddTable(p)
  <2>1. at[p] \in {23, 24, 25, 26}
    BY <1>5 DEF AddTable, Script
  <2>2. Script[at[p]] \in Allowed /\ Ready(at[p], [tables |-> {Script[at[p]]}])
    BY <2>1 DEF Script, Allowed, Ready
  <2>3. CASE Raises(Here(p), Script[at[p]])
    BY <1>5, <2>3, LeavesStep DEF AddTable
  <2>4. CASE ~ Raises(Here(p), Script[at[p]])
    BY <1>4, <1>5, <2>1, <2>2, <2>4 DEF AddTable
  <2> QED BY <2>3, <2>4
<1>6. CASE SetAside(p)
  <2>1. at[p] \in {27, 28}
    BY <1>6 DEF SetAside
  <2>2. CASE "source_lifecycle_runtime" \notin Here(p).tables
    <3>1. Ready(at[p], [tables |-> {"source_lifecycle_runtime"}])
      BY <2>1 DEF Ready
    <3>2. Writes(p, Created(Here(p), "source_lifecycle_runtime"), "stamp")
      BY <1>6, <2>2 DEF SetAside
    <3> QED BY <1>3, <1>4, <2>1, <3>1, <3>2
  <2>3. CASE "source_lifecycle_runtime" \in Here(p).tables /\ Legacy \in Here(p).tables
    BY <1>6, <2>3, LeavesStep DEF SetAside
  <2>4. CASE "source_lifecycle_runtime" \in Here(p).tables /\ Legacy \notin Here(p).tables
    <3> DEFINE after == [Here(p) EXCEPT !.tables = (@ \ {"source_lifecycle_runtime"}) \cup {Legacy}]
    <3>1. after \in Database
      BY <1>2 DEF Database, Tables
    <3>2. PICK d \in Database : d = after
      BY <3>1
    <3>3. /\ d.tables = (Here(p).tables \ {"source_lifecycle_runtime"}) \cup {Legacy}
          /\ d.version = Here(p).version /\ d.polled = Here(p).polled /\ d.rows = Here(p).rows
      BY <1>2, <3>2 DEF Database
    <3>4. Writes(p, d, "recreate")
      BY <1>6, <2>4, <3>2 DEF SetAside
    <3> QED BY <1>1, <2>1, <3>3, <3>4, UpgradeStep
  <2> QED BY <2>2, <2>3, <2>4
<1>7. CASE Recreate(p)
  <2>1. at[p] \in {27, 28}
    BY <1>7 DEF Recreate, SchemaInv, SchemaTyped
  <2> QED BY <1>3, <1>4, <1>7, <2>1 DEF Recreate
<1>8. CASE AddColumn(p)
  <2>1. PICK d \in Database : d = [Here(p) EXCEPT !.remote = TRUE]
    BY <1>2 DEF Database
  <2>2. /\ d.tables = Here(p).tables /\ d.version = Here(p).version
        /\ d.polled = Here(p).polled /\ d.rows = Here(p).rows /\ d.remote
    BY <1>2, <2>1 DEF Database
  <2>3. Writes(p, d, "stamp") /\ Ready(at[p], d)
    BY <1>8, <2>1, <2>2 DEF AddColumn, Ready
  <2> QED BY <1>1, <2>2, <2>3, UpgradeStep
<1> QED BY <1>5, <1>6, <1>7, <1>8

(* The statements that write the next version.                             *)
LEMMA StampsStep ==
  ASSUME SchemaInv, NEW p \in Openers, Stamp(p) \/ CopyBack(p)
  PROVE  SchemaInv'
<1>1. doing[p] \in Upgrading /\ doing[p] # "create"
  BY DEF Stamp, CopyBack, Upgrading
<1>2. /\ opened[p] # 0 /\ Here(p) \in Database /\ at[p] \in 23 .. 29
      /\ ~ overlapped => Coherent(Here(p)) /\ Relies(p, Here(p)) /\ Here(p).version = at[p]
      /\ opened[p] = file /\ Here(p).rows =>
           Populated(Here(p)) /\ ("sync_cache" \in Here(p).tables => at[p] < 26)
  BY <1>1, UpgradeFinds
<1>3. ASSUME NEW d \in Database, NEW v \in 24 .. 30, NEW to \in {"script", "open"},
             Writes(p, d, to), at' = [at EXCEPT ![p] = v], d.version = v, d.rows = Here(p).rows,
             to = "open" <=> v = 30,
             ~ overlapped => Coherent(d),
             d.tables \subseteq Here(p).tables, "meta" \in Here(p).tables => "meta" \in d.tables,
             "sync_cache" \in d.tables /\ at[p] < 26 => v < 26
      PROVE  SchemaInv'
  <2>1. doing'[p] = to /\ opened'[p] = opened[p] /\ file' = file /\ at'[p] = v
    BY <1>3 DEF Writes, SchemaInv, SchemaTyped
  <2>2. ~ overlapped => Coherent(d) /\ Relies(p, d)'
    BY <1>3, <2>1 DEF Relies, Upgrading
  <2>3. opened[p] = file /\ d.rows => Populated(d) /\ Handles(p, d)'
                                      /\ ("sync_cache" \in d.tables => "sync_cache" \in Here(p).tables)
    <3> SUFFICES ASSUME opened[p] = file, d.rows PROVE Populated(d) /\ Handles(p, d)'
      BY <1>3
    <3>1. Populated(d)
      BY <1>2, <1>3 DEF Populated
    <3> QED BY <1>3, <2>1, <3>1 DEF Handles, Upgrading, Populated
  <2>4. to \in {"create", "open"} \cup Upgrading /\ v \in Nat \cup {NoVersion} /\ (to \in Upgrading => v \in 23 .. 29)
        /\ to \notin {"recreate", "copy"}
    BY <1>3 DEF Upgrading
  <2>5. opened[p] # 0
    BY <1>2
  <2> QED BY <1>1, <1>3, <2>2, <2>3, <2>4, <2>5, WriteStep
<1>4. CASE Stamp(p)
  <2> DEFINE v == Next30[at[p]]
             after == [version |-> v,
                       tables |-> IF v = 26 THEN Here(p).tables \ {"sync_cache"} ELSE Here(p).tables,
                       remote |-> Here(p).remote, polled |-> Here(p).polled /\ v < 30, rows |-> Here(p).rows]
             to == IF v = 30 THEN "open" ELSE "script"
  <2>1. /\ v \in 24 .. 30 /\ at[p] < v
        /\ v = (IF at[p] \in {27, 28} THEN 29 ELSE at[p] + 1)
    BY <1>2 DEF Next30
  <2>2. after \in Database
    BY <1>2, <2>1 DEF Database
  <2>3. Writes(p, after, to) /\ at' = [at EXCEPT ![p] = v] /\ doing[p] = "stamp"
    <3>1. Stamped(Here(p), v) = [version |-> v, tables |-> Here(p).tables, remote |-> Here(p).remote,
                                 polled |-> Here(p).polled, rows |-> Here(p).rows]
      BY <1>2 DEF Stamped, Database
    <3>2. Stamped(Here(p), v).tables = Here(p).tables /\ Stamped(Here(p), v).polled = Here(p).polled
      BY <3>1
    <3>3. ASSUME NEW T, NEW e
          PROVE  [Stamped(Here(p), v) EXCEPT !.tables = T, !.polled = e]
                   = [version |-> v, tables |-> T, remote |-> Here(p).remote, polled |-> e, rows |-> Here(p).rows]
      <4> DEFINE x == [Stamped(Here(p), v) EXCEPT !.tables = T]
      <4>1. x = [version |-> v, tables |-> T, remote |-> Here(p).remote, polled |-> Here(p).polled, rows |-> Here(p).rows]
        BY <3>1
      <4>2. [x EXCEPT !.polled = e]
              = [version |-> v, tables |-> T, remote |-> Here(p).remote, polled |-> e, rows |-> Here(p).rows]
        <5> HIDE DEF x, v
        <5> QED BY <4>1
      <4> QED BY <4>2
    <3>4. Writes(p, [Stamped(Here(p), v) EXCEPT !.tables = IF v = 26 THEN Here(p).tables \ {"sync_cache"} ELSE Here(p).tables,
                                                !.polled = Here(p).polled /\ v < 30], to)
          /\ at' = [at EXCEPT ![p] = v] /\ doing[p] = "stamp"
      BY <1>4, <3>2, Zenon DEF Stamp, SCHEMA_VERSION
    <3>5. [Stamped(Here(p), v) EXCEPT !.tables = IF v = 26 THEN Here(p).tables \ {"sync_cache"} ELSE Here(p).tables,
                                      !.polled = Here(p).polled /\ v < 30] = after
      BY <3>3, Zenon
    <3> QED BY <3>4, <3>5, Zenon
  <2>4. PICK d \in Database : d = after
    BY <2>2
  <2>5. /\ d.version = v /\ d.rows = Here(p).rows /\ d.remote = Here(p).remote
        /\ d.tables = IF v = 26 THEN Here(p).tables \ {"sync_cache"} ELSE Here(p).tables
        /\ d.polled <=> Here(p).polled /\ v < 30
    BY <2>4
  <2>6. Writes(p, d, to)
    BY <2>3, <2>4
  <2>7. ~ overlapped => Coherent(d)
    <3> SUFFICES ASSUME ~ overlapped PROVE Coherent(d)
      OBVIOUS
    <3>1. Ready(at[p], Here(p)) /\ Here(p).version = at[p]
      BY <1>2, <2>3 DEF Relies
    <3>2. /\ {"meta", "regen_locks", "token_events"} \subseteq d.tables
          /\ v > 23 => "child_discovery_requests" \in d.tables
          /\ v > 24 => "operational_events" \in d.tables
          /\ v > 25 => "sync_polling" \in d.tables
          /\ v > 26 => "source_lifecycle_runtime" \in d.tables
      BY <1>2, <2>1, <2>5, <3>1 DEF Coherent, Ready
    <3>3. v = 30 => d.remote /\ ~ d.polled /\ Allowed \subseteq d.tables
      <4> HIDE DEF v
      <4>1. v = 30 => at[p] = 29 /\ Allowed \subseteq d.tables
        BY <1>2, <2>1, <3>2 DEF Allowed
      <4>2. v = 30 => d.remote
        BY <2>5, <3>1, <4>1 DEF Ready
      <4>3. v = 30 => ~ d.polled
        BY <2>5
      <4> QED BY <4>1, <4>2, <4>3
    <3>4. v # NoVersion
      BY <2>1, SchemaAssumption
    <3> HIDE DEF v
    <3> QED BY <2>1, <2>5, <3>2, <3>3, <3>4 DEF Coherent
  <2>8. to \in {"script", "open"} /\ (to = "open" <=> v = 30)
    OBVIOUS
  <2> HIDE DEF v, to, after
  <2>9. d.tables \subseteq Here(p).tables /\ ("meta" \in Here(p).tables => "meta" \in d.tables)
    BY <2>5
  <2>10. "sync_cache" \in d.tables /\ at[p] < 26 => v < 26
    BY <1>2, <2>1, <2>5
  <2> QED BY <1>3, <2>1, <2>3, <2>5, <2>6, <2>7, <2>8, <2>9, <2>10
<1>5. CASE CopyBack(p)
  <2>1. CASE Legacy \notin Here(p).tables
    BY <1>5, <2>1, LeavesStep DEF CopyBack
  <2>2. CASE Legacy \in Here(p).tables
    <3> DEFINE after == [version |-> 29, tables |-> Here(p).tables \ {Legacy}, remote |-> Here(p).remote,
                         polled |-> Here(p).polled, rows |-> Here(p).rows]
    <3>1. after \in Database
      BY <1>2 DEF Database
    <3>2. Writes(p, after, "script") /\ at' = [at EXCEPT ![p] = 29] /\ doing[p] = "copy"
      <4>1. [Stamped(Here(p), 29) EXCEPT !.tables = @ \ {Legacy}] = after
        <5>1. Stamped(Here(p), 29) = [version |-> 29, tables |-> Here(p).tables, remote |-> Here(p).remote,
                                      polled |-> Here(p).polled, rows |-> Here(p).rows]
          BY <1>2 DEF Stamped, Database
        <5> QED BY <5>1
      <4> QED BY <1>5, <2>2, <4>1 DEF CopyBack
    <3>3. PICK d \in Database : d = after
      BY <3>1
    <3>4. /\ d.version = 29 /\ d.tables = Here(p).tables \ {Legacy} /\ d.polled = Here(p).polled
          /\ d.rows = Here(p).rows
      BY <3>3
    <3>5. Writes(p, d, "script")
      BY <3>2, <3>3
    <3>6. at[p] \in {27, 28}
      BY <3>2 DEF SchemaInv, SchemaTyped
    <3>7. ~ overlapped => Coherent(d)
      <4> SUFFICES ASSUME ~ overlapped PROVE Coherent(d)
        OBVIOUS
      <4>1. "source_lifecycle_runtime" \in Here(p).tables /\ Here(p).version = at[p]
        BY <1>2, <3>2 DEF Relies
      <4>2. 29 # NoVersion
        BY NoVersionIsNone
      <4> QED BY <1>2, <3>4, <3>6, <4>1, <4>2 DEF Coherent, Legacy
    <3>8. d.tables \subseteq Here(p).tables /\ ("meta" \in Here(p).tables => "meta" \in d.tables) /\ ~ at[p] < 26
      BY <3>4, <3>6 DEF Legacy
    <3> HIDE DEF after
    <3> QED BY <1>3, <3>2, <3>4, <3>5, <3>7, <3>8
  <2> QED BY <2>1, <2>2
<1> QED BY <1>4, <1>5

(* Every step keeps SchemaInv.                                             *)
LEMMA SchemaInvStep == SchemaInv /\ [SchemaNext]_schemaVars => SchemaInv'
<1> SUFFICES ASSUME SchemaInv, [SchemaNext]_schemaVars PROVE SchemaInv'
  OBVIOUS
<1>1. CASE UNCHANGED schemaVars
  <2>1. UNCHANGED <<file, disk, doing, opened, seen, at, overlapped>>
    BY <1>1 DEF schemaVars
  <2> QED BY <2>1 DEF SchemaInv, SchemaTyped, Alone, RowsAtPath, Relies, Handles, MetSetAside, ReadAcrossUpgrade
<1>2. ASSUME NEW p \in Openers, Open(p) \/ Connects(p) \/ Close(p) \/ Dies(p)
      PROVE  SchemaInv'
  BY <1>2, OpenStep, LooksStep, LeavesStep, CreateStep, AddsStep, StampsStep DEF Connects, Reset
<1> QED BY <1>1, <1>2 DEF SchemaNext

(* SchemaInv always holds.                                                 *)
LEMMA SchemaInvHolds == SchemaSpec => []SchemaInv
<1> QED BY SchemaInvInit, SchemaInvStep, PTL DEF SchemaSpec

(* Who may use a file relies on its having everything.                     *)
LEMMA SchemaInvServes == SchemaInv => HandedOutServes
<1> SUFFICES ASSUME SchemaInv, ~ overlapped, NEW p \in Openers, doing[p] = "open"
             PROVE  Allowed \subseteq Here(p).tables /\ Here(p).remote /\ ~ Here(p).polled
  BY DEF HandedOutServes
<1>1. Coherent(Here(p)) /\ Here(p).version = 30
  BY Finds DEF Relies
<1> QED BY <1>1 DEF Coherent, Allowed

(* HandedOutServes for any processes and any first version: what a process *)
(* may use has the tables and columns the code asks for, unless an upgrade *)
(* had company.                                                            *)
THEOREM HandedOutAlwaysServes == SchemaSpec => []HandedOutServes
  BY SchemaInvServes, SchemaInvHolds, PTL

(* Who throws away a database with rows has been misled.                   *)
LEMMA MisledToReset ==
  SchemaInv /\ [SchemaNext]_schemaVars =>
    [\A p \in Openers : Reset(p) /\ file # 0 /\ disk[file].rows
                           => MetSetAside(p) \/ ReadAcrossUpgrade(p)]_schemaVars
<1>1. ASSUME SchemaInv, NEW p \in Openers, Reset(p), file # 0, disk[file].rows
      PROVE  MetSetAside(p) \/ ReadAcrossUpgrade(p)
  <2>1. Handles(p, disk[file]) /\ doing[p] = "reset"
    BY <1>1 DEF SchemaInv, RowsAtPath, Reset, Step
  <2> QED BY <2>1 DEF Handles
<1> QED BY <1>1

(* MigratesInPlace for any processes and any first version: who throws a   *)
(* database with rows away met a table set aside, or read across an        *)
(* upgrade.                                                                *)
THEOREM RowsAreMigratedInPlace == SchemaSpec => MigratesInPlace
  BY MisledToReset, SchemaInvHolds, PTL DEF SchemaSpec, MigratesInPlace

-----------------------------------------------------------------------------
(***************************************************************************)
(* PreparedCommit: a commit is all or nothing, for any attachments, any area *)
(* it may find, any number of polls and of calls that raise.               *)
(***************************************************************************)

CommitSpec == CommitInit /\ [][CommitNext]_commitVars

CommitPlaces == {"idle", "context", "bare", "attach", "text", "double", "manifest", "done", "undo", "raised"}
Moves == [from : {"context", "bare"}, name : Names]
Writings == [name : Names, was : Stored]
Commit == [at : CommitPlaces, before : Area \cup {<<>>}, staged : Seq(Names), moved : Seq(Moves),
           written : Seq(Writings), replaced : BOOLEAN, halfMoved : BOOLEAN, denied : BOOLEAN,
           stuck : BOOLEAN, wanted : SUBSET Names, named : BOOLEAN]

CommitTyped == /\ area \in Area /\ commit \in Commit
               /\ commit.at # "idle" => commit.before \in Area

(* Every attachment that was downloaded is still to be written, or is.     *)
StillStaged(n) == \E i \in 1 .. Len(commit.staged) : commit.staged[i] = n
NoneLeftOut ==
  /\ commit.at \in {"context", "bare"} => \A n \in commit.wanted : StillStaged(n)
  /\ commit.at = "attach" => \A n \in commit.wanted : StillStaged(n) \/ area.files["managed"][n] = "new"
  /\ commit.at \in {"text", "double", "manifest", "done"} => \A n \in commit.wanted : area.files["managed"][n] = "new"

(* Each is written once, and after the migration.                          *)
WrittenOnce ==
  commit.at \in {"context", "bare", "attach"} =>
    /\ commit.at # "attach" => commit.written = <<>>
    /\ \A i, j \in 1 .. Len(commit.staged) : commit.staged[i] = commit.staged[j] => i = j
    /\ \A i \in 1 .. Len(commit.staged), j \in 1 .. Len(commit.written) :
         commit.staged[i] # commit.written[j].name

(* The text and the manifest, until they are written and once they are     *)
(* restored.                                                               *)
TextKept ==
  /\ commit.at \in {"context", "bare", "attach", "text"} \/ (commit.at \in {"undo", "raised"} /\ ~ commit.denied) =>
       area.text = commit.before.text /\ area.double = commit.before.double
  /\ commit.at \notin {"idle", "done"} => area.manifest = commit.before.manifest

(* With m the managed files as they were between the moves and the writes: *)
(* what was written keeps what it replaced, and what was moved came from a *)
(* store that had it to one that did not.                                  *)
WritesFrom(m) ==
  /\ \A i \in 1 .. Len(commit.written) : commit.written[i].was = m[commit.written[i].name]
  /\ \A n \in Names : (\A i \in 1 .. Len(commit.written) : commit.written[i].name # n)
                         => area.files["managed"][n] = m[n]
MovedOnce ==
  \A i, j \in 1 .. Len(commit.moved) : commit.moved[i].name = commit.moved[j].name => i = j
CameFrom(m) ==
  \A i \in 1 .. Len(commit.moved) :
    LET n == commit.moved[i].name
    IN  /\ m[n] # Absent /\ commit.before.files[commit.moved[i].from][n] = m[n]
        /\ commit.before.files["managed"][n] = Absent
NotMoved(m) ==
  \A n \in Names : (\A i \in 1 .. Len(commit.moved) : commit.moved[i].name # n)
                     => m[n] = commit.before.files["managed"][n]
LeftThere ==
  \A s \in {"context", "bare"}, n \in Names :
    (\A i \in 1 .. Len(commit.moved) : commit.moved[i] # [from |-> s, name |-> n])
       => area.files[s][n] = commit.before.files[s][n]
MovesTo(m) == MovedOnce /\ CameFrom(m) /\ NotMoved(m) /\ LeftThere

Undoing == {"context", "bare", "attach", "text", "double", "manifest", "undo"}
Undoable == commit.at \in Undoing /\ ~ commit.replaced =>
              \E m \in [Names -> Stored] : WritesFrom(m) /\ MovesTo(m)
Restored == commit.at = "raised" /\ ~ commit.halfMoved /\ ~ commit.stuck /\ ~ commit.replaced =>
              area.files = commit.before.files

CommitInv == CommitTyped /\ NoneLeftOut /\ WrittenOnce /\ TextKept /\ Undoable /\ Restored

-----------------------------------------------------------------------------
(* What a move leaves where.                                               *)
LEMMA MovedFacts ==
  ASSUME area \in Area, NEW store \in {"context", "bare"}, NEW n \in Names
  PROVE  /\ WithMoved(store, n) \in Area
         /\ \A s \in Stores, k \in Names : WithMoved(store, n).files[s][k] =
              IF k = n /\ s = store THEN Absent
              ELSE IF k = n /\ s = "managed" THEN area.files[store][n] ELSE area.files[s][k]
         /\ WithMoved(store, n).text = area.text /\ WithMoved(store, n).double = area.double
         /\ WithMoved(store, n).manifest = area.manifest
<1> DEFINE x == [area EXCEPT !.files[store][n] = Absent]
           y == [x EXCEPT !.files["managed"][n] = area.files[store][n]]
           z == [y EXCEPT !.managedDir = TRUE]
<1>1. /\ x \in Area /\ x.text = area.text /\ x.double = area.double /\ x.manifest = area.manifest
      /\ \A s \in Stores, k \in Names : x.files[s][k] = IF k = n /\ s = store THEN Absent ELSE area.files[s][k]
  BY DEF Area, Stores, Stored
<1>2. area.files[store][n] \in Stored
  BY DEF Area, Stores
<1>3. /\ y \in Area /\ y.text = x.text /\ y.double = x.double /\ y.manifest = x.manifest
      /\ \A s \in Stores, k \in Names : y.files[s][k] =
           IF k = n /\ s = "managed" THEN area.files[store][n] ELSE x.files[s][k]
  <2> HIDE DEF x
  <2> QED BY <1>1, <1>2 DEF Area, Stores
<1>4. /\ z \in Area /\ z.text = y.text /\ z.double = y.double /\ z.manifest = y.manifest /\ z.files = y.files
  <2> HIDE DEF x, y
  <2> QED BY <1>3 DEF Area
<1>5. WithMoved(store, n) = z
  BY Zenon DEF WithMoved
<1> HIDE DEF x, y, z
<1> QED BY <1>1, <1>3, <1>4, <1>5 DEF Stores

(* What a downloaded attachment leaves where.                              *)
LEMMA AttachmentFacts ==
  ASSUME area \in Area, NEW n \in Names
  PROVE  /\ WithAttachment(n) \in Area
         /\ \A s \in Stores, k \in Names : WithAttachment(n).files[s][k] =
              IF k = n /\ s = "managed" THEN "new" ELSE area.files[s][k]
         /\ WithAttachment(n).text = area.text /\ WithAttachment(n).double = area.double
         /\ WithAttachment(n).manifest = area.manifest
  BY DEF WithAttachment, Area, Stores, Stored

(* No attachment is downloaded twice.                                      *)
LEMMA DownloadsFacts ==
  ASSUME NEW d \in Downloads
  PROVE  d \in Seq(Names) /\ \A i, j \in 1 .. Len(d) : d[i] = d[j] => i = j
<1>1. PICK s \in SUBSET Names : d \in SetToSeqs(s)
  BY DEF Downloads, SetToAllKPermutations
<1>2. Cardinality(s) \in Nat
  BY CommitAssumption, FS_Subset, FS_CardinalityType
<1>3. d \in [1 .. Cardinality(s) -> s] /\ \A i, j \in 1 .. Cardinality(s) : i # j => d[i] # d[j]
  BY <1>1 DEF SetToSeqs
<1>4. d \in Seq(Names)
  BY <1>2, <1>3
<1>5. Len(d) = Cardinality(s)
  BY <1>2, <1>3
<1> QED BY <1>3, <1>4, <1>5

(* What taking a move back leaves where.                                   *)
MovedBack(m) == [area EXCEPT !.files["managed"][m.name] = Absent,
                             !.files[m.from][m.name] = area.files["managed"][m.name]]

(* The other files stay where they are.                                    *)
LEMMA MovedBackFacts ==
  ASSUME area \in Area, NEW m \in [from : {"context", "bare"}, name : Names]
  PROVE  /\ MovedBack(m) \in Area
         /\ \A s \in Stores, k \in Names : MovedBack(m).files[s][k] =
              IF k = m.name /\ s = "managed" THEN Absent
              ELSE IF k = m.name /\ s = m.from THEN area.files["managed"][k] ELSE area.files[s][k]
         /\ MovedBack(m).text = area.text /\ MovedBack(m).double = area.double
         /\ MovedBack(m).manifest = area.manifest
<1> DEFINE x == [area EXCEPT !.files["managed"][m.name] = Absent]
           y == [x EXCEPT !.files[m.from][m.name] = area.files["managed"][m.name]]
<1>1. /\ x \in Area /\ x.text = area.text /\ x.double = area.double /\ x.manifest = area.manifest
      /\ \A s \in Stores, k \in Names : x.files[s][k] = IF k = m.name /\ s = "managed" THEN Absent ELSE area.files[s][k]
  BY DEF Area, Stores, Stored
<1>2. area.files["managed"][m.name] \in Stored /\ m.from \in {"context", "bare"} /\ m.name \in Names
  BY DEF Area, Stores
<1>3. /\ y \in Area /\ y.text = x.text /\ y.double = x.double /\ y.manifest = x.manifest
      /\ \A s \in Stores, k \in Names : y.files[s][k] =
           IF k = m.name /\ s = m.from THEN area.files["managed"][k] ELSE x.files[s][k]
  <2> HIDE DEF x
  <2>1. /\ y \in Area /\ y.text = x.text /\ y.double = x.double /\ y.manifest = x.manifest
        /\ y.files = [x.files EXCEPT ![m.from][m.name] = area.files["managed"][m.name]]
    BY <1>1, <1>2 DEF Area, Stores
  <2>2. x.files \in [Stores -> [Names -> Stored]] /\ m.from \in Stores
    BY <1>1, <1>2 DEF Area, Stores
  <2> HIDE DEF y
  <2> QED BY <1>2, <2>1, <2>2
<1>5. MovedBack(m) = y
  BY Zenon DEF MovedBack
<1> HIDE DEF x, y
<1> QED BY <1>1, <1>2, <1>3, <1>5 DEF Stores

(* What taking a written attachment back leaves where.                     *)
LEMMA WrittenBackFacts ==
  ASSUME area \in Area, NEW n \in Names, NEW was \in Stored
  PROVE  LET after == [area EXCEPT !.files["managed"][n] = was]
         IN  /\ after \in Area
             /\ \A s \in Stores, k \in Names : after.files[s][k] =
                  IF k = n /\ s = "managed" THEN was ELSE area.files[s][k]
             /\ after.text = area.text /\ after.double = area.double /\ after.manifest = area.manifest
  BY DEF Area, Stores

(* What an append holds.                                                   *)
LEMMA AppendFacts ==
  ASSUME NEW S, NEW s \in Seq(S), NEW e \in S
  PROVE  /\ Append(s, e) \in Seq(S) /\ Len(Append(s, e)) = Len(s) + 1 /\ Len(s) \in Nat
         /\ \A i \in 1 .. Len(s) : Append(s, e)[i] = s[i]
         /\ Append(s, e)[Len(s) + 1] = e
  OBVIOUS

(* What a tail holds.                                                      *)
LEMMA TailFacts ==
  ASSUME NEW S, NEW s \in Seq(S), s # <<>>
  PROVE  /\ Tail(s) \in Seq(S) /\ Len(Tail(s)) = Len(s) - 1 /\ Len(s) \in Nat \ {0} /\ Head(s) \in S
         /\ Head(s) = s[1] /\ \A i \in 1 .. Len(Tail(s)) : Tail(s)[i] = s[i + 1]
  OBVIOUS

(* The places of a front.                                                  *)
LEMMA FrontRange ==
  ASSUME NEW n \in Nat \ {0}
  PROVE  /\ (IF 1 <= n - 1 THEN n - 1 - 1 + 1 ELSE 0) = n - 1
         /\ 1 .. n - 1 - 1 + 1 = 1 .. n - 1
         /\ \A i \in 1 .. n - 1 : 1 + i - 1 = i
  OBVIOUS

(* What a front and a last element are.                                    *)
LEMMA FrontFacts ==
  ASSUME NEW S, NEW s \in Seq(S), s # <<>>
  PROVE  /\ Front(s) \in Seq(S) /\ Len(Front(s)) = Len(s) - 1 /\ Len(s) \in Nat \ {0} /\ Last(s) \in S
         /\ Last(s) = s[Len(s)] /\ \A i \in 1 .. Len(Front(s)) : Front(s)[i] = s[i]
<1>1. Len(s) \in Nat \ {0} /\ \A i \in 1 .. Len(s) : s[i] \in S
  OBVIOUS
<1> DEFINE n == Len(s)
           t == SubSeq(s, 1, n - 1)
<1>2. t \in Seq(S) /\ Len(t) = n - 1 /\ \A i \in 1 .. n - 1 : t[i] = s[i]
  <2>1. (\A i \in 1 .. n - 1 : s[i] \in S) /\ 1 \in Int /\ n - 1 \in Int
    BY <1>1
  <2>2. /\ t \in Seq(S)
        /\ Len(t) = IF 1 <= n - 1 THEN n - 1 - 1 + 1 ELSE 0
        /\ \A i \in 1 .. n - 1 - 1 + 1 : t[i] = s[1 + i - 1]
    BY <2>1, SubSeqProperties
  <2> HIDE DEF t, n
  <2> QED BY <1>1, <2>2, FrontRange, Zenon DEF n
<1> QED BY <1>1, <1>2 DEF Front, Last

(* No commit has nothing to undo.                                          *)
LEMMA NoCommitTyped == NoCommit \in Commit
  BY DEF NoCommit, Commit, CommitPlaces

(* The start.                                                              *)
LEMMA CommitInvInit == CommitInit => CommitInv
<1> SUFFICES ASSUME CommitInit PROVE CommitInv
  OBVIOUS
<1>1. area \in Area /\ commit = NoCommit /\ NoCommit \in Commit
  BY CommitAssumption, NoCommitTyped DEF CommitInit
<1> QED BY <1>1 DEF CommitInv, CommitTyped, NoneLeftOut, WrittenOnce, TextKept, Undoable, Restored, Undoing, NoCommit

(* Nothing is to be done, or the process ends.                             *)
LEMMA CommitEndsStep ==
  ASSUME CommitInv, Skip \/ CommitDies
  PROVE  CommitInv'
<1>1. area' = area /\ commit' = NoCommit /\ NoCommit \in Commit
  BY NoCommitTyped DEF Skip, CommitDies
<1> QED BY <1>1 DEF CommitInv, CommitTyped, NoneLeftOut, WrittenOnce, TextKept, Undoable, Restored, Undoing, NoCommit

(* A commit begins.                                                        *)
LEMMA PrepareStep ==
  ASSUME CommitInv, Prepare
  PROVE  CommitInv'
<1> DEFINE First(staged) == CASE staged = <<>> -> "text"
                              [] staged # <<>> /\ area.confluence -> "context" [] OTHER -> "attach"
<1>0. PICK staged \in Downloads, named \in BOOLEAN :
        commit' = [NoCommit EXCEPT !.at = First(staged), !.before = area, !.staged = staged,
                                   !.wanted = ToSet(staged), !.named = named]
  BY Zenon DEF Prepare
<1>1. PICK to \in {"text", "context", "attach"} : to = First(staged)
  OBVIOUS
<1>2. area' = area /\ area \in Area
  BY DEF Prepare, CommitInv, CommitTyped
<1>3. staged \in Seq(Names) /\ \A i, j \in 1 .. Len(staged) : staged[i] = staged[j] => i = j
  BY DownloadsFacts
<1>4. to = "text" => staged = <<>>
  BY <1>1
<1> HIDE DEF First
<1>5. to \in CommitPlaces
  BY <1>4 DEF CommitPlaces
<1>6. ToSet(staged) \in SUBSET Names /\ \A n \in ToSet(staged) : \E i \in 1 .. Len(staged) : staged[i] = n
  BY <1>3 DEF ToSet
<1>7. /\ commit' \in Commit /\ commit'.at = to /\ commit'.before = area /\ commit'.staged = staged
      /\ commit'.wanted = ToSet(staged) /\ commit'.moved = <<>> /\ commit'.written = <<>>
  <2>1. commit' = [NoCommit EXCEPT !.at = to, !.before = area, !.staged = staged,
                                   !.wanted = ToSet(staged), !.named = named]
    BY <1>0, <1>1, Zenon
  <2>2. ASSUME NEW b \in Area, NEW w \in SUBSET Names,
               commit' = [NoCommit EXCEPT !.at = to, !.before = b, !.staged = staged, !.wanted = w, !.named = named]
        PROVE  /\ commit' \in Commit /\ commit'.at = to /\ commit'.before = b /\ commit'.staged = staged
               /\ commit'.wanted = w /\ commit'.moved = <<>> /\ commit'.written = <<>>
    <3>1. NoCommit.moved = <<>> /\ NoCommit.written = <<>>
      BY DEF NoCommit
    <3> QED BY <1>3, <1>5, <2>2, <3>1, NoCommitTyped DEF Commit
  <2>3. area \in Area /\ ToSet(staged) \in SUBSET Names
    BY <1>2, <1>6
  <2> QED BY <2>1, <2>2, <2>3, Zenon
<1>8. NoneLeftOut'
  BY <1>4, <1>6, <1>7 DEF NoneLeftOut, StillStaged
<1>9. WrittenOnce'
  BY <1>3, <1>4, <1>7 DEF WrittenOnce
<1>10. TextKept'
  BY <1>2, <1>4, <1>7 DEF TextKept
<1>11. Undoable'
  <2>1. area.files["managed"] \in [Names -> Stored]
    BY <1>2 DEF Area, Stores
  <2>2. commit'.written = <<>> /\ commit'.moved = <<>> /\ commit'.before = area
    BY <1>7
  <2>3. WritesFrom(area.files["managed"])' /\ MovesTo(area.files["managed"])'
    BY <1>2, <2>2 DEF WritesFrom, MovesTo, MovedOnce, CameFrom, NotMoved, LeftThere
  <2> QED BY <1>2, <2>1, <2>3 DEF Undoable
<1> QED BY <1>2, <1>4, <1>7, <1>8, <1>9, <1>10, <1>11 DEF CommitInv, CommitTyped, Restored

-----------------------------------------------------------------------------
(* What there is to undo stays as it is.                                   *)
SameUndo == /\ commit'.before = commit.before /\ commit'.moved = commit.moved
            /\ commit'.written = commit.written /\ commit'.replaced = commit.replaced
            /\ commit'.wanted = commit.wanted
            /\ area'.files = area.files

(* The moves say as much of an area whose old stores are the same.         *)
LEMMA MovesKept ==
  ASSUME NEW m \in [Names -> Stored], MovesTo(m),
         commit'.moved = commit.moved, commit'.before = commit.before,
         \A s \in {"context", "bare"}, n \in Names : area'.files[s][n] = area.files[s][n]
  PROVE  MovesTo(m)'
<1>1. MovedOnce'
  BY DEF MovesTo, MovedOnce
<1>2. CameFrom(m)'
  BY DEF MovesTo, CameFrom
<1>3. NotMoved(m)'
  BY DEF MovesTo, NotMoved
<1>4. LeftThere'
  BY DEF MovesTo, LeftThere
<1> QED BY <1>1, <1>2, <1>3, <1>4 DEF MovesTo

(* What can be undone still can.                                           *)
LEMMA UndoableKept ==
  ASSUME Undoable, SameUndo, commit.at \in Undoing
  PROVE  Undoable'
<1> SUFFICES ASSUME ~ commit.replaced PROVE \E m \in [Names -> Stored] : WritesFrom(m)' /\ MovesTo(m)'
  BY DEF Undoable, SameUndo
<1>1. PICK m \in [Names -> Stored] : WritesFrom(m) /\ MovesTo(m)
  BY DEF Undoable
<1>2. WritesFrom(m)'
  BY <1>1, SMTT(40) DEF WritesFrom, SameUndo
<1>3. MovesTo(m)'
  BY <1>1, MovesKept DEF SameUndo
<1> QED BY <1>2, <1>3

(* With nothing to undo, the files are what they were.                     *)
LEMMA NothingToUndo ==
  ASSUME CommitTyped, Undoable, commit.at \in Undoing, ~ commit.replaced,
         commit.written = <<>>, commit.moved = <<>>
  PROVE  area.files = commit.before.files
<1>1. PICK m \in [Names -> Stored] : WritesFrom(m) /\ MovesTo(m)
  BY DEF Undoable
<1>2. \A n \in Names : area.files["managed"][n] = commit.before.files["managed"][n]
  BY <1>1 DEF WritesFrom, MovesTo, NotMoved
<1>3. \A s \in {"context", "bare"}, n \in Names : area.files[s][n] = commit.before.files[s][n]
  BY <1>1 DEF MovesTo, LeftThere
<1>4. commit.before \in Area /\ area \in Area
  BY DEF CommitTyped, Undoing
<1>5. area.files \in [Stores -> [Names -> Stored]] /\ commit.before.files \in [Stores -> [Names -> Stored]]
  BY <1>4 DEF Area
<1>6. \A s \in Stores : area.files[s] = commit.before.files[s]
  BY <1>2, <1>3, <1>5 DEF Stores
<1> QED BY <1>5, <1>6

(* A step that goes on, with the files as they were.                       *)
LEMMA GoesOn ==
  ASSUME CommitInv, commit.at \in Undoing, SameUndo, area' \in Area, commit' \in Commit,
         commit'.at \in Undoing \cup {"done"},
         commit'.at \in {"context", "bare", "attach"} =>
            /\ commit.at \in {"context", "bare", "attach"} /\ (commit.at = "attach" => commit'.at = "attach")
            /\ commit'.staged = commit.staged,
         commit'.at \in {"text", "double", "manifest", "done"} =>
            \/ commit.at \in {"text", "double", "manifest"}
            \/ commit.at = "attach" /\ commit.staged = <<>>,
         commit'.at \in {"context", "bare", "attach", "text"} \/ (commit'.at = "undo" /\ ~ commit'.denied) =>
            area'.text = commit.before.text /\ area'.double = commit.before.double,
         commit'.at # "done" => area'.manifest = area.manifest
  PROVE  CommitInv'
<1>1. CommitTyped'
  BY DEF CommitInv, CommitTyped, SameUndo, Undoing
<1>2. NoneLeftOut'
  BY DEF CommitInv, NoneLeftOut, StillStaged, SameUndo, Undoing
<1>3. WrittenOnce'
  BY DEF CommitInv, WrittenOnce, SameUndo
<1>4. TextKept'
  BY DEF CommitInv, TextKept, SameUndo, Undoing
<1>5. Undoable'
  BY UndoableKept DEF CommitInv
<1>6. Restored'
  BY DEF Restored, Undoing
<1> QED BY <1>1, <1>2, <1>3, <1>4, <1>5, <1>6 DEF CommitInv

(* What ends a commit that fails: nothing is left to undo, or the code     *)
(* cannot undo it.                                                         *)
LEMMA Gives ==
  ASSUME CommitInv, commit.at \in {"context", "bare", "undo"}, area' = area, commit' \in Commit,
         commit'.at = "raised", commit'.before = commit.before, commit'.replaced = commit.replaced,
         commit'.denied = commit.denied, commit.at # "undo" => commit.written = <<>>,
         ~ commit'.halfMoved /\ ~ commit'.stuck => commit.written = <<>> /\ commit.moved = <<>>
  PROVE  CommitInv'
<1>1. CommitTyped' /\ NoneLeftOut' /\ WrittenOnce' /\ Undoable'
  BY DEF CommitInv, CommitTyped, NoneLeftOut, WrittenOnce, Undoable, Undoing
<1>2. TextKept'
  BY DEF CommitInv, TextKept
<1>3. Restored'
  BY NothingToUndo DEF CommitInv, Restored, Undoing
<1> QED BY <1>1, <1>2, <1>3 DEF CommitInv

(* The steps that change no file of the area.                              *)
LEMMA QuietCommitStep ==
  ASSUME CommitInv, \/ RemoveContext \/ RemoveBare \/ MigrationRaises \/ Attached
                    \/ WriteText \/ RemoveDouble \/ WriteManifest \/ WriteRaises \/ Undone \/ UndoRaises
  PROVE  CommitInv'
<1>1. commit \in Commit /\ area \in Area /\ (commit.at # "idle" => commit.before \in Area)
  BY DEF CommitInv, CommitTyped
<1>2. CASE RemoveContext
  <2>1. commit.at = "context" /\ commit' = [commit EXCEPT !.at = "bare"]
    BY <1>2 DEF RemoveContext, Goes
  <2>2. /\ commit' \in Commit /\ commit'.at = "bare" /\ commit'.staged = commit.staged
        /\ commit'.before = commit.before /\ commit'.moved = commit.moved /\ commit'.written = commit.written
        /\ commit'.replaced = commit.replaced /\ commit'.wanted = commit.wanted
    BY <1>1, <2>1 DEF Commit, CommitPlaces
  <2>3. /\ area' \in Area /\ area'.files = area.files /\ area'.text = area.text
        /\ area'.double = area.double /\ area'.manifest = area.manifest
    BY <1>1, <1>2 DEF RemoveContext, Area
  <2>4. area.text = commit.before.text /\ area.double = commit.before.double
    BY <2>1 DEF CommitInv, TextKept
  <2> QED BY <2>1, <2>2, <2>3, <2>4, GoesOn DEF SameUndo, Undoing
<1>3. CASE (RemoveBare /\ area.nested) \/ MigrationRaises
  <2>1. /\ commit.at \in {"context", "bare"} /\ area' = area
        /\ commit' = [commit EXCEPT !.at = "raised", !.halfMoved = @ \/ commit.moved # <<>>]
    BY <1>3 DEF RemoveBare, MigrationRaises
  <2>2. PICK half \in BOOLEAN : half = (commit.halfMoved \/ commit.moved # <<>>)
    OBVIOUS
  <2>3. commit' = [commit EXCEPT !.at = "raised", !.halfMoved = half]
    BY <2>1, <2>2, Zenon
  <2>4. /\ commit' \in Commit /\ commit'.at = "raised" /\ commit'.halfMoved = half
        /\ commit'.before = commit.before /\ commit'.replaced = commit.replaced /\ commit'.denied = commit.denied
    BY <1>1, <2>3 DEF Commit, CommitPlaces
  <2>5. commit.written = <<>>
    BY <2>1 DEF CommitInv, WrittenOnce
  <2> QED BY <2>1, <2>2, <2>4, <2>5, Gives
<1>4. CASE RemoveBare /\ ~ area.nested
  <2>1. commit.at = "bare" /\ commit' = [commit EXCEPT !.at = "attach"] /\ area' = area
    BY <1>4 DEF RemoveBare
  <2>2. /\ commit' \in Commit /\ commit'.at = "attach" /\ commit'.staged = commit.staged
        /\ commit'.before = commit.before /\ commit'.moved = commit.moved /\ commit'.written = commit.written
        /\ commit'.replaced = commit.replaced /\ commit'.wanted = commit.wanted
    BY <1>1, <2>1 DEF Commit, CommitPlaces
  <2>3. area.text = commit.before.text /\ area.double = commit.before.double
    BY <2>1 DEF CommitInv, TextKept
  <2> QED BY <1>1, <2>1, <2>2, <2>3, GoesOn DEF SameUndo, Undoing
<1>5. CASE Attached
  <2>1. commit.at = "attach" /\ commit.staged = <<>> /\ commit' = [commit EXCEPT !.at = "text"] /\ area' = area
    BY <1>5 DEF Attached, Goes
  <2>2. /\ commit' \in Commit /\ commit'.at = "text"
        /\ commit'.before = commit.before /\ commit'.moved = commit.moved /\ commit'.written = commit.written
        /\ commit'.replaced = commit.replaced /\ commit'.wanted = commit.wanted
    BY <1>1, <2>1 DEF Commit, CommitPlaces
  <2>3. area.text = commit.before.text /\ area.double = commit.before.double
    BY <2>1 DEF CommitInv, TextKept
  <2> QED BY <1>1, <2>1, <2>2, <2>3, GoesOn DEF SameUndo, Undoing
<1>6. CASE WriteText \/ RemoveDouble \/ WriteManifest
  <2>1. PICK to \in {"double", "manifest", "done"} :
          /\ commit.at \in {"text", "double", "manifest"} /\ commit' = [commit EXCEPT !.at = to]
          /\ to # "done" => ~ WriteManifest
    BY <1>6 DEF WriteText, RemoveDouble, WriteManifest, Goes
  <2>2. /\ commit' \in Commit /\ commit'.at = to
        /\ commit'.before = commit.before /\ commit'.moved = commit.moved /\ commit'.written = commit.written
        /\ commit'.replaced = commit.replaced /\ commit'.wanted = commit.wanted
    BY <1>1, <2>1 DEF Commit, CommitPlaces
  <2>3. area' \in Area /\ area'.files = area.files /\ (~ WriteManifest => area'.manifest = area.manifest)
    <3>1. CASE WriteText
      <4>1. commit.named \in BOOLEAN /\ area' = [area EXCEPT !.text = "new", !.refers = commit.named]
        BY <1>1, <3>1 DEF Commit, WriteText
      <4> QED BY <1>1, <4>1 DEF Area
    <3>2. CASE RemoveDouble
      BY <1>1, <3>2 DEF RemoveDouble, Area
    <3>3. CASE WriteManifest
      BY <1>1, <3>3 DEF WriteManifest, Area
    <3> QED BY <1>6, <3>1, <3>2, <3>3
  <2> QED BY <2>1, <2>2, <2>3, GoesOn DEF SameUndo, Undoing
<1>7. CASE WriteRaises
  <2>1. PICK denied \in BOOLEAN :
          /\ commit.at \in {"attach", "text", "double", "manifest"} /\ (commit.at = "attach" => ~ denied)
          /\ area' = IF denied THEN area ELSE TextRestored
          /\ commit' = [commit EXCEPT !.at = "undo", !.denied = denied]
    BY <1>7 DEF WriteRaises
  <2>2. /\ commit' \in Commit /\ commit'.at = "undo" /\ commit'.denied = denied
        /\ commit'.before = commit.before /\ commit'.moved = commit.moved /\ commit'.written = commit.written
        /\ commit'.replaced = commit.replaced /\ commit'.wanted = commit.wanted
    BY <1>1, <2>1 DEF Commit, CommitPlaces
  <2>3. commit.before \in Area
    BY <1>1, <2>1
  <2>4. /\ TextRestored \in Area /\ TextRestored.files = area.files /\ TextRestored.manifest = area.manifest
        /\ TextRestored.text = commit.before.text /\ TextRestored.double = commit.before.double
    <3>1. PICK b \in Area : b = commit.before
      BY <2>3
    <3>3. PICK r : r = [area EXCEPT !.text = b.text, !.refers = b.refers, !.double = b.double]
      OBVIOUS
    <3>4. r \in Area /\ r.files = area.files /\ r.manifest = area.manifest /\ r.text = b.text /\ r.double = b.double
      BY <1>1, <3>1, <3>3 DEF Area
    <3> QED BY <3>1, <3>3, <3>4, Zenon DEF TextRestored
  <2>5. /\ area' \in Area /\ area'.files = area.files /\ area'.manifest = area.manifest
        /\ ~ denied => area'.text = commit.before.text /\ area'.double = commit.before.double
    BY <1>1, <2>1, <2>4
  <2> QED BY <2>1, <2>2, <2>5, GoesOn DEF SameUndo, Undoing
<1>8. CASE Undone
  <2>1. commit.at = "undo" /\ UndoOrder = "none" /\ commit' = [commit EXCEPT !.at = "raised"] /\ area' = area
    BY <1>8 DEF Undone, Goes
  <2>2. /\ commit' \in Commit /\ commit'.at = "raised" /\ commit'.before = commit.before
        /\ commit'.replaced = commit.replaced /\ commit'.denied = commit.denied
    BY <1>1, <2>1 DEF Commit, CommitPlaces
  <2>3. commit.written = <<>> /\ commit.moved = <<>>
    BY <2>1 DEF UndoOrder
  <2> QED BY <2>1, <2>2, <2>3, Gives
<1>9. CASE UndoRaises
  <2>1. commit.at = "undo" /\ commit' = [commit EXCEPT !.at = "raised", !.stuck = TRUE] /\ area' = area
    BY <1>9 DEF UndoRaises
  <2>2. /\ commit' \in Commit /\ commit'.at = "raised" /\ commit'.before = commit.before /\ commit'.stuck
        /\ commit'.replaced = commit.replaced /\ commit'.denied = commit.denied
    BY <1>1, <2>1 DEF Commit, CommitPlaces
  <2> QED BY <2>1, <2>2, Gives
<1> QED BY <1>2, <1>3, <1>4, <1>5, <1>6, <1>7, <1>8, <1>9

(* A file of an old layout is moved.                                       *)
LEMMA MoveStep ==
  ASSUME CommitInv, MoveLegacy
  PROVE  CommitInv'
<1> DEFINE from == commit.at
<1>1. commit \in Commit /\ area \in Area /\ from \in {"context", "bare"} /\ commit.before \in Area
  BY DEF CommitInv, CommitTyped, MoveLegacy
<1>2. PICK n \in In(from) :
        /\ area' = WithMoved(from, n)
        /\ commit' = [commit EXCEPT !.moved = Append(@, [from |-> from, name |-> n]),
                                    !.replaced = @ \/ n \in In("managed")]
  BY DEF MoveLegacy
<1>3. n \in Names /\ area.files[from][n] # Absent /\ area.files[from][n] \in Stored
  BY <1>1 DEF In, Area, Stores
<1>4. /\ area' \in Area
      /\ \A s \in Stores, k \in Names : area'.files[s][k] =
           IF k = n /\ s = from THEN Absent
           ELSE IF k = n /\ s = "managed" THEN area.files[from][n] ELSE area.files[s][k]
      /\ area'.text = area.text /\ area'.double = area.double /\ area'.manifest = area.manifest
  BY <1>1, <1>2, <1>3, MovedFacts
<1>5. PICK moved \in Seq(Moves) : moved = Append(commit.moved, [from |-> from, name |-> n])
  <2>1. commit.moved \in Seq(Moves) /\ [from |-> from, name |-> n] \in Moves
    BY <1>1, <1>3 DEF Commit, Moves
  <2> QED BY <2>1, AppendFacts
<1>6. PICK replaced \in BOOLEAN : replaced = (commit.replaced \/ n \in In("managed"))
  OBVIOUS
<1>7. commit' = [commit EXCEPT !.moved = moved, !.replaced = replaced]
  BY <1>2, <1>5, <1>6, Zenon
<1>8. /\ commit' \in Commit /\ commit'.at = commit.at /\ commit'.staged = commit.staged
      /\ commit'.before = commit.before /\ commit'.moved = moved /\ commit'.written = commit.written
      /\ commit'.replaced = replaced /\ commit'.wanted = commit.wanted
  BY <1>1, <1>7 DEF Commit
<1>9. NoneLeftOut' /\ WrittenOnce' /\ TextKept' /\ Restored'
  <2>1. NoneLeftOut'
    BY <1>1, <1>8 DEF CommitInv, NoneLeftOut, StillStaged
  <2>2. WrittenOnce'
    BY <1>1, <1>8 DEF CommitInv, WrittenOnce
  <2>3. TextKept'
    BY <1>1, <1>4, <1>8 DEF CommitInv, TextKept
  <2>4. Restored'
    BY <1>1, <1>8 DEF Restored
  <2> QED BY <2>1, <2>2, <2>3, <2>4
<1>10. Undoable'
  <2> SUFFICES ASSUME ~ replaced PROVE \E m \in [Names -> Stored] : WritesFrom(m)' /\ MovesTo(m)'
    BY <1>8 DEF Undoable
  <2>1. PICK m \in [Names -> Stored] : WritesFrom(m) /\ MovesTo(m)
    BY <1>1, <1>6 DEF CommitInv, Undoable, Undoing
  <2>2. commit.written = <<>> /\ area.files["managed"][n] = Absent
    BY <1>1, <1>3, <1>6 DEF CommitInv, WrittenOnce, In
  <2>3. m[n] = Absent
    BY <1>3, <2>1, <2>2 DEF WritesFrom
  <2>4. \A i \in 1 .. Len(commit.moved) : commit.moved[i].name # n
    BY <2>1, <2>3 DEF MovesTo, CameFrom
  <2>5. /\ Len(moved) = Len(commit.moved) + 1 /\ Len(commit.moved) \in Nat
        /\ \A i \in 1 .. Len(commit.moved) : moved[i] = commit.moved[i] /\ commit.moved[i] \in Moves
        /\ moved[Len(commit.moved) + 1] = [from |-> from, name |-> n]
    <3>1. commit.moved \in Seq(Moves) /\ [from |-> from, name |-> n] \in Moves
      BY <1>1, <1>3 DEF Commit, Moves
    <3> QED BY <1>5, <3>1, AppendFacts
  <2>6. commit.before.files["managed"][n] = Absent
    BY <1>3, <2>1, <2>3, <2>4 DEF MovesTo, NotMoved
  <2>7. commit.before.files[from][n] = area.files[from][n]
    <3>1. \A i \in 1 .. Len(commit.moved) : commit.moved[i] # [from |-> from, name |-> n]
      BY <2>4
    <3> QED BY <1>1, <1>3, <2>1, <3>1 DEF MovesTo, LeftThere
  <2> DEFINE k == Len(commit.moved)
             f == [m EXCEPT ![n] = area.files[from][n]]
  <2>8. PICK g \in [Names -> Stored] : g[n] = area.files[from][n] /\ \A k1 \in Names \ {n} : g[k1] = m[k1]
    <3>1. f \in [Names -> Stored] /\ f[n] = area.files[from][n] /\ \A k1 \in Names \ {n} : f[k1] = m[k1]
      BY <1>3
    <3> QED BY <3>1
  <2>9. WritesFrom(g)'
    BY <1>1, <1>4, <1>8, <2>1, <2>2, <2>8 DEF WritesFrom, Stores
  <2>10. MovesTo(g)'
    <3>1. \A i, j \in 1 .. Len(moved) : moved[i].name = moved[j].name => i = j
      <4> TAKE i, j \in 1 .. Len(moved)
      <4>1. moved[k + 1].name = n /\ \A l \in 1 .. k : moved[l].name = commit.moved[l].name /\ moved[l].name # n
        BY <2>4, <2>5
      <4>2. \A l1, l2 \in 1 .. k : commit.moved[l1].name = commit.moved[l2].name => l1 = l2
        BY <2>1 DEF MovesTo, MovedOnce
      <4>3. i \in 1 .. k \/ i = k + 1
        BY <2>5
      <4>4. j \in 1 .. k \/ j = k + 1
        BY <2>5
      <4> QED BY <4>1, <4>2, <4>3, <4>4
    <3>2. ASSUME NEW i \in 1 .. Len(moved)
          PROVE  /\ moved[i].name \in Names /\ g[moved[i].name] # Absent
                 /\ commit.before.files[moved[i].from][moved[i].name] = g[moved[i].name]
                 /\ commit.before.files["managed"][moved[i].name] = Absent
      <4>1. CASE i = k + 1
        <5>1. moved[i].name = n /\ moved[i].from = from
          BY <2>5, <4>1
        <5> HIDE DEF from
        <5> QED BY <1>3, <2>6, <2>7, <2>8, <5>1
      <4>2. CASE i \in 1 .. k
        <5>1. moved[i] = commit.moved[i] /\ moved[i].name \in Names \ {n}
          BY <2>4, <2>5, <4>2 DEF Moves
        <5>2. /\ m[commit.moved[i].name] # Absent
              /\ commit.before.files[commit.moved[i].from][commit.moved[i].name] = m[commit.moved[i].name]
              /\ commit.before.files["managed"][commit.moved[i].name] = Absent
          BY <2>1, <4>2 DEF MovesTo, CameFrom
        <5> QED BY <2>8, <5>1, <5>2
      <4>3. i \in 1 .. k \/ i = k + 1
        BY <2>5
      <4> QED BY <4>1, <4>2, <4>3
    <3>3. ASSUME NEW a \in Names, \A i \in 1 .. Len(moved) : moved[i].name # a
          PROVE  g[a] = commit.before.files["managed"][a]
      <4>1. a # n
        BY <2>5, <3>3
      <4>2. \A i \in 1 .. k : commit.moved[i].name # a
        BY <2>5, <3>3
      <4> QED BY <2>1, <2>8, <4>1, <4>2 DEF MovesTo, NotMoved
    <3>4. ASSUME NEW s \in {"context", "bare"}, NEW a \in Names,
                 \A i \in 1 .. Len(moved) : moved[i] # [from |-> s, name |-> a]
          PROVE  area'.files[s][a] = commit.before.files[s][a]
      <4>1. ~ (s = from /\ a = n)
        BY <2>5, <3>4
      <4>2. \A i \in 1 .. k : commit.moved[i] # [from |-> s, name |-> a]
        BY <2>5, <3>4
      <4>3. area'.files[s][a] = area.files[s][a]
        BY <1>4, <4>1 DEF Stores
      <4> QED BY <2>1, <4>2, <4>3 DEF MovesTo, LeftThere
    <3>5. MovedOnce'
      BY <1>8, <3>1 DEF MovedOnce
    <3>6. CameFrom(g)'
      BY <1>8, <3>2 DEF CameFrom
    <3>7. NotMoved(g)'
      BY <1>8, <3>3 DEF NotMoved
    <3>8. LeftThere'
      BY <1>8, <3>4 DEF LeftThere
    <3> QED BY <3>5, <3>6, <3>7, <3>8 DEF MovesTo
  <2> QED BY <2>9, <2>10
<1> QED BY <1>1, <1>4, <1>8, <1>9, <1>10 DEF CommitInv, CommitTyped

(* An attachment is written, and what it replaces kept.                    *)
LEMMA WriteAttachmentStep ==
  ASSUME CommitInv, WriteAttachment
  PROVE  CommitInv'
<1> DEFINE n == Head(commit.staged)
           e == [name |-> n, was |-> area.files["managed"][n]]
<1>1. commit \in Commit /\ area \in Area /\ commit.at = "attach" /\ commit.staged # <<>> /\ commit.before \in Area
  BY DEF CommitInv, CommitTyped, WriteAttachment
<1>2. /\ area' = WithAttachment(n)
      /\ commit' = [commit EXCEPT !.staged = Tail(@), !.written = Append(@, e)]
  BY DEF WriteAttachment
<1>3. commit.staged \in Seq(Names) /\ commit.written \in Seq(Writings)
  BY <1>1 DEF Commit
<1>4. /\ n \in Names /\ Tail(commit.staged) \in Seq(Names) /\ n = commit.staged[1]
      /\ Len(Tail(commit.staged)) = Len(commit.staged) - 1 /\ Len(commit.staged) \in Nat \ {0}
      /\ \A i \in 1 .. Len(Tail(commit.staged)) : Tail(commit.staged)[i] = commit.staged[i + 1]
  BY <1>1, <1>3, TailFacts
<1>5. e \in Writings
  BY <1>1, <1>4 DEF Writings, Area, Stores
<1> HIDE DEF n, e
<1>6. PICK staged \in Seq(Names), written \in Seq(Writings) :
        staged = Tail(commit.staged) /\ written = Append(commit.written, e)
  BY <1>3, <1>4, <1>5, AppendFacts
<1>7. /\ Len(written) = Len(commit.written) + 1 /\ Len(commit.written) \in Nat
      /\ \A i \in 1 .. Len(commit.written) : written[i] = commit.written[i]
      /\ written[Len(commit.written) + 1] = e
  BY <1>3, <1>5, <1>6, AppendFacts
<1>8. /\ commit' \in Commit /\ commit'.at = "attach" /\ commit'.staged = staged
      /\ commit'.before = commit.before /\ commit'.moved = commit.moved /\ commit'.written = written
      /\ commit'.replaced = commit.replaced /\ commit'.wanted = commit.wanted
  BY <1>1, <1>2, <1>6 DEF Commit
<1>9. /\ area' \in Area
      /\ \A s \in Stores, k \in Names : area'.files[s][k] = IF k = n /\ s = "managed" THEN "new" ELSE area.files[s][k]
      /\ area'.text = area.text /\ area'.double = area.double /\ area'.manifest = area.manifest
  BY <1>1, <1>2, <1>4, AttachmentFacts
<1>10. e.name = n /\ e.was = area.files["managed"][n]
  BY DEF e
<1>11. Len(staged) = Len(commit.staged) - 1 /\ \A i \in 1 .. Len(staged) : i + 1 \in 1 .. Len(commit.staged) /\ staged[i] = commit.staged[i + 1]
  BY <1>4, <1>6
<1>12. NoneLeftOut'
  <2> SUFFICES ASSUME NEW a \in commit.wanted
               PROVE  (\E i \in 1 .. Len(staged) : staged[i] = a) \/ area'.files["managed"][a] = "new"
    BY <1>8 DEF NoneLeftOut, StillStaged
  <2>0. a \in Names
    BY <1>1 DEF Commit
  <2>1. CASE area.files["managed"][a] = "new"
    BY <1>9, <2>0, <2>1 DEF Stores
  <2>2. CASE area.files["managed"][a] # "new"
    <3>1. PICK i \in 1 .. Len(commit.staged) : commit.staged[i] = a
      BY <1>1, <2>2 DEF CommitInv, NoneLeftOut, StillStaged
    <3>2. CASE i = 1
      BY <1>4, <1>9, <2>0, <3>1, <3>2 DEF Stores
    <3>3. CASE i # 1
      <4>1. i - 1 \in 1 .. Len(staged) /\ (i - 1) + 1 = i
        BY <1>4, <1>11, <3>3
      <4> QED BY <1>11, <3>1, <4>1
    <3> QED BY <3>2, <3>3
  <2> QED BY <2>1, <2>2
<1>13. WrittenOnce'
  <2>1. \A i, j \in 1 .. Len(staged) : staged[i] = staged[j] => i = j
    BY <1>1, <1>4, <1>11 DEF CommitInv, WrittenOnce
  <2>2. ASSUME NEW i \in 1 .. Len(staged), NEW j \in 1 .. Len(written) PROVE staged[i] # written[j].name
    <3>1. CASE j = Len(commit.written) + 1
      <4>1. \A l1, l2 \in 1 .. Len(commit.staged) : commit.staged[l1] = commit.staged[l2] => l1 = l2
        BY <1>1 DEF CommitInv, WrittenOnce
      <4>2. i + 1 \in 1 .. Len(commit.staged) /\ i + 1 # 1 /\ staged[i] = commit.staged[i + 1]
        BY <1>11
      <4>3. written[j].name = commit.staged[1] /\ 1 \in 1 .. Len(commit.staged)
        BY <1>4, <1>7, <1>10, <3>1
      <4> QED BY <4>1, <4>2, <4>3
    <3>2. CASE j \in 1 .. Len(commit.written)
      <4>1. \A l1 \in 1 .. Len(commit.staged), l2 \in 1 .. Len(commit.written) :
              commit.staged[l1] # commit.written[l2].name
        BY <1>1 DEF CommitInv, WrittenOnce
      <4>2. i + 1 \in 1 .. Len(commit.staged) /\ staged[i] = commit.staged[i + 1] /\ written[j] = commit.written[j]
        BY <1>7, <1>11, <3>2
      <4> QED BY <3>2, <4>1, <4>2
    <3> QED BY <1>7, <3>1, <3>2
  <2> QED BY <1>8, <2>1, <2>2 DEF WrittenOnce
<1>14. TextKept' /\ Restored'
  BY <1>1, <1>8, <1>9 DEF CommitInv, TextKept, Restored
<1>15. Undoable'
  <2> SUFFICES ASSUME ~ commit.replaced PROVE \E m \in [Names -> Stored] : WritesFrom(m)' /\ MovesTo(m)'
    BY <1>8 DEF Undoable
  <2>1. PICK m \in [Names -> Stored] : WritesFrom(m) /\ MovesTo(m)
    BY <1>1 DEF CommitInv, Undoable, Undoing
  <2>2. \A j \in 1 .. Len(commit.written) : commit.written[j].name # n
    BY <1>1, <1>4 DEF CommitInv, WrittenOnce
  <2>3. e.was = m[n]
    BY <1>4, <1>10, <2>1, <2>2 DEF WritesFrom
  <2>4. \A i \in 1 .. Len(written) : written[i].was = m[written[i].name]
    <3> TAKE i \in 1 .. Len(written)
    <3>1. CASE i = Len(commit.written) + 1
      BY <1>7, <1>10, <2>3, <3>1
    <3>2. CASE i \in 1 .. Len(commit.written)
      BY <1>7, <2>1, <3>2 DEF WritesFrom
    <3> QED BY <1>7, <3>1, <3>2
  <2>5. ASSUME NEW a \in Names, \A i \in 1 .. Len(written) : written[i].name # a
        PROVE  area'.files["managed"][a] = m[a]
    <3>1. a # n
      BY <1>7, <1>10, <2>5
    <3>2. ASSUME NEW i \in 1 .. Len(commit.written) PROVE commit.written[i].name # a
      <4>1. i \in 1 .. Len(written) /\ written[i] = commit.written[i]
        BY <1>7
      <4> QED BY <2>5, <4>1
    <3>3. area'.files["managed"][a] = area.files["managed"][a]
      BY <1>9, <3>1 DEF Stores
    <3>4. area.files["managed"][a] = m[a]
      BY <2>1, <3>2 DEF WritesFrom
    <3> QED BY <3>3, <3>4
  <2>6. WritesFrom(m)'
    BY <1>8, <2>4, <2>5 DEF WritesFrom
  <2>7. \A s \in {"context", "bare"}, a \in Names : area'.files[s][a] = area.files[s][a]
    BY <1>9 DEF Stores
  <2>8. MovesTo(m)'
    BY <1>8, <2>1, <2>7, MovesKept
  <2> QED BY <2>6, <2>8
<1> QED BY <1>1, <1>8, <1>9, <1>12, <1>13, <1>14, <1>15 DEF CommitInv, CommitTyped

(* The last attachment written is taken back.                              *)
LEMMA UndoWriteStep ==
  ASSUME CommitInv, UndoWrite
  PROVE  CommitInv'
<1> DEFINE e == Last(commit.written)
<1>1. commit \in Commit /\ area \in Area /\ commit.at = "undo" /\ commit.before \in Area /\ commit.written # <<>>
  BY DEF CommitInv, CommitTyped, UndoWrite, UndoOrder
<1>2. /\ area' = [area EXCEPT !.files["managed"][e.name] = e.was]
      /\ commit' = [commit EXCEPT !.written = Front(@)]
  BY DEF UndoWrite
<1>3. /\ Front(commit.written) \in Seq(Writings) /\ Len(Front(commit.written)) = Len(commit.written) - 1
      /\ Len(commit.written) \in Nat \ {0} /\ e \in Writings /\ e = commit.written[Len(commit.written)]
      /\ \A i \in 1 .. Len(Front(commit.written)) : Front(commit.written)[i] = commit.written[i]
  <2>1. commit.written \in Seq(Writings)
    BY <1>1 DEF Commit
  <2> QED BY <1>1, <2>1, FrontFacts
<1> HIDE DEF e
<1>4. e.name \in Names /\ e.was \in Stored
  BY <1>3 DEF Writings
<1>5. PICK written \in Seq(Writings) : written = Front(commit.written)
  BY <1>3
<1>6. /\ commit' \in Commit /\ commit'.at = "undo" /\ commit'.denied = commit.denied
      /\ commit'.before = commit.before /\ commit'.moved = commit.moved /\ commit'.written = written
      /\ commit'.replaced = commit.replaced
  BY <1>1, <1>2, <1>5 DEF Commit
<1>7. /\ area' \in Area
      /\ \A s \in Stores, k \in Names : area'.files[s][k] = IF k = e.name /\ s = "managed" THEN e.was ELSE area.files[s][k]
      /\ area'.text = area.text /\ area'.double = area.double /\ area'.manifest = area.manifest
  BY <1>1, <1>2, <1>4, WrittenBackFacts
<1>8. TextKept' /\ NoneLeftOut' /\ WrittenOnce' /\ Restored'
  BY <1>1, <1>6, <1>7 DEF CommitInv, TextKept, NoneLeftOut, WrittenOnce, Restored
<1>9. Undoable'
  <2> SUFFICES ASSUME ~ commit.replaced PROVE \E m \in [Names -> Stored] : WritesFrom(m)' /\ MovesTo(m)'
    BY <1>6 DEF Undoable
  <2>1. PICK m \in [Names -> Stored] : WritesFrom(m) /\ MovesTo(m)
    BY <1>1 DEF CommitInv, Undoable, Undoing
  <2>2. \A i \in 1 .. Len(commit.written) : commit.written[i].was = m[commit.written[i].name]
    BY <2>1 DEF WritesFrom
  <2>3. e.was = m[e.name]
    BY <1>3, <2>2
  <2>4. \A i \in 1 .. Len(written) : i \in 1 .. Len(commit.written) /\ written[i] = commit.written[i]
    BY <1>3, <1>5
  <2>5. ASSUME NEW a \in Names, \A i \in 1 .. Len(written) : written[i].name # a
        PROVE  area'.files["managed"][a] = m[a]
    <3>1. CASE a = e.name
      BY <1>7, <2>3, <3>1 DEF Stores
    <3>2. CASE a # e.name
      <4>1. \A i \in 1 .. Len(commit.written) : i \in 1 .. Len(written) \/ i = Len(commit.written)
        BY <1>3, <1>5
      <4>2. \A i \in 1 .. Len(commit.written) : commit.written[i].name # a
        BY <1>3, <2>4, <2>5, <3>2, <4>1
      <4> QED BY <1>7, <2>1, <3>2, <4>2 DEF WritesFrom, Stores
    <3> QED BY <3>1, <3>2
  <2>6. \A i \in 1 .. Len(written) : written[i].was = m[written[i].name]
    BY <2>2, <2>4
  <2>7. WritesFrom(m)'
    BY <1>6, <2>5, <2>6 DEF WritesFrom
  <2>8. \A s \in {"context", "bare"}, a \in Names : area'.files[s][a] = area.files[s][a]
    BY <1>7 DEF Stores
  <2>9. MovesTo(m)'
    BY <1>6, <2>1, <2>8, MovesKept
  <2> QED BY <2>7, <2>9
<1> QED BY <1>1, <1>6, <1>7, <1>8, <1>9 DEF CommitInv, CommitTyped

(* The last file moved is moved back, when it is there.                    *)
LEMMA UndoMoveStep ==
  ASSUME CommitInv, UndoMove
  PROVE  CommitInv'
<1> DEFINE e == Last(commit.moved)
           k == Len(commit.moved)
<1>1. /\ commit \in Commit /\ area \in Area /\ commit.at = "undo" /\ commit.before \in Area
      /\ commit.written = <<>> /\ commit.moved # <<>>
  BY DEF CommitInv, CommitTyped, UndoMove, UndoOrder
<1>2. /\ area' = IF e.name \notin In("managed") THEN area ELSE MovedBack(e)
      /\ commit' = [commit EXCEPT !.moved = Front(@)]
  BY Zenon DEF UndoMove, MovedBack
<1>3. /\ Front(commit.moved) \in Seq(Moves) /\ Len(Front(commit.moved)) = k - 1
      /\ k \in Nat \ {0} /\ e \in Moves /\ e = commit.moved[k]
      /\ \A i \in 1 .. Len(Front(commit.moved)) : Front(commit.moved)[i] = commit.moved[i]
  <2>1. commit.moved \in Seq(Moves)
    BY <1>1 DEF Commit
  <2> QED BY <1>1, <2>1, FrontFacts
<1> HIDE DEF e
<1>4. e.name \in Names /\ e.from \in {"context", "bare"} /\ e = [from |-> e.from, name |-> e.name]
  BY <1>3 DEF Moves
<1>5. PICK moved \in Seq(Moves) : moved = Front(commit.moved)
  BY <1>3
<1>6. /\ commit' \in Commit /\ commit'.at = "undo" /\ commit'.denied = commit.denied
      /\ commit'.before = commit.before /\ commit'.moved = moved /\ commit'.written = commit.written
      /\ commit'.replaced = commit.replaced
  BY <1>1, <1>2, <1>5 DEF Commit
<1>7. MovedBack(e) \in Area /\ \A s \in Stores, a \in Names : MovedBack(e).files[s][a] =
        IF a = e.name /\ s = "managed" THEN Absent
        ELSE IF a = e.name /\ s = e.from THEN area.files["managed"][a] ELSE area.files[s][a]
  <2>1. e \in [from : {"context", "bare"}, name : Names]
    BY <1>3 DEF Moves
  <2> QED BY <1>1, <2>1, MovedBackFacts
<1>8. /\ area' \in Area
      /\ area'.text = area.text /\ area'.double = area.double /\ area'.manifest = area.manifest
  <2>1. e \in [from : {"context", "bare"}, name : Names]
    BY <1>3 DEF Moves
  <2>2. /\ MovedBack(e).text = area.text /\ MovedBack(e).double = area.double
        /\ MovedBack(e).manifest = area.manifest
    BY <1>1, <2>1, MovedBackFacts
  <2> QED BY <1>1, <1>2, <1>7, <2>2
<1>9. TextKept' /\ NoneLeftOut' /\ WrittenOnce' /\ Restored'
  BY <1>1, <1>6, <1>8 DEF CommitInv, TextKept, NoneLeftOut, WrittenOnce, Restored
<1>10. Undoable'
  <2> SUFFICES ASSUME ~ commit.replaced PROVE \E m \in [Names -> Stored] : WritesFrom(m)' /\ MovesTo(m)'
    BY <1>6 DEF Undoable
  <2>1. PICK m \in [Names -> Stored] : WritesFrom(m) /\ MovesTo(m)
    BY <1>1 DEF CommitInv, Undoable, Undoing
  <2>2. \A a \in Names : area.files["managed"][a] = m[a]
    BY <1>1, <2>1 DEF WritesFrom
  <2>3. /\ m[e.name] # Absent /\ commit.before.files[e.from][e.name] = m[e.name]
        /\ commit.before.files["managed"][e.name] = Absent
    <3>1. k \in 1 .. k
      BY <1>3
    <3> QED BY <1>3, <2>1, <3>1 DEF MovesTo, CameFrom
  <2>4. area' = MovedBack(e)
    BY <1>2, <1>4, <2>2, <2>3 DEF In
  <2>5. PICK g \in [Names -> Stored] : g[e.name] = Absent /\ \A a \in Names \ {e.name} : g[a] = m[a]
    <3> DEFINE f == [m EXCEPT ![e.name] = Absent]
    <3>1. Absent \in Stored
      BY DEF Stored
    <3>2. f \in [Names -> Stored] /\ f[e.name] = Absent /\ \A a \in Names \ {e.name} : f[a] = m[a]
      BY <1>4, <3>1
    <3> QED BY <3>2
  <2>6. WritesFrom(g)'
    <3>1. \A a \in Names : area'.files["managed"][a] = g[a]
      BY <1>4, <1>7, <2>2, <2>4, <2>5 DEF Stores
    <3> QED BY <1>1, <1>6, <3>1 DEF WritesFrom
  <2>7. \A i \in 1 .. Len(moved) : i \in 1 .. k - 1 /\ i \in 1 .. k /\ moved[i] = commit.moved[i] /\ moved[i] \in Moves
    BY <1>3, <1>5
  <2>8. \A i, j \in 1 .. k : commit.moved[i].name = commit.moved[j].name => i = j
    BY <2>1 DEF MovesTo, MovedOnce
  <2>9. \A i \in 1 .. k : i \in 1 .. Len(moved) \/ i = k
    BY <1>3, <1>5
  <2>10. \A i \in 1 .. Len(moved) : moved[i].name \in Names \ {e.name}
    <3> TAKE i \in 1 .. Len(moved)
    <3>1. i # k /\ k \in 1 .. k
      BY <1>3, <2>7
    <3> QED BY <1>3, <2>7, <2>8, <3>1 DEF Moves
  <2>11. MovesTo(g)'
    <3>1. \A i, j \in 1 .. Len(moved) : moved[i].name = moved[j].name => i = j
      BY <2>7, <2>8
    <3>2. ASSUME NEW i \in 1 .. Len(moved)
          PROVE  /\ g[moved[i].name] # Absent
                 /\ commit.before.files[moved[i].from][moved[i].name] = g[moved[i].name]
                 /\ commit.before.files["managed"][moved[i].name] = Absent
      <4>1. /\ m[moved[i].name] # Absent
            /\ commit.before.files[moved[i].from][moved[i].name] = m[moved[i].name]
            /\ commit.before.files["managed"][moved[i].name] = Absent
        <5>1. \A l \in 1 .. k :
                /\ m[commit.moved[l].name] # Absent
                /\ commit.before.files[commit.moved[l].from][commit.moved[l].name] = m[commit.moved[l].name]
                /\ commit.before.files["managed"][commit.moved[l].name] = Absent
          BY <2>1 DEF MovesTo, CameFrom
        <5>2. i \in 1 .. k /\ moved[i] = commit.moved[i]
          BY <2>7
        <5> QED BY <5>1, <5>2
      <4> QED BY <2>5, <2>10, <4>1
    <3>3. ASSUME NEW a \in Names, \A i \in 1 .. Len(moved) : moved[i].name # a
          PROVE  g[a] = commit.before.files["managed"][a]
      <4>1. CASE a = e.name
        BY <2>3, <2>5, <4>1
      <4>2. CASE a # e.name
        <5>1. \A i \in 1 .. k : commit.moved[i].name # a
          BY <1>3, <2>7, <2>9, <3>3, <4>2
        <5> QED BY <2>1, <2>5, <4>2, <5>1 DEF MovesTo, NotMoved
      <4> QED BY <4>1, <4>2
    <3>4. ASSUME NEW s \in {"context", "bare"}, NEW a \in Names,
                 \A i \in 1 .. Len(moved) : moved[i] # [from |-> s, name |-> a]
          PROVE  area'.files[s][a] = commit.before.files[s][a]
      <4>1. CASE s = e.from /\ a = e.name
        BY <1>7, <2>2, <2>3, <2>4, <4>1 DEF Stores
      <4>2. CASE ~ (s = e.from /\ a = e.name)
        <5>1. e # [from |-> s, name |-> a]
          BY <4>2
        <5>2. \A i \in 1 .. k : commit.moved[i] # [from |-> s, name |-> a]
          BY <1>3, <2>7, <2>9, <3>4, <5>1
        <5>3. area'.files[s][a] = area.files[s][a]
          BY <1>7, <2>4, <4>2 DEF Stores
        <5> QED BY <2>1, <5>2, <5>3 DEF MovesTo, LeftThere
      <4> QED BY <4>1, <4>2
    <3>5. MovedOnce'
      BY <1>6, <3>1 DEF MovedOnce
    <3>6. CameFrom(g)'
      BY <1>6, <3>2 DEF CameFrom
    <3>7. NotMoved(g)'
      BY <1>6, <3>3 DEF NotMoved
    <3>8. LeftThere'
      BY <1>6, <3>4 DEF LeftThere
    <3> QED BY <3>5, <3>6, <3>7, <3>8 DEF MovesTo
  <2> QED BY <2>6, <2>11
<1> QED BY <1>1, <1>6, <1>8, <1>9, <1>10 DEF CommitInv, CommitTyped

(* Every step keeps CommitInv.                                             *)
LEMMA CommitInvStep == CommitInv /\ [CommitNext]_commitVars => CommitInv'
<1> SUFFICES ASSUME CommitInv, [CommitNext]_commitVars PROVE CommitInv'
  OBVIOUS
<1>1. CASE UNCHANGED commitVars
  <2>1. UNCHANGED <<area, commit>>
    BY <1>1 DEF commitVars
  <2>2. CommitTyped' /\ NoneLeftOut' /\ WrittenOnce' /\ TextKept' /\ Restored'
    BY <2>1 DEF CommitInv, CommitTyped, NoneLeftOut, StillStaged, WrittenOnce, TextKept, Restored
  <2>3. Undoable'
    <3>1. CASE commit.at \in Undoing
      <4>1. SameUndo
        BY <2>1 DEF SameUndo
      <4> QED BY <3>1, <4>1, UndoableKept DEF CommitInv
    <3>2. CASE commit.at \notin Undoing
      BY <2>1, <3>2 DEF Undoable
    <3> QED BY <3>1, <3>2
  <2> QED BY <2>2, <2>3 DEF CommitInv
<1>2. CASE CommitNext
  BY <1>2, CommitEndsStep, PrepareStep, QuietCommitStep, MoveStep, WriteAttachmentStep, UndoWriteStep,
     UndoMoveStep DEF CommitNext
<1> QED BY <1>1, <1>2

(* The invariant is what the property needs.                               *)
LEMMA CommitInvSuffices == CommitInv => CommitIsAllOrNothing
  BY DEF CommitInv, NoneLeftOut, Restored, TextKept, CommitIsAllOrNothing

(* CommitIsAllOrNothing for any attachments and any area: a commit that    *)
(* ends has what it downloaded, one that raises has changed no file.       *)
THEOREM CommitsAreAllOrNothing == CommitSpec => []CommitIsAllOrNothing
  BY CommitInvSuffices, CommitInvInit, CommitInvStep, PTL DEF CommitSpec

-----------------------------------------------------------------------------
(***************************************************************************)
(* Doctor: what a fix has mended is not found again, for two sources in    *)
(* any brain, with any number of files, calls, fixes that raise and        *)
(* deaths.                                                                 *)
(***************************************************************************)

DoctorSpec == DoctorInit /\ [][DoctorNext]_doctorVars

Checks == {"brain_manifest", "manifest_file_match", "identity_headers", "orphan_attachments",
           "db_source_consistency", "legacy_journal_layout", "orphan_insight_state_rows",
           "db_path_normalization"}
Findable == [check : Checks, of : Sources]
PlacesOrNone == Places \cup {NoPlace}
Visit == [at : {"away", "fixing"}, man : [Sources -> DoctorManifest], index : [Sources -> PlacesOrNone],
         findings : Seq(Findable), fixed : SUBSET Findable]

DoctorTyped == world \in Brain /\ visit \in Visit \cup {NoVisit}

(* A source that waits for its first content has done so since the scan.   *)
AwaitingAlready ==
  visit \in Visit =>
    \A s \in Sources : world.man[s].st = "awaiting" => visit.man[s].st = "awaiting"

(* The file a rewrite of the header goes to: what the scan knew leads to   *)
(* it, and what the manifests and the files are now leads there too.       *)
Seat(s) == IF IsFile(world, visit.man[s].path) THEN visit.man[s].path ELSE Lowest(Named(world, s))
Seated(s) ==
  /\ s \in Registered(world) /\ visit.man[s].st \in {"materialized", "stale"}
  /\ IsFile(world, visit.man[s].path) => world.man[s].path = visit.man[s].path
  /\ ~ IsFile(world, visit.man[s].path) =>
       /\ Named(world, s) # {} /\ ~ IsFile(world, visit.index[s])
       /\ FilesOf(world, s) \subseteq {Lowest(Named(world, s))}
       /\ world.man[s].path \in {visit.man[s].path, Lowest(Named(world, s))}

(* There is no file the source could be taken to have.                     *)
Nowhere(w, s) == ~ IsFile(w, w.man[s].path) /\ FilesOf(w, s) = {} /\ Named(w, s) = {}

(* A source is done when it is at its path, or could not come back.        *)
Arrived(w, s) ==
  \/ s \notin Registered(w)
  \/ IsFile(w, w.man[s].path)
  \/ w.man[s].st = "awaiting" /\ Nowhere(w, s)

(* Its file has its identity, or is the file of another source too.        *)
Headed(s) ==
  /\ Seated(s)
  /\ world.id[Seat(s)] = s \/ \E r \in Sources \ {s} : Seated(r) /\ Seat(r) = Seat(s)

(* What was found is mended, or a mend would be undone.                    *)
Settled(f) ==
  /\ f.check = "brain_manifest" => world.json
  /\ f.check = "manifest_file_match" => f.of \in world.leased \/ Arrived(world, f.of)
  /\ f.check = "identity_headers" => Headed(f.of)
  /\ f.check = "orphan_attachments" => f.of \notin OrphanDirs(world)
  /\ f.check = "db_source_consistency" => f.of \notin OrphanPolls(world)
  /\ f.check = "legacy_journal_layout" => ~ world.journal
  /\ f.check = "orphan_insight_state_rows" => f.of \notin world.rows

AllSeated ==
  \A f \in Findable, i \in 1 .. Len(visit.findings) :
    visit.findings[i] = f /\ f.check = "identity_headers" => Seated(f.of)
AllSettled == \A f \in visit.fixed : Settled(f)

DoctorInv == DoctorTyped /\ AwaitingAlready /\ AllSeated /\ AllSettled

-----------------------------------------------------------------------------
(* A set of numbers has a least one.                                       *)
LEMMA LeastNumber ==
  ASSUME NEW S \in SUBSET Nat, S # {}
  PROVE  \E p \in S : \A q \in S : p <= q
<1>1. PICK x \in S : \A y \in S : ~ (<<y, x>> \in OpToRel(<, Nat))
  BY NatLessThanWellFounded, WFMin
<1>2. \A y \in S : ~ (y < x)
  BY <1>1 DEF OpToRel
<1> QED BY <1>2

(* Of several files, one is met first and one last.                        *)
LEMMA EndsOfPlaces ==
  ASSUME NEW S \in SUBSET Places, S # {}
  PROVE  Lowest(S) \in S /\ Highest(S) \in S
<1> DEFINE n == Cardinality(Places)
<1>1. n \in Nat /\ Places = 1 .. n
  BY DoctorAssumption, FS_CardinalityType
<1> HIDE DEF n
<1>2. S \subseteq Nat
  BY <1>1
<1>3. Lowest(S) \in S
  BY <1>2, LeastNumber DEF Lowest
<1>4. Highest(S) \in S
  <2> DEFINE T == {k \in Nat : n - k \in S}
  <2>1. T # {}
    <3>1. PICK p \in S : TRUE
      OBVIOUS
    <3>2. p \in 1 .. n /\ n - p \in Nat /\ n - (n - p) = p
      BY <1>1
    <3> QED BY <3>1, <3>2
  <2>2. PICK k \in T : \A j \in T : k <= j
    <3> HIDE DEF T
    <3>1. T \in SUBSET Nat
      BY DEF T
    <3> QED BY <2>1, <3>1, LeastNumber
  <2>3. \A q \in S : n - k >= q
    <3> TAKE q \in S
    <3>1. q \in 1 .. n /\ n - q \in Nat /\ n - (n - q) = q
      BY <1>1
    <3>2. n - q \in T
      BY <3>1
    <3>3. k \in Nat /\ k <= n - q
      BY <2>2, <3>2
    <3> QED BY <1>1, <3>1, <3>3
  <2> QED BY <2>2, <2>3 DEF Highest
<1> QED BY <1>3, <1>4

(* The place 0 is none, and no file is there.                              *)
LEMMA NoPlaceIsNone == NoPlace \notin Places /\ \A w : ~ IsFile(w, NoPlace)
<1>1. NoPlace \notin Places
  BY DoctorAssumption, FS_CardinalityType DEF NoPlace
<1> QED BY <1>1 DEF IsFile

(* The identity index knows for each source a file with its identity.      *)
LEMMA IndexFacts ==
  ASSUME NEW w \in Brain
  PROVE  /\ IdentityIndex(w) \in [Sources -> PlacesOrNone]
         /\ \A s \in Sources : /\ FilesOf(w, s) # {} => IdentityIndex(w)[s] \in FilesOf(w, s)
                               /\ FilesOf(w, s) = {} => IdentityIndex(w)[s] = NoPlace
         /\ \A s \in Sources : \A p \in FilesOf(w, s) : IsFile(w, p)
<1>1. \A s \in Sources : FilesOf(w, s) \subseteq Places
  BY DEF FilesOf
<1>2. \A s \in Sources : FilesOf(w, s) # {} => Highest(FilesOf(w, s)) \in FilesOf(w, s)
  BY <1>1, EndsOfPlaces
<1>3. \A s \in Sources : \A p \in FilesOf(w, s) : IsFile(w, p)
  BY DEF FilesOf, IsFile, Sources, NoFile
<1> QED BY <1>1, <1>2, <1>3 DEF IdentityIndex, PlacesOrNone

(* Where a source is taken to be.                                          *)
LEMMA PlaceFacts ==
  ASSUME NEW w \in Brain, NEW m \in DoctorManifest, NEW s \in Sources, NEW known \in [Sources -> PlacesOrNone]
  PROVE  /\ PlaceOf(w, m, s, known) \in PlacesOrNone
         /\ PlaceOf(w, m, s, known) # NoPlace => IsFile(w, PlaceOf(w, m, s, known))
         /\ IsFile(w, m.path) => PlaceOf(w, m, s, known) = m.path
         /\ PlaceOf(w, m, s, known) = NoPlace =>
              ~ IsFile(w, m.path) /\ FilesOf(w, s) = {} /\ Named(w, s) = {}
<1> DEFINE F == FilesOf(w, s)
           N == Named(w, s)
<1>1. F \subseteq Places /\ N \subseteq Places
  BY DEF FilesOf, Named
<1>2. (F # {} => Lowest(F) \in F) /\ (N # {} => Lowest(N) \in N)
  BY <1>1, EndsOfPlaces
<1>3. (\A p \in F : IsFile(w, p)) /\ (\A p \in N : IsFile(w, p))
  BY DEF FilesOf, Named, IsFile, Sources, NoFile
<1>4. \A p : IsFile(w, p) => p \in Places /\ p # NoPlace
  BY NoPlaceIsNone DEF IsFile
<1>5. CASE IsFile(w, m.path)
  BY <1>5, <1>4 DEF PlaceOf, PlacesOrNone
<1>6. CASE ~ IsFile(w, m.path) /\ IsFile(w, known[s])
  BY <1>6, <1>4 DEF PlaceOf, PlacesOrNone
<1>7. CASE ~ IsFile(w, m.path) /\ ~ IsFile(w, known[s]) /\ F # {}
  <2>1. PlaceOf(w, m, s, known) = Lowest(F)
    BY <1>7 DEF PlaceOf
  <2> QED BY <2>1, <1>7, <1>2, <1>3, <1>4 DEF PlacesOrNone
<1>8. CASE ~ IsFile(w, m.path) /\ ~ IsFile(w, known[s]) /\ F = {} /\ N # {}
  <2>1. PlaceOf(w, m, s, known) = Lowest(N)
    BY <1>8 DEF PlaceOf
  <2> QED BY <2>1, <1>8, <1>2, <1>3, <1>4 DEF PlacesOrNone
<1>9. CASE ~ IsFile(w, m.path) /\ ~ IsFile(w, known[s]) /\ F = {} /\ N = {}
  <2>1. PlaceOf(w, m, s, known) = NoPlace
    BY <1>9 DEF PlaceOf
  <2> QED BY <2>1, <1>9 DEF PlacesOrNone
<1> QED BY <1>5, <1>6, <1>7, <1>8, <1>9

(* The index of a reconcile is empty.                                      *)
LEMMA NoIndexTyped == NoIndex \in [Sources -> PlacesOrNone]
  BY DEF NoIndex, PlacesOrNone

-----------------------------------------------------------------------------
(* What a step may do to a brain that takes back no mend: it changes no    *)
(* file and sends no manifest elsewhere than to the place of its source.   *)
Tame(w, v) ==
  /\ v \in Brain /\ v.id = w.id /\ v.leased = w.leased
  /\ (w.json => v.json) /\ v.dirs \subseteq w.dirs /\ (v.journal => w.journal) /\ v.rows \subseteq w.rows
  /\ Registered(v) = Registered(w) /\ OrphanPolls(v) \subseteq OrphanPolls(w)
  /\ \A s \in Sources :
       LET p == PlaceOf(w, w.man[s], s, NoIndex)
       IN  /\ v.man[s].path # w.man[s].path => p # NoPlace /\ v.man[s].path = p
           /\ v.man[s].st = "awaiting" => w.man[s].st = "awaiting"
           /\ w.man[s].st = "awaiting" /\ p = NoPlace => v.man[s] = w.man[s]

Done == [world : Brain, updated : SUBSET Sources, notFound : SUBSET Sources, raised : BOOLEAN]

(* Whether a source has a manifest and where its files are is read from    *)
(* these parts of a brain alone.                                           *)
LEMMA PartsRead ==
  ASSUME NEW w, NEW v, v.id = w.id
  PROVE  /\ \A p : IsFile(v, p) <=> IsFile(w, p)
         /\ \A s : FilesOf(v, s) = FilesOf(w, s) /\ Named(v, s) = Named(w, s)
         /\ \A m, s, known : PlaceOf(v, m, s, known) = PlaceOf(w, m, s, known)
<1>1. /\ \A p : IsFile(v, p) <=> IsFile(w, p)
      /\ \A s : FilesOf(v, s) = FilesOf(w, s) /\ Named(v, s) = Named(w, s)
  BY DEF IsFile, FilesOf, Named
<1> QED BY <1>1 DEF PlaceOf

(* It is tame to write the place of a source into its manifest.            *)
LEMMA ManifestChanged ==
  ASSUME NEW w \in Brain, NEW v \in Brain, NEW s \in Registered(w),
         v.id = w.id, v.leased = w.leased, v.json = w.json, v.dirs = w.dirs, v.journal = w.journal,
         v.rows = w.rows, v.polled \subseteq w.polled \cup {s},
         \A t \in Sources \ {s} : v.man[t] = w.man[t],
         v.man[s].st # "none",
         LET p == PlaceOf(w, w.man[s], s, NoIndex)
         IN  /\ v.man[s].path # w.man[s].path => p # NoPlace /\ v.man[s].path = p
             /\ v.man[s].st = "awaiting" => w.man[s].st = "awaiting"
             /\ w.man[s].st = "awaiting" => p # NoPlace
  PROVE  Tame(w, v)
<1>1. Registered(v) = Registered(w)
  BY DEF Registered
<1>2. OrphanPolls(v) \subseteq OrphanPolls(w)
  BY <1>1 DEF OrphanPolls
<1> QED BY <1>1, <1>2 DEF Tame, Registered

(* A brain is tame to itself.                                              *)
LEMMA TameAtRest == ASSUME NEW w \in Brain PROVE Tame(w, w)
  BY DEF Tame

(* One source of a reconcile.                                              *)
LEMMA OneReconciled ==
  ASSUME NEW done \in Done, NEW s \in Sources, NEW r, r = ReconciledOne(done, s)
  PROVE  /\ r \in Done /\ Tame(done.world, r.world) /\ (done.raised => r.raised)
         /\ \A t \in Sources \ {s} : /\ r.world.man[t] = done.world.man[t]
                                     /\ t \in r.updated <=> t \in done.updated
                                     /\ t \in r.notFound <=> t \in done.notFound
         /\ ~ r.raised => s \in r.world.leased \/ Arrived(r.world, s) \/ s \in r.notFound
         /\ s \in r.updated /\ s \notin done.updated => Arrived(r.world, s)
<1> DEFINE w == done.world
           m == w.man[s]
           p == PlaceOf(w, m, s, NoIndex)
<1>1. w \in Brain /\ m \in DoctorManifest
  BY DEF Done, Brain
<1>2. /\ p \in PlacesOrNone /\ (p # NoPlace => IsFile(w, p))
      /\ p = NoPlace => ~ IsFile(w, m.path) /\ FilesOf(w, s) = {} /\ Named(w, s) = {}
  BY <1>1, NoIndexTyped, PlaceFacts
<1>3. CASE done.raised \/ s \notin Registered(w) \/ s \in w.leased \/ (p = NoPlace /\ m.st = "awaiting")
  <2>1. r = done
    BY <1>3 DEF ReconciledOne
  <2> QED BY <1>1, <1>2, <1>3, <2>1, TameAtRest DEF Arrived, Nowhere, Done
<1>4. CASE ~ (done.raised \/ s \notin Registered(w) \/ s \in w.leased \/ (p = NoPlace /\ m.st = "awaiting"))
  <2> DEFINE gone == [m EXCEPT !.st = "missing"]
             there == Synced(m, p)
  <2>1. CASE p = NoPlace
    <3>1. r = [done EXCEPT !.world = [w EXCEPT !.man[s] = gone, !.polled = w.polled \ {s}],
                           !.notFound = done.notFound \cup {s}]
      BY <1>4, <2>1 DEF ReconciledOne, Done
    <3>2. gone \in DoctorManifest /\ gone.st = "missing" /\ gone.path = m.path
      BY <1>1 DEF DoctorManifest
    <3>3. r.world = [w EXCEPT !.man[s] = gone, !.polled = w.polled \ {s}]
      BY <3>1 DEF Done
    <3>4. w.polled \ {s} \in SUBSET Sources /\ w.polled \ {s} \subseteq w.polled \cup {s}
      BY <1>1 DEF Brain
    <3>5. Tame(w, r.world) /\ \A t \in Sources \ {s} : r.world.man[t] = w.man[t]
      <4>1. /\ r.world \in Brain /\ r.world.man[s] = gone /\ r.world.polled = w.polled \ {s}
            /\ \A t \in Sources \ {s} : r.world.man[t] = w.man[t]
            /\ r.world.id = w.id /\ r.world.leased = w.leased /\ r.world.json = w.json
            /\ r.world.dirs = w.dirs /\ r.world.journal = w.journal /\ r.world.rows = w.rows
        <5> DEFINE v == r.world
        <5> HIDE DEF gone, w, v
        <5>1. v = [w EXCEPT !.man[s] = gone, !.polled = w.polled \ {s}]
          BY <3>3 DEF v
        <5>2. v.man \in [Sources -> DoctorManifest] /\ v.man[s] = gone /\ \A t \in Sources \ {s} : v.man[t] = w.man[t]
          BY <1>1, <3>2, <5>1 DEF Brain
        <5>3. v \in Brain /\ v.polled = w.polled \ {s}
          BY <1>1, <3>4, <5>1, <5>2 DEF Brain
        <5>4. /\ v.id = w.id /\ v.leased = w.leased /\ v.json = w.json
              /\ v.dirs = w.dirs /\ v.journal = w.journal /\ v.rows = w.rows
          BY <1>1, <5>1 DEF Brain
        <5> QED BY <5>2, <5>3, <5>4 DEF v
      <4>2. s \in Registered(w) /\ (w.man[s].st = "awaiting" => p # NoPlace)
        BY <1>4
      <4> HIDE DEF gone
      <4> QED BY <1>1, <3>2, <3>4, <4>1, <4>2, ManifestChanged
    <3>6. r \in Done
      <4>1. r.world \in Brain
        BY <3>5 DEF Tame
      <4>2. /\ r = [world |-> r.world, updated |-> done.updated, notFound |-> done.notFound \cup {s},
                    raised |-> done.raised]
            /\ done.updated \in SUBSET Sources /\ done.notFound \cup {s} \in SUBSET Sources
            /\ done.raised \in BOOLEAN
        BY <3>1 DEF Done
      <4> QED BY <4>1, <4>2 DEF Done
    <3>7. r.notFound = done.notFound \cup {s} /\ r.updated = done.updated /\ r.raised = done.raised
      BY <3>1 DEF Done
    <3> QED BY <3>5, <3>6, <3>7
  <2>2. CASE p # NoPlace /\ m.st = "missing" /\ ~ m.hash
    <3>1. r = [done EXCEPT !.raised = TRUE]
      BY <1>4, <2>2 DEF ReconciledOne
    <3>2. /\ r \in Done /\ r.world = w /\ r.updated = done.updated /\ r.notFound = done.notFound
          /\ r.raised = TRUE
      BY <3>1 DEF Done
    <3> QED BY <1>1, <3>2, TameAtRest
  <2>3. CASE p # NoPlace /\ ~ (m.st = "missing" /\ ~ m.hash)
    <3> DEFINE Q == w.polled \cup (IF m.st = "missing" THEN {s} ELSE {})
               U == done.updated \cup (IF m.st # "missing" /\ p # m.path THEN {s} ELSE {})
    <3>1. r = [done EXCEPT !.world = [w EXCEPT !.man[s] = there, !.polled = Q], !.updated = U]
      BY <1>4, <2>3 DEF ReconciledOne, Done
    <3>2. /\ there \in DoctorManifest /\ there.st # "none" /\ there.path = p
          /\ there.st = "awaiting" => m.st = "awaiting"
      BY <1>1, <1>2, <1>4 DEF DoctorManifest, Synced, PlacesOrNone, Registered
    <3>3. r.world = [w EXCEPT !.man[s] = there, !.polled = Q]
      BY <3>1 DEF Done
    <3>4. Q \in SUBSET Sources /\ Q \subseteq w.polled \cup {s} /\ U \in SUBSET Sources
      BY <1>1 DEF Brain, Done
    <3>5. /\ Tame(w, r.world) /\ r.world.man[s] = there
          /\ \A t \in Sources \ {s} : r.world.man[t] = w.man[t]
      <4>1. /\ r.world \in Brain /\ r.world.man[s] = there /\ r.world.polled = Q
            /\ \A t \in Sources \ {s} : r.world.man[t] = w.man[t]
            /\ r.world.id = w.id /\ r.world.leased = w.leased /\ r.world.json = w.json
            /\ r.world.dirs = w.dirs /\ r.world.journal = w.journal /\ r.world.rows = w.rows
        <5> DEFINE v == r.world
        <5> HIDE DEF there, w, v, Q
        <5>1. v = [w EXCEPT !.man[s] = there, !.polled = Q]
          BY <3>3 DEF v
        <5>2. v.man \in [Sources -> DoctorManifest] /\ v.man[s] = there /\ \A t \in Sources \ {s} : v.man[t] = w.man[t]
          BY <1>1, <3>2, <5>1 DEF Brain
        <5>3. v \in Brain /\ v.polled = Q
          BY <1>1, <3>4, <5>1, <5>2 DEF Brain
        <5>4. /\ v.id = w.id /\ v.leased = w.leased /\ v.json = w.json
              /\ v.dirs = w.dirs /\ v.journal = w.journal /\ v.rows = w.rows
          BY <1>1, <5>1 DEF Brain
        <5> QED BY <5>2, <5>3, <5>4 DEF v
      <4>2. s \in Registered(w)
        BY <1>4
      <4> HIDE DEF there, Q
      <4> QED BY <1>1, <2>3, <3>2, <3>4, <4>1, <4>2, ManifestChanged
    <3>6. r \in Done
      BY <3>1, <3>4, <3>5 DEF Done, Tame
    <3>7. r.notFound = done.notFound /\ r.updated = U /\ r.raised = done.raised
      BY <3>1 DEF Done
    <3>8. IsFile(r.world, p)
      <4>1. r.world.id = w.id
        BY <3>5 DEF Tame
      <4> QED BY <1>2, <2>3, <4>1, PartsRead
    <3>9. Arrived(r.world, s)
      BY <3>2, <3>5, <3>8 DEF Arrived
    <3> QED BY <3>5, <3>6, <3>7, <3>9
  <2> QED BY <2>1, <2>2, <2>3
<1> QED BY <1>3, <1>4


(* One tame change after another is a tame change.                         *)
LEMMA TameTwice ==
  ASSUME NEW u \in Brain, NEW v, NEW w, Tame(u, v), Tame(v, w)
  PROVE  Tame(u, w)
<1>1. v \in Brain /\ v.id = u.id
  BY DEF Tame
<1>2. \A m, s, known : PlaceOf(v, m, s, known) = PlaceOf(u, m, s, known)
  BY <1>1, PartsRead
<1>3. ASSUME NEW s \in Sources
      PROVE  LET p == PlaceOf(u, u.man[s], s, NoIndex)
             IN  /\ w.man[s].path # u.man[s].path => p # NoPlace /\ w.man[s].path = p
                 /\ w.man[s].st = "awaiting" => u.man[s].st = "awaiting"
                 /\ u.man[s].st = "awaiting" /\ p = NoPlace => w.man[s] = u.man[s]
  <2> DEFINE p == PlaceOf(u, u.man[s], s, NoIndex)
             q == PlaceOf(v, v.man[s], s, NoIndex)
  <2>1. /\ v.man[s].path # u.man[s].path => p # NoPlace /\ v.man[s].path = p
        /\ v.man[s].st = "awaiting" => u.man[s].st = "awaiting"
        /\ u.man[s].st = "awaiting" /\ p = NoPlace => v.man[s] = u.man[s]
        /\ w.man[s].path # v.man[s].path => q # NoPlace /\ w.man[s].path = q
        /\ w.man[s].st = "awaiting" => v.man[s].st = "awaiting"
        /\ v.man[s].st = "awaiting" /\ q = NoPlace => w.man[s] = v.man[s]
    BY DEF Tame
  <2>2. u.man[s] \in DoctorManifest /\ v.man[s] \in DoctorManifest
    BY <1>1 DEF Brain
  <2>3. p # NoPlace => IsFile(u, p)
    BY <2>2, NoIndexTyped, PlaceFacts
  <2>4. q = IF v.man[s].path = u.man[s].path THEN p ELSE v.man[s].path
    <3>1. CASE v.man[s].path = u.man[s].path
      <4>1. q = PlaceOf(u, v.man[s], s, NoIndex)
        BY <1>2
      <4>2. PlaceOf(u, v.man[s], s, NoIndex) = PlaceOf(u, u.man[s], s, NoIndex)
        BY <3>1 DEF PlaceOf
      <4> QED BY <3>1, <4>1, <4>2
    <3>2. CASE v.man[s].path # u.man[s].path
      <4>1. IsFile(u, v.man[s].path)
        BY <2>1, <2>3, <3>2
      <4>2. PlaceOf(u, v.man[s], s, NoIndex) = v.man[s].path
        BY <2>2, <4>1, NoIndexTyped, PlaceFacts
      <4> QED BY <1>2, <3>2, <4>2
    <3> QED BY <3>1, <3>2
  <2> HIDE DEF p, q
  <2>5. /\ w.man[s].path # u.man[s].path => p # NoPlace /\ w.man[s].path = p
        /\ w.man[s].st = "awaiting" => u.man[s].st = "awaiting"
        /\ u.man[s].st = "awaiting" /\ p = NoPlace => w.man[s] = u.man[s]
    BY <2>1, <2>4
  <2> QED BY <2>5 DEF p
<1>4. /\ w \in Brain /\ w.id = u.id /\ w.leased = u.leased
      /\ (u.json => w.json) /\ w.dirs \subseteq u.dirs /\ (w.journal => u.journal) /\ w.rows \subseteq u.rows
      /\ Registered(w) = Registered(u) /\ OrphanPolls(w) \subseteq OrphanPolls(u)
  BY DEF Tame
<1> QED BY <1>3, <1>4 DEF Tame

(* What a tame change leaves arrived.                                      *)
LEMMA ArrivedStays ==
  ASSUME NEW w \in Brain, NEW v, Tame(w, v), NEW s \in Sources, Arrived(w, s)
  PROVE  Arrived(v, s)
<1>1. v.id = w.id /\ Registered(v) = Registered(w)
  BY DEF Tame
<1>2. w.man[s] \in DoctorManifest
  BY DEF Brain
<1>3. CASE IsFile(w, w.man[s].path)
  <2>1. PlaceOf(w, w.man[s], s, NoIndex) = w.man[s].path
    BY <1>2, <1>3, NoIndexTyped, PlaceFacts
  <2>2. v.man[s].path = w.man[s].path
    BY <2>1 DEF Tame
  <2> QED BY <1>1, <1>3, <2>2, PartsRead DEF Arrived
<1>4. CASE w.man[s].st = "awaiting" /\ Nowhere(w, s)
  <2>1. PlaceOf(w, w.man[s], s, NoIndex) = NoPlace
    <3>1. ~ IsFile(w, NoIndex[s])
      BY NoPlaceIsNone DEF NoIndex
    <3> QED BY <1>4, <3>1 DEF PlaceOf, Nowhere
  <2>2. v.man[s] = w.man[s]
    BY <1>4, <2>1 DEF Tame
  <2> QED BY <1>1, <1>4, <2>2, PartsRead DEF Arrived, Nowhere
<1> QED BY <1>1, <1>3, <1>4 DEF Arrived

(* A reconcile is tame, and a source it is said to have mended has arrived,*)
(* or was leased.                                                          *)
LEMMA ReconcileFacts ==
  ASSUME NEW w \in Brain, NEW r, r = Reconciled(w)
  PROVE  /\ Tame(w, r.world)
         /\ \A s \in Sources : ~ r.raised /\ (s \in r.updated \/ s \notin r.notFound) =>
              s \in r.world.leased \/ Arrived(r.world, s)
<1> DEFINE none == NotDone(w)
           one == ReconciledOne(none, 1)
           two == ReconciledOne(one, 2)
<1>1. /\ none \in Done /\ none.world = w /\ none.updated = {} /\ none.notFound = {}
  BY DEF NotDone, Done
<1>2. 1 \in Sources /\ 2 \in Sources /\ \A s \in Sources : s \in {1, 2}
  BY DEF Sources
<1>3. /\ one \in Done /\ Tame(w, one.world) /\ (none.raised => one.raised)
      /\ \A t \in Sources \ {1} : t \notin one.updated
      /\ ~ one.raised => 1 \in one.world.leased \/ Arrived(one.world, 1) \/ 1 \in one.notFound
      /\ 1 \in one.updated => Arrived(one.world, 1)
  <2> HIDE DEF none
  <2> QED BY <1>1, <1>2, OneReconciled
<1>4. /\ two \in Done /\ Tame(one.world, two.world) /\ (one.raised => two.raised)
      /\ 1 \in two.updated => 1 \in one.updated
      /\ 1 \in one.notFound => 1 \in two.notFound
      /\ ~ two.raised => 2 \in two.world.leased \/ Arrived(two.world, 2) \/ 2 \in two.notFound
      /\ 2 \in two.updated => Arrived(two.world, 2)
  <2> HIDE DEF one
  <2> QED BY <1>2, <1>3, OneReconciled
<1> HIDE DEF none, one, two
<1>5. one.world \in Brain /\ two.world \in Brain /\ two.world.leased = one.world.leased
  BY <1>3, <1>4 DEF Tame, Done
<1>6. Tame(w, two.world)
  BY <1>3, <1>4, TameTwice
<1>7. Arrived(one.world, 1) => Arrived(two.world, 1)
  BY <1>2, <1>4, <1>5, ArrivedStays
<1>8. \A s \in Sources : ~ two.raised /\ (s \in two.updated \/ s \notin two.notFound) =>
        s \in two.world.leased \/ Arrived(two.world, s)
  BY <1>2, <1>3, <1>4, <1>5, <1>7
<1>9. CASE two.raised
  <2>1. r = two
    BY <1>9 DEF Reconciled, one, two, none
  <2> QED BY <1>6, <1>8, <2>1
<1>10. CASE ~ two.raised
  <2> DEFINE u == two.world
             v == [u EXCEPT !.polled = u.polled \cap Registered(u)]
  <2>1. r = [two EXCEPT !.world = v]
    BY <1>4, <1>10 DEF Reconciled, one, two, none, Done
  <2>2. r.world = v /\ r.raised = two.raised /\ r.updated = two.updated /\ r.notFound = two.notFound
    BY <1>4, <2>1 DEF Done
  <2>3. /\ v \in Brain /\ v.id = u.id /\ v.leased = u.leased /\ v.man = u.man
        /\ v.json = u.json /\ v.dirs = u.dirs /\ v.journal = u.journal /\ v.rows = u.rows
        /\ v.polled = u.polled \cap Registered(u)
    BY <1>5 DEF Brain
  <2>4. Registered(v) = Registered(u)
    BY <2>3 DEF Registered
  <2>5. Tame(u, v)
    BY <2>3, <2>4 DEF Tame, OrphanPolls
  <2>6. Tame(w, v) /\ \A s \in Sources : Arrived(u, s) => Arrived(v, s)
    BY <1>5, <1>6, <2>5, TameTwice, ArrivedStays
  <2> QED BY <1>8, <2>2, <2>3, <2>6
<1> QED BY <1>9, <1>10

-----------------------------------------------------------------------------
(* The seat of a source is a file, and whoever looks for the source finds  *)
(* it.                                                                     *)
LEMMA SeatFacts ==
  ASSUME world \in Brain, visit \in Visit, NEW s \in Sources, Seated(s)
  PROVE  /\ Seat(s) \in Places /\ IsFile(world, Seat(s))
         /\ PlaceOf(world, visit.man[s], s, visit.index) = Seat(s)
         /\ PlaceOf(world, world.man[s], s, NoIndex) = Seat(s)
         /\ PlaceOf(world, world.man[s], s, IdentityIndex(world)) = Seat(s)
<1> DEFINE F == FilesOf(world, s)
           N == Named(world, s)
           known == visit.man[s].path
           now == world.man[s].path
<1>1. /\ world.man[s] \in DoctorManifest /\ visit.man[s] \in DoctorManifest
      /\ visit.index \in [Sources -> PlacesOrNone] /\ IdentityIndex(world) \in [Sources -> PlacesOrNone]
  BY IndexFacts DEF Brain, Visit
<1>2. CASE IsFile(world, known)
  <2>1. Seat(s) = known /\ now = known
    BY <1>2 DEF Seat, Seated
  <2>2. known \in Places
    BY <1>2 DEF IsFile
  <2> QED BY <1>1, <1>2, <2>1, <2>2, NoIndexTyped, PlaceFacts
<1>3. CASE ~ IsFile(world, known)
  <2>1. /\ Seat(s) = Lowest(N) /\ N # {} /\ ~ IsFile(world, visit.index[s])
        /\ F \subseteq {Seat(s)} /\ now \in {known, Seat(s)}
    BY <1>3 DEF Seat, Seated
  <2>2. Seat(s) \in N
    <3>1. N \subseteq Places
      BY DEF Named
    <3> QED BY <2>1, <3>1, EndsOfPlaces
  <2>3. Seat(s) \in Places /\ IsFile(world, Seat(s))
    BY <2>2 DEF Named
  <2>4. F # {} => Lowest(F) = Seat(s)
    <3>1. F \subseteq Places
      BY DEF FilesOf
    <3> QED BY <2>1, <3>1, EndsOfPlaces
  <2>5. ~ IsFile(world, NoIndex[s])
    BY NoPlaceIsNone DEF NoIndex
  <2>6. PlaceOf(world, visit.man[s], s, visit.index) = Seat(s)
    <3>1. CASE F = {}
      BY <1>3, <2>1, <3>1 DEF PlaceOf
    <3>2. CASE F # {}
      BY <1>3, <2>1, <2>4, <3>2 DEF PlaceOf
    <3> QED BY <3>1, <3>2
  <2>7. CASE now = Seat(s)
    BY <1>1, <2>3, <2>6, <2>7, NoIndexTyped, PlaceFacts
  <2>8. CASE now = known
    <3>1. PlaceOf(world, world.man[s], s, NoIndex) = Seat(s)
      <4>1. CASE F = {}
        BY <1>3, <2>1, <2>5, <2>8, <4>1 DEF PlaceOf
      <4>2. CASE F # {}
        BY <1>3, <2>4, <2>5, <2>8, <4>2 DEF PlaceOf
      <4> QED BY <4>1, <4>2
    <3>2. PlaceOf(world, world.man[s], s, IdentityIndex(world)) = Seat(s)
      <4>1. CASE F = {}
        <5>1. ~ IsFile(world, IdentityIndex(world)[s])
          BY <4>1, IndexFacts, NoPlaceIsNone
        <5> QED BY <1>3, <2>1, <2>8, <4>1, <5>1 DEF PlaceOf
      <4>2. CASE F # {}
        <5>1. IdentityIndex(world)[s] \in F
          BY <4>2, IndexFacts
        <5>2. IdentityIndex(world)[s] = Seat(s)
          BY <2>1, <5>1
        <5> QED BY <1>3, <2>3, <2>8, <5>2 DEF PlaceOf
      <4> QED BY <4>1, <4>2
    <3> QED BY <2>3, <2>6, <3>1, <3>2
  <2> QED BY <2>1, <2>7, <2>8
<1> QED BY <1>2, <1>3

(* What a tame change keeps.                                               *)
LEMMA TameKeeps ==
  ASSUME world \in Brain, visit \in Visit, Tame(world, world'),
         visit'.man = visit.man, visit'.index = visit.index
  PROVE  /\ \A s \in Sources : Seated(s) => Seated(s)' /\ Seat(s)' = Seat(s)
         /\ \A f \in Findable : Settled(f) => Settled(f)'
         /\ AwaitingAlready => AwaitingAlready'
<1>1. /\ world'.id = world.id /\ Registered(world') = Registered(world)
      /\ world'.leased = world.leased /\ OrphanPolls(world') \subseteq OrphanPolls(world)
      /\ (world.json => world'.json) /\ world'.dirs \subseteq world.dirs
      /\ (world'.journal => world.journal) /\ world'.rows \subseteq world.rows
  BY DEF Tame
<1>2. /\ \A p : IsFile(world', p) <=> IsFile(world, p)
      /\ \A s : FilesOf(world', s) = FilesOf(world, s) /\ Named(world', s) = Named(world, s)
  BY <1>1, PartsRead
<1>3. ASSUME NEW s \in Sources, Seated(s)
      PROVE  Seated(s)' /\ Seat(s)' = Seat(s)
  <2>1. Seat(s)' = Seat(s)
    BY <1>2 DEF Seat
  <2>2. PlaceOf(world, world.man[s], s, NoIndex) = Seat(s)
    BY <1>3, SeatFacts
  <2>3. world'.man[s].path \in {world.man[s].path, Seat(s)}
    BY <2>2 DEF Tame
  <2>4. CASE IsFile(world, visit.man[s].path)
    <3>1. Seat(s) = visit.man[s].path /\ world.man[s].path = visit.man[s].path
      BY <1>3, <2>4 DEF Seat, Seated
    <3> QED BY <1>1, <1>2, <1>3, <2>1, <2>3, <2>4, <3>1 DEF Seated
  <2>5. CASE ~ IsFile(world, visit.man[s].path)
    <3>1. Seat(s) = Lowest(Named(world, s))
      BY <2>5 DEF Seat
    <3> QED BY <1>1, <1>2, <1>3, <2>1, <2>3, <2>5, <3>1 DEF Seated
  <2> QED BY <2>4, <2>5
<1>4. ASSUME NEW f \in Findable, Settled(f)
      PROVE  Settled(f)'
  <2>1. f.of \in Sources
    BY DEF Findable
  <2>2. Arrived(world, f.of) => Arrived(world', f.of)
    BY <2>1, ArrivedStays
  <2>3. f.check = "identity_headers" => Headed(f.of)'
    <3> SUFFICES ASSUME Headed(f.of) PROVE Headed(f.of)'
      BY <1>4 DEF Settled
    <3> QED BY <1>1, <1>3, <2>1 DEF Headed
  <2> QED BY <1>1, <1>4, <2>2, <2>3 DEF Settled, OrphanDirs
<1>5. AwaitingAlready => AwaitingAlready'
  BY DEF AwaitingAlready, Tame
<1> QED BY <1>3, <1>4, <1>5

(* What the rewrite of a header keeps: it goes to the seat of its source,  *)
(* and takes the file from nobody but a source that has the same seat.     *)
LEMMA RewriteKeeps ==
  ASSUME world \in Brain, visit \in Visit, AwaitingAlready, NEW s \in Sources, Seated(s),
         world' = [world EXCEPT !.id[Seat(s)] = s],
         visit'.man = visit.man, visit'.index = visit.index
  PROVE  /\ world' \in Brain /\ AwaitingAlready' /\ Headed(s)'
         /\ \A r \in Sources : Seated(r) => Seated(r)' /\ Seat(r)' = Seat(r)
         /\ \A f \in Findable : Settled(f) => Settled(f)'
<1> DEFINE seat == Seat(s)
<1>1. seat \in Places /\ IsFile(world, seat)
  BY SeatFacts
<1> HIDE DEF seat
<1>2. world'.id = [world.id EXCEPT ![seat] = s]
  BY DEF Brain, seat
<1>3. /\ world' \in Brain /\ world'.man = world.man /\ world'.leased = world.leased
      /\ world'.polled = world.polled /\ world'.json = world.json /\ world'.dirs = world.dirs
      /\ world'.journal = world.journal /\ world'.rows = world.rows
  BY <1>1, <1>2 DEF Brain, seat
<1>4. \A p : IsFile(world', p) <=> IsFile(world, p)
  BY <1>1, <1>2 DEF IsFile, Sources, NoFile, Brain
<1>5. /\ \A r : Named(world', r) = Named(world, r)
      /\ \A r \in Sources \ {s} : FilesOf(world', r) \subseteq FilesOf(world, r)
      /\ FilesOf(world', s) \subseteq FilesOf(world, s) \cup {seat}
  BY <1>1, <1>2, <1>4 DEF Named, FilesOf, Brain
<1>6. Registered(world') = Registered(world)
  BY <1>3 DEF Registered
<1>7. ASSUME NEW r \in Sources, Seated(r)
      PROVE  Seated(r)' /\ Seat(r)' = Seat(r)
  <2>1. Seat(r)' = Seat(r)
    BY <1>4, <1>5 DEF Seat
  <2>2. CASE IsFile(world, visit.man[r].path)
    BY <1>3, <1>4, <1>6, <1>7, <2>1, <2>2 DEF Seated
  <2>3. CASE ~ IsFile(world, visit.man[r].path)
    <3>1. Seat(r) = Lowest(Named(world, r)) /\ FilesOf(world, r) \subseteq {Seat(r)}
      BY <1>7, <2>3 DEF Seat, Seated
    <3>2. FilesOf(world', r) \subseteq {Seat(r)}
      BY <1>5, <3>1 DEF seat
    <3> QED BY <1>3, <1>4, <1>5, <1>6, <1>7, <2>1, <2>3, <3>1, <3>2 DEF Seated
  <2> QED BY <2>1, <2>2, <2>3
<1>8. Headed(s)'
  <2>1. Seated(s)' /\ Seat(s)' = seat
    BY <1>7 DEF seat
  <2>2. world'.id[seat] = s
    BY <1>1, <1>2 DEF Brain
  <2> QED BY <2>1, <2>2 DEF Headed
<1>9. ASSUME NEW f \in Findable, Settled(f)
      PROVE  Settled(f)'
  <2>1. f.of \in Sources
    BY DEF Findable
  <2>2. Arrived(world, f.of) => Arrived(world', f.of)
    <3> SUFFICES ASSUME world.man[f.of].st = "awaiting", Nowhere(world, f.of) PROVE Nowhere(world', f.of)
      BY <1>3, <1>4, <1>6 DEF Arrived
    <3>1. visit.man[f.of].st = "awaiting"
      BY <2>1 DEF AwaitingAlready
    <3>2. f.of # s
      BY <3>1 DEF Seated
    <3> QED BY <1>3, <1>4, <1>5, <2>1, <3>2 DEF Nowhere
  <2>3. Headed(f.of) => Headed(f.of)'
    <3> SUFFICES ASSUME Headed(f.of) PROVE Headed(f.of)'
      OBVIOUS
    <3>1. CASE f.of = s
      BY <1>8, <3>1
    <3>2. CASE f.of # s /\ Seat(f.of) = seat
      <4>1. Seated(f.of)' /\ Seat(f.of)' = seat /\ Seated(s)' /\ Seat(s)' = seat
        BY <1>7, <2>1, <3>2 DEF Headed, seat
      <4> QED BY <3>2, <4>1 DEF Headed
    <3>3. CASE f.of # s /\ Seat(f.of) # seat
      <4>1. Seated(f.of)' /\ Seat(f.of)' = Seat(f.of)
        BY <1>7, <2>1 DEF Headed
      <4>2. CASE world.id[Seat(f.of)] = f.of
        BY <1>2, <3>3, <4>1, <4>2 DEF Headed, Brain
      <4>3. CASE \E r \in Sources \ {f.of} : Seated(r) /\ Seat(r) = Seat(f.of)
        BY <1>7, <4>1, <4>3 DEF Headed
      <4> QED BY <4>2, <4>3 DEF Headed
    <3> QED BY <3>1, <3>2, <3>3
  <2> QED BY <1>3, <1>6, <1>9, <2>2, <2>3 DEF Settled, OrphanDirs, OrphanPolls
<1>10. AwaitingAlready'
  BY <1>3 DEF AwaitingAlready, Visit
<1> QED BY <1>3, <1>7, <1>8, <1>9, <1>10

-----------------------------------------------------------------------------
(* What a finding of a scan says.                                          *)
Found(w, f) ==
  /\ f \in Findable
  /\ f.check = "brain_manifest" => ~ w.json
  /\ f.check = "manifest_file_match" => f.of \in Moved(w)
  /\ f.check = "identity_headers" => f.of \in Misnamed(w)
  /\ f.check = "orphan_attachments" => f.of \in OrphanDirs(w)
  /\ f.check = "db_source_consistency" => f.of \in OrphanPolls(w)
  /\ f.check = "legacy_journal_layout" => w.journal
  /\ f.check = "orphan_insight_state_rows" => f.of \in w.rows

AllFound(w, s) == s \in Seq(Findable) /\ \A i \in 1 .. Len(s) : Found(w, s[i])

(* What each of two lists names is there: so it is in the two joined.      *)
LEMMA FoundJoined ==
  ASSUME NEW w, NEW s, NEW t, AllFound(w, s), AllFound(w, t)
  PROVE  AllFound(w, s \o t)
<1>1. s \o t \in Seq(Findable) /\ Len(s \o t) = Len(s) + Len(t)
  BY DEF AllFound
<1>2. ASSUME NEW i \in 1 .. Len(s \o t)
      PROVE  Found(w, (s \o t)[i])
  <2>1. CASE i \in 1 .. Len(s)
    BY <2>1 DEF AllFound
  <2>2. CASE i \notin 1 .. Len(s)
    <3>1. i - Len(s) \in 1 .. Len(t) /\ (s \o t)[i] = t[i - Len(s)]
      BY <1>1, <2>2 DEF AllFound
    <3> QED BY <3>1 DEF AllFound
  <2> QED BY <2>1, <2>2
<1> QED BY <1>1, <1>2 DEF AllFound

(* So it is for the list of one check.                                     *)
LEMMA FoundListed ==
  ASSUME NEW w, NEW check, NEW found, \A n \in found : Found(w, [check |-> check, of |-> n])
  PROVE  AllFound(w, Listed(check, found))
<1>1. ASSUME NEW n PROVE AllFound(w, ListedIf(check, n, found))
  <2>1. CASE n \in found
    <3>1. ListedIf(check, n, found) = <<[check |-> check, of |-> n]>>
      BY <2>1 DEF ListedIf
    <3>2. Found(w, [check |-> check, of |-> n])
      BY <2>1
    <3>3. [check |-> check, of |-> n] \in Findable
      BY <3>2 DEF Found
    <3> QED BY <3>1, <3>2, <3>3 DEF AllFound
  <2>2. CASE n \notin found
    BY <2>2 DEF ListedIf, AllFound
  <2> QED BY <2>1, <2>2
<1> QED BY <1>1, FoundJoined DEF Listed

(* The findings of a scan are true of what it scanned.                     *)
LEMMA FindingsFound == ASSUME NEW w \in Brain PROVE AllFound(w, Findings(w))
<1>1. /\ BadManifest(w) \subseteq Sources /\ Moved(w) \subseteq Sources /\ Misnamed(w) \subseteq Sources
      /\ OrphanDirs(w) \subseteq Sources /\ OrphanPolls(w) \subseteq Sources
      /\ OldJournals(w) \subseteq Sources /\ w.rows \subseteq Sources
  BY DEF BadManifest, Moved, Misnamed, OrphanDirs, OrphanPolls, OldJournals, Registered, Brain,
         Sources, GoneRow, BadRow
<1>2. /\ AllFound(w, Listed("brain_manifest", BadManifest(w)))
      /\ AllFound(w, Listed("manifest_file_match", Moved(w)))
      /\ AllFound(w, Listed("identity_headers", Misnamed(w)))
      /\ AllFound(w, Listed("orphan_attachments", OrphanDirs(w)))
  <2>1. \A n \in BadManifest(w) : Found(w, [check |-> "brain_manifest", of |-> n])
    BY <1>1 DEF Found, Findable, Checks, BadManifest
  <2>2. \A n \in Moved(w) : Found(w, [check |-> "manifest_file_match", of |-> n])
    BY <1>1 DEF Found, Findable, Checks
  <2>3. \A n \in Misnamed(w) : Found(w, [check |-> "identity_headers", of |-> n])
    BY <1>1 DEF Found, Findable, Checks
  <2>4. \A n \in OrphanDirs(w) : Found(w, [check |-> "orphan_attachments", of |-> n])
    BY <1>1 DEF Found, Findable, Checks
  <2> QED BY <2>1, <2>2, <2>3, <2>4, FoundListed
<1>3. /\ AllFound(w, Listed("db_source_consistency", OrphanPolls(w)))
      /\ AllFound(w, Listed("legacy_journal_layout", OldJournals(w)))
      /\ AllFound(w, Listed("orphan_insight_state_rows", RowsOfNoArea(w)))
      /\ AllFound(w, Listed("db_path_normalization", RowsOfBadPath(w)))
  <2>1. \A n \in OrphanPolls(w) : Found(w, [check |-> "db_source_consistency", of |-> n])
    BY <1>1 DEF Found, Findable, Checks
  <2>2. \A n \in OldJournals(w) : Found(w, [check |-> "legacy_journal_layout", of |-> n])
    BY <1>1 DEF Found, Findable, Checks, OldJournals
  <2>3. \A n \in RowsOfNoArea(w) : Found(w, [check |-> "orphan_insight_state_rows", of |-> n])
    BY <1>1 DEF Found, Findable, Checks, RowsOfNoArea
  <2>4. \A n \in RowsOfBadPath(w) : Found(w, [check |-> "db_path_normalization", of |-> n])
    BY <1>1 DEF Found, Findable, Checks, RowsOfBadPath
  <2> QED BY <2>1, <2>2, <2>3, <2>4, FoundListed
<1> HIDE DEF AllFound
<1>4. AllFound(w, Listed("brain_manifest", BadManifest(w))
                    \o Listed("manifest_file_match", Moved(w))
                    \o Listed("identity_headers", Misnamed(w))
                    \o Listed("orphan_attachments", OrphanDirs(w)))
  BY <1>2, FoundJoined
<1> QED BY <1>3, <1>4, FoundJoined DEF Findings

(* A source with a file of another identity has a seat.                    *)
LEMMA MisnamedSeated ==
  ASSUME world \in Brain, NEW s \in Misnamed(world), visit' \in Visit, world' = world,
         visit'.man = world.man, visit'.index = IdentityIndex(world)
  PROVE  Seated(s)'
<1> DEFINE known == IdentityIndex(world)
           p == PlaceOf(world, world.man[s], s, known)
<1>1. /\ s \in Registered(world) /\ world.man[s].st \in {"materialized", "stale"}
      /\ p # NoPlace /\ world.id[p] # s /\ s \in Sources
  BY DEF Misnamed, Registered
<1>2. world.man[s] \in DoctorManifest /\ known \in [Sources -> PlacesOrNone]
  BY <1>1, IndexFacts DEF Brain
<1>3. ~ IsFile(world, world.man[s].path) =>
        FilesOf(world, s) = {} /\ ~ IsFile(world, known[s]) /\ Named(world, s) # {}
  <2> SUFFICES ASSUME ~ IsFile(world, world.man[s].path)
               PROVE  FilesOf(world, s) = {} /\ ~ IsFile(world, known[s]) /\ Named(world, s) # {}
    OBVIOUS
  <2>1. FilesOf(world, s) = {}
    <3> SUFFICES ASSUME FilesOf(world, s) # {} PROVE FALSE
      OBVIOUS
    <3>1. known[s] \in FilesOf(world, s) /\ IsFile(world, known[s])
      BY <1>1, IndexFacts
    <3>2. p = known[s]
      BY <3>1 DEF PlaceOf
    <3> QED BY <1>1, <3>1, <3>2 DEF FilesOf
  <2>2. ~ IsFile(world, known[s])
    BY <1>1, <2>1, IndexFacts, NoPlaceIsNone
  <2>3. Named(world, s) # {}
    <3> SUFFICES ASSUME Named(world, s) = {} PROVE FALSE
      OBVIOUS
    <3> QED BY <1>1, <2>1, <2>2 DEF PlaceOf
  <2> QED BY <2>1, <2>2, <2>3
<1> QED BY <1>1, <1>3 DEF Seated

-----------------------------------------------------------------------------
(* Nothing is found, nothing is mended.                                    *)
LEMMA DoctorInvInit == DoctorInit => DoctorInv
<1> SUFFICES ASSUME DoctorInit PROVE DoctorInv
  OBVIOUS
<1>1. world \in Brain
  BY DoctorAssumption DEF DoctorInit
<1>2. visit = NoVisit /\ visit.findings = <<>> /\ visit.fixed = {}
  BY DEF DoctorInit, NoVisit
<1>3. visit \notin Visit
  <2> SUFFICES ASSUME visit \in Visit PROVE FALSE
    OBVIOUS
  <2>1. DOMAIN visit.man = Sources /\ 1 \in Sources /\ visit.man = <<>>
    BY <1>2 DEF Visit, NoVisit, Sources
  <2> QED BY <2>1
<1> QED BY <1>1, <1>2, <1>3 DEF DoctorInv, DoctorTyped, AwaitingAlready, AllSeated, AllSettled

(* Who fixes something has scanned.                                        *)
LEMMA Scanned == ASSUME DoctorTyped, visit.at = "fixing" PROVE visit \in Visit
  BY DEF DoctorTyped, NoVisit

(* A scan names what is there, and its fixes have mended nothing yet.      *)
LEMMA ScanStep == ASSUME DoctorInv, Scan PROVE DoctorInv'
<1> DEFINE s == Findings(world)
<1>1. world \in Brain /\ AllFound(world, s)
  BY FindingsFound DEF DoctorInv, DoctorTyped
<1>2. /\ visit' = [at |-> "fixing", man |-> world.man, index |-> IdentityIndex(world),
                   findings |-> s, fixed |-> {}]
      /\ world' = world
  BY DEF Scan
<1>3. visit' \in Visit /\ visit'.man = world.man /\ visit'.index = IdentityIndex(world)
  BY <1>1, <1>2, IndexFacts DEF Visit, AllFound, Brain
<1>4. AllSeated'
  <2> SUFFICES ASSUME NEW f \in Findable, NEW i \in 1 .. Len(s), s[i] = f, f.check = "identity_headers"
               PROVE  Seated(f.of)'
    BY <1>2 DEF AllSeated
  <2>1. f.of \in Misnamed(world)
    BY <1>1 DEF AllFound, Found
  <2> QED BY <1>1, <1>2, <1>3, <2>1, MisnamedSeated
<1> QED BY <1>1, <1>2, <1>3, <1>4 DEF DoctorInv, DoctorTyped, AwaitingAlready, AllSettled

(* A step that takes up the first finding and keeps what was settled and   *)
(* seated has to settle that finding, if it marks it.                      *)
LEMMA TakenUp ==
  ASSUME DoctorInv, visit.at = "fixing", visit.findings # <<>>, world' \in Brain, AwaitingAlready',
         NEW more, more \subseteq {Head(visit.findings)},
         visit' = [visit EXCEPT !.findings = Tail(visit.findings), !.fixed = visit.fixed \cup more],
         \A s \in Sources : Seated(s) => Seated(s)',
         \A f \in Findable : Settled(f) => Settled(f)',
         \A f \in more : Settled(f)'
  PROVE  DoctorInv'
<1>1. visit \in Visit
  BY Scanned DEF DoctorInv
<1>2. Head(visit.findings) \in Findable /\ Tail(visit.findings) \in Seq(Findable)
  BY <1>1 DEF Visit
<1>3. visit' \in Visit /\ visit'.findings = Tail(visit.findings) /\ visit'.fixed = visit.fixed \cup more
  BY <1>1, <1>2 DEF Visit
<1>4. AllSeated'
  <2> SUFFICES ASSUME NEW f \in Findable, NEW i \in 1 .. Len(Tail(visit.findings)),
                      Tail(visit.findings)[i] = f, f.check = "identity_headers"
               PROVE  Seated(f.of)'
    BY <1>3 DEF AllSeated
  <2>1. i + 1 \in 1 .. Len(visit.findings) /\ visit.findings[i + 1] = f
    BY <1>1 DEF Visit
  <2>2. Seated(f.of) /\ f.of \in Sources
    BY <2>1 DEF DoctorInv, AllSeated, Findable
  <2> QED BY <2>2
<1>5. AllSettled'
  BY <1>1, <1>3 DEF AllSettled, DoctorInv, Visit
<1> QED BY <1>3, <1>4, <1>5 DEF DoctorInv, DoctorTyped

(* Of a fix that is tame.                                                  *)
LEMMA TameFix ==
  ASSUME DoctorInv, visit.at = "fixing", visit.findings # <<>>, Tame(world, world'),
         NEW more, more \subseteq {Head(visit.findings)},
         visit' = [visit EXCEPT !.findings = Tail(visit.findings), !.fixed = visit.fixed \cup more],
         \A f \in more : Settled(f)'
  PROVE  DoctorInv'
<1>1. visit \in Visit /\ world \in Brain /\ AwaitingAlready
  BY Scanned DEF DoctorInv, DoctorTyped
<1>2. visit'.man = visit.man /\ visit'.index = visit.index
  BY <1>1 DEF Visit
<1>3. world' \in Brain
  BY DEF Tame
<1> QED BY <1>1, <1>2, <1>3, TameKeeps, TakenUp

(* A fix that leaves files and manifests alone and only takes away what    *)
(* was found is tame.                                                      *)
LEMMA Lessened ==
  ASSUME NEW w \in Brain, NEW v \in Brain, v.id = w.id, v.man = w.man, v.leased = w.leased,
         w.json => v.json, v.polled \subseteq w.polled, v.dirs \subseteq w.dirs,
         v.journal => w.journal, v.rows \subseteq w.rows
  PROVE  Tame(w, v)
<1>1. Registered(v) = Registered(w)
  BY DEF Registered
<1> QED BY <1>1 DEF Tame, OrphanPolls

(* What a fix leaves, and whether it counts as applied.                    *)
LEMMA OutcomeFacts == ASSUME NEW w, NEW a PROVE Outcome(w, a).world = w /\ Outcome(w, a).applied = a
  BY DEF Outcome

(* The next fix breaks nothing, and what it mends it mends for good.       *)
LEMMA FixStep == ASSUME DoctorInv, Fix PROVE DoctorInv'
<1>1. visit \in Visit /\ world \in Brain /\ visit.at = "fixing" /\ visit.findings # <<>> /\ AwaitingAlready
  BY Scanned DEF DoctorInv, DoctorTyped, Fix
<1>1a. PICK f \in Findable : f = Head(visit.findings)
  BY <1>1 DEF Visit
<1>2. PICK left :
        /\ f = Head(visit.findings) /\ left = Fixed(f)
        /\ world' = left.world
        /\ visit' = [visit EXCEPT !.findings = Tail(visit.findings),
                                 !.fixed = visit.fixed \cup (IF left.applied THEN {f} ELSE {})]
  BY <1>1a, Zenon DEF Fix
<1>3. f.check \in Checks /\ f.of \in Sources
  BY DEF Findable
<1>4. f.check = "identity_headers" => Seated(f.of)
  <2>1. 1 \in 1 .. Len(visit.findings) /\ visit.findings[1] = f
    BY <1>1, <1>2 DEF Visit
  <2> QED BY <2>1 DEF DoctorInv, AllSeated
<1>5. PICK more : /\ more = IF left.applied THEN {f} ELSE {}
                  /\ more \subseteq {Head(visit.findings)}
                  /\ visit' = [visit EXCEPT !.findings = Tail(visit.findings), !.fixed = visit.fixed \cup more]
  BY <1>2
<1>6. world' = left.world
  BY <1>2
<1>7. CASE f.check = "identity_headers"
  <2>1. PlaceOf(world, visit.man[f.of], f.of, visit.index) = Seat(f.of) /\ Seat(f.of) # NoPlace
    BY <1>1, <1>3, <1>4, <1>7, SeatFacts, NoPlaceIsNone
  <2>2. left = Outcome([world EXCEPT !.id[Seat(f.of)] = f.of], TRUE)
    BY <1>2, <1>7, <2>1 DEF Fixed, IdentityRewritten
  <2>3. world' = [world EXCEPT !.id[Seat(f.of)] = f.of]
    BY <1>6, <2>2, OutcomeFacts, Zenon
  <2>4. visit'.man = visit.man /\ visit'.index = visit.index
    BY <1>1, <1>2 DEF Visit
  <2>5. /\ world' \in Brain /\ AwaitingAlready' /\ Headed(f.of)'
        /\ \A r \in Sources : Seated(r) => Seated(r)'
        /\ \A g \in Findable : Settled(g) => Settled(g)'
    <3> QED BY <1>1, <1>3, <1>4, <1>7, <2>3, <2>4, RewriteKeeps
  <2>6. Settled(f)'
    BY <1>7, <2>5 DEF Settled
  <2>7. \A g \in more : Settled(g)'
    BY <1>5, <2>6
  <2> QED BY <1>1, <1>5, <2>5, <2>7, TakenUp
<1>8. CASE f.check # "identity_headers"
  <2>1. Tame(world, world') /\ (left.applied => Settled(f)')
    <3>1. CASE f.check = "brain_manifest"
      <4>1. left = Outcome([world EXCEPT !.json = TRUE], TRUE)
        BY <1>2, <3>1 DEF Fixed
      <4>2. world' = [world EXCEPT !.json = TRUE]
        BY <1>6, <4>1, OutcomeFacts, Zenon
      <4>3. /\ world' \in Brain /\ world'.id = world.id /\ world'.man = world.man
            /\ world'.leased = world.leased /\ world'.polled = world.polled /\ world'.dirs = world.dirs
            /\ world'.rows = world.rows /\ (world.json => world'.json) /\ (world'.journal => world.journal)
        BY <1>1, <4>2 DEF Brain
      <4>4. Tame(world, world')
        BY <1>1, <4>3, Lessened
      <4> QED BY <1>1, <3>1, <4>2, <4>4 DEF Settled, Brain
    <3>2. CASE f.check = "manifest_file_match"
      <4> DEFINE r == Reconciled(world)
      <4>1. left = Outcome(r.world, ~ r.raised /\ (f.of \in r.updated \/ f.of \notin r.notFound))
        BY <1>2, <3>2 DEF Fixed, Repaired
      <4>2. world' = r.world /\ (left.applied => ~ r.raised /\ (f.of \in r.updated \/ f.of \notin r.notFound))
        BY <1>6, <4>1, OutcomeFacts, Zenon
      <4> HIDE DEF r
      <4>3. /\ Tame(world, r.world)
            /\ left.applied => f.of \in r.world.leased \/ Arrived(r.world, f.of)
        BY <1>1, <1>3, <4>2, ReconcileFacts DEF r
      <4> QED BY <3>2, <4>2, <4>3 DEF Settled
    <3>3. CASE f.check = "orphan_attachments"
      <4>1. left = Outcome([world EXCEPT !.dirs = world.dirs \ {f.of}], f.of \in world.dirs)
        BY <1>2, <3>3 DEF Fixed, DirRemoved
      <4>2. world' = [world EXCEPT !.dirs = world.dirs \ {f.of}]
        BY <1>6, <4>1, OutcomeFacts, Zenon
      <4>3. Tame(world, world')
        BY <1>1, <4>2, Lessened DEF Brain
      <4> QED BY <1>1, <3>3, <4>2, <4>3 DEF Settled, Brain, OrphanDirs
    <3>4. CASE f.check = "db_source_consistency"
      <4>1. left = Outcome([world EXCEPT !.polled = world.polled \ {f.of}], TRUE)
        BY <1>2, <3>4 DEF Fixed, PollingDropped
      <4>2. world' = [world EXCEPT !.polled = world.polled \ {f.of}]
        BY <1>6, <4>1, OutcomeFacts, Zenon
      <4>3. Tame(world, world')
        BY <1>1, <4>2, Lessened DEF Brain
      <4> QED BY <1>1, <3>4, <4>2, <4>3 DEF Settled, Brain, OrphanPolls
    <3>5. CASE f.check = "legacy_journal_layout"
      <4>1. left = Outcome([world EXCEPT !.journal = FALSE], world.journal)
        BY <1>2, <3>5 DEF Fixed, JournalHealed
      <4>2. world' = [world EXCEPT !.journal = FALSE]
        BY <1>6, <4>1, OutcomeFacts, Zenon
      <4>3. /\ world' \in Brain /\ world'.id = world.id /\ world'.man = world.man
            /\ world'.leased = world.leased /\ world'.polled = world.polled /\ world'.dirs = world.dirs
            /\ world'.rows = world.rows /\ (world.json => world'.json) /\ (world'.journal => world.journal)
        BY <1>1, <4>2 DEF Brain
      <4>4. Tame(world, world')
        BY <1>1, <4>3, Lessened
      <4> QED BY <1>1, <3>5, <4>2, <4>4 DEF Settled, Brain
    <3>6. CASE f.check = "orphan_insight_state_rows"
      <4>1. CASE f.of = BadRow
        <5>1. left = Outcome(world, FALSE)
          BY <1>2, <3>6, <4>1 DEF Fixed, RowDeleted
        <5>2. world' = world /\ ~ left.applied
          BY <1>6, <5>1, OutcomeFacts, Zenon
        <5> QED BY <1>1, <5>2, TameAtRest
      <4>2. CASE f.of # BadRow
        <5>1. left = Outcome([world EXCEPT !.rows = world.rows \ {f.of}], TRUE)
          BY <1>2, <3>6, <4>2 DEF Fixed, RowDeleted
        <5>2. world' = [world EXCEPT !.rows = world.rows \ {f.of}]
          BY <1>6, <5>1, OutcomeFacts, Zenon
        <5>3. Tame(world, world')
          BY <1>1, <5>2, Lessened DEF Brain
        <5> QED BY <1>1, <3>6, <5>2, <5>3 DEF Settled, Brain
      <4> QED BY <4>1, <4>2
    <3>7. CASE f.check = "db_path_normalization"
      <4>1. left = Outcome(world, TRUE)
        BY <1>2, <3>7 DEF Fixed, PathNormalized
      <4>2. world' = world
        BY <1>6, <4>1, OutcomeFacts, Zenon
      <4> QED BY <1>1, <3>7, <4>2, TameAtRest DEF Settled
    <3> QED BY <1>3, <1>8, <3>1, <3>2, <3>3, <3>4, <3>5, <3>6, <3>7 DEF Checks
  <2>2. \A g \in more : Settled(g)'
    BY <1>5, <2>1
  <2> QED BY <1>1, <1>5, <2>1, <2>2, TameFix
<1> QED BY <1>7, <1>8

(* A fix that raises may have made its changes, and counts as none.        *)
LEMMA FixRaisesStep == ASSUME DoctorInv, FixRaises PROVE DoctorInv'
<1>1. visit \in Visit /\ world \in Brain /\ visit.at = "fixing" /\ visit.findings # <<>>
  BY Scanned DEF DoctorInv, DoctorTyped, FixRaises
<1>2. visit' = [visit EXCEPT !.findings = Tail(visit.findings), !.fixed = visit.fixed \cup {}]
  BY <1>1 DEF FixRaises, Visit
<1>3. Tame(world, world')
  <2>1. CASE UNCHANGED world
    BY <1>1, <2>1, TameAtRest
  <2>2. CASE world' = ReconciledOne(NotDone(world), 1).world
    <3>1. NotDone(world) \in Done /\ NotDone(world).world = world /\ 1 \in Sources
      BY <1>1 DEF NotDone, Done, Sources
    <3> QED BY <2>2, <3>1, OneReconciled
  <2> QED BY <2>1, <2>2 DEF FixRaises
<1>4. PICK more : more = {} /\ visit' = [visit EXCEPT !.findings = Tail(visit.findings),
                                                   !.fixed = visit.fixed \cup more]
  BY <1>2
<1>5. more \subseteq {Head(visit.findings)} /\ \A f \in more : Settled(f)'
  BY <1>4
<1> QED BY <1>1, <1>3, <1>4, <1>5, TameFix DEF FixRaises

(* The doctor goes, or dies, or nothing happens.                           *)
LEMMA RestingStep ==
  ASSUME DoctorInv, Leaves \/ DoctorDies \/ UNCHANGED doctorVars
  PROVE  DoctorInv'
<1>1. CASE UNCHANGED doctorVars
  <2>1. world' = world /\ visit' = visit
    BY <1>1 DEF doctorVars
  <2>2. \A s : Seat(s)' = Seat(s) /\ (Seated(s)' <=> Seated(s))
    BY <2>1 DEF Seated, Seat
  <2>3. \A f : Settled(f)' <=> Settled(f)
    BY <2>1, <2>2 DEF Settled, Headed
  <2> QED BY <2>1, <2>2, <2>3 DEF DoctorInv, DoctorTyped, AwaitingAlready, AllSeated, AllSettled
<1>2. CASE Leaves \/ DoctorDies
  <2>1. visit \in Visit /\ world' = world /\ visit' = [visit EXCEPT !.at = "away"]
    BY <1>2, Scanned DEF DoctorInv, Leaves, DoctorDies
  <2>2. /\ visit' \in Visit /\ visit'.man = visit.man /\ visit'.index = visit.index
        /\ visit'.findings = visit.findings /\ visit'.fixed = visit.fixed
    BY <2>1 DEF Visit
  <2>3. \A s : Seat(s)' = Seat(s) /\ (Seated(s)' <=> Seated(s))
    BY <2>1, <2>2 DEF Seated, Seat
  <2>4. \A f : Settled(f)' <=> Settled(f)
    BY <2>1, <2>3 DEF Settled, Headed
  <2> QED BY <2>1, <2>2, <2>3, <2>4 DEF DoctorInv, DoctorTyped, AwaitingAlready, AllSeated, AllSettled
<1> QED BY <1>1, <1>2

(* Every step of the doctor keeps its invariant.                           *)
LEMMA DoctorInvStep == DoctorInv /\ [DoctorNext]_doctorVars => DoctorInv'
  BY ScanStep, FixStep, FixRaisesStep, RestingStep DEF DoctorNext

(* What is settled and found all the same is one of the exceptions.        *)
LEMMA SettledNotFound ==
  ASSUME DoctorInv, NEW f \in visit.fixed, f \in ToSet(Findings(world))
  PROVE  Contested(f) \/ PassedOver(f) \/ f.check = "db_path_normalization"
<1>1. world \in Brain /\ Settled(f)
  BY DEF DoctorInv, DoctorTyped, AllSettled
<1>2. visit \in Visit
  BY DEF DoctorInv, DoctorTyped, NoVisit
<1>3. Found(world, f)
  <2>1. AllFound(world, Findings(world))
    BY <1>1, FindingsFound
  <2> QED BY <2>1 DEF AllFound, ToSet
<1>4. f.check \in Checks /\ f.of \in Sources
  BY <1>3 DEF Found, Findable
<1>5. CASE f.check = "manifest_file_match"
  <2> DEFINE s == f.of
             place == PlaceOf(world, world.man[s], s, IdentityIndex(world))
  <2>1. s \in Registered(world) /\ place \notin {NoPlace, world.man[s].path}
    BY <1>3, <1>5 DEF Found, Moved
  <2>2. IdentityIndex(world) \in [Sources -> PlacesOrNone] /\ world.man[s] \in DoctorManifest
    BY <1>1, <1>4, IndexFacts DEF Brain
  <2>3. ~ Arrived(world, s)
    <3>1. ~ IsFile(world, world.man[s].path)
      BY <1>1, <1>4, <2>1, <2>2, PlaceFacts
    <3>2. ~ Nowhere(world, s)
      <4> SUFFICES ASSUME Nowhere(world, s) PROVE FALSE
        OBVIOUS
      <4>1. ~ IsFile(world, IdentityIndex(world)[s])
        BY <1>1, <1>4, IndexFacts, NoPlaceIsNone DEF Nowhere
      <4>2. place = NoPlace
        BY <4>1 DEF PlaceOf, Nowhere
      <4> QED BY <2>1, <4>2
    <3> QED BY <2>1, <3>1, <3>2 DEF Arrived
  <2> QED BY <1>1, <1>5, <2>3 DEF Settled, PassedOver
<1>6. CASE f.check = "identity_headers"
  <2> DEFINE s == f.of
  <2>1. /\ Seated(s)
        /\ world.id[Seat(s)] = s \/ \E r \in Sources \ {s} : Seated(r) /\ Seat(r) = Seat(s)
    BY <1>1, <1>6 DEF Settled, Headed
  <2>2. world.id[PlaceOf(world, world.man[s], s, IdentityIndex(world))] # s
    BY <1>3, <1>6 DEF Found, Misnamed
  <2>3. /\ PlaceOf(world, world.man[s], s, IdentityIndex(world)) = Seat(s)
        /\ PlaceOf(world, world.man[s], s, NoIndex) = Seat(s)
    BY <1>1, <1>2, <1>4, <2>1, SeatFacts
  <2>4. PICK r \in Sources \ {s} : Seated(r) /\ Seat(r) = Seat(s)
    BY <2>1, <2>2, <2>3
  <2>5. r \in Registered(world) /\ PlaceOf(world, world.man[r], r, NoIndex) = Seat(s)
    BY <1>1, <1>2, <2>4, SeatFacts DEF Seated
  <2> QED BY <1>6, <2>3, <2>4, <2>5 DEF Contested
<1> QED BY <1>1, <1>3, <1>4, <1>5, <1>6 DEF Settled, Found, Checks

(* FixedStaysFixed for any files, brains, calls and hitches: the next scan *)
(* finds nothing again that was marked as fixed, but for two sources that  *)
(* take one file for theirs, a leased source, and a bad path.              *)
THEOREM FixedIsNotFoundAgain == DoctorSpec => FixedStaysFixed
<1>1. DoctorInv /\ [DoctorNext]_doctorVars =>
        [Scan => \A f \in visit.fixed \cap ToSet(Findings(world)) :
                   Contested(f) \/ PassedOver(f) \/ f.check = "db_path_normalization"]_doctorVars
  BY SettledNotFound
<1> QED BY <1>1, DoctorInvInit, DoctorInvStep, PTL DEF DoctorSpec, FixedStaysFixed

-----------------------------------------------------------------------------
(***************************************************************************)
(* PromptPlanner: what the planner refuses and what it leaves out, for     *)
(* every budget, number and length of the files, sub-areas and summaries,  *)
(* and every wording.                                                      *)
(***************************************************************************)

(* What holds of 0, and of a number if it does of the one before, holds up *)
(* to any number.                                                          *)
LEMMA UpToAny ==
  ASSUME NEW N \in Nat, NEW T, 0 \in T, \A n \in 1 .. N : n - 1 \in T => n \in T
  PROVE  \A n \in 0 .. N : n \in T
<1> DEFINE S == {n \in 0 .. N : n \notin T}
<1> SUFFICES ASSUME S # {} PROVE FALSE
  OBVIOUS
<1>1. PICK n \in S : \A m \in S : n <= m
  <2>1. S \in SUBSET Nat
    OBVIOUS
  <2> HIDE DEF S
  <2> QED BY <2>1, LeastNumber
<1>2. n \in 1 .. N /\ n \notin T
  BY <1>1
<1>3. n - 1 \in 0 .. N /\ ~ (n <= n - 1)
  BY <1>2
<1>4. n - 1 \notin S
  <2> HIDE DEF S
  <2> QED BY <1>1, <1>3
<1> QED BY <1>2, <1>3, <1>4

(* What holds of no elements, and of one more if it does of those before,  *)
(* holds of every sequence.                                                *)
LEMMA OneByOne ==
  ASSUME NEW S, NEW T, <<>> \in T, \A s \in Seq(S), e \in S : s \in T => Append(s, e) \in T
  PROVE  \A s \in Seq(S) : s \in T
<1> DEFINE L == {n \in Nat : \A s \in Seq(S) : Len(s) = n => s \in T}
<1>1. 0 \in L
  <2>1. \A s \in Seq(S) : Len(s) = 0 => s = <<>>
    BY EmptySeq
  <2> QED BY <2>1
<1>2. ASSUME NEW n \in Nat, n # 0, n - 1 \in L PROVE n \in L
  <2> SUFFICES ASSUME NEW s \in Seq(S), Len(s) = n PROVE s \in T
    OBVIOUS
  <2>1. s # <<>>
    BY <1>2, EmptySeq
  <2>2. PICK t \in Seq(S), e \in S : s = Append(t, e)
    BY <2>1, SequenceEmptyOrAppend
  <2>3. Len(t) = n - 1
    BY <2>2, AppendProperties
  <2>4. t \in T
    BY <1>2, <2>3
  <2> QED BY <2>2, <2>4
<1>3. ASSUME NEW s \in Seq(S) PROVE s \in T
  <2>1. Len(s) \in Nat
    OBVIOUS
  <2>2. \A n \in 1 .. Len(s) : n - 1 \in L => n \in L
    BY <1>2
  <2> HIDE DEF L
  <2>3. \A n \in 0 .. Len(s) : n \in L
    BY <1>1, <2>1, <2>2, UpToAny
  <2>4. Len(s) \in L
    BY <2>1, <2>3
  <2> QED BY <2>4 DEF L
<1> QED BY <1>3

(* A function on the numbers up to N that is made step by step.            *)
Stepwise(S, first, N, step, f) ==
  f \in [0 .. N -> S] /\ f[0] = first /\ \A n \in 1 .. N : f[n] = step[n][f[n - 1]]

(* A function that is defined step by step exists.                         *)
LEMMA StepByStep ==
  ASSUME NEW S, NEW first \in S, NEW N \in Nat, NEW step \in [1 .. N -> [S -> S]]
  PROVE  \E f : Stepwise(S, first, N, step, f)
<1> DEFINE Made(n, f) == f \in [0 .. n -> S] /\ f[0] = first /\ \A k \in 1 .. n : f[k] = step[k][f[k - 1]]
           T == {n \in 0 .. N : \E f : Made(n, f)}
<1>1. 0 \in T
  <2>1. Made(0, [k \in 0 .. 0 |-> first])
    OBVIOUS
  <2> HIDE DEF Made
  <2> QED BY <2>1
<1>2. ASSUME NEW n \in 1 .. N, n - 1 \in T PROVE n \in T
  <2>1. PICK g : Made(n - 1, g)
    BY <1>2
  <2> DEFINE f == [k \in 0 .. n |-> IF k = n THEN step[n][g[n - 1]] ELSE g[k]]
  <2>2. g[n - 1] \in S /\ n \in 0 .. N
    BY <2>1
  <2>3. step[n][g[n - 1]] \in S
    BY <2>2
  <2>4. f \in [0 .. n -> S]
    BY <2>1, <2>3
  <2>5. f[0] = first
    BY <2>1
  <2>6. ASSUME NEW k \in 1 .. n PROVE f[k] = step[k][f[k - 1]]
    <3>1. CASE k = n
      <4>1. n - 1 \in 0 .. n /\ n - 1 # n /\ n \in 0 .. n
        OBVIOUS
      <4>2. f[n] = step[n][g[n - 1]] /\ f[n - 1] = g[n - 1]
        BY <4>1
      <4> HIDE DEF f
      <4> QED BY <3>1, <4>2
    <3>2. CASE k # n
      <4>1. k \in 1 .. n - 1 /\ f[k] = g[k] /\ f[k - 1] = g[k - 1]
        BY <3>2
      <4> QED BY <2>1, <4>1
    <3> QED BY <3>1, <3>2
  <2>7. Made(n, f)
    BY <2>4, <2>5, <2>6
  <2> QED BY <2>2, <2>7
<1>3. \A n \in 0 .. N : n \in T
  <2> HIDE DEF T
  <2> QED BY <1>1, <1>2, UpToAny
<1>4. N \in T
  BY <1>3
<1> QED BY <1>4 DEF Stepwise

(* The sums of the first numbers of a sequence.                            *)
SumsOf(s, f) == f = [n \in 0 .. Len(s) |-> IF n = 0 THEN 0 ELSE f[n - 1] + s[n]]

(* They begin at nothing, and each is the one before and one number more.  *)
Adds(s, f) ==
  /\ f[0] = 0
  /\ \A n \in 1 .. Len(s) : s[n] \in Nat /\ f[n - 1] \in Nat /\ f[n] \in Nat /\ f[n] = f[n - 1] + s[n]

(* There are such sums of every sequence of numbers.                       *)
LEMMA SumsExist ==
  ASSUME NEW s \in Seq(Nat)
  PROVE  \E f : Adds(s, f) /\ f[Len(s)] = Total(s) /\ f[Len(s)] \in Nat
<1> DEFINE step == [n \in 1 .. Len(s) |-> [m \in Nat |-> m + s[n]]]
<1>1. step \in [1 .. Len(s) -> [Nat -> Nat]] /\ Len(s) \in Nat
  OBVIOUS
<1>2. \A n \in 1 .. Len(s), m \in Nat : step[n][m] = m + s[n]
  OBVIOUS
<1> HIDE DEF step
<1>3. PICK f \in [0 .. Len(s) -> Nat] : f[0] = 0 /\ \A n \in 1 .. Len(s) : f[n] = step[n][f[n - 1]]
  <2>1. 0 \in Nat
    OBVIOUS
  <2>2. \E f : Stepwise(Nat, 0, Len(s), step, f)
    BY <1>1, <2>1, StepByStep, Zenon
  <2> QED BY <2>2 DEF Stepwise
<1>4. \A n \in 1 .. Len(s) : f[n] = f[n - 1] + s[n]
  <2> TAKE n \in 1 .. Len(s)
  <2>1. n - 1 \in 0 .. Len(s)
    BY <1>1
  <2>2. f[n - 1] \in Nat
    BY <2>1
  <2> QED BY <1>2, <1>3, <2>2
<1>5. SumsOf(s, f)
  BY <1>3, <1>4 DEF SumsOf
<1> DEFINE g == CHOOSE g : SumsOf(s, g)
<1>6. SumsOf(s, g)
  BY <1>5
<1>7. Total(s) = g[Len(s)]
  BY DEF Total, SumsOf
<1> HIDE DEF g
<1>8. g[0] = 0 /\ \A n \in 1 .. Len(s) : g[n] = g[n - 1] + s[n]
  <2>1. 0 \in 0 .. Len(s) /\ \A n \in 1 .. Len(s) : n \in 0 .. Len(s) /\ n # 0
    BY <1>1
  <2>2. g = [n \in 0 .. Len(s) |-> IF n = 0 THEN 0 ELSE g[n - 1] + s[n]]
    BY <1>6 DEF SumsOf
  <2>3. g[0] = 0
    BY <2>1, <2>2
  <2>4. ASSUME NEW n \in 1 .. Len(s) PROVE g[n] = g[n - 1] + s[n]
    BY <2>1, <2>2
  <2> QED BY <2>3, <2>4
<1> DEFINE T == {n \in 0 .. Len(s) : g[n] \in Nat}
<1>9. 0 \in T
  BY <1>1, <1>8
<1>10. ASSUME NEW n \in 1 .. Len(s), n - 1 \in T PROVE n \in T
  <2>1. s[n] \in Nat /\ g[n - 1] \in Nat
    BY <1>10
  <2> QED BY <1>8, <2>1
<1>11. \A n \in 0 .. Len(s) : n \in T
  <2> HIDE DEF T
  <2> QED BY <1>1, <1>9, <1>10, UpToAny
<1>12. \A n \in 0 .. Len(s) : g[n] \in Nat
  BY <1>11
<1>13. Adds(s, g)
  <2>1. g[0] = 0
    BY <1>8
  <2>2. ASSUME NEW n \in 1 .. Len(s)
        PROVE  s[n] \in Nat /\ g[n - 1] \in Nat /\ g[n] \in Nat /\ g[n] = g[n - 1] + s[n]
    <3>1. n \in 0 .. Len(s) /\ n - 1 \in 0 .. Len(s)
      BY <1>1
    <3> QED BY <1>8, <1>12, <3>1
  <2> QED BY <2>1, <2>2, Zenon DEF Adds
<1>14. g[Len(s)] \in Nat
  <2>1. Len(s) \in 0 .. Len(s)
    BY <1>1
  <2> QED BY <1>12, <2>1
<1> QED BY <1>7, <1>13, <1>14

(* A sum is a number, and that of nothing is none.                         *)
LEMMA TotalFacts ==
  ASSUME NEW s \in Seq(Nat)
  PROVE  Total(s) \in Nat
  BY SumsExist

(* The sum of nothing is none.                                             *)
LEMMA TotalNone == Total(<<>>) = 0
<1>1. <<>> \in Seq(Nat) /\ Len(<<>>) = 0
  OBVIOUS
<1> QED BY <1>1, SumsExist DEF Adds

(* What holds of the sums of two sequences as far as nothing, and of those *)
(* up to each number if it does of those before, holds of the totals.      *)
LEMMA TotalsCompared ==
  ASSUME NEW s \in Seq(Nat), NEW t \in Seq(Nat), Len(s) = Len(t), NEW R \in SUBSET (Nat \X Nat \X Nat),
         <<0, 0, 0>> \in R,
         \A n \in 1 .. Len(s), a, b \in Nat : <<n - 1, a, b>> \in R => <<n, a + s[n], b + t[n]>> \in R
  PROVE  <<Len(s), Total(s), Total(t)>> \in R
<1>1. PICK f : Adds(s, f) /\ f[Len(s)] = Total(s) /\ f[Len(s)] \in Nat
  BY SumsExist
<1>2. PICK g : Adds(t, g) /\ g[Len(t)] = Total(t) /\ g[Len(t)] \in Nat
  BY SumsExist
<1> DEFINE T == {n \in 0 .. Len(s) : <<n, f[n], g[n]>> \in R}
<1>3. 0 \in T /\ Len(s) \in Nat
  <2>1. f[0] = 0 /\ g[0] = 0
    BY <1>1, <1>2, Zenon DEF Adds
  <2>2. <<0, f[0], g[0]>> \in R
    BY <2>1
  <2> QED BY <2>2
<1>4. ASSUME NEW n \in 1 .. Len(s), n - 1 \in T PROVE n \in T
  <2>1. f[n - 1] \in Nat /\ f[n] = f[n - 1] + s[n]
    BY <1>1 DEF Adds
  <2>2. g[n - 1] \in Nat /\ g[n] = g[n - 1] + t[n]
    BY <1>2 DEF Adds
  <2>3. <<n - 1, f[n - 1], g[n - 1]>> \in R
    BY <1>4
  <2>4. <<n, f[n - 1] + s[n], g[n - 1] + t[n]>> \in R
    BY <2>1, <2>2, <2>3
  <2>5. <<n, f[n], g[n]>> \in R
    BY <2>1, <2>2, <2>4, Zenon
  <2> QED BY <2>5, <1>3
<1>5. \A n \in 0 .. Len(s) : n \in T
  <2> HIDE DEF T
  <2> QED BY <1>3, <1>4, UpToAny
<1>6. Len(s) \in T
  BY <1>3, <1>5
<1> QED BY <1>1, <1>2, <1>6

(* One number more is added to the sum.                                    *)
LEMMA TotalAppend ==
  ASSUME NEW s \in Seq(Nat), NEW e \in Nat
  PROVE  Total(Append(s, e)) = Total(s) + e
<1> DEFINE t == Append(s, e)
<1>1. /\ t \in Seq(Nat) /\ Len(t) = Len(s) + 1 /\ Len(s) \in Nat
      /\ \A i \in 1 .. Len(s) : t[i] = s[i]
      /\ t[Len(s) + 1] = e
  BY AppendProperties
<1> HIDE DEF t
<1>2. PICK f : Adds(s, f) /\ f[Len(s)] = Total(s) /\ f[Len(s)] \in Nat
  BY SumsExist
<1>3. PICK g : Adds(t, g) /\ g[Len(t)] = Total(t) /\ g[Len(t)] \in Nat
  BY <1>1, SumsExist
<1> DEFINE T == {n \in 0 .. Len(s) : f[n] = g[n]}
<1>4. 0 \in T
  BY <1>1, <1>2, <1>3 DEF Adds
<1>5. ASSUME NEW n \in 1 .. Len(s), n - 1 \in T PROVE n \in T
  <2>1. n \in 1 .. Len(t) /\ t[n] = s[n] /\ f[n - 1] = g[n - 1]
    BY <1>1, <1>5
  <2>2. f[n] = f[n - 1] + s[n] /\ g[n] = g[n - 1] + t[n]
    BY <1>2, <1>3, <2>1 DEF Adds
  <2> QED BY <2>1, <2>2
<1>6. Len(s) \in T
  <2>1. \A n \in 0 .. Len(s) : n \in T
    <3> HIDE DEF T
    <3> QED BY <1>1, <1>4, <1>5, UpToAny
  <2> QED BY <1>1, <2>1
<1>7. Len(t) \in 1 .. Len(t) /\ Len(t) - 1 = Len(s)
  BY <1>1
<1>8. g[Len(t)] = g[Len(s)] + t[Len(t)]
  BY <1>3, <1>7 DEF Adds
<1>9. Total(t) = Total(s) + e
  BY <1>1, <1>2, <1>3, <1>6, <1>8
<1> QED BY <1>9 DEF t

-----------------------------------------------------------------------------
(* Estimates, and sums of them.                                            *)

(* The estimate grows with the text, and of two texts put together it is   *)
(* at most one more than the two estimates.                                *)
LEMMA TokensFacts ==
  /\ \A a \in Nat : Tokens(a) \in Nat
  /\ \A a, b \in Nat : a <= b => Tokens(a) <= Tokens(b)
  /\ \A a, b \in Nat : Tokens(a + b) <= Tokens(a) + Tokens(b) + 1
  /\ Tokens(0) = 0
  BY DEF Tokens

(* Sums of numbers, and which is larger.                                   *)
LEMMA PlusFacts ==
  /\ \A x, y \in Nat : x + y \in Nat
  /\ \A x, y, u, v \in Nat : x <= y /\ u <= v => x + u <= y + v
  OBVIOUS

(* Of larger numbers the sum is larger.                                    *)
LEMMA TotalGrows ==
  ASSUME NEW s \in Seq(Nat), NEW t \in Seq(Nat), Len(s) = Len(t), \A i \in 1 .. Len(s) : s[i] <= t[i]
  PROVE  Total(s) <= Total(t)
<1> DEFINE R == {r \in Nat \X Nat \X Nat : r[2] <= r[3]}
<1>1. \A n, a, b : <<n, a, b>> \in R <=> n \in Nat /\ a \in Nat /\ b \in Nat /\ a <= b
  OBVIOUS
<1>2. R \in SUBSET (Nat \X Nat \X Nat)
  OBVIOUS
<1> HIDE DEF R
<1>3. <<0, 0, 0>> \in R
  BY <1>1
<1>4. ASSUME NEW n \in 1 .. Len(s), NEW a \in Nat, NEW b \in Nat, <<n - 1, a, b>> \in R
      PROVE  <<n, a + s[n], b + t[n]>> \in R
  <2>1. s[n] \in Nat /\ t[n] \in Nat /\ s[n] <= t[n] /\ n \in Nat
    OBVIOUS
  <2>2. a <= b
    BY <1>1, <1>4
  <2>3. a + s[n] \in Nat /\ b + t[n] \in Nat /\ a + s[n] <= b + t[n]
    BY <2>1, <2>2, PlusFacts, Zenon
  <2> QED BY <1>1, <2>1, <2>3, Zenon
<1>5. <<Len(s), Total(s), Total(t)>> \in R
  BY <1>2, <1>3, <1>4, TotalsCompared
<1> QED BY <1>1, <1>5, Zenon

(* One number of a sequence is changed.                                    *)
LEMMA TotalChanged ==
  ASSUME NEW s \in Seq(Nat), NEW t \in Seq(Nat), Len(s) = Len(t), NEW i \in 1 .. Len(s),
         \A j \in 1 .. Len(s) : j # i => t[j] = s[j]
  PROVE  Total(t) + s[i] = Total(s) + t[i]
<1> DEFINE R == {r \in Nat \X Nat \X Nat : IF r[1] < i THEN r[2] = r[3] ELSE r[3] + s[i] = r[2] + t[i]}
<1>1. \A n, a, b : <<n, a, b>> \in R <=> /\ n \in Nat /\ a \in Nat /\ b \in Nat
                                       /\ IF n < i THEN a = b ELSE b + s[i] = a + t[i]
  OBVIOUS
<1>2. R \in SUBSET (Nat \X Nat \X Nat)
  OBVIOUS
<1> HIDE DEF R
<1>3. <<0, 0, 0>> \in R
  <2>1. 0 < i /\ 0 \in Nat
    OBVIOUS
  <2> QED BY <1>1, <2>1, Zenon
<1>4. ASSUME NEW n \in 1 .. Len(s), NEW a \in Nat, NEW b \in Nat, <<n - 1, a, b>> \in R
      PROVE  <<n, a + s[n], b + t[n]>> \in R
  <2>1. s[n] \in Nat /\ t[n] \in Nat /\ s[i] \in Nat /\ t[i] \in Nat /\ n \in Nat /\ i \in Nat
    OBVIOUS
  <2>2. IF n - 1 < i THEN a = b ELSE b + s[i] = a + t[i]
    BY <1>1, <1>4
  <2>3. n # i => s[n] = t[n]
    OBVIOUS
  <2>4. CASE n < i
    <3>1. a = b /\ s[n] = t[n]
      BY <2>1, <2>2, <2>3, <2>4
    <3>2. a + s[n] = b + t[n] /\ a + s[n] \in Nat /\ b + t[n] \in Nat
      BY <2>1, <3>1
    <3> QED BY <1>1, <2>1, <2>4, <3>2
  <2>5. CASE n = i
    <3>1. a = b
      BY <2>1, <2>2, <2>5
    <3>2. \A x, y, z \in Nat : (x + y) + z = (x + z) + y
      OBVIOUS
    <3>3. (b + t[n]) + s[i] = (a + s[n]) + t[i]
      BY <2>1, <2>5, <3>1, <3>2
    <3>4. a + s[n] \in Nat /\ b + t[n] \in Nat /\ ~ (n < i)
      <4>1. a + s[n] \in Nat /\ b + t[n] \in Nat
        BY <2>1, PlusFacts, Zenon
      <4>2. ~ (n < i)
        BY <2>1, <2>5
      <4> QED BY <4>1, <4>2
    <3> QED BY <1>1, <2>1, <3>3, <3>4, Zenon
  <2>6. CASE n > i
    <3>1. b + s[i] = a + t[i] /\ s[n] = t[n]
      BY <2>1, <2>2, <2>3, <2>6
    <3>3. (b + t[n]) + s[i] = (a + s[n]) + t[i]
      <4> DEFINE p == s[i]  q == t[i]  r == t[n]
      <4>0. p \in Nat /\ q \in Nat /\ r \in Nat
        BY <2>1
      <4>1. b + p = a + q => (b + r) + p = (a + r) + q
        <5> HIDE DEF p, q, r
        <5>1. \A u, v, x, y, z \in Nat : u + v = x + y => (u + z) + v = (x + z) + y
          OBVIOUS
        <5> QED BY <4>0, <5>1
      <4>2. s[n] = t[n]
        BY <3>1
      <4>3. b + s[i] = a + t[i]
        BY <3>1
      <4> QED BY <4>1, <4>2, <4>3, Zenon
    <3>4. a + s[n] \in Nat /\ b + t[n] \in Nat /\ ~ (n < i)
      <4>1. a + s[n] \in Nat /\ b + t[n] \in Nat
        BY <2>1, PlusFacts, Zenon
      <4>2. ~ (n < i)
        BY <2>1, <2>6
      <4> QED BY <4>1, <4>2
    <3> QED BY <1>1, <2>1, <3>3, <3>4, Zenon
  <2> QED BY <2>1, <2>4, <2>5, <2>6
<1>5. <<Len(s), Total(s), Total(t)>> \in R
  BY <1>2, <1>3, <1>4, TotalsCompared
<1>6. ~ (Len(s) < i)
  OBVIOUS
<1> QED BY <1>1, <1>5, <1>6

(* The estimates of texts do not come to more than that of all of them.    *)
LEMMA TokensOfTotal ==
  ASSUME NEW s \in Seq(Nat), NEW t \in Seq(Nat), Len(s) = Len(t), \A i \in 1 .. Len(s) : t[i] = Tokens(s[i])
  PROVE  Total(t) <= Tokens(Total(s))
<1> DEFINE R == {r \in Nat \X Nat \X Nat : r[3] <= Tokens(r[2])}
<1>1. \A n, a, b : <<n, a, b>> \in R <=> n \in Nat /\ a \in Nat /\ b \in Nat /\ b <= Tokens(a)
  OBVIOUS
<1>2. R \in SUBSET (Nat \X Nat \X Nat)
  OBVIOUS
<1> HIDE DEF R
<1>3. <<0, 0, 0>> \in R
  <2>1. 0 <= Tokens(0)
    BY TokensFacts
  <2> QED BY <1>1, <2>1
<1>4. ASSUME NEW n \in 1 .. Len(s), NEW a \in Nat, NEW b \in Nat, <<n - 1, a, b>> \in R
      PROVE  <<n, a + s[n], b + t[n]>> \in R
  <2>1. s[n] \in Nat /\ t[n] \in Nat /\ t[n] = Tokens(s[n]) /\ n \in Nat
    OBVIOUS
  <2>2. b <= Tokens(a)
    BY <1>1, <1>4
  <2>3. \A c, d \in Nat : b <= Tokens(a) => b + Tokens(d) <= Tokens(a + d)
    BY DEF Tokens
  <2>4. b + t[n] <= Tokens(a + s[n])
    <3>1. b + Tokens(s[n]) <= Tokens(a + s[n])
      BY <2>1, <2>2, <2>3
    <3> QED BY <2>1, <3>1, Zenon
  <2>5. a + s[n] \in Nat /\ b + t[n] \in Nat
    BY <2>1, PlusFacts, Zenon
  <2> QED BY <1>1, <2>1, <2>4, <2>5, Zenon
<1>5. <<Len(s), Total(s), Total(t)>> \in R
  BY <1>2, <1>3, <1>4, TotalsCompared
<1> QED BY <1>1, <1>5, Zenon

-----------------------------------------------------------------------------
(* What is packed keeps to the room there is for it.                       *)

(* The list of what was taken so far, and what it uses.                    *)
TakenOf(order, parts, room, f) ==
    f = [n \in 0 .. Len(order) |->
          IF n = 0 THEN [taken |-> <<>>, used |-> 0]
          ELSE LET had == f[n - 1]
                   cost == Tokens(parts[order[n]])
               IN  IF had.used + cost <= room
                     THEN [taken |-> Append(had.taken, order[n]), used |-> had.used + cost]
                     ELSE had]

(* There is such a list for every order of the texts.                      *)
LEMMA TakenExists ==
  ASSUME NEW S, NEW order \in Seq(S), NEW parts, NEW room
  PROVE  \E f : TakenOf(order, parts, room, f)
<1> DEFINE Next(had, n) ==
             IF had.used + Tokens(parts[order[n]]) <= room
               THEN [taken |-> Append(had.taken, order[n]), used |-> had.used + Tokens(parts[order[n]])]
               ELSE had
           First == [taken |-> <<>>, used |-> 0]
           UpTo(n, f) == f = [k \in 0 .. n |-> IF k = 0 THEN First ELSE Next(f[k - 1], k)]
           T == {n \in 0 .. Len(order) : ~ \E f : UpTo(n, f)}
<1>1. T = {}
  <2> HIDE DEF Next, First
  <2> SUFFICES ASSUME T # {} PROVE FALSE
    OBVIOUS
  <2>1. PICK n \in T : \A m \in T : n <= m
    <3>1. T \in SUBSET Nat
      OBVIOUS
    <3> HIDE DEF T
    <3> QED BY <3>1, LeastNumber
  <2>2. CASE n = 0
    <3>1. UpTo(0, [k \in 0 .. 0 |-> First])
      OBVIOUS
    <3> QED BY <2>2, <3>1
  <2>3. CASE n # 0
    <3>0. n \in 1 .. Len(order) /\ n - 1 \in 0 .. Len(order) /\ ~ (n <= n - 1)
      BY <2>3
    <3>1. n - 1 \notin T
      <4> HIDE DEF T
      <4> QED BY <2>1, <3>0
    <3>2. PICK g : UpTo(n - 1, g)
      BY <3>0, <3>1
    <3> DEFINE f == [k \in 0 .. n |-> IF k = n THEN Next(g[n - 1], n) ELSE g[k]]
    <3>3. \A k \in 0 .. n - 1 : g[k] = IF k = 0 THEN First ELSE Next(g[k - 1], k)
      BY <3>0, <3>2
    <3>4. \A k \in 0 .. n : f[k] = IF k = 0 THEN First ELSE Next(f[k - 1], k)
      BY <3>0, <3>3
    <3>5. UpTo(n, f)
      BY <3>4
    <3> QED BY <3>5
  <2> QED BY <2>2, <2>3
<1>2. Len(order) \in 0 .. Len(order)
  OBVIOUS
<1>3. PICK f : UpTo(Len(order), f)
  BY <1>1, <1>2
<1> QED BY <1>3 DEF TakenOf

(* What fits is taken from the order it is offered in.                     *)
LEMMA GreedyFacts ==
  ASSUME NEW S, NEW order \in Seq(S), NEW parts, NEW room
  PROVE  Greedy(order, parts, room) \in Seq(S)
<1> DEFINE got == CHOOSE f : TakenOf(order, parts, room, f)
<1>1. TakenOf(order, parts, room, got)
  BY TakenExists
<1>2. Greedy(order, parts, room) = got[Len(order)].taken
  BY DEF Greedy, TakenOf
<1> HIDE DEF got
<1> DEFINE First == [taken |-> <<>>, used |-> 0]
           Offered(had, n) ==
             IF had.used + Tokens(parts[order[n]]) <= room
               THEN [taken |-> Append(had.taken, order[n]), used |-> had.used + Tokens(parts[order[n]])]
               ELSE had
<1>3. got = [n \in 0 .. Len(order) |-> IF n = 0 THEN First ELSE Offered(got[n - 1], n)]
  BY <1>1 DEF TakenOf
<1>4. First.taken = <<>>
  OBVIOUS
<1>5. ASSUME NEW had, NEW n
      PROVE  Offered(had, n).taken = had.taken \/ Offered(had, n).taken = Append(had.taken, order[n])
  <2> DEFINE more == [taken |-> Append(had.taken, order[n]), used |-> had.used + Tokens(parts[order[n]])]
  <2>1. Offered(had, n) = more \/ Offered(had, n) = had
    BY Zenon
  <2>2. more.taken = Append(had.taken, order[n])
    OBVIOUS
  <2> HIDE DEF more, Offered
  <2> QED BY <2>1, <2>2
<1> HIDE DEF First, Offered
<1>6. got[0].taken = <<>>
  BY <1>3, <1>4
<1>7. ASSUME NEW n \in 1 .. Len(order)
      PROVE  got[n].taken = got[n - 1].taken \/ got[n].taken = Append(got[n - 1].taken, order[n])
  <2>1. got[n] = Offered(got[n - 1], n)
    BY <1>3
  <2> QED BY <2>1, <1>5
<1> DEFINE T == {n \in 0 .. Len(order) : got[n].taken \notin Seq(S)}
<1>8. T = {}
  <2> SUFFICES ASSUME T # {} PROVE FALSE
    OBVIOUS
  <2>1. PICK n \in T : \A m \in T : n <= m
    <3>1. T \in SUBSET Nat
      OBVIOUS
    <3> HIDE DEF T
    <3> QED BY <3>1, LeastNumber
  <2>2. n \in 0 .. Len(order) /\ got[n].taken \notin Seq(S)
    OBVIOUS
  <2>3. n # 0
    <3>1. <<>> \in Seq(S)
      OBVIOUS
    <3> QED BY <1>6, <2>2, <3>1
  <2>4. n \in 1 .. Len(order) /\ n - 1 \in 0 .. Len(order) /\ ~ (n <= n - 1) /\ order[n] \in S
    BY <2>2, <2>3
  <2>5. n - 1 \notin T
    <3> HIDE DEF T
    <3> QED BY <2>1, <2>4
  <2>6. got[n - 1].taken \in Seq(S)
    BY <2>4, <2>5
  <2>7. got[n].taken = got[n - 1].taken \/ got[n].taken = Append(got[n - 1].taken, order[n])
    BY <1>7, <2>4
  <2>8. Append(got[n - 1].taken, order[n]) \in Seq(S)
    BY <2>4, <2>6
  <2> QED BY <2>2, <2>6, <2>7, <2>8
<1> QED BY <1>2, <1>8

(* What a cut of a sequence leaves is a sequence of its elements.          *)
LEMMA CutFacts ==
  ASSUME NEW S, NEW s \in Seq(S), NEW k \in 0 .. Len(s)
  PROVE  /\ SubSeq(s, k + 1, Len(s)) \in Seq(S)
         /\ SubSeq(s, 1, Len(s) - k) \in Seq(S)
         /\ k = Len(s) => SubSeq(s, 1, Len(s) - k) = <<>>
  OBVIOUS

(* Files are dropped from the front of the list until the text fits.       *)
LEMMA TrimmedFacts ==
  ASSUME NEW S, NEW s \in Seq(S), NEW parts, NEW note, NEW binaries, NEW room
  PROVE  Trimmed(s, parts, note, binaries, room) \in Seq(S)
<1> DEFINE P == {k \in 0 .. Len(s) : Tokens(Noted(SubSeq(s, k + 1, Len(s)), parts, note, binaries)) <= room
                                     \/ k = Len(s)}
           k == CHOOSE k \in P : \A j \in P : k <= j
<1>1. Trimmed(s, parts, note, binaries, room) = SubSeq(s, k + 1, Len(s))
  BY DEF Trimmed, FirstFit
<1>2. P \in SUBSET Nat /\ Len(s) \in P
  OBVIOUS
<1>3. \E p \in P : \A q \in P : p <= q
  <2> HIDE DEF P
  <2> QED BY <1>2, LeastNumber
<1>4. k \in P
  BY <1>3
<1>5. k \in 0 .. Len(s)
  BY <1>4
<1> HIDE DEF k
<1> QED BY <1>1, <1>5, CutFacts

(* The words around the texts, and the texts put together, have lengths.   *)
LEMMA LengthFacts ==
  /\ \A n \in Nat : BinaryList(n) \in Nat /\ BinaryNote(n) \in Nat
  /\ \A count, length, binaryText \in Nat : Assembled(count, length, binaryText) \in Nat
<1>1. /\ Glue.filesHead \in Nat /\ Glue.binaryHead \in Nat /\ Glue.binaryLine \in Nat /\ Glue.binaryNote \in Nat
  BY PromptAssumption DEF Words
<1>2. ASSUME NEW n \in Nat PROVE BinaryList(n) \in Nat /\ BinaryNote(n) \in Nat
  <2>1. n * Glue.binaryLine \in Nat
    BY <1>1
  <2> QED BY <1>1, <2>1 DEF BinaryList, BinaryNote
<1>3. ASSUME NEW count \in Nat, NEW length \in Nat, NEW binaryText \in Nat
      PROVE  Assembled(count, length, binaryText) \in Nat
  BY <1>1 DEF Assembled
<1> QED BY <1>2, <1>3

(* There is always a budget.                                               *)
LEMMA BudgetFacts ==
  ASSUME input \in PromptInput
  PROVE  EffectiveBudget(input.backend) \in Nat
<1>1. Glue.override \in Nat /\ Glue.legacy \in Nat /\ Glue.standard \in Nat /\ Glue.extended \in Nat
  BY PromptAssumption DEF Words
<1>2. input.backend.class \in {"none", "extended", "standard", "small"} /\ input.backend.max \in Nat
  BY DEF PromptInput
<1> QED BY <1>1, <1>2 DEF EffectiveBudget, Least

(* The last of the four texts is none at all: so one of them fits.         *)
LEMMA FirstWithinFacts ==
  ASSUME NEW a \in Nat, NEW b \in Nat, NEW c \in Nat, NEW room \in Nat
  PROVE  /\ FirstWithin(<<a, b, c, 0>>, room) \in Nat
         /\ Tokens(FirstWithin(<<a, b, c, 0>>, room)) <= room
<1> DEFINE t == <<a, b, c, 0>>
           P == {n \in 1 .. 4 : Tokens(t[n]) <= room}
<1>1. /\ DOMAIN t = 1 .. 4 /\ Len(t) = 4 /\ \A n \in 1 .. 4 : t[n] \in Nat
      /\ t[4] = 0
  OBVIOUS
<1> HIDE DEF t
<1>2. P \in SUBSET Nat /\ 4 \in P
  <2>1. Tokens(t[4]) = 0
    BY <1>1, TokensFacts
  <2> QED BY <2>1
<1>3. PICK n \in P : \A m \in P : n <= m
  <2> HIDE DEF P
  <2> QED BY <1>2, LeastNumber
<1>4. n \in DOMAIN t /\ (Tokens(t[n]) <= room \/ n = Len(t))
  BY <1>1, <1>3
<1>5. \A m \in 1 .. n - 1 : Tokens(t[m]) > room
  <2> TAKE m \in 1 .. n - 1
  <2>1. n \in 1 .. 4
    BY <1>3
  <2>2. m \in 1 .. 4 /\ ~ (n <= m)
    BY <2>1
  <2>3. m \notin P
    BY <1>3, <2>2
  <2>4. Tokens(t[m]) \in Nat
    BY <1>1, <2>2, TokensFacts
  <2> QED BY <2>2, <2>3, <2>4
<1> DEFINE k == CHOOSE k \in DOMAIN t : /\ Tokens(t[k]) <= room \/ k = Len(t)
                                        /\ \A m \in 1 .. k - 1 : Tokens(t[m]) > room
<1>6. k \in DOMAIN t /\ (Tokens(t[k]) <= room \/ k = Len(t))
  BY <1>4, <1>5
<1>7. FirstWithin(t, room) = t[k]
  BY DEF FirstWithin
<1> HIDE DEF k
<1>8. t[k] \in Nat /\ Tokens(t[k]) <= room
  <2>1. t[k] \in Nat
    BY <1>1, <1>6
  <2>1a. Tokens(0) <= room
    <3>1. Tokens(0) = 0
      BY TokensFacts
    <3> QED BY <3>1
  <2>2. k = Len(t) => t[k] = 0
    BY <1>1
  <2> QED BY <1>6, <2>1, <2>1a, <2>2
<1> QED BY <1>7, <1>8 DEF t

(* What is packed of files keeps to the room there is for them.            *)
LEMMA PackFilesFacts ==
  ASSUME NEW parts \in Seq(Nat), NEW note \in Nat, NEW binaries \in Nat, NEW room \in Nat
  PROVE  LET packed == PackFiles(parts, note, binaries, room)
         IN  /\ packed.size \in Nat
             /\ packed.size = BinariesAlone(BinaryList(binaries)) \/ Tokens(packed.size) <= room
<1>1. CASE parts = <<>>
  BY <1>1, LengthFacts DEF PackFiles, BinariesAlone
<1>2. CASE parts # <<>>
  <2> DEFINE order == LargestFirst(parts)
             S == {order[k] : k \in 1 .. Len(parts)}
             greedy == Greedy(order, parts, room)
             shown == Trimmed(greedy, parts, note, binaries, room)
             a == Noted(shown, parts, note, binaries)
             b == Collapsed(shown, parts, BinaryList(binaries))
             c == Collapsed(shown, parts, BinaryNote(binaries))
  <2>1. order \in Seq(S)
    <3> DEFINE ahead(j, i) == \/ Tokens(parts[j]) > Tokens(parts[i])
                              \/ Tokens(parts[j]) = Tokens(parts[i]) /\ j > i
               nth(k) == CHOOSE i \in 1 .. Len(parts) :
                          Cardinality({j \in 1 .. Len(parts) : ahead(j, i)}) = k - 1
    <3>1. order = [k \in 1 .. Len(parts) |-> nth(k)]
      BY Zenon DEF LargestFirst
    <3> HIDE DEF order, nth
    <3> QED BY <3>1
  <2> HIDE DEF order, S
  <2>2. greedy \in Seq(S)
    BY <2>1, GreedyFacts
  <2>3. shown \in Seq(S)
    BY <2>2, TrimmedFacts
  <2>4. PackFiles(parts, note, binaries, room) = Packed(shown, greedy, parts, note, binaries, room)
    BY <1>2, Zenon DEF PackFiles, order
  <2> HIDE DEF shown, greedy
  <2>5. a \in Nat
    <3> DEFINE s == [i \in 1 .. Len(parts) |-> IF i \in ToSet(shown) THEN parts[i] ELSE note]
    <3>1. s \in Seq(Nat) /\ Len(s) \in Nat
      OBVIOUS
    <3>2. a = Assembled(Len(s), Total(s), BinaryList(binaries))
      BY DEF Noted, AllAssembled
    <3> HIDE DEF s
    <3>3. Total(s) \in Nat /\ BinaryList(binaries) \in Nat
      BY <3>1, TotalFacts, LengthFacts
    <3>4. Assembled(Len(s), Total(s), BinaryList(binaries)) \in Nat
      BY <3>1, <3>3, LengthFacts, Zenon
    <3> QED BY <3>2, <3>4
  <2>6. ASSUME NEW t \in Nat PROVE Collapsed(shown, parts, t) \in Nat
    <3> DEFINE s == [i \in 1 .. Len(parts) |-> IF i \in ToSet(shown) THEN parts[i] ELSE 0]
    <3>1. s \in Seq(Nat)
      OBVIOUS
    <3>1a. Len(shown) \in Nat /\ Glue.omitted \in Nat
      BY <2>3, PromptAssumption DEF Words
    <3>2. \/ Collapsed(shown, parts, t) = Assembled(Len(shown) + 1, Total(s) + Glue.omitted, t)
          \/ Collapsed(shown, parts, t) = Assembled(Len(shown), Total(s), t)
      BY DEF Collapsed
    <3> HIDE DEF s
    <3>3. Total(s) \in Nat
      BY <3>1, TotalFacts
    <3>4. /\ Len(shown) + 1 \in Nat /\ Total(s) + Glue.omitted \in Nat
      BY <3>1a, <3>3
    <3>5. Assembled(Len(shown) + 1, Total(s) + Glue.omitted, t) \in Nat
      BY <3>4, LengthFacts
    <3>6. Assembled(Len(shown), Total(s), t) \in Nat
      BY <3>1a, <3>3, LengthFacts
    <3> QED BY <3>2, <3>5, <3>6
  <2>7. b \in Nat /\ c \in Nat
    BY <2>6, LengthFacts
  <2>8. PackFiles(parts, note, binaries, room).size = FirstWithin(<<a, b, c, 0>>, room)
    BY <2>4 DEF Packed
  <2> HIDE DEF a, b, c
  <2>9. /\ FirstWithin(<<a, b, c, 0>>, room) \in Nat
        /\ Tokens(FirstWithin(<<a, b, c, 0>>, room)) <= room
    BY <2>5, <2>7, FirstWithinFacts, Zenon
  <2> QED BY <2>8, <2>9
<1> QED BY <1>1, <1>2

(* The text of the sub-areas.                                              *)
LEMMA KidsTextFacts ==
  ASSUME NEW kids \in Seq(Nat), NEW loaded \in Seq(1 .. Len(kids))
  PROVE  KidsText(loaded, kids) \in Nat /\ (loaded = <<>> => KidsText(loaded, kids) = 0)
<1> DEFINE s == [i \in 1 .. Len(loaded) |-> kids[loaded[i]]]
<1>1. s \in Seq(Nat)
  <2>1. \A i \in 1 .. Len(loaded) : kids[loaded[i]] \in Nat
    OBVIOUS
  <2> QED BY <2>1
<1>2. Total(s) \in Nat
  <2> HIDE DEF s
  <2> QED BY <1>1, TotalFacts
<1>3. Glue.kidsHead \in Nat /\ Glue.kidsSomeHead \in Nat /\ Glue.kidsFoot \in Nat
  BY PromptAssumption DEF Words
<1>4. KidsText(loaded, kids) = IF loaded = <<>> THEN 0
                               ELSE Total(s) + (IF Len(loaded) < Len(kids) THEN Glue.kidsSomeHead + Glue.kidsFoot
                                                ELSE Glue.kidsHead)
  BY DEF KidsText
<1> HIDE DEF s
<1>5. CASE loaded = <<>>
  BY <1>4, <1>5
<1>6. CASE loaded # <<>>
  <2>1. \/ KidsText(loaded, kids) = Total(s) + Glue.kidsSomeHead + Glue.kidsFoot
        \/ KidsText(loaded, kids) = Total(s) + Glue.kidsHead
    BY <1>2, <1>3, <1>4, <1>6
  <2>2. KidsText(loaded, kids) \in Nat
    BY <1>2, <1>3, <2>1
  <2> QED BY <1>6, <2>2
<1> QED BY <1>5, <1>6

(* What is packed of the sub-areas keeps to the room there is for them.    *)
LEMMA PackKidsFacts ==
  ASSUME NEW kids \in Seq(Nat), NEW room \in Nat
  PROVE  /\ PackKids(kids, room) \in Nat /\ Tokens(PackKids(kids, room)) <= room
         /\ room = 0 => PackKids(kids, room) = 0
<1>1. CASE room = 0
  <2>1. PackKids(kids, room) = 0
    <3>1. room <= 0
      BY <1>1
    <3> QED BY <3>1, Zenon DEF PackKids
  <2>2. Tokens(0) = 0
    BY TokensFacts
  <2> QED BY <1>1, <2>1, <2>2
<1>2. CASE room > 0
  <2> DEFINE order == [i \in 1 .. Len(kids) |-> i]
             s == Greedy(order, kids, room)
             cut(k) == SubSeq(s, 1, Len(s) - k)
             P == {k \in 0 .. Len(s) : Tokens(KidsText(cut(k), kids)) <= room \/ k = Len(s)}
             k == CHOOSE k \in P : \A j \in P : k <= j
  <2>1. order \in Seq(1 .. Len(kids))
    OBVIOUS
  <2>2. s \in Seq(1 .. Len(kids))
    BY <2>1, GreedyFacts
  <2>3. PackKids(kids, room) = KidsText(cut(k), kids)
    BY <1>2 DEF PackKids, FirstFit
  <2> HIDE DEF s
  <2>4. P \in SUBSET Nat /\ Len(s) \in P
    BY <2>2
  <2>5. \E n \in P : \A m \in P : n <= m
    <3> HIDE DEF P
    <3> QED BY <2>4, LeastNumber
  <2>6. k \in P
    BY <2>5
  <2>7. k \in 0 .. Len(s) /\ (Tokens(KidsText(cut(k), kids)) <= room \/ k = Len(s))
    BY <2>6
  <2> HIDE DEF k
  <2>8. cut(k) \in Seq(1 .. Len(kids)) /\ (k = Len(s) => cut(k) = <<>>)
    BY <2>2, <2>7, CutFacts
  <2> HIDE DEF cut
  <2>9. KidsText(cut(k), kids) \in Nat /\ (cut(k) = <<>> => KidsText(cut(k), kids) = 0)
    BY <2>8, KidsTextFacts
  <2>10. Tokens(KidsText(cut(k), kids)) <= room
    <3>1. Tokens(0) = 0
      BY TokensFacts
    <3>2. CASE k = Len(s)
      <4>1. KidsText(cut(k), kids) = 0
        BY <2>8, <2>9, <3>2
      <4>2. Tokens(KidsText(cut(k), kids)) = 0
        BY <3>1, <4>1, Zenon
      <4> QED BY <1>2, <4>2
    <3> QED BY <2>7, <3>2
  <2>11. /\ PackKids(kids, room) \in Nat
         /\ Tokens(PackKids(kids, room)) <= room
    BY <2>3, <2>9, <2>10, Zenon
  <2> QED BY <1>2, <2>11
<1> QED BY <1>1, <1>2

(* A planned prompt keeps to the budget; one refused for more than its     *)
(* fixed part is over it by a single token.                                *)
LEMMA PlannedFacts ==
  ASSUME input \in PromptInput, NEW parts \in Seq(Nat), NEW note \in Nat
  PROVE  LET p == Planned(parts, note)
             over == Tokens(p.size) - EffectiveBudget(input.backend)
         IN  /\ p.size \in Nat
             /\ p.outcome \in {"planned", "refused"}
             /\ p.outcome = "planned" => over <= 0
             /\ p.outcome = "refused" => p.scaffold \/ over = 1
<1> DEFINE budget == EffectiveBudget(input.backend)
           alone == BinariesAlone(BinaryList(input.binaries))
           fixed == input.base + alone
           room == budget - Tokens(fixed)
           files == PackFiles(parts, note, input.binaries, room)
           unkinded == input.base + files.size
           left == AtLeast0(budget - Tokens(unkinded))
           whole == Whole(unkinded, budget)
<1>1. /\ input.base \in Nat /\ input.binaries \in Nat /\ input.kids \in Seq(Nat) /\ budget \in Nat
  BY BudgetFacts DEF PromptInput
<1>2. alone \in Nat
  BY <1>1, LengthFacts DEF BinariesAlone
<1>3. fixed \in Nat /\ input.base <= fixed
  BY <1>1, <1>2
<1> HIDE DEF budget, alone
<1>4. CASE Tokens(fixed) > budget
  <2>1. Planned(parts, note) = [outcome |-> "refused", shown |-> {}, trimmed |-> FALSE, size |-> fixed,
                                scaffold |-> TRUE]
    BY <1>4 DEF Planned, OverBudget, budget, alone
  <2> QED BY <1>3, <2>1
<1>5. CASE ~ (Tokens(fixed) > budget)
  <2>1. Planned(parts, note) = Judged(files, whole, budget)
    BY <1>5 DEF Planned, OverBudget, WithKids, budget, alone
  <2>2. Tokens(fixed) \in Nat /\ Tokens(input.base) \in Nat /\ Tokens(input.base) <= Tokens(fixed)
    BY <1>1, <1>3, TokensFacts
  <2>3. room \in Nat /\ Tokens(fixed) + room = budget
    BY <1>1, <1>5, <2>2
  <2> HIDE DEF room
  <2>4. files.size \in Nat /\ (files.size = alone \/ Tokens(files.size) <= room)
    <3>1. note \in Nat /\ input.binaries \in Nat
      BY <1>1
    <3> QED BY <2>3, <3>1, PackFilesFacts, Zenon DEF alone
  <2> HIDE DEF files
  <2>5. unkinded \in Nat /\ Tokens(unkinded) \in Nat
    <3>1. unkinded \in Nat
      BY <1>1, <2>4
    <3> HIDE DEF unkinded
    <3> QED BY <3>1, TokensFacts
  <2>6. Tokens(unkinded) <= budget + 1
    <3>1. CASE files.size = alone
      BY <1>1, <1>5, <2>2, <3>1
    <3>2. CASE Tokens(files.size) <= room
      <4>1. Tokens(unkinded) <= Tokens(input.base) + Tokens(files.size) + 1 /\ Tokens(files.size) \in Nat
        BY <1>1, <2>4, TokensFacts
      <4> QED BY <1>1, <2>2, <2>3, <2>5, <3>2, <4>1
    <3> QED BY <2>4, <3>1, <3>2
  <2> HIDE DEF unkinded
  <2>7. left \in Nat /\ (left = 0 \/ Tokens(unkinded) + left = budget)
    BY <1>1, <2>5 DEF AtLeast0
  <2> DEFINE kids == PackKids(input.kids, left)
  <2>8. whole = unkinded + kids
    BY DEF Whole, budget
  <2> HIDE DEF left
  <2>9. kids \in Nat /\ Tokens(kids) <= left /\ Tokens(kids) \in Nat /\ (left = 0 => kids = 0)
    BY <1>1, <2>7, PackKidsFacts, TokensFacts
  <2> HIDE DEF kids, whole
  <2>10. whole \in Nat /\ Tokens(whole) \in Nat /\ Tokens(whole) <= budget + 1
    <3>1. whole \in Nat /\ Tokens(whole) \in Nat /\ Tokens(whole) <= Tokens(unkinded) + Tokens(kids) + 1
      BY <2>5, <2>8, <2>9, TokensFacts
    <3>2. CASE left = 0
      BY <2>5, <2>6, <2>8, <2>9, <3>1, <3>2
    <3>3. CASE Tokens(unkinded) + left = budget
      BY <1>1, <2>5, <2>7, <2>9, <3>1, <3>3
    <3> QED BY <2>7, <3>1, <3>2, <3>3
  <2>11. /\ Planned(parts, note).size = whole
         /\ Planned(parts, note).outcome = IF Tokens(whole) > budget THEN "refused" ELSE "planned"
    BY <2>1 DEF Judged, OverBudget
  <2> QED BY <1>1, <2>10, <2>11 DEF budget
<1> QED BY <1>4, <1>5

-----------------------------------------------------------------------------
(* What is not packed had no room.                                         *)

(* What some of the texts come to.                                         *)
Cost(parts, T) == Total([j \in 1 .. Len(parts) |-> IF j \in T THEN Tokens(parts[j]) ELSE 0])

(* No texts come to nothing, more texts to more, and one more text to what *)
(* it comes to itself.                                                     *)
LEMMA CostFacts ==
  ASSUME NEW parts \in Seq(Nat)
  PROVE  /\ \A T : Cost(parts, T) \in Nat
         /\ Cost(parts, {}) = 0
         /\ \A S, T : S \subseteq T => Cost(parts, S) <= Cost(parts, T)
         /\ \A T : \A i \in 1 .. Len(parts) : i \notin T => Cost(parts, T \cup {i}) = Cost(parts, T) + Tokens(parts[i])
<1> DEFINE s(T) == [j \in 1 .. Len(parts) |-> IF j \in T THEN Tokens(parts[j]) ELSE 0]
<1>1. \A j \in 1 .. Len(parts) : Tokens(parts[j]) \in Nat
  <2> TAKE j \in 1 .. Len(parts)
  <2>1. parts[j] \in Nat
    OBVIOUS
  <2> QED BY <2>1, TokensFacts
<1>2. ASSUME NEW T PROVE /\ s(T) \in Seq(Nat) /\ Len(s(T)) = Len(parts)
                         /\ \A j \in 1 .. Len(parts) : s(T)[j] = IF j \in T THEN Tokens(parts[j]) ELSE 0
  <2>1. Len(parts) \in Nat
    OBVIOUS
  <2> QED BY <1>1, <2>1
<1>3. \A T : Cost(parts, T) = Total(s(T))
  BY DEF Cost
<1> HIDE DEF s
<1>4. \A T : Cost(parts, T) \in Nat
  BY <1>2, <1>3, TotalFacts
<1>5. Cost(parts, {}) = 0
  <2> DEFINE z == s({})
             R == {r \in Nat \X Nat \X Nat : r[2] = 0}
  <2>1. \A n, a, b : <<n, a, b>> \in R <=> n \in Nat /\ a \in Nat /\ b \in Nat /\ a = 0
    OBVIOUS
  <2>2. R \in SUBSET (Nat \X Nat \X Nat) /\ <<0, 0, 0>> \in R
    OBVIOUS
  <2>3. z \in Seq(Nat) /\ \A n \in 1 .. Len(z) : z[n] = 0
    BY <1>2
  <2> HIDE DEF R, z
  <2>4. ASSUME NEW n \in 1 .. Len(z), NEW a \in Nat, NEW b \in Nat, <<n - 1, a, b>> \in R
        PROVE  <<n, a + z[n], b + z[n]>> \in R
    <3>1. a = 0 /\ n \in Nat /\ z[n] = 0
      BY <2>1, <2>3, <2>4
    <3>2. a + z[n] = 0 /\ b + z[n] \in Nat /\ 0 \in Nat
      BY <3>1
    <3> QED BY <2>1, <3>1, <3>2, Zenon
  <2>5. <<Len(z), Total(z), Total(z)>> \in R
    BY <2>2, <2>3, <2>4, TotalsCompared
  <2> QED BY <1>3, <2>1, <2>5 DEF z
<1>6. ASSUME NEW S, NEW T, S \subseteq T PROVE Cost(parts, S) <= Cost(parts, T)
  <2> DEFINE a == s(S)  b == s(T)
  <2>1. a \in Seq(Nat) /\ b \in Seq(Nat) /\ Len(a) = Len(b) /\ Len(a) = Len(parts)
    BY <1>2
  <2>2. \A j \in 1 .. Len(a) : a[j] <= b[j]
    <3> TAKE j \in 1 .. Len(a)
    <3>1. /\ a[j] = IF j \in S THEN Tokens(parts[j]) ELSE 0
          /\ b[j] = IF j \in T THEN Tokens(parts[j]) ELSE 0
      BY <1>2, <2>1
    <3>2. Tokens(parts[j]) \in Nat
      BY <1>1, <2>1
    <3> HIDE DEF a, b
    <3> QED BY <1>6, <3>1, <3>2
  <2> HIDE DEF a, b
  <2>3. Total(a) <= Total(b)
    BY <2>1, <2>2, TotalGrows
  <2> QED BY <1>3, <2>3 DEF a, b
<1>7. ASSUME NEW T, NEW i \in 1 .. Len(parts), i \notin T
      PROVE  Cost(parts, T \cup {i}) = Cost(parts, T) + Tokens(parts[i])
  <2> DEFINE U == T \cup {i}  a == s(T)  b == s(U)
  <2>1. a \in Seq(Nat) /\ b \in Seq(Nat) /\ Len(a) = Len(b) /\ Len(a) = Len(parts)
    BY <1>2
  <2>2. a[i] = 0 /\ b[i] = Tokens(parts[i])
    BY <1>2, <1>7
  <2>3. \A j \in 1 .. Len(a) : j # i => b[j] = a[j]
    BY <1>2, <2>1
  <2> HIDE DEF a, b
  <2>4. Total(b) + a[i] = Total(a) + b[i]
    BY <2>1, <2>3, TotalChanged
  <2>5. Total(a) \in Nat /\ Total(b) \in Nat
    BY <2>1, TotalFacts
  <2>6. Total(b) = Total(a) + Tokens(parts[i])
    BY <2>2, <2>4, <2>5
  <2> QED BY <1>3, <2>6 DEF a, b
<1> QED BY <1>4, <1>5, <1>6, <1>7

(* One element more.                                                       *)
LEMMA ToSetFacts ==
  ASSUME NEW S, NEW s \in Seq(S), NEW e \in S
  PROVE  ToSet(Append(s, e)) = ToSet(s) \cup {e}
<1>1. /\ DOMAIN s = 1 .. Len(s) /\ Len(s) \in Nat /\ DOMAIN Append(s, e) = 1 .. Len(s) + 1
      /\ \A i \in 1 .. Len(s) : Append(s, e)[i] = s[i]
      /\ Append(s, e)[Len(s) + 1] = e
  BY AppendProperties
<1> DEFINE t == Append(s, e)
<1> HIDE DEF t
<1>2. \A i \in 1 .. Len(s) + 1 : i \in 1 .. Len(s) \/ i = Len(s) + 1
  BY <1>1
<1>3. \A i \in 1 .. Len(s) : i \in 1 .. Len(s) + 1
  BY <1>1
<1>4. Len(s) + 1 \in 1 .. Len(s) + 1
  BY <1>1
<1> QED BY <1>1, <1>2, <1>3, <1>4, Zenon DEF ToSet

(* Each file has a place of its own among the largest first.               *)
LEMMA LargestFirstFacts ==
  ASSUME NEW parts \in Seq(Nat)
  PROVE  LET order == LargestFirst(parts)
         IN  /\ order \in Seq(1 .. Len(parts)) /\ Len(order) = Len(parts)
             /\ \A k, m \in 1 .. Len(parts) : order[k] = order[m] => k = m
             /\ \A i \in 1 .. Len(parts) : \E k \in 1 .. Len(parts) : order[k] = i
<1> DEFINE N == Len(parts)
           tok(i) == Tokens(parts[i])
           sooner(j, i) == tok(j) > tok(i) \/ (tok(j) = tok(i) /\ j > i)
           Before(i) == {j \in 1 .. N : sooner(j, i)}
           rank(i) == Cardinality(Before(i))
           nth(k) == CHOOSE i \in 1 .. N : rank(i) = k - 1
           order == LargestFirst(parts)
<1>1. N \in Nat /\ IsFiniteSet(1 .. N) /\ Cardinality(1 .. N) = N
  <2>1. N \in Nat
    OBVIOUS
  <2>2. 1 \in Int /\ N \in Int
    BY <2>1
  <2>3. IsFiniteSet(1 .. N) /\ Cardinality(1 .. N) = IF 1 > N THEN 0 ELSE N - 1 + 1
    BY <2>2, FS_Interval
  <2> HIDE DEF N
  <2> QED BY <2>1, <2>3
<1>2. \A i \in 1 .. N : tok(i) \in Nat
  <2> TAKE i \in 1 .. N
  <2>1. parts[i] \in Nat
    OBVIOUS
  <2> QED BY <2>1, TokensFacts
<1>3. order = [k \in 1 .. N |-> nth(k)]
  BY Zenon DEF LargestFirst
<1> HIDE DEF N, tok, order
<1>4. /\ \A i \in 1 .. N : ~ sooner(i, i)
      /\ \A i, j \in 1 .. N : i # j => sooner(i, j) \/ sooner(j, i)
      /\ \A i, j, k \in 1 .. N : sooner(i, j) /\ sooner(j, k) => sooner(i, k)
  BY <1>1, <1>2
<1> HIDE DEF sooner
<1>5. \A i \in 1 .. N : IsFiniteSet(Before(i)) /\ rank(i) \in Nat /\ rank(i) < N
  <2> TAKE i \in 1 .. N
  <2>1. Before(i) \in SUBSET (1 .. N) /\ i \notin Before(i)
    BY <1>4
  <2> HIDE DEF Before
  <2>2. /\ IsFiniteSet(Before(i)) /\ rank(i) <= Cardinality(1 .. N)
        /\ Cardinality(1 .. N) = rank(i) => 1 .. N = Before(i)
    BY <1>1, <2>1, FS_Subset
  <2>3. rank(i) \in Nat
    BY <2>2, FS_CardinalityType
  <2>4. rank(i) # N
    BY <1>1, <2>1, <2>2
  <2> HIDE DEF rank
  <2> QED BY <1>1, <2>2, <2>3, <2>4
<1>6. \A i, j \in 1 .. N : sooner(i, j) => rank(i) < rank(j)
  <2> SUFFICES ASSUME NEW i \in 1 .. N, NEW j \in 1 .. N, sooner(i, j) PROVE rank(i) < rank(j)
    OBVIOUS
  <2>1. Before(i) \in SUBSET Before(j) /\ i \in Before(j) /\ i \notin Before(i)
    BY <1>4
  <2>2. IsFiniteSet(Before(j)) /\ rank(i) \in Nat /\ rank(j) \in Nat
    BY <1>5
  <2> HIDE DEF Before
  <2>3. rank(i) <= rank(j) /\ (rank(j) = rank(i) => Before(j) = Before(i))
    BY <2>1, <2>2, FS_Subset
  <2> HIDE DEF rank
  <2> QED BY <2>1, <2>2, <2>3
<1> HIDE DEF Before, rank
<1>7. \A i, j \in 1 .. N : rank(i) = rank(j) => i = j
  <2> SUFFICES ASSUME NEW i \in 1 .. N, NEW j \in 1 .. N, rank(i) = rank(j), i # j PROVE FALSE
    OBVIOUS
  <2>1. rank(i) < rank(j) \/ rank(j) < rank(i)
    BY <1>4, <1>6
  <2>2. rank(i) \in Nat /\ rank(j) \in Nat
    BY <1>5
  <2> QED BY <2>1, <2>2
<1>8. \A k \in 1 .. N : \E i \in 1 .. N : rank(i) = k - 1
  <2> DEFINE f == [i \in 1 .. N |-> rank(i) + 1]
  <2>1. f \in [1 .. N -> 1 .. N]
    <3>1. \A i \in 1 .. N : rank(i) + 1 \in 1 .. N
      BY <1>1, <1>5
    <3> QED BY <3>1
  <2>2. \A i, j \in 1 .. N : f[i] = f[j] => i = j
    <3> TAKE i, j \in 1 .. N
    <3>1. f[i] = rank(i) + 1 /\ f[j] = rank(j) + 1 /\ rank(i) \in Nat /\ rank(j) \in Nat
      BY <1>5
    <3> HIDE DEF f
    <3>2. f[i] = f[j] => rank(i) = rank(j)
      BY <3>1
    <3> QED BY <1>7, <3>2
  <2>3. \A i \in 1 .. N : f[i] = rank(i) + 1
    OBVIOUS
  <2> HIDE DEF f
  <2>4. f \in Injection(1 .. N, 1 .. N)
    BY <2>1, <2>2 DEF Injection, IsInjective
  <2>5. f \in Surjection(1 .. N, 1 .. N)
    BY <1>1, <2>4, FS_Injection
  <2> SUFFICES ASSUME NEW k \in 1 .. N PROVE \E i \in 1 .. N : rank(i) = k - 1
    OBVIOUS
  <2>6. PICK i \in 1 .. N : f[i] = k
    BY <2>5 DEF Surjection
  <2>7. rank(i) + 1 = k /\ rank(i) \in Nat
    BY <1>5, <2>3, <2>6
  <2>8. rank(i) = k - 1
    BY <2>7
  <2> QED BY <2>8
<1>9. \A k \in 1 .. N : order[k] \in 1 .. N /\ rank(order[k]) = k - 1
  <2> TAKE k \in 1 .. N
  <2>1. nth(k) \in 1 .. N /\ rank(nth(k)) = k - 1
    BY <1>8
  <2> HIDE DEF nth
  <2>2. order[k] = nth(k)
    BY <1>3
  <2> QED BY <2>1, <2>2
<1>10. order \in [1 .. N -> 1 .. N]
  <2> HIDE DEF nth
  <2>1. DOMAIN order = 1 .. N /\ order = [k \in 1 .. N |-> order[k]]
    BY <1>3
  <2> QED BY <1>9, <2>1
<1>11. order \in Seq(1 .. N) /\ Len(order) = N
  BY <1>1, <1>10
<1>12. \A k, m \in 1 .. N : order[k] = order[m] => k = m
  <2> TAKE k, m \in 1 .. N
  <2>1. rank(order[k]) = k - 1 /\ rank(order[m]) = m - 1
    BY <1>9
  <2>2. k - 1 = m - 1 => k = m
    BY <1>1
  <2> QED BY <2>1, <2>2
<1>13. \A i \in 1 .. N : \E k \in 1 .. N : order[k] = i
  <2> TAKE i \in 1 .. N
  <2> DEFINE k == rank(i) + 1
  <2>1. k \in 1 .. N /\ k - 1 = rank(i)
    BY <1>1, <1>5
  <2> HIDE DEF k
  <2>2. order[k] \in 1 .. N /\ rank(order[k]) = rank(i)
    BY <1>9, <2>1
  <2>3. order[k] = i
    BY <1>7, <2>2
  <2> QED BY <2>1, <2>3
<1> QED BY <1>11, <1>12, <1>13 DEF N, order

(* What is passed over does not fit beside what is taken.                  *)
LEMMA GreedyLeaves ==
  ASSUME NEW parts \in Seq(Nat), NEW order \in Seq(1 .. Len(parts)), NEW room \in Int,
         \A k, m \in 1 .. Len(order) : order[k] = order[m] => k = m
  PROVE  LET taken == ToSet(Greedy(order, parts, room))
         IN  \A k \in 1 .. Len(order) : order[k] \in taken \/ Cost(parts, taken \cup {order[k]}) > room
<1> DEFINE got == CHOOSE f : TakenOf(order, parts, room, f)
           P == 1 .. Len(parts)
           N == Len(order)
<1>1. TakenOf(order, parts, room, got)
  BY TakenExists
<1>2. Greedy(order, parts, room) = got[Len(order)].taken
  BY DEF Greedy, TakenOf
<1> HIDE DEF got
<1> DEFINE First == [taken |-> <<>>, used |-> 0]
           More(had, n) == [taken |-> Append(had.taken, order[n]), used |-> had.used + Tokens(parts[order[n]])]
           Offered(had, n) == IF had.used + Tokens(parts[order[n]]) <= room THEN More(had, n) ELSE had
<1>3a. got = [n \in 0 .. N |-> IF n = 0 THEN First ELSE Offered(got[n - 1], n)]
  BY <1>1 DEF TakenOf
<1>3. /\ N \in Nat
      /\ got[0] = First
      /\ \A n \in 1 .. N : got[n] = IF got[n - 1].used + Tokens(parts[order[n]]) <= room
                                      THEN More(got[n - 1], n) ELSE got[n - 1]
  <2>1. N \in Nat
    OBVIOUS
  <2> HIDE DEF N, First, Offered
  <2>2. got[0] = First /\ \A n \in 1 .. N : got[n] = Offered(got[n - 1], n)
    BY <1>3a, <2>1
  <2> QED BY <2>1, <2>2 DEF Offered
<1>4. \A had, n : /\ More(had, n).taken = Append(had.taken, order[n])
                  /\ More(had, n).used = had.used + Tokens(parts[order[n]])
  OBVIOUS
<1>5. First.taken = <<>> /\ First.used = 0
  OBVIOUS
<1> HIDE DEF More, First
<1> DEFINE Had(n) == ToSet(got[n].taken)
           Right(n) == /\ got[n].taken \in Seq(P)
                       /\ got[n].used = Cost(parts, Had(n))
                       /\ Had(n) \subseteq {order[k] : k \in 1 .. n}
                       /\ \A k \in 1 .. n : order[k] \in Had(n) \/ Cost(parts, Had(n) \cup {order[k]}) > room
           T == {n \in 0 .. N : Right(n)}
<1>6. 0 \in T
  <2>1. got[0].taken = <<>> /\ got[0].used = 0
    BY <1>3, <1>5
  <2>2. Had(0) = {} /\ got[0].taken \in Seq(P)
    BY <2>1 DEF ToSet
  <2>3. Cost(parts, {}) = 0
    BY CostFacts
  <2>3a. \A k \in 1 .. 0 : FALSE
    OBVIOUS
  <2> HIDE DEF Had
  <2>4. Right(0)
    BY <2>1, <2>2, <2>3, <2>3a, Zenon
  <2> QED BY <1>3, <2>4
<1>7. ASSUME NEW n \in 1 .. N, n - 1 \in T PROVE n \in T
  <2> DEFINE i == order[n]  A == Had(n - 1)  B == Had(n)  had == got[n - 1]
  <2>1. /\ had.taken \in Seq(P) /\ had.used = Cost(parts, A)
        /\ A \subseteq {order[k] : k \in 1 .. n - 1}
        /\ \A k \in 1 .. n - 1 : order[k] \in A \/ Cost(parts, A \cup {order[k]}) > room
    BY <1>7
  <2>2. i \in P /\ n \in 0 .. N
    OBVIOUS
  <2>3. i \notin A
    <3> SUFFICES ASSUME i \in A PROVE FALSE
      OBVIOUS
    <3>1. PICK k \in 1 .. n - 1 : i = order[k]
      BY <2>1
    <3>2. k \in 1 .. N /\ n \in 1 .. N /\ k # n
      <4>1. N \in Nat
        BY <1>3
      <4> HIDE DEF N
      <4>2. n \in 1 .. N /\ k \in 1 .. n - 1
        OBVIOUS
      <4> QED BY <4>1, <4>2
    <3> QED BY <3>1, <3>2
  <2>4. /\ Cost(parts, A \cup {i}) = Cost(parts, A) + Tokens(parts[i])
        /\ Cost(parts, A \cup {i}) \in Nat
    BY <2>2, <2>3, CostFacts
  <2>5. \A k \in 1 .. n : k \in 1 .. n - 1 \/ k = n
    BY <1>3
  <2>6. CASE had.used + Tokens(parts[i]) <= room
    <3>1. got[n] = More(had, n)
      BY <1>3, <2>6
    <3>2. got[n].taken = Append(had.taken, i) /\ got[n].used = had.used + Tokens(parts[i])
      BY <1>4, <3>1
    <3>3. B = A \cup {i}
      <4> DEFINE list == had.taken
      <4>1. list \in Seq(P) /\ i \in P /\ A = ToSet(list) /\ B = ToSet(Append(list, i))
        BY <2>1, <2>2, <3>2
      <4>2. ToSet(Append(list, i)) = ToSet(list) \cup {i}
        <5> HIDE DEF list, i, P, A, B
        <5> QED BY <4>1, ToSetFacts
      <4> QED BY <4>1, <4>2
    <3>4. got[n].taken \in Seq(P)
      BY <2>1, <2>2, <3>2, AppendProperties
    <3> HIDE DEF A, B, Had
    <3>5. got[n].used = Cost(parts, B)
      BY <2>1, <2>4, <3>2, <3>3
    <3>6. B \subseteq {order[k] : k \in 1 .. n}
      BY <2>1, <3>3
    <3>7. ASSUME NEW k \in 1 .. n PROVE order[k] \in B \/ Cost(parts, B \cup {order[k]}) > room
      <4>1. CASE k = n
        BY <3>3, <4>1
      <4>2. CASE k \in 1 .. n - 1 /\ order[k] \notin A
        <5>1. Cost(parts, A \cup {order[k]}) > room
          BY <2>1, <4>2
        <5>2. A \cup {order[k]} \subseteq B \cup {order[k]}
          BY <3>3
        <5>3. /\ Cost(parts, A \cup {order[k]}) \in Nat /\ Cost(parts, B \cup {order[k]}) \in Nat
              /\ Cost(parts, A \cup {order[k]}) <= Cost(parts, B \cup {order[k]})
          BY <5>2, CostFacts
        <5> QED BY <5>1, <5>3
      <4>3. CASE order[k] \in A
        BY <3>3, <4>3
      <4> QED BY <2>5, <4>1, <4>2, <4>3
    <3>8. Right(n)
      BY <3>4, <3>5, <3>6, <3>7 DEF B
    <3> HIDE DEF Right
    <3> QED BY <2>2, <3>8
  <2>7. CASE ~ (had.used + Tokens(parts[i]) <= room)
    <3>1. got[n] = had
      BY <1>3, <2>7
    <3>2. B = A
      BY <3>1
    <3>3. Cost(parts, A \cup {i}) > room
      BY <2>1, <2>4, <2>7
    <3> HIDE DEF A, B, Had
    <3>4. A \subseteq {order[k] : k \in 1 .. n}
      <4>1. \A k \in 1 .. n - 1 : k \in 1 .. n
        BY <1>3
      <4> QED BY <2>1, <4>1, Zenon
    <3>5. \A k \in 1 .. n : order[k] \in A \/ Cost(parts, A \cup {order[k]}) > room
      BY <2>1, <2>5, <3>3
    <3>6. Right(n)
      BY <2>1, <3>1, <3>2, <3>4, <3>5 DEF B
    <3> HIDE DEF Right
    <3> QED BY <2>2, <3>6
  <2> QED BY <2>6, <2>7
<1>8. N \in T
  <2>1. \A n \in 0 .. N : n \in T
    <3> HIDE DEF T, N
    <3> QED BY <1>3, <1>6, <1>7, UpToAny
  <2> HIDE DEF T
  <2> QED BY <1>3, <2>1
<1> QED BY <1>2, <1>8

(* The text of files and notes is no shorter than the files come to.       *)
LEMMA TextHolds ==
  ASSUME NEW parts \in Seq(Nat), NEW note \in Nat, NEW binaryText \in Nat, NEW T
  PROVE  Cost(parts, T) <=
           Tokens(AllAssembled([j \in 1 .. Len(parts) |-> IF j \in T THEN parts[j] ELSE note], binaryText))
<1> DEFINE s == [j \in 1 .. Len(parts) |-> IF j \in T THEN parts[j] ELSE note]
           t == [j \in 1 .. Len(parts) |-> Tokens(s[j])]
           c == [j \in 1 .. Len(parts) |-> IF j \in T THEN Tokens(parts[j]) ELSE 0]
<1>1. s \in Seq(Nat) /\ Len(s) = Len(parts) /\ Len(s) \in Nat
  OBVIOUS
<1>2. \A j \in 1 .. Len(parts) : s[j] \in Nat /\ Tokens(s[j]) \in Nat /\ (j \in T => s[j] = parts[j])
  <2> TAKE j \in 1 .. Len(parts)
  <2>1. s[j] \in Nat /\ (j \in T => s[j] = parts[j])
    OBVIOUS
  <2> HIDE DEF s
  <2> QED BY <2>1, TokensFacts
<1> HIDE DEF s
<1>3. t \in Seq(Nat) /\ Len(t) = Len(s) /\ \A j \in 1 .. Len(s) : t[j] = Tokens(s[j])
  BY <1>1, <1>2
<1> HIDE DEF t
<1>4. \A j \in 1 .. Len(parts) : c[j] \in Nat /\ c[j] <= t[j]
  <2> TAKE j \in 1 .. Len(parts)
  <2>1. c[j] = (IF j \in T THEN t[j] ELSE 0) /\ t[j] \in Nat
    BY <1>1, <1>2, <1>3
  <2> HIDE DEF c
  <2> QED BY <2>1
<1>5. c \in Seq(Nat) /\ Len(c) = Len(t)
  <2>1. DOMAIN c = 1 .. Len(parts) /\ c = [j \in 1 .. Len(parts) |-> c[j]]
    OBVIOUS
  <2> HIDE DEF c
  <2> QED BY <1>1, <1>3, <1>4, <2>1
<1>6. Cost(parts, T) = Total(c)
  BY DEF Cost
<1> HIDE DEF c
<1>7. Total(c) <= Total(t)
  BY <1>1, <1>3, <1>4, <1>5, TotalGrows
<1>8. Total(t) <= Tokens(Total(s))
  BY <1>1, <1>3, TokensOfTotal
<1>9. Total(c) \in Nat /\ Total(t) \in Nat /\ Total(s) \in Nat
  BY <1>1, <1>3, <1>5, TotalFacts
<1> DEFINE whole == Assembled(Len(s), Total(s), binaryText)
<1>10. whole \in Nat /\ Total(s) <= whole
  <2> DEFINE n == Len(s)  m == Total(s)
  <2>1. Glue.filesHead \in Nat
    BY PromptAssumption DEF Words
  <2>2. n \in Nat /\ m \in Nat
    BY <1>1, <1>9
  <2>3. m = 0 \/ n # 0
    <3>1. CASE n = 0
      <4>1. s = <<>>
        BY <1>1, <3>1, EmptySeq
      <4> QED BY <4>1, TotalNone, Zenon
    <3> QED BY <3>1
  <2> HIDE DEF n, m
  <2>4. Assembled(n, m, binaryText) \in Nat
    BY <2>2, LengthFacts, Zenon
  <2>5. m <= Assembled(n, m, binaryText)
    <3>1. CASE n = 0
      BY <2>2, <2>3, <2>4, <3>1
    <3>2. CASE n # 0
      <4> DEFINE fenced == Glue.filesHead + m + 2 * (n - 1)
      <4>1. fenced \in Nat /\ m <= fenced
        BY <2>1, <2>2, <3>2
      <4>2. Assembled(n, m, binaryText) = CASE fenced = 0 /\ binaryText = 0 -> 0
                                            [] fenced > 0 /\ binaryText > 0 -> fenced + 2 + binaryText + 1
                                            [] OTHER -> fenced + binaryText + 1
        BY <3>2 DEF Assembled
      <4> HIDE DEF fenced
      <4> QED BY <2>2, <4>1, <4>2
    <3> QED BY <3>1, <3>2
  <2> QED BY <2>4, <2>5 DEF n, m
<1>11. AllAssembled(s, binaryText) = whole
  BY DEF AllAssembled
<1> HIDE DEF whole
<1>12. Tokens(Total(s)) <= Tokens(whole) /\ Tokens(Total(s)) \in Nat /\ Tokens(whole) \in Nat
  BY <1>9, <1>10, TokensFacts
<1>13. Cost(parts, T) <= Tokens(whole)
  BY <1>6, <1>7, <1>8, <1>9, <1>12
<1> QED BY <1>11, <1>13, Zenon DEF s

(* What is not dropped again is what was taken.                            *)
LEMMA NothingDropped ==
  ASSUME NEW S, NEW s \in Seq(S), NEW parts, NEW note, NEW binaries, NEW room,
         ~ (Len(Trimmed(s, parts, note, binaries, room)) < Len(s))
  PROVE  Trimmed(s, parts, note, binaries, room) = s
<1> DEFINE P == {k \in 0 .. Len(s) : Tokens(Noted(SubSeq(s, k + 1, Len(s)), parts, note, binaries)) <= room
                                     \/ k = Len(s)}
           k == CHOOSE k \in P : \A j \in P : k <= j
<1>1. Trimmed(s, parts, note, binaries, room) = SubSeq(s, k + 1, Len(s))
  BY DEF Trimmed, FirstFit
<1>2. P \in SUBSET Nat /\ Len(s) \in P /\ Len(s) \in Nat
  OBVIOUS
<1>3. \E p \in P : \A q \in P : p <= q
  <2> HIDE DEF P
  <2> QED BY <1>2, LeastNumber
<1>4. k \in P
  BY <1>3
<1>5. k \in 0 .. Len(s)
  BY <1>4
<1> HIDE DEF k
<1>6. k + 1 \in 1 .. Len(s) + 1
  BY <1>2, <1>5
<1>7. Len(SubSeq(s, k + 1, Len(s))) = Len(s) - k
  BY <1>2, <1>5
<1>8. k = 0
  BY <1>1, <1>2, <1>5, <1>7
<1>9. SubSeq(s, 1, Len(s)) = s
  BY SubSeqFull
<1> QED BY <1>1, <1>8, <1>9

(* A file that is not packed does not fit beside those that are, unless    *)
(* some were dropped again.                                                *)
LEMMA PackFilesLeaves ==
  ASSUME NEW parts \in Seq(Nat), NEW note \in Nat, NEW binaries \in Nat, NEW room \in Nat
  PROVE  LET packed == PackFiles(parts, note, binaries, room)
         IN  packed.trimmed = TRUE \/ \A i \in 1 .. Len(parts) : i \notin packed.shown =>
               Tokens(AllAssembled([j \in 1 .. Len(parts) |-> IF j \in packed.shown \cup {i} THEN parts[j] ELSE note],
                                   BinaryList(binaries))) > room
<1>1. CASE parts = <<>>
  <2>1. \A i \in 1 .. Len(parts) : FALSE
    BY <1>1
  <2> QED BY <2>1
<1>2. CASE parts # <<>>
  <2> DEFINE order == LargestFirst(parts)
             greedy == Greedy(order, parts, room)
             shown == Trimmed(greedy, parts, note, binaries, room)
             packed == PackFiles(parts, note, binaries, room)
  <2>1. /\ order \in Seq(1 .. Len(parts)) /\ Len(order) = Len(parts)
        /\ \A k, m \in 1 .. Len(order) : order[k] = order[m] => k = m
        /\ \A i \in 1 .. Len(parts) : \E k \in 1 .. Len(order) : order[k] = i
    BY LargestFirstFacts
  <2>2. packed = Packed(shown, greedy, parts, note, binaries, room)
    BY <1>2, Zenon DEF PackFiles
  <2>3. packed.shown = ToSet(shown) /\ packed.trimmed = (Len(shown) < Len(greedy))
    BY <2>2 DEF Packed
  <2> HIDE DEF order, packed
  <2>4. greedy \in Seq(1 .. Len(parts))
    BY <2>1, GreedyFacts
  <2>5. \A k \in 1 .. Len(order) :
          order[k] \in ToSet(greedy) \/ Cost(parts, ToSet(greedy) \cup {order[k]}) > room
    <3>1. room \in Int
      OBVIOUS
    <3> QED BY <2>1, <3>1, GreedyLeaves
  <2>6. Len(shown) < Len(greedy) \/ shown = greedy
    BY <2>4, NothingDropped
  <2> HIDE DEF greedy, shown
  <2>7. CASE Len(shown) < Len(greedy)
    BY <2>3, <2>7, Zenon DEF packed
  <2>8. CASE shown = greedy
    <3> SUFFICES ASSUME NEW i \in 1 .. Len(parts), i \notin packed.shown
                 PROVE  Tokens(AllAssembled([j \in 1 .. Len(parts) |->
                                             IF j \in packed.shown \cup {i} THEN parts[j] ELSE note],
                                            BinaryList(binaries))) > room
      BY DEF packed
    <3>1. Cost(parts, packed.shown \cup {i}) > room
      BY <2>1, <2>3, <2>5, <2>8
    <3> DEFINE length == AllAssembled([j \in 1 .. Len(parts) |->
                                       IF j \in packed.shown \cup {i} THEN parts[j] ELSE note], BinaryList(binaries))
    <3>2. BinaryList(binaries) \in Nat
      BY LengthFacts
    <3>3. Cost(parts, packed.shown \cup {i}) <= Tokens(length)
      BY <3>2, TextHolds
    <3>4. Cost(parts, packed.shown \cup {i}) \in Nat
      BY CostFacts
    <3>5. Tokens(length) \in Int
      <4> DEFINE s == [j \in 1 .. Len(parts) |-> IF j \in packed.shown \cup {i} THEN parts[j] ELSE note]
      <4>1. s \in Seq(Nat) /\ Len(s) \in Nat
        OBVIOUS
      <4> HIDE DEF s
      <4>2. Total(s) \in Nat
        BY <4>1, TotalFacts
      <4>3. Assembled(Len(s), Total(s), BinaryList(binaries)) \in Nat
        BY <3>2, <4>1, <4>2, LengthFacts, Zenon
      <4>4. Tokens(AllAssembled(s, BinaryList(binaries))) \in Nat
        BY <4>3, TokensFacts DEF AllAssembled
      <4> QED BY <4>4 DEF s
    <3> HIDE DEF length
    <3>6. Tokens(length) > room
      BY <3>1, <3>3, <3>4, <3>5
    <3> QED BY <3>6 DEF length
  <2> QED BY <2>6, <2>7, <2>8
<1> QED BY <1>1, <1>2

(* A prompt that is planned leaves out what does not fit, unless some was  *)
(* dropped again.                                                          *)
LEMMA PlannedLeaves ==
  ASSUME input \in PromptInput, NEW parts \in Seq(Nat), NEW note \in Nat
  PROVE  LET p == Planned(parts, note)
             binaries == BinaryList(input.binaries)
             room == EffectiveBudget(input.backend) - Tokens(input.base + BinariesAlone(binaries))
         IN  p.outcome = "planned" => p.trimmed = TRUE \/ \A i \in 1 .. Len(parts) : i \notin p.shown =>
               Tokens(AllAssembled([j \in 1 .. Len(parts) |-> IF j \in p.shown \cup {i} THEN parts[j] ELSE note],
                                   binaries)) > room
<1> DEFINE budget == EffectiveBudget(input.backend)
           alone == BinariesAlone(BinaryList(input.binaries))
           fixed == input.base + alone
           room == budget - Tokens(fixed)
           files == PackFiles(parts, note, input.binaries, room)
           p == Planned(parts, note)
<1>1. input.base \in Nat /\ input.binaries \in Nat /\ budget \in Nat
  BY BudgetFacts DEF PromptInput
<1>2. alone \in Nat
  BY <1>1, LengthFacts DEF BinariesAlone
<1>3. fixed \in Nat /\ Tokens(fixed) \in Nat
  <2>1. fixed \in Nat
    BY <1>1, <1>2
  <2> HIDE DEF fixed
  <2> QED BY <2>1, TokensFacts
<1>4. CASE Tokens(fixed) > budget
  <2>1. p.outcome = "refused"
    BY <1>4 DEF Planned, OverBudget
  <2> QED BY <2>1
<1>5. CASE ~ (Tokens(fixed) > budget)
  <2>1. p = WithKids(files, budget)
    BY <1>5 DEF Planned, OverBudget
  <2>2. p.shown = files.shown /\ p.trimmed = files.trimmed
    BY <2>1 DEF WithKids, Judged
  <2>3. room \in Nat
    <3> HIDE DEF budget, fixed
    <3> QED BY <1>1, <1>3, <1>5
  <2>4. files.trimmed = TRUE \/ \A i \in 1 .. Len(parts) : i \notin files.shown =>
          Tokens(AllAssembled([j \in 1 .. Len(parts) |-> IF j \in files.shown \cup {i} THEN parts[j] ELSE note],
                              BinaryList(input.binaries))) > room
    <3> HIDE DEF room
    <3> QED BY <1>1, <2>3, PackFilesLeaves
  <2> HIDE DEF files, p
  <2> QED BY <2>2, <2>4 DEF p
<1> QED BY <1>4, <1>5

(* Only parts that there are are taken.                                    *)
LEMMA TrimmedAmong ==
  ASSUME NEW S, NEW s \in Seq(S), NEW parts, NEW note, NEW binaries, NEW room
  PROVE  ToSet(Trimmed(s, parts, note, binaries, room)) \subseteq S
<1> DEFINE P == {k \in 0 .. Len(s) : Tokens(Noted(SubSeq(s, k + 1, Len(s)), parts, note, binaries)) <= room
                                     \/ k = Len(s)}
           k == CHOOSE k \in P : \A j \in P : k <= j
<1>1. Trimmed(s, parts, note, binaries, room) = SubSeq(s, k + 1, Len(s))
  BY DEF Trimmed, FirstFit
<1>2. P \in SUBSET Nat /\ Len(s) \in P /\ Len(s) \in Nat
  OBVIOUS
<1>3. \E p \in P : \A q \in P : p <= q
  <2> HIDE DEF P
  <2> QED BY <1>2, LeastNumber
<1>4. k \in P
  BY <1>3
<1>5. k \in 0 .. Len(s)
  BY <1>4
<1> HIDE DEF k
<1> DEFINE t == SubSeq(s, k + 1, Len(s))
<1>6. DOMAIN t = 1 .. Len(s) - k /\ \A n \in DOMAIN t : t[n] = s[k + n]
  BY <1>2, <1>5
<1>7. \A n \in DOMAIN t : k + n \in 1 .. Len(s)
  BY <1>2, <1>5, <1>6
<1> HIDE DEF t
<1>8. \A n \in DOMAIN t : t[n] \in S
  <2> TAKE n \in DOMAIN t
  <2>1. k + n \in DOMAIN s /\ t[n] = s[k + n]
    BY <1>6, <1>7
  <2> QED BY <2>1
<1>9. ToSet(t) = {t[n] : n \in DOMAIN t}
  BY DEF ToSet
<1> QED BY <1>1, <1>8, <1>9 DEF t

LEMMA PlannedAmong ==
  ASSUME NEW parts \in Seq(Nat), NEW note
  PROVE  Planned(parts, note).shown \subseteq 1 .. Len(parts)
<1> DEFINE budget == EffectiveBudget(input.backend)
           fixed == input.base + BinariesAlone(BinaryList(input.binaries))
           room == budget - Tokens(fixed)
           files == PackFiles(parts, note, input.binaries, room)
           p == Planned(parts, note)
<1>1. files.shown \subseteq 1 .. Len(parts)
  <2> HIDE DEF room
  <2>1. CASE parts = <<>>
    BY <2>1 DEF PackFiles
  <2>2. CASE parts # <<>>
    <3> DEFINE order == LargestFirst(parts)
               greedy == Greedy(order, parts, room)
               shown == Trimmed(greedy, parts, note, input.binaries, room)
    <3>1. files = Packed(shown, greedy, parts, note, input.binaries, room)
      BY <2>2, Zenon DEF PackFiles
    <3>2. files.shown = ToSet(shown)
      BY <3>1 DEF Packed
    <3>3. order \in Seq(1 .. Len(parts))
      BY LargestFirstFacts
    <3> HIDE DEF order, files
    <3>4. greedy \in Seq(1 .. Len(parts))
      BY <3>3, GreedyFacts
    <3> HIDE DEF greedy
    <3>5. ToSet(shown) \subseteq 1 .. Len(parts)
      BY <3>4, TrimmedAmong
    <3> QED BY <3>2, <3>5
  <2> QED BY <2>1, <2>2
<1>2. CASE Tokens(fixed) > budget
  BY <1>2 DEF Planned, OverBudget
<1>3. CASE ~ (Tokens(fixed) > budget)
  <2>1. p = WithKids(files, budget)
    BY <1>3 DEF Planned, OverBudget
  <2>2. p.shown = files.shown
    BY <2>1 DEF WithKids, Judged
  <2> QED BY <1>1, <2>2
<1> QED BY <1>2, <1>3

-----------------------------------------------------------------------------
(* The chunks of a file.                                                   *)

(* The sequences are put together one by one.                              *)
LEMMA FlattenExists ==
  ASSUME NEW S, NEW ss \in Seq(Seq(S))
  PROVE  \E f : /\ FlattenSeq(ss) = f[Len(ss)] /\ f[0] = <<>>
                /\ \A n \in 0 .. Len(ss) : f[n] \in Seq(S)
                /\ \A n \in 1 .. Len(ss) : f[n] = f[n - 1] \o ss[n]
<1> DEFINE N == Len(ss)
           step == [n \in 1 .. N |-> [s \in Seq(S) |-> s \o ss[n]]]
<1>1. N \in Nat /\ <<>> \in Seq(S) /\ \A n \in 1 .. N : ss[n] \in Seq(S)
  OBVIOUS
<1>2. step \in [1 .. N -> [Seq(S) -> Seq(S)]] /\ \A n \in 1 .. N, s \in Seq(S) : step[n][s] = s \o ss[n]
  <2>1. \A n \in 1 .. N, s \in Seq(S) : s \o ss[n] \in Seq(S)
    BY <1>1, ConcatProperties
  <2> QED BY <2>1
<1> HIDE DEF N, step
<1>3. PICK f : Stepwise(Seq(S), <<>>, N, step, f)
  BY <1>1, <1>2, StepByStep, Zenon
<1>4. /\ f[0] = <<>>
      /\ \A n \in 0 .. N : f[n] \in Seq(S)
      /\ \A n \in 1 .. N : f[n] = f[n - 1] \o ss[n]
  <2>1. /\ f \in [0 .. N -> Seq(S)] /\ f[0] = <<>>
        /\ \A n \in 1 .. N : f[n] = step[n][f[n - 1]]
    BY <1>3 DEF Stepwise
  <2>2. \A n \in 0 .. N : f[n] \in Seq(S)
    BY <2>1
  <2>3. \A n \in 1 .. N : n - 1 \in 0 .. N
    BY <1>1
  <2> QED BY <1>2, <2>1, <2>2, <2>3
<1>5. CASE N = 0
  <2>1. FlattenSeq(ss) = ss /\ ss = <<>>
    BY <1>5, EmptySeq DEF FlattenSeq, N
  <2>2. f[N] = <<>>
    BY <1>4, <1>5
  <2> QED BY <1>4, <2>1, <2>2 DEF N
<1>6. CASE N # 0
  <2> DEFINE Flat(g) == g = [i \in 1 .. N |-> IF i = 1 THEN ss[i] ELSE g[i - 1] \o ss[i]]
             g == CHOOSE g : Flat(g)
             h == [i \in 1 .. N |-> f[i]]
  <2>1. Flat(h)
    <3>1. f[1] = ss[1]
      <4>1. 1 \in 1 .. N /\ f[1 - 1] = <<>>
        BY <1>1, <1>4, <1>6
      <4>2. f[1] = <<>> \o ss[1]
        BY <1>4, <4>1
      <4>3. ss[1] \in Seq(S)
        BY <1>1, <4>1
      <4> QED BY <4>2, <4>3, ConcatEmptySeq
    <3>2. \A i \in 1 .. N : i # 1 => i - 1 \in 1 .. N
      BY <1>1
    <3>3. \A i \in 1 .. N : i # 1 => h[i - 1] = f[i - 1]
      BY <3>2
    <3>4. \A i \in 1 .. N : f[i] = IF i = 1 THEN ss[i] ELSE h[i - 1] \o ss[i]
      <4> HIDE DEF h
      <4> QED BY <1>4, <3>1, <3>3, Zenon
    <3>5. h = [i \in 1 .. N |-> IF i = 1 THEN ss[i] ELSE h[i - 1] \o ss[i]]
      BY <3>4
    <3> QED BY <3>5
  <2>2. Flat(g)
    <3> HIDE DEF h, Flat
    <3> QED BY <2>1
  <2>3. FlattenSeq(ss) = g[N]
    BY <1>6, Zenon DEF FlattenSeq, N
  <2> HIDE DEF g
  <2>4. \A i \in 1 .. N : g[i] = IF i = 1 THEN ss[i] ELSE g[i - 1] \o ss[i]
    BY <2>2
  <2>5. \A i \in 1 .. N : f[i] = IF i = 1 THEN ss[i] ELSE f[i - 1] \o ss[i]
    <3>1. \A i \in 1 .. N : h[i] = IF i = 1 THEN ss[i] ELSE h[i - 1] \o ss[i]
      <4> HIDE DEF h
      <4> QED BY <2>1
    <3>2. \A i \in 1 .. N : h[i] = f[i]
      OBVIOUS
    <3>3. \A i \in 1 .. N : i # 1 => i - 1 \in 1 .. N
      BY <1>1
    <3> HIDE DEF h
    <3> QED BY <3>1, <3>2, <3>3, Zenon
  <2> DEFINE T == {n \in 0 .. N : n = 0 \/ g[n] = f[n]}
  <2>6. 0 \in T
    BY <1>1
  <2>7. ASSUME NEW n \in 1 .. N, n - 1 \in T PROVE n \in T
    <3>1. g[n] = f[n]
      <4>1. CASE n = 1
        BY <2>4, <2>5, <4>1
      <4>2. CASE n # 1
        <5>1. n - 1 # 0
          BY <4>2
        <5>2. g[n - 1] = f[n - 1]
          BY <2>7, <5>1
        <5> QED BY <2>4, <2>5, <4>2, <5>2
      <4> QED BY <4>1, <4>2
    <3>2. n \in 0 .. N
      BY <1>1
    <3> QED BY <3>1, <3>2
  <2>8. \A n \in 0 .. N : n \in T
    <3> HIDE DEF T
    <3> QED BY <1>1, <2>6, <2>7, UpToAny
  <2>9. FlattenSeq(ss) = f[N]
    BY <1>1, <1>6, <2>3, <2>8
  <2> QED BY <1>4, <2>9 DEF N
<1> QED BY <1>5, <1>6

(* What sequences come to, one after the other, is a sequence again.       *)
LEMMA FlattenFacts ==
  ASSUME NEW S, NEW ss \in Seq(Seq(S))
  PROVE  FlattenSeq(ss) \in Seq(S) /\ FlattenSeq(<<>>) = <<>>
<1>1. PICK f : /\ FlattenSeq(ss) = f[Len(ss)] /\ f[0] = <<>>
               /\ \A n \in 0 .. Len(ss) : f[n] \in Seq(S)
               /\ \A n \in 1 .. Len(ss) : f[n] = f[n - 1] \o ss[n]
  BY FlattenExists
<1>2. Len(ss) \in 0 .. Len(ss)
  OBVIOUS
<1>3. FlattenSeq(<<>>) = <<>>
  BY DEF FlattenSeq
<1> QED BY <1>1, <1>2, <1>3

(* One sequence more.                                                      *)
LEMMA FlattenAppend ==
  ASSUME NEW S, NEW ss \in Seq(Seq(S)), NEW e \in Seq(S)
  PROVE  FlattenSeq(Append(ss, e)) = FlattenSeq(ss) \o e
<1> DEFINE tt == Append(ss, e)
<1>1. /\ tt \in Seq(Seq(S)) /\ Len(tt) = Len(ss) + 1 /\ Len(ss) \in Nat
      /\ \A i \in 1 .. Len(ss) : tt[i] = ss[i]
      /\ tt[Len(ss) + 1] = e
  BY AppendProperties
<1> HIDE DEF tt
<1>2. PICK f : /\ FlattenSeq(ss) = f[Len(ss)] /\ f[0] = <<>>
               /\ \A n \in 0 .. Len(ss) : f[n] \in Seq(S)
               /\ \A n \in 1 .. Len(ss) : f[n] = f[n - 1] \o ss[n]
  BY FlattenExists
<1>3. PICK g : /\ FlattenSeq(tt) = g[Len(tt)] /\ g[0] = <<>>
               /\ \A n \in 0 .. Len(tt) : g[n] \in Seq(S)
               /\ \A n \in 1 .. Len(tt) : g[n] = g[n - 1] \o tt[n]
  BY <1>1, FlattenExists
<1> DEFINE T == {n \in 0 .. Len(ss) : f[n] = g[n]}
<1>4. 0 \in T
  BY <1>1, <1>2, <1>3
<1>5. ASSUME NEW n \in 1 .. Len(ss), n - 1 \in T PROVE n \in T
  <2>1. n \in 1 .. Len(tt) /\ n \in 0 .. Len(ss)
    BY <1>1
  <2>2. f[n - 1] = g[n - 1] /\ tt[n] = ss[n]
    BY <1>1, <1>5
  <2>3. f[n] = f[n - 1] \o ss[n] /\ g[n] = g[n - 1] \o tt[n]
    BY <1>2, <1>3, <2>1
  <2> QED BY <2>1, <2>2, <2>3
<1>6. Len(ss) \in T
  <2>1. \A n \in 0 .. Len(ss) : n \in T
    <3> HIDE DEF T
    <3> QED BY <1>1, <1>4, <1>5, UpToAny
  <2> QED BY <1>1, <2>1
<1>7. Len(tt) \in 1 .. Len(tt) /\ Len(tt) - 1 = Len(ss)
  BY <1>1
<1>8. g[Len(tt)] = g[Len(ss)] \o e
  BY <1>1, <1>3, <1>7
<1>9. f[Len(ss)] = g[Len(ss)]
  BY <1>6
<1> QED BY <1>2, <1>3, <1>8, <1>9 DEF tt

(* Two lists of sequences put together.                                    *)
LEMMA FlattenConcat ==
  ASSUME NEW S, NEW ss \in Seq(Seq(S)), NEW tt \in Seq(Seq(S))
  PROVE  FlattenSeq(ss \o tt) = FlattenSeq(ss) \o FlattenSeq(tt)
<1> DEFINE T == {t \in Seq(Seq(S)) : FlattenSeq(ss \o t) = FlattenSeq(ss) \o FlattenSeq(t)}
<1>1. <<>> \in T
  <2>1. ss \o <<>> = ss /\ <<>> \in Seq(Seq(S))
    BY ConcatEmptySeq
  <2>2. FlattenSeq(ss) \in Seq(S) /\ FlattenSeq(<<>>) = <<>>
    BY FlattenFacts
  <2>3. FlattenSeq(ss) \o <<>> = FlattenSeq(ss)
    BY <2>2, ConcatEmptySeq
  <2> QED BY <2>1, <2>2, <2>3
<1>2. ASSUME NEW t \in Seq(Seq(S)), NEW e \in Seq(S), t \in T PROVE Append(t, e) \in T
  <2>1. /\ Append(t, e) \in Seq(Seq(S)) /\ ss \o t \in Seq(Seq(S))
    BY AppendProperties, ConcatProperties
  <2>2. ss \o Append(t, e) = Append(ss \o t, e)
    <3>1. <<e>> \in Seq(Seq(S))
      OBVIOUS
    <3>2. Append(t, e) = t \o <<e>> /\ Append(ss \o t, e) = (ss \o t) \o <<e>>
      BY <2>1, AppendIsConcat
    <3>3. (ss \o t) \o <<e>> = ss \o (t \o <<e>>)
      <4> HIDE DEF T
      <4> QED BY <3>1
    <3> QED BY <3>2, <3>3
  <2>3. FlattenSeq(Append(ss \o t, e)) = FlattenSeq(ss \o t) \o e
    BY <2>1, FlattenAppend
  <2>4. FlattenSeq(Append(t, e)) = FlattenSeq(t) \o e
    BY FlattenAppend
  <2>5. FlattenSeq(ss) \in Seq(S) /\ FlattenSeq(t) \in Seq(S)
    BY FlattenFacts
  <2>6. (FlattenSeq(ss) \o FlattenSeq(t)) \o e = FlattenSeq(ss) \o (FlattenSeq(t) \o e)
    <3> DEFINE a == FlattenSeq(ss)  b == FlattenSeq(t)
    <3> HIDE DEF a, b, T
    <3>1. a \in Seq(S) /\ b \in Seq(S)
      BY <2>5 DEF a, b
    <3>2. (a \o b) \o e = a \o (b \o e)
      BY <3>1
    <3> QED BY <3>2 DEF a, b
  <2>7. FlattenSeq(ss \o t) = FlattenSeq(ss) \o FlattenSeq(t)
    BY <1>2
  <2>8. FlattenSeq(ss \o Append(t, e)) = FlattenSeq(ss) \o FlattenSeq(Append(t, e))
    BY <2>2, <2>3, <2>4, <2>6, <2>7, Zenon
  <2> QED BY <2>1, <2>8
<1>3. \A t \in Seq(Seq(S)) : t \in T
  <2> HIDE DEF T
  <2> QED BY <1>1, <1>2, OneByOne
<1> QED BY <1>3

(* Taken apart piece by piece and put together again.                      *)
LEMMA FlattenPieces ==
  ASSUME NEW S, NEW c \in Seq(Seq(Seq(S))), NEW d \in Seq(Seq(S)), Len(c) = Len(d),
         \A i \in 1 .. Len(d) : FlattenSeq(c[i]) = d[i]
  PROVE  FlattenSeq(FlattenSeq(c)) = FlattenSeq(d)
<1>1. PICK f : /\ FlattenSeq(c) = f[Len(c)] /\ f[0] = <<>>
               /\ \A n \in 0 .. Len(c) : f[n] \in Seq(Seq(S))
               /\ \A n \in 1 .. Len(c) : f[n] = f[n - 1] \o c[n]
  BY FlattenExists
<1>2. PICK g : /\ FlattenSeq(d) = g[Len(d)] /\ g[0] = <<>>
               /\ \A n \in 0 .. Len(d) : g[n] \in Seq(S)
               /\ \A n \in 1 .. Len(d) : g[n] = g[n - 1] \o d[n]
  BY FlattenExists
<1>3. Len(d) \in Nat
  OBVIOUS
<1> DEFINE T == {n \in 0 .. Len(d) : FlattenSeq(f[n]) = g[n]}
<1>4. 0 \in T
  <2>1. FlattenSeq(<<>>) = <<>>
    BY FlattenFacts
  <2> QED BY <1>1, <1>2, <1>3, <2>1
<1>5. ASSUME NEW n \in 1 .. Len(d), n - 1 \in T PROVE n \in T
  <2>1. n \in 1 .. Len(c) /\ n - 1 \in 0 .. Len(c) /\ n \in 0 .. Len(d)
    BY <1>3
  <2>2. f[n - 1] \in Seq(Seq(S)) /\ f[n] = f[n - 1] \o c[n] /\ g[n] = g[n - 1] \o d[n]
    BY <1>1, <1>2, <2>1
  <2>3. c[n] \in Seq(Seq(S))
    BY <2>1
  <2>4. FlattenSeq(f[n - 1] \o c[n]) = FlattenSeq(f[n - 1]) \o FlattenSeq(c[n])
    BY <2>2, <2>3, FlattenConcat
  <2>5. FlattenSeq(f[n - 1]) = g[n - 1] /\ FlattenSeq(c[n]) = d[n]
    BY <1>5
  <2>6. FlattenSeq(f[n]) = g[n]
    BY <2>2, <2>4, <2>5, Zenon
  <2> QED BY <2>1, <2>6
<1>6. \A n \in 0 .. Len(d) : n \in T
  <2> HIDE DEF T
  <2> QED BY <1>3, <1>4, <1>5, UpToAny
<1>7. Len(d) \in T
  BY <1>3, <1>6
<1> QED BY <1>1, <1>2, <1>7

(* The size of blocks.                                                     *)
LEMMA SizeFacts ==
  /\ Size(<<>>) = 0
  /\ \A b \in Seq(Block) : Size(b) \in Nat
  /\ \A b \in Seq(Block), e \in Block : Size(Append(b, e)) = Size(b) + e.size
<1> DEFINE sizes(b) == [i \in 1 .. Len(b) |-> b[i].size]
<1>1. ASSUME NEW b \in Seq(Block) PROVE sizes(b) \in Seq(Nat)
  <2>1. Len(b) \in Nat /\ \A i \in 1 .. Len(b) : b[i] \in Block
    OBVIOUS
  <2>2. \A i \in 1 .. Len(b) : b[i].size \in Nat
    BY <2>1 DEF Block
  <2> QED BY <2>1, <2>2
<1>2. \A b : Size(b) = Total(sizes(b))
  BY DEF Size
<1>3. sizes(<<>>) = <<>>
  OBVIOUS
<1>4. ASSUME NEW b \in Seq(Block), NEW e \in Block PROVE sizes(Append(b, e)) = Append(sizes(b), e.size)
  <2> DEFINE c == Append(b, e)
  <2>1. /\ c \in Seq(Block) /\ Len(c) = Len(b) + 1 /\ Len(b) \in Nat
        /\ \A i \in 1 .. Len(b) : c[i] = b[i]
        /\ c[Len(b) + 1] = e
    BY AppendProperties
  <2> HIDE DEF c
  <2>2. /\ sizes(c) \in Seq(Nat) /\ Len(sizes(c)) = Len(b) + 1
        /\ \A i \in 1 .. Len(b) : sizes(c)[i] = b[i].size
        /\ sizes(c)[Len(b) + 1] = e.size
    <3>1. sizes(c) \in Seq(Nat)
      BY <1>1, <2>1
    <3>2. Len(sizes(c)) = Len(b) + 1
      BY <2>1
    <3>3. \A i \in 1 .. Len(b) : i \in 1 .. Len(c)
      BY <2>1
    <3>4. Len(b) + 1 \in 1 .. Len(c)
      BY <2>1
    <3> QED BY <2>1, <3>1, <3>2, <3>3, <3>4
  <2>3. /\ sizes(b) \in Seq(Nat) /\ Len(sizes(b)) = Len(b)
        /\ \A i \in 1 .. Len(b) : sizes(b)[i] = b[i].size
    BY <1>1, <2>1
  <2>4. e.size \in Nat
    BY DEF Block
  <2> DEFINE u == sizes(c)  v == sizes(b)
  <2>5. u = Append(v, e.size)
    <3> HIDE DEF u, v, sizes
    <3>1. /\ Append(v, e.size) \in Seq(Nat) /\ Len(Append(v, e.size)) = Len(v) + 1
          /\ \A i \in 1 .. Len(v) : Append(v, e.size)[i] = v[i]
          /\ Append(v, e.size)[Len(v) + 1] = e.size
      BY <2>3, <2>4, AppendProperties DEF v
    <3>2. u \in Seq(Nat) /\ Len(u) = Len(v) + 1 /\ v \in Seq(Nat) /\ Len(v) \in Nat
      BY <2>1, <2>2, <2>3 DEF u, v
    <3>3. \A i \in 1 .. Len(u) : u[i] = Append(v, e.size)[i]
      <4> TAKE i \in 1 .. Len(u)
      <4>1. i \in 1 .. Len(v) \/ i = Len(v) + 1
        BY <3>2
      <4> QED BY <2>2, <2>3, <3>1, <4>1 DEF u, v
    <3> QED BY <3>1, <3>2, <3>3
  <2> QED BY <2>5 DEF c
<1> HIDE DEF sizes
<1>5. \A b \in Seq(Block) : Size(b) \in Nat
  BY <1>1, <1>2, TotalFacts
<1>6. \A b \in Seq(Block), e \in Block : Size(Append(b, e)) = Size(b) + e.size
  <2> TAKE b \in Seq(Block), e \in Block
  <2>1. e.size \in Nat
    BY DEF Block
  <2>2. Total(Append(sizes(b), e.size)) = Total(sizes(b)) + e.size
    BY <1>1, <2>1, TotalAppend
  <2> QED BY <1>2, <1>4, <2>2
<1>7. Size(<<>>) = 0
  BY <1>2, <1>3, TotalNone, Zenon
<1> QED BY <1>5, <1>6, <1>7

(* Blocks put together are as large as they were apart.                    *)
LEMMA SizeConcat ==
  ASSUME NEW a \in Seq(Block), NEW b \in Seq(Block)
  PROVE  Size(a \o b) = Size(a) + Size(b)
<1> DEFINE T == {t \in Seq(Block) : Size(a \o t) = Size(a) + Size(t)}
<1>1. <<>> \in T
  <2>1. a \o <<>> = a /\ <<>> \in Seq(Block)
    BY ConcatEmptySeq
  <2>2. Size(a) \in Nat /\ Size(<<>>) = 0
    BY SizeFacts
  <2> QED BY <2>1, <2>2
<1>2. ASSUME NEW t \in Seq(Block), NEW e \in Block, t \in T PROVE Append(t, e) \in T
  <2>1. Append(t, e) \in Seq(Block) /\ a \o t \in Seq(Block) /\ e.size \in Nat
    BY AppendProperties, ConcatProperties DEF Block
  <2>2. a \o Append(t, e) = Append(a \o t, e)
    <3> HIDE DEF T
    <3>1. <<e>> \in Seq(Block)
      OBVIOUS
    <3>2. Append(t, e) = t \o <<e>> /\ Append(a \o t, e) = (a \o t) \o <<e>>
      BY <2>1, AppendIsConcat
    <3>3. (a \o t) \o <<e>> = a \o (t \o <<e>>)
      BY <3>1
    <3> QED BY <3>2, <3>3
  <2>3. Size(Append(a \o t, e)) = Size(a \o t) + e.size /\ Size(Append(t, e)) = Size(t) + e.size
    BY <2>1, SizeFacts
  <2>4. Size(a) \in Nat /\ Size(t) \in Nat /\ Size(a \o t) = Size(a) + Size(t)
    BY <1>2, SizeFacts
  <2>5. Size(a \o Append(t, e)) = Size(a) + Size(Append(t, e))
    BY <2>1, <2>2, <2>3, <2>4
  <2> QED BY <2>1, <2>5
<1>3. \A t \in Seq(Block) : t \in T
  <2> HIDE DEF T
  <2> QED BY <1>1, <1>2, OneByOne
<1> QED BY <1>3

(* One sequence after another, as a name of its own.                       *)
After(s, t) == s \o t

(* The last of these chunks goes on with a piece.                          *)
Lengthens(t, e, piece, chunks, g) == chunks = Append(t, e) /\ g = Append(t, After(e, piece))

(* A piece that is not apart goes on with the last chunk.                  *)
LEMMA GatheredEnds ==
  ASSUME NEW S, NEW chunks \in Seq(Seq(S)), NEW piece \in Seq(S), NEW g,
         chunks # <<>>, g = Continued(chunks, piece)
  PROVE  \E t \in Seq(Seq(S)), e \in Seq(S) : Lengthens(t, e, piece, chunks, g)
<1>1. PICK t \in Seq(Seq(S)), e \in Seq(S) : chunks = Append(t, e)
  BY SequenceEmptyOrAppend
<1>2. g = [chunks EXCEPT ![Len(chunks)] = chunks[Len(chunks)] \o piece]
  BY Zenon DEF Continued
<1> DEFINE more == e \o piece
<1>3. more \in Seq(S)
  BY ConcatProperties
<1>4. Len(chunks) = Len(t) + 1 /\ chunks[Len(chunks)] = e /\ Len(t) \in Nat
  BY <1>1, AppendProperties
<1>5. [chunks EXCEPT ![Len(chunks)] = more] = Append(t, more)
  <2> DEFINE x == [chunks EXCEPT ![Len(chunks)] = more]
             y == Append(t, more)
  <2>1. /\ x \in Seq(Seq(S)) /\ Len(x) = Len(chunks)
        /\ \A i \in 1 .. Len(chunks) : x[i] = IF i = Len(chunks) THEN more ELSE chunks[i]
    <3>1. Len(chunks) \in 1 .. Len(chunks)
      BY <1>4
    <3> HIDE DEF more
    <3> QED BY <1>3, <3>1, ExceptSeq
  <2>2. /\ y \in Seq(Seq(S)) /\ Len(y) = Len(t) + 1
        /\ \A i \in 1 .. Len(t) : y[i] = t[i]
        /\ y[Len(t) + 1] = more
    <3> HIDE DEF more
    <3> QED BY <1>3, AppendProperties
  <2>3. \A i \in 1 .. Len(t) : chunks[i] = t[i]
    BY <1>1, AppendProperties
  <2> HIDE DEF x, y, more
  <2>4. \A i \in 1 .. Len(x) : x[i] = y[i]
    <3> TAKE i \in 1 .. Len(x)
    <3>1. (i \in 1 .. Len(t) /\ i # Len(chunks)) \/ (i = Len(t) + 1 /\ i = Len(chunks))
      <4>1. Len(x) = Len(t) + 1 /\ Len(chunks) = Len(t) + 1 /\ Len(t) \in Nat
        BY <1>4, <2>1
      <4> DEFINE m == Len(t)  l == Len(chunks)
      <4>2. m \in Nat /\ l = m + 1 /\ i \in 1 .. m + 1
        BY <4>1
      <4>3. (i \in 1 .. m /\ i # l) \/ (i = m + 1 /\ i = l)
        <5> HIDE DEF m, l
        <5> QED BY <4>2
      <4> QED BY <4>3
    <3> QED BY <1>4, <2>1, <2>2, <2>3, <3>1
  <2>5. x = y
    BY <1>4, <2>1, <2>2, <2>4
  <2> QED BY <2>5 DEF x, y
<1>6. g = Append(t, more)
  BY <1>2, <1>4, <1>5, Zenon
<1> QED BY <1>1, <1>6 DEF After, Lengthens

(* The piece begins the next chunk, or goes on with the last.              *)
Follows(chunks, piece, g) == g = Append(chunks, piece) \/ (chunks # <<>> /\ g = Continued(chunks, piece))

(* The piece is at the end of what there is.                               *)
Joins(S, chunks, piece, g) == g \in Seq(Seq(S)) /\ FlattenSeq(g) = FlattenSeq(chunks) \o piece

(* A piece that is gathered is at the end of what there is.                *)
LEMMA GatheredFacts ==
  ASSUME NEW S, NEW chunks \in Seq(Seq(S)), NEW piece \in Seq(S), NEW g,
         Follows(chunks, piece, g)
  PROVE  Joins(S, chunks, piece, g)
<1>1. CASE g = Append(chunks, piece)
  <2>2. Append(chunks, piece) \in Seq(Seq(S))
    BY AppendProperties
  <2>3. FlattenSeq(Append(chunks, piece)) = FlattenSeq(chunks) \o piece
    BY FlattenAppend
  <2> QED BY <1>1, <2>2, <2>3 DEF Joins
<1>2. CASE chunks # <<>> /\ g = Continued(chunks, piece)
  <2>1. PICK t \in Seq(Seq(S)), e \in Seq(S) : Lengthens(t, e, piece, chunks, g)
    BY <1>2, GatheredEnds, Zenon
  <2> DEFINE more == e \o piece
  <2>3. more \in Seq(S)
    BY ConcatProperties
  <2>6. g = Append(t, more)
    BY <2>1 DEF After, Lengthens
  <2>7. Append(t, more) \in Seq(Seq(S))
    BY <2>3, AppendProperties
  <2>8. FlattenSeq(Append(t, more)) = FlattenSeq(chunks) \o piece
    <3>1. FlattenSeq(Append(t, more)) = FlattenSeq(t) \o more /\ FlattenSeq(chunks) = FlattenSeq(t) \o e
      BY <2>1, <2>3, FlattenAppend DEF Lengthens
    <3> DEFINE a == FlattenSeq(t)
    <3>2. a \in Seq(S)
      BY FlattenFacts
    <3> HIDE DEF a
    <3>3. (a \o e) \o piece = a \o (e \o piece)
      BY <3>2
    <3> QED BY <3>1, <3>3 DEF a
  <2> QED BY <2>6, <2>7, <2>8 DEF Joins
<1> QED BY <1>1, <1>2 DEF Follows

(* Pieces gathered one by one are all there, in order.                     *)
LEMMA GatheredAll ==
  ASSUME NEW S, NEW pieces \in Seq(Seq(S)), NEW f, f[0] = <<>>,
         \A n \in 1 .. Len(pieces) : Follows(f[n - 1], pieces[n], f[n])
  PROVE  /\ \A n \in 0 .. Len(pieces) : f[n] \in Seq(Seq(S))
         /\ FlattenSeq(f[Len(pieces)]) = FlattenSeq(pieces)
<1>1. PICK g : /\ FlattenSeq(pieces) = g[Len(pieces)] /\ g[0] = <<>>
               /\ \A n \in 0 .. Len(pieces) : g[n] \in Seq(S)
               /\ \A n \in 1 .. Len(pieces) : g[n] = g[n - 1] \o pieces[n]
  BY FlattenExists
<1>2. Len(pieces) \in Nat
  OBVIOUS
<1> DEFINE T == {n \in 0 .. Len(pieces) : f[n] \in Seq(Seq(S)) /\ FlattenSeq(f[n]) = g[n]}
<1>3. 0 \in T
  <2>1. FlattenSeq(<<>>) = <<>> /\ <<>> \in Seq(Seq(S))
    BY FlattenFacts
  <2> QED BY <1>1, <1>2, <2>1
<1>4. ASSUME NEW n \in 1 .. Len(pieces), n - 1 \in T PROVE n \in T
  <2>1. n \in 0 .. Len(pieces) /\ pieces[n] \in Seq(S) /\ f[n - 1] \in Seq(Seq(S)) /\ FlattenSeq(f[n - 1]) = g[n - 1]
    BY <1>2, <1>4
  <2>2. Follows(f[n - 1], pieces[n], f[n])
    OBVIOUS
  <2>3. f[n] \in Seq(Seq(S)) /\ FlattenSeq(f[n]) = FlattenSeq(f[n - 1]) \o pieces[n]
    <3>1. Joins(S, f[n - 1], pieces[n], f[n])
      BY <2>1, <2>2, GatheredFacts, Zenon
    <3> QED BY <3>1 DEF Joins
  <2>4. FlattenSeq(f[n]) = g[n]
    BY <1>1, <2>1, <2>3
  <2> QED BY <2>1, <2>3, <2>4
<1>5. \A n \in 0 .. Len(pieces) : n \in T
  <2> HIDE DEF T
  <2> QED BY <1>2, <1>3, <1>4, UpToAny
<1> QED BY <1>1, <1>2, <1>5

(* What a piece is gathered to follows.                                    *)
LEMMA FollowsFacts ==
  ASSUME NEW S, NEW pieces \in Seq(Seq(S)), NEW f,
         f[0] = <<>>, \A n \in 1 .. Len(pieces) : Follows(f[n - 1], pieces[n], f[n])
  PROVE  f[Len(pieces)] \in Seq(Seq(S)) /\ FlattenSeq(f[Len(pieces)]) = FlattenSeq(pieces)
<1>1. Len(pieces) \in 0 .. Len(pieces)
  OBVIOUS
<1> QED BY <1>1, GatheredAll

(* One by one, the blocks are what they are together.                      *)
LEMMA Singles ==
  ASSUME NEW S, NEW s \in Seq(S)
  PROVE  FlattenSeq([i \in 1 .. Len(s) |-> <<s[i]>>]) = s
<1> DEFINE single(t) == [i \in 1 .. Len(t) |-> <<t[i]>>]
           T == {t \in Seq(S) : single(t) \in Seq(Seq(S)) /\ FlattenSeq(single(t)) = t}
<1>1. <<>> \in T
  <2>1. single(<<>>) = <<>> /\ <<>> \in Seq(Seq(S)) /\ <<>> \in Seq(S)
    OBVIOUS
  <2>2. FlattenSeq(<<>>) = <<>>
    BY <2>1, FlattenFacts
  <2> HIDE DEF single
  <2> QED BY <2>1, <2>2
<1>2. ASSUME NEW t \in Seq(S), NEW e \in S, t \in T PROVE Append(t, e) \in T
  <2> DEFINE u == Append(t, e)
  <2>1. /\ u \in Seq(S) /\ Len(u) = Len(t) + 1 /\ Len(t) \in Nat
        /\ \A i \in 1 .. Len(t) : u[i] = t[i]
        /\ u[Len(t) + 1] = e
        /\ u = t \o <<e>>
    BY AppendProperties, AppendIsConcat
  <2> HIDE DEF u
  <2> DEFINE v == single(u)  w == Append(single(t), <<e>>)
  <2>2. single(t) \in Seq(Seq(S)) /\ FlattenSeq(single(t)) = t /\ <<e>> \in Seq(S)
    BY <1>2
  <2>3. v \in Seq(Seq(S)) /\ Len(v) = Len(t) + 1 /\ \A i \in 1 .. Len(t) + 1 : v[i] = <<u[i]>>
    <3>1. \A i \in 1 .. Len(u) : <<u[i]>> \in Seq(S)
      BY <2>1
    <3> QED BY <2>1, <3>1
  <2>4. Len(single(t)) = Len(t) /\ \A i \in 1 .. Len(t) : single(t)[i] = <<t[i]>>
    BY <2>1
  <2> HIDE DEF single
  <2>5. /\ w \in Seq(Seq(S)) /\ Len(w) = Len(single(t)) + 1
        /\ \A i \in 1 .. Len(single(t)) : w[i] = single(t)[i]
        /\ w[Len(single(t)) + 1] = <<e>>
    BY <2>2, AppendProperties
  <2>6. \A i \in 1 .. Len(v) : v[i] = w[i]
    <3> TAKE i \in 1 .. Len(v)
    <3> DEFINE m == Len(t)
    <3>1. m \in Nat /\ i \in 1 .. m + 1
      BY <2>1, <2>3
    <3>2. i \in 1 .. m \/ i = m + 1
      <4> HIDE DEF m
      <4> QED BY <3>1
    <3>3. v[i] = <<u[i]>>
      BY <2>3, <3>1
    <3>4. CASE i \in 1 .. m
      <4>1. w[i] = <<t[i]>> /\ u[i] = t[i]
        BY <2>1, <2>4, <2>5, <3>4
      <4> QED BY <3>3, <4>1
    <3>5. CASE i = m + 1
      <4>1. w[i] = <<e>> /\ u[i] = e
        BY <2>1, <2>4, <2>5, <3>5
      <4> QED BY <3>3, <4>1
    <3> QED BY <3>2, <3>4, <3>5
  <2>7. v = w
    <3>1. Len(v) = Len(w)
      BY <2>3, <2>4, <2>5
    <3> HIDE DEF v, w
    <3> QED BY <2>3, <2>5, <2>6, <3>1, SeqEqual
  <2>8. FlattenSeq(w) = FlattenSeq(single(t)) \o <<e>>
    BY <2>2, FlattenAppend
  <2>9. FlattenSeq(v) = u
    BY <2>1, <2>2, <2>7, <2>8
  <2>10. Append(t, e) \in Seq(S) /\ single(Append(t, e)) \in Seq(Seq(S))
         /\ FlattenSeq(single(Append(t, e))) = Append(t, e)
    BY <2>1, <2>3, <2>9 DEF u
  <2> QED BY <2>10
<1>3. \A t \in Seq(S) : t \in T
  <2> HIDE DEF T
  <2> QED BY <1>1, <1>2, OneByOne
<1> QED BY <1>3

(* The sections of a file are its blocks in order.                         *)
LEMMA SectionsFacts ==
  ASSUME NEW blocks \in Seq(Block), NEW level
  PROVE  Sections(blocks, level) \in Seq(Seq(Block)) /\ FlattenSeq(Sections(blocks, level)) = blocks
<1> DEFINE N == Len(blocks)
           pieces == [i \in 1 .. Len(blocks) |-> <<blocks[i]>>]
           Part(c, n) == Gathered(c, <<blocks[n]>>, blocks[n].level \in 1 .. level)
           Made(f) == f = [n \in 0 .. N |-> IF n = 0 THEN <<>> ELSE Part(f[n - 1], n)]
           g == CHOOSE f : Made(f)
<1>1. \A c, n : Follows(c, <<blocks[n]>>, Part(c, n))
  BY Zenon DEF Gathered, Follows
<1>2. N \in Nat /\ pieces \in Seq(Seq(Block)) /\ Len(pieces) = N
      /\ \A n \in 1 .. N : pieces[n] = <<blocks[n]>> /\ pieces[n] \in Seq(Block)
  OBVIOUS
<1>3. FlattenSeq(pieces) = blocks
  BY Singles
<1>4. Sections(blocks, level) = g[N]
  BY DEF Sections
<1> HIDE DEF Part, pieces, N
<1>5. \E f : Made(f)
  <2> DEFINE C == Seq(Seq(Block))
             step == [n \in 1 .. N |-> [c \in C |-> Part(c, n)]]
  <2>1. \A n \in 1 .. N, c \in C : Part(c, n) \in C
    <3> TAKE n \in 1 .. N, c \in C
    <3>1. Follows(c, pieces[n], Part(c, n))
      BY <1>1, <1>2
    <3>2. Joins(Block, c, pieces[n], Part(c, n))
      BY <1>2, <3>1, GatheredFacts, Zenon
    <3> QED BY <3>2 DEF Joins
  <2>2. step \in [1 .. N -> [C -> C]] /\ <<>> \in C /\ \A n \in 1 .. N, c \in C : step[n][c] = Part(c, n)
    <3>1. <<>> \in C
      OBVIOUS
    <3> HIDE DEF C
    <3> QED BY <2>1, <3>1
  <2> HIDE DEF step, C
  <2>3. PICK f : Stepwise(C, <<>>, N, step, f)
    BY <1>2, <2>2, StepByStep, Zenon
  <2>4. f \in [0 .. N -> C] /\ f[0] = <<>> /\ \A n \in 1 .. N : f[n] = step[n][f[n - 1]]
    BY <2>3 DEF Stepwise
  <2>5. \A n \in 1 .. N : f[n] = Part(f[n - 1], n)
    <3> TAKE n \in 1 .. N
    <3>1. n - 1 \in 0 .. N
      BY <1>2
    <3> QED BY <2>2, <2>4, <3>1
  <2>6. Made(f)
    <3>1. \A n \in 0 .. N : n # 0 => n \in 1 .. N
      BY <1>2
    <3> QED BY <2>4, <2>5, <3>1
  <2> QED BY <2>6
<1>6. Made(g)
  BY <1>5
<1> HIDE DEF g
<1>7. g[0] = <<>> /\ \A n \in 1 .. N : g[n] = Part(g[n - 1], n)
  BY <1>2, <1>6
<1>8. \A n \in 1 .. Len(pieces) : Follows(g[n - 1], pieces[n], g[n])
  BY <1>1, <1>2, <1>7, Zenon
<1>9. g[Len(pieces)] \in Seq(Seq(Block)) /\ FlattenSeq(g[Len(pieces)]) = FlattenSeq(pieces)
  BY <1>2, <1>7, <1>8, FollowsFacts, Zenon
<1> QED BY <1>2, <1>3, <1>4, <1>9

(* A chunk that keeps to the target, or is a single block.                 *)
GoodChunk == {c \in Seq(Block) : Size(c) <= TargetChars \/ Len(c) = 1}

(* A sequence of whatever its elements are.                                *)
LEMMA OfElements ==
  ASSUME NEW S, NEW R, NEW t \in Seq(R), \A i \in 1 .. Len(t) : t[i] \in S
  PROVE  t \in Seq(S)
  OBVIOUS

(* Sections joined are all there, and of good ones good chunks are made.   *)
LEMMA JoinedFacts ==
  ASSUME NEW pieces \in Seq(Seq(Block))
  PROVE  /\ Joined(pieces) \in Seq(Seq(Block)) /\ FlattenSeq(Joined(pieces)) = FlattenSeq(pieces)
         /\ pieces \in Seq(GoodChunk) => Joined(pieces) \in Seq(GoodChunk)
<1> DEFINE N == Len(pieces)
           C == Seq(Seq(Block))
           Part(c, n) == Gathered(c, pieces[n], TooMuch(c, pieces[n]))
           Made(f) == f = [n \in 0 .. N |-> IF n = 0 THEN <<>> ELSE Part(f[n - 1], n)]
           g == CHOOSE f : Made(f)
<1>1. \A c, n : Follows(c, pieces[n], Part(c, n))
  BY Zenon DEF Gathered, Follows
<1>1a. \A c, n : Part(c, n) = Append(c, pieces[n]) \/ (~ TooMuch(c, pieces[n]) /\ c # <<>> /\ Part(c, n) = Continued(c, pieces[n]))
  BY Zenon DEF Gathered
<1>2. N \in Nat /\ \A n \in 1 .. N : pieces[n] \in Seq(Block)
  OBVIOUS
<1>4. Joined(pieces) = g[N]
  BY DEF Joined
<1> HIDE DEF Part, N, C
<1>5. \E f : Made(f)
  <2> DEFINE step == [n \in 1 .. N |-> [c \in C |-> Part(c, n)]]
  <2>1. \A n \in 1 .. N, c \in C : Part(c, n) \in C
    <3> TAKE n \in 1 .. N, c \in C
    <3>1. Follows(c, pieces[n], Part(c, n))
      BY <1>1
    <3>2. Joins(Block, c, pieces[n], Part(c, n))
      BY <1>2, <3>1, GatheredFacts, Zenon DEF C
    <3> QED BY <3>2 DEF Joins, C
  <2>2. step \in [1 .. N -> [C -> C]] /\ <<>> \in C /\ \A n \in 1 .. N, c \in C : step[n][c] = Part(c, n)
    <3>1. <<>> \in C
      BY DEF C
    <3> QED BY <2>1, <3>1
  <2> HIDE DEF step
  <2>3. PICK f : Stepwise(C, <<>>, N, step, f)
    BY <1>2, <2>2, StepByStep, Zenon
  <2>4. f \in [0 .. N -> C] /\ f[0] = <<>> /\ \A n \in 1 .. N : f[n] = step[n][f[n - 1]]
    BY <2>3 DEF Stepwise
  <2>5. \A n \in 1 .. N : f[n] = Part(f[n - 1], n)
    <3> TAKE n \in 1 .. N
    <3>1. n - 1 \in 0 .. N
      BY <1>2
    <3> QED BY <2>2, <2>4, <3>1
  <2>6. Made(f)
    <3>1. \A n \in 0 .. N : n # 0 => n \in 1 .. N
      BY <1>2
    <3> QED BY <2>4, <2>5, <3>1
  <2> QED BY <2>6
<1>6. Made(g)
  BY <1>5
<1> HIDE DEF g
<1>7. g[0] = <<>> /\ \A n \in 1 .. N : g[n] = Part(g[n - 1], n)
  BY <1>2, <1>6
<1>8. \A n \in 1 .. N : Follows(g[n - 1], pieces[n], g[n])
  BY <1>1, <1>7, Zenon
<1>9. /\ \A n \in 0 .. N : g[n] \in C
      /\ FlattenSeq(g[N]) = FlattenSeq(pieces)
  BY <1>7, <1>8, GatheredAll DEF N, C
<1>10. ASSUME pieces \in Seq(GoodChunk) PROVE g[N] \in Seq(GoodChunk)
  <2> DEFINE T == {n \in 0 .. N : g[n] \in Seq(GoodChunk)}
  <2>1. 0 \in T
    <3>1. <<>> \in Seq(GoodChunk)
      OBVIOUS
    <3>2. g[0] = <<>> /\ 0 \in 0 .. N
      BY <1>2, <1>7
    <3> QED BY <3>1, <3>2
  <2>2. ASSUME NEW n \in 1 .. N, n - 1 \in T PROVE n \in T
    <3> DEFINE c == g[n - 1]  p == pieces[n]
    <3>1. /\ n \in 0 .. N /\ n - 1 \in 0 .. N /\ c \in Seq(GoodChunk) /\ p \in GoodChunk
          /\ g[n] = Part(c, n)
      BY <1>2, <1>7, <1>10, <2>2 DEF N
    <3>2. c \in C /\ p \in Seq(Block)
      BY <1>9, <3>1 DEF GoodChunk
    <3> HIDE DEF c
    <3>3. CASE g[n] = Append(c, p)
      <4> HIDE DEF p
      <4>1. Append(c, p) \in Seq(GoodChunk)
        BY <3>1, AppendProperties
      <4> QED BY <3>1, <3>3, <4>1
    <3>4. CASE ~ TooMuch(c, p) /\ c # <<>> /\ g[n] = Continued(c, p)
      <4> HIDE DEF p
      <4>1. PICK t \in Seq(Seq(Block)), e \in Seq(Block) : Lengthens(t, e, p, c, g[n])
        BY <3>2, <3>4, GatheredEnds, Zenon DEF C
      <4>2. c = Append(t, e) /\ g[n] = Append(t, e \o p)
        BY <4>1 DEF Lengthens, After
      <4>3. Len(c) = Len(t) + 1 /\ Len(t) \in Nat /\ c[Len(t) + 1] = e /\ \A i \in 1 .. Len(t) : c[i] = t[i]
        BY <4>2, AppendProperties
      <4>4. t \in Seq(GoodChunk)
        <5>1. \A i \in 1 .. Len(t) : t[i] \in GoodChunk
          <6>1. \A i \in 1 .. Len(t) : i \in 1 .. Len(c)
            BY <4>3
          <6> QED BY <3>1, <4>3, <6>1
        <5> QED BY <5>1, OfElements
      <4>5. Last(c) = e
        BY <4>3 DEF Last
      <4>6. Size(e) \in Nat /\ Size(p) \in Nat /\ Size(e \o p) = Size(e) + Size(p) /\ e \o p \in Seq(Block)
        BY <3>2, SizeFacts, SizeConcat, ConcatProperties
      <4>7. Size(e) + Size(p) <= TargetChars
        <5>1. ~ (Size(e) + Size(p) > TargetChars)
          BY <3>4, <4>5, Zenon DEF TooMuch
        <5> QED BY <4>6, <5>1, PromptAssumption
      <4>8. e \o p \in GoodChunk
        BY <4>6, <4>7 DEF GoodChunk
      <4>9. Append(t, e \o p) \in Seq(GoodChunk)
        <5> DEFINE q == e \o p
        <5>1. q \in GoodChunk
          BY <4>8
        <5> HIDE DEF q
        <5>2. Append(t, q) \in Seq(GoodChunk)
          BY <4>4, <5>1, AppendProperties
        <5> QED BY <5>2 DEF q
      <4> QED BY <3>1, <4>2, <4>9
    <3> QED BY <1>1a, <3>1, <3>3, <3>4
  <2>3. \A n \in 0 .. N : n \in T
    <3> HIDE DEF T
    <3> QED BY <1>2, <2>1, <2>2, UpToAny
  <2> QED BY <1>2, <2>3
<1>11. N \in 0 .. N
  BY <1>2
<1> QED BY <1>4, <1>9, <1>10, <1>11 DEF C

(* The chunks keep the blocks in order, and each of them is good.          *)
Keeps(blocks, chunks) == chunks \in Seq(GoodChunk) /\ FlattenSeq(chunks) = blocks

KeepsAll(split) == \A blocks \in Seq(Block) : Keeps(blocks, split[blocks])

(* So they do when a section is split further in the same way.             *)
LEMMA ChunksAtFacts ==
  ASSUME NEW level \in 1 .. 6, NEW blocks \in Seq(Block), NEW deeper, level <= 3 => KeepsAll(deeper)
  PROVE  Keeps(blocks, ChunksAt(level, blocks, deeper))
<1> DEFINE sections == Sections(blocks, level)
           joined == Joined(sections)
           split == [i \in 1 .. Len(joined) |-> deeper[joined[i]]]
           singles == [i \in 1 .. Len(blocks) |-> <<blocks[i]>>]
<1>0. Size(blocks) \in Nat /\ TargetChars \in Nat
  BY SizeFacts, PromptAssumption
<1>1. CASE Size(blocks) <= TargetChars
  <2> HIDE DEF sections, joined, split, singles
  <2>1. ChunksAt(level, blocks, deeper) = <<blocks>>
    <3>1. ~ (Size(blocks) > TargetChars)
      BY <1>0, <1>1
    <3> QED BY <1>1, <3>1 DEF ChunksAt
  <2>2. blocks \in GoodChunk
    BY <1>1 DEF GoodChunk
  <2>3. <<blocks>> = Append(<<>>, blocks) /\ <<>> \in Seq(Seq(Block))
    OBVIOUS
  <2>4. FlattenSeq(Append(<<>>, blocks)) = FlattenSeq(<<>>) \o blocks /\ FlattenSeq(<<>>) = <<>>
    BY <2>3, FlattenAppend, FlattenFacts
  <2>5. FlattenSeq(<<blocks>>) = blocks
    BY <2>3, <2>4, ConcatEmptySeq
  <2>6. <<blocks>> \in Seq(GoodChunk)
    BY <2>2
  <2> QED BY <2>1, <2>5, <2>6 DEF Keeps
<1>2. CASE Size(blocks) > TargetChars /\ level <= 3 /\ Len(sections) > 1
  <2>1. ChunksAt(level, blocks, deeper) = FlattenSeq(split)
    <3>1. ~ (Size(blocks) <= TargetChars)
      BY <1>0, <1>2
    <3> QED BY <1>2, <3>1, Zenon DEF ChunksAt
  <2>2. sections \in Seq(Seq(Block)) /\ FlattenSeq(sections) = blocks
    BY SectionsFacts
  <2> HIDE DEF sections
  <2>3. joined \in Seq(Seq(Block)) /\ FlattenSeq(joined) = blocks
    BY <2>2, JoinedFacts
  <2> HIDE DEF joined
  <2>4. \A i \in 1 .. Len(joined) : joined[i] \in Seq(Block)
    BY <2>3
  <2>5. \A i \in 1 .. Len(joined) : deeper[joined[i]] \in Seq(GoodChunk) /\ FlattenSeq(deeper[joined[i]]) = joined[i]
    BY <1>2, <2>4 DEF KeepsAll, Keeps
  <2>6. split \in Seq(Seq(GoodChunk)) /\ Len(split) = Len(joined) /\ Len(joined) \in Nat
        /\ \A i \in 1 .. Len(joined) : split[i] = deeper[joined[i]]
    BY <2>3, <2>5
  <2>7. split \in Seq(Seq(Seq(Block)))
    <3>1. GoodChunk \subseteq Seq(Block)
      BY DEF GoodChunk
    <3>2. Seq(GoodChunk) \subseteq Seq(Seq(Block))
      BY <3>1, SeqMonotonic
    <3> HIDE DEF split
    <3> QED BY <2>6, <3>2, SeqMonotonic
  <2> HIDE DEF split
  <2>8. FlattenSeq(split) \in Seq(GoodChunk)
    BY <2>6, FlattenFacts
  <2>9. \A i \in 1 .. Len(joined) : FlattenSeq(split[i]) = joined[i]
    BY <2>5, <2>6
  <2>10. FlattenSeq(FlattenSeq(split)) = FlattenSeq(joined)
    BY <2>3, <2>6, <2>7, <2>9, FlattenPieces
  <2> QED BY <2>1, <2>3, <2>8, <2>10 DEF Keeps
<1>3. CASE Size(blocks) > TargetChars /\ ~ (level <= 3 /\ Len(sections) > 1)
  <2>1. ChunksAt(level, blocks, deeper) = Joined(singles)
    <3>1. ~ (Size(blocks) <= TargetChars)
      BY <1>0, <1>3
    <3> QED BY <1>3, <3>1, Zenon DEF ChunksAt
  <2>2. singles \in Seq(Seq(Block)) /\ singles \in Seq(GoodChunk)
    <3>1. \A i \in 1 .. Len(blocks) : <<blocks[i]>> \in Seq(Block) /\ Len(<<blocks[i]>>) = 1
      OBVIOUS
    <3>2. \A i \in 1 .. Len(blocks) : <<blocks[i]>> \in GoodChunk
      BY <3>1 DEF GoodChunk
    <3> QED BY <3>1, <3>2
  <2>3. FlattenSeq(singles) = blocks
    BY Singles
  <2> HIDE DEF singles
  <2>4. Joined(singles) \in Seq(GoodChunk) /\ FlattenSeq(Joined(singles)) = blocks
    BY <2>2, <2>3, JoinedFacts
  <2> QED BY <2>1, <2>4 DEF Keeps
<1> QED BY <1>0, <1>1, <1>2, <1>3

(* From the fourth level on a section is not split further by its headings.*)
LEMMA DeepEnough ==
  ASSUME NEW level \in 4 .. 6, NEW blocks, NEW d, NEW e
  PROVE  ChunksAt(level, blocks, d) = ChunksAt(level, blocks, e)
<1>1. ~ (level <= 3)
  OBVIOUS
<1> QED BY <1>1, Zenon DEF ChunksAt

\* How a section of each level is split, given how those one level deeper are.
Splits(level, deeper) == [blocks \in Seq(Block) |-> ChunksAt(level, blocks, deeper)]

(* Each level is split as the next level's function says.                  *)
LEMMA ChunksFromFacts ==
  \A level \in 1 .. 6 : ChunksFrom[level] = Splits(level, ChunksFrom[level + 1])
<1> DEFINE Made(f) == f = [level \in 1 .. 6 |-> Splits(level, f[level + 1])]
           third == Splits(3, Splits(4, <<>>))
           second == Splits(2, third)
           h == [level \in 1 .. 6 |-> CASE level = 1 -> Splits(1, second)
                                        [] level = 2 -> second
                                        [] level = 3 -> third
                                        [] OTHER -> Splits(level, <<>>)]
<1>1. ChunksFrom = CHOOSE f : Made(f)
  BY Zenon DEF ChunksFrom, Splits
<1>2. \A level \in 4 .. 6 : \A d, e : Splits(level, d) = Splits(level, e)
  BY DeepEnough DEF Splits
<1>3. h[1] = Splits(1, second) /\ h[2] = second /\ h[3] = third
      /\ \A level \in 4 .. 6 : h[level] = Splits(level, <<>>)
  <2> HIDE DEF second, third
  <2> QED OBVIOUS
<1> DEFINE k == [level \in 1 .. 6 |-> Splits(level, h[level + 1])]
<1>4. \A level \in 1 .. 6 : h[level] = k[level]
  <2> HIDE DEF h
  <2>1. \A level \in 1 .. 6 : k[level] = Splits(level, h[level + 1])
    OBVIOUS
  <2> HIDE DEF k
  <2>2. h[4] = Splits(4, <<>>)
    BY <1>3
  <2>3. h[1] = k[1] /\ h[2] = k[2] /\ h[3] = k[3]
    BY <1>3, <2>1, <2>2
  <2>4. \A level \in 4 .. 6 : h[level] = k[level]
    BY <1>2, <1>3, <2>1
  <2> QED BY <2>3, <2>4
<1>5. Made(h)
  <2>1. h = [level \in 1 .. 6 |-> h[level]] /\ k = [level \in 1 .. 6 |-> k[level]]
    OBVIOUS
  <2>2. h = k
    <3> HIDE DEF h, k
    <3> QED BY <1>4, <2>1
  <2> HIDE DEF h
  <2> QED BY <2>2
<1> HIDE DEF h
<1>6. Made(ChunksFrom)
  BY <1>1, <1>5
<1> QED BY <1>6

(* The chunks of a file are good, and have all of it.                      *)
LEMMA ChunksFacts ==
  ASSUME NEW blocks \in Seq(Block)
  PROVE  Keeps(blocks, Chunks(blocks))
<1>1. ASSUME NEW level \in 1 .. 6, level <= 3 => KeepsAll(ChunksFrom[level + 1])
      PROVE  KeepsAll(ChunksFrom[level])
  <2> DEFINE deeper == ChunksFrom[level + 1]
  <2>1. \A b \in Seq(Block) : ChunksFrom[level][b] = ChunksAt(level, b, deeper)
    BY ChunksFromFacts DEF Splits
  <2> HIDE DEF deeper
  <2>2. \A b \in Seq(Block) : Keeps(b, ChunksAt(level, b, deeper))
    BY <1>1, ChunksAtFacts DEF deeper
  <2> QED BY <2>1, <2>2, Zenon DEF KeepsAll
<1>2. KeepsAll(ChunksFrom[4]) /\ KeepsAll(ChunksFrom[5]) /\ KeepsAll(ChunksFrom[6])
  BY <1>1
<1>3. KeepsAll(ChunksFrom[3])
  BY <1>1, <1>2
<1>4. KeepsAll(ChunksFrom[2])
  BY <1>1, <1>3
<1>5. KeepsAll(ChunksFrom[1])
  BY <1>1, <1>4
<1>6. \A level \in 1 .. 6 : KeepsAll(ChunksFrom[level])
  BY <1>2, <1>3, <1>4, <1>5
<1>7. FirstLevel(blocks) \in 1 .. 6
  <2> DEFINE headings == {i \in DOMAIN blocks : blocks[i].level > 0}
             first == CHOOSE i \in headings : \A j \in headings : i <= j
  <2>1. CASE headings = {}
    BY <2>1 DEF FirstLevel
  <2>2. CASE headings # {}
    <3>1. headings \in SUBSET Nat
      OBVIOUS
    <3>2. \E i \in headings : \A j \in headings : i <= j
      <4> HIDE DEF headings
      <4>1. PICK i : i \in headings
        BY <2>2
      <4> QED BY <3>1, <4>1, LeastNumber
    <3>3. first \in headings
      BY <3>2
    <3>4. FirstLevel(blocks) = blocks[first].level
      BY <2>2, Zenon DEF FirstLevel
    <3> HIDE DEF first
    <3>5. first \in 1 .. Len(blocks) /\ blocks[first].level > 0
      BY <3>3
    <3>6. blocks[first] \in Block
      BY <3>5
    <3> DEFINE b == blocks[first]
    <3> HIDE DEF b
    <3>7. \A x \in Block : x.level \in 0 .. 6
      BY DEF Block
    <3>8. b \in Block /\ b.level > 0 /\ FirstLevel(blocks) = b.level
      BY <3>4, <3>5, <3>6 DEF b
    <3> QED BY <3>7, <3>8
  <2> QED BY <2>1, <2>2
<1>8. Keeps(blocks, ChunksFrom[FirstLevel(blocks)][blocks])
  BY <1>6, <1>7, Zenon DEF KeepsAll
<1> QED BY <1>8 DEF Chunks

(* So the chunks of every file found keep its text.                        *)
LEMMA ChunksKept == ASSUME input \in PromptInput PROVE ChunksKeepTheText
<1>1. input.files \in Seq(Seq(Block))
  BY DEF PromptInput
<1>2. ASSUME NEW i \in DOMAIN input.files
      PROVE  LET chunks == Chunks(input.files[i])
             IN  /\ FlattenSeq(chunks) = input.files[i]
                 /\ \A n \in DOMAIN chunks : Size(chunks[n]) <= TargetChars \/ Len(chunks[n]) = 1
  <2> DEFINE chunks == Chunks(input.files[i])
  <2>1. input.files[i] \in Seq(Block)
    BY <1>1
  <2>2. Keeps(input.files[i], chunks)
    BY <2>1, ChunksFacts
  <2> HIDE DEF chunks
  <2>3. chunks \in Seq(GoodChunk) /\ FlattenSeq(chunks) = input.files[i]
    BY <2>2 DEF Keeps
  <2>4. \A n \in DOMAIN chunks : chunks[n] \in GoodChunk
    BY <2>3
  <2>5. \A n \in DOMAIN chunks : Size(chunks[n]) <= TargetChars \/ Len(chunks[n]) = 1
    BY <2>4 DEF GoodChunk
  <2> QED BY <2>3, <2>5 DEF chunks
<1> QED BY <1>2 DEF ChunksKeepTheText

-----------------------------------------------------------------------------
(* The planner itself.                                                     *)

PromptSpec == PromptInit /\ [][PromptNext]_promptVars

PlanFields == {"at", "inlined", "shown", "left", "summaries", "trimmed", "size", "scaffold"}

PromptTyped ==
    /\ input \in PromptInput
    /\ DOMAIN plan = PlanFields
    /\ plan.at \in {"start", "summarizing", "sent", "refused", "failed"}
    /\ \E S : plan.summaries \in Seq(S) /\ \A s \in S : s.size \in Nat

PromptInv == PromptTyped /\ RefusedOnlyByRounding

(* Nothing is planned yet.                                                 *)
LEMMA PromptInvInit == PromptInit => PromptInv
<1> SUFFICES ASSUME PromptInit PROVE PromptInv
  OBVIOUS
<1>1. input \in PromptInput
  BY PromptAssumption DEF PromptInit
<1>2. /\ DOMAIN plan = PlanFields
      /\ plan.at = "start" /\ plan.summaries = <<>>
  BY DEF PromptInit, PlanFields
<1>3. plan.summaries \in Seq({}) /\ \A s \in {} : s.size \in Nat
  BY <1>2
<1>4. \E S : plan.summaries \in Seq(S) /\ \A s \in S : s.size \in Nat
  <2> WITNESS {}
  <2> QED BY <1>3
<1>5. PromptTyped
  BY <1>1, <1>2, <1>4 DEF PromptTyped
<1> QED BY <1>2, <1>5 DEF PromptInv, RefusedOnlyByRounding

(* The parts of the files are lengths.                                     *)
LEMMA FilePartsFacts ==
  ASSUME input \in PromptInput
  PROVE  FileParts \in Seq(Nat) /\ DOMAIN input.files = 1 .. Len(FileParts) /\ Glue.chunkNote \in Nat
<1>1. Glue.fence \in Nat /\ Glue.chunkNote \in Nat /\ input.files \in Seq(Seq(Block))
  BY PromptAssumption DEF Words, PromptInput
<1>2. \A i \in DOMAIN input.files : Size(input.files[i]) \in Nat
  BY <1>1, SizeFacts
<1>3. FileParts = [i \in 1 .. Len(input.files) |-> Glue.fence + Size(input.files[i])]
  BY <1>1 DEF FileParts
<1> DEFINE m == Len(input.files)
           part(i) == Glue.fence + Size(input.files[i])
<1>4. m \in Nat /\ DOMAIN input.files = 1 .. m
  BY <1>1
<1>5. \A i \in 1 .. m : part(i) \in Nat
  <2> SUFFICES ASSUME NEW i \in 1 .. m PROVE part(i) \in Nat
    OBVIOUS
  <2>1. i \in DOMAIN input.files
    BY <1>4
  <2>2. Size(input.files[i]) \in Nat
    BY Zenon, <1>2, <2>1
  <2> HIDE DEF m
  <2> QED BY <1>1, <2>2
<1> HIDE DEF m, part
<1>6. FileParts = [i \in 1 .. m |-> part(i)]
  BY <1>3 DEF m, part
<1>7. FileParts \in Seq(Nat) /\ Len(FileParts) = m
  BY <1>4, <1>5, <1>6
<1>8. DOMAIN input.files = 1 .. Len(FileParts)
  BY Zenon, <1>4, <1>7
<1> QED BY Zenon, <1>1, <1>7, <1>8

(* What a step of the planner does to its books.                           *)
BuildsWith(p, left) ==
  /\ input' = input /\ DOMAIN plan' = PlanFields
  /\ plan'.summaries = plan.summaries /\ plan'.left = left
  /\ plan'.inlined = p.shown /\ plan'.shown = p.shown /\ plan'.trimmed = p.trimmed
  /\ plan'.size = p.size /\ plan'.scaffold = p.scaffold
  /\ plan'.at = CASE p.outcome = "refused" -> "refused"
                  [] p.outcome = "planned" /\ left = {} -> "sent"
                  [] p.outcome = "planned" /\ left # {} -> "summarizing"

LEMMA BuildPromptBooks ==
  ASSUME PromptTyped, BuildPrompt
  PROVE  LET p == Planned(FileParts, Glue.chunkNote) IN BuildsWith(p, ToSummarize(p.shown))
<1> DEFINE p == Planned(FileParts, Glue.chunkNote)
           left == ToSummarize(p.shown)
<1>1. /\ input' = input
      /\ plan' = [plan EXCEPT !.at = CASE p.outcome = "refused" -> "refused"
                                       [] p.outcome = "planned" /\ left = {} -> "sent"
                                       [] p.outcome = "planned" /\ left # {} -> "summarizing",
                              !.inlined = p.shown, !.shown = p.shown, !.left = left, !.trimmed = p.trimmed,
                              !.size = p.size, !.scaffold = p.scaffold]
  BY Zenon DEF BuildPrompt
<1> HIDE DEF p, left
<1>2. BuildsWith(p, left)
  BY <1>1 DEF PromptTyped, PlanFields, BuildsWith
<1> QED BY <1>2 DEF p, left

MergesWith(p) ==
  /\ input' = input /\ DOMAIN plan' = PlanFields
  /\ plan'.summaries = plan.summaries /\ plan'.left = plan.left /\ plan'.inlined = plan.inlined
  /\ plan'.shown = {plan.summaries[n].file : n \in p.shown}
  /\ plan'.trimmed = p.trimmed /\ plan'.size = p.size /\ plan'.scaffold = p.scaffold
  /\ plan'.at = IF p.outcome = "refused" THEN "refused" ELSE "sent"

LEMMA MergeBooks ==
  ASSUME PromptTyped, Merge
  PROVE  MergesWith(Planned(SummaryParts, Glue.mergeNote))
<1> DEFINE p == Planned(SummaryParts, Glue.mergeNote)
           shown == {plan.summaries[n].file : n \in p.shown}
<1>1. /\ input' = input
      /\ plan' = [plan EXCEPT !.at = IF p.outcome = "refused" THEN "refused" ELSE "sent",
                              !.shown = shown,
                              !.trimmed = p.trimmed, !.size = p.size, !.scaffold = p.scaffold]
  BY Zenon DEF Merge
<1>2. shown = {plan.summaries[n].file : n \in p.shown}
  OBVIOUS
<1> HIDE DEF p, shown
<1>3. /\ DOMAIN plan' = PlanFields /\ plan'.shown = shown
      /\ plan'.summaries = plan.summaries /\ plan'.left = plan.left /\ plan'.inlined = plan.inlined
      /\ plan'.trimmed = p.trimmed /\ plan'.size = p.size /\ plan'.scaffold = p.scaffold
      /\ plan'.at = IF p.outcome = "refused" THEN "refused" ELSE "sent"
  BY <1>1 DEF PromptTyped, PlanFields
<1>4. MergesWith(p)
  BY <1>1, <1>2, <1>3, Zenon DEF MergesWith
<1> QED BY <1>4 DEF p

(* A file is summarized with a summary of n, or that ends it.              *)
Summarizes(least, n) ==
  /\ plan'.at = plan.at /\ plan'.left = plan.left \ {least}
  /\ plan'.summaries = Append(plan.summaries, [file |-> least, size |-> n])

LEMMA SummarizeBooks ==
  ASSUME PromptTyped, SummarizeFile
  PROVE  /\ input' = input /\ DOMAIN plan' = PlanFields
         /\ plan'.inlined = plan.inlined /\ plan'.shown = plan.shown /\ plan'.trimmed = plan.trimmed
         /\ \/ plan'.at = "failed" /\ plan'.summaries = plan.summaries
            \/ \E n \in SummaryLengths : Summarizes(Min(plan.left), n)
<1> DEFINE least == Min(plan.left)
<1>1. /\ input' = input
      /\ \/ plan' = [plan EXCEPT !.at = "failed"]
         \/ \E n \in SummaryLengths :
              plan' = [plan EXCEPT !.left = plan.left \ {least},
                                   !.summaries = Append(plan.summaries, [file |-> least, size |-> n])]
  BY Zenon DEF SummarizeFile
<1> HIDE DEF least
<1>2. CASE plan' = [plan EXCEPT !.at = "failed"]
  BY <1>1, <1>2 DEF PromptTyped, PlanFields
<1>3. ASSUME NEW n \in SummaryLengths,
             plan' = [plan EXCEPT !.left = plan.left \ {least},
                                  !.summaries = Append(plan.summaries, [file |-> least, size |-> n])]
      PROVE  /\ DOMAIN plan' = PlanFields
             /\ plan'.inlined = plan.inlined /\ plan'.shown = plan.shown /\ plan'.trimmed = plan.trimmed
             /\ Summarizes(least, n)
  BY <1>3 DEF PromptTyped, PlanFields, Summarizes
<1> QED BY <1>1, <1>2, <1>3 DEF least

LEMMA FailsBooks ==
  ASSUME PromptTyped, BackendFails
  PROVE  /\ input' = input /\ DOMAIN plan' = PlanFields /\ plan'.at = "failed"
         /\ plan'.summaries = plan.summaries
  BY DEF BackendFails, PromptTyped, PlanFields

(* The prompt is planned from the files themselves.                        *)
LEMMA BuildPromptStep == ASSUME PromptInv, BuildPrompt PROVE PromptInv'
<1> DEFINE p == Planned(FileParts, Glue.chunkNote)
           left == ToSummarize(p.shown)
           over == Tokens(p.size) - EffectiveBudget(input.backend)
<1>1. FileParts \in Seq(Nat) /\ Glue.chunkNote \in Nat
  BY FilePartsFacts DEF PromptInv, PromptTyped
<1>2. /\ p.outcome \in {"planned", "refused"}
      /\ p.outcome = "planned" => over <= 0
      /\ p.outcome = "refused" => p.scaffold \/ over = 1
  BY <1>1, PlannedFacts DEF PromptInv, PromptTyped
<1>3. BuildsWith(p, left)
  BY BuildPromptBooks DEF PromptInv
<1> HIDE DEF p, left
<1>4. \/ p.outcome = "refused" /\ plan'.at = "refused"
      \/ p.outcome = "planned" /\ plan'.at \in {"sent", "summarizing"}
  BY <1>2, <1>3 DEF BuildsWith
<1>5. PromptTyped'
  BY <1>3, <1>4 DEF BuildsWith, PromptInv, PromptTyped
<1>6. RefusedOnlyByRounding'
  BY <1>2, <1>3, <1>4 DEF BuildsWith, RefusedOnlyByRounding
<1> QED BY <1>5, <1>6 DEF PromptInv

(* A file is summarized, or there are too many chunks of it.               *)
LEMMA SummarizeFileStep == ASSUME PromptInv, SummarizeFile PROVE PromptInv'
<1>1. /\ input' = input /\ DOMAIN plan' = PlanFields
      /\ \/ plan'.at = "failed" /\ plan'.summaries = plan.summaries
         \/ \E n \in SummaryLengths : Summarizes(Min(plan.left), n)
  BY SummarizeBooks DEF PromptInv
<1>2. CASE plan'.at = "failed" /\ plan'.summaries = plan.summaries
  BY <1>1, <1>2 DEF PromptInv, PromptTyped, RefusedOnlyByRounding
<1>3. ASSUME NEW n \in SummaryLengths, Summarizes(Min(plan.left), n)
      PROVE  PromptInv'
  <2> DEFINE new == [file |-> Min(plan.left), size |-> n]
  <2>1. new.size \in Nat
    BY PromptAssumption
  <2>2. plan'.at = plan.at /\ plan'.summaries = Append(plan.summaries, new)
    BY <1>3 DEF Summarizes
  <2> HIDE DEF new
  <2>3. PICK S : plan.summaries \in Seq(S) /\ \A s \in S : s.size \in Nat
    BY DEF PromptInv, PromptTyped
  <2>4. plan'.summaries \in Seq(S \cup {new})
    <3>1. plan.summaries \in Seq(S \cup {new}) /\ new \in S \cup {new}
      BY <2>3
    <3> QED BY <2>2, <3>1
  <2>5. \A s \in S \cup {new} : s.size \in Nat
    BY <2>1, <2>3
  <2>6. plan.at = "summarizing"
    BY DEF SummarizeFile
  <2> QED BY <1>1, <2>2, <2>4, <2>5, <2>6 DEF PromptInv, PromptTyped, RefusedOnlyByRounding
<1> QED BY <1>1, <1>2, <1>3

(* The summaries are lengths too.                                          *)
LEMMA SummaryPartsFacts ==
  ASSUME PromptTyped
  PROVE  /\ SummaryParts \in Seq(Nat) /\ DOMAIN plan.summaries = 1 .. Len(SummaryParts)
         /\ Glue.mergeNote \in Nat
<1>1. PICK S : plan.summaries \in Seq(S) /\ \A s \in S : s.size \in Nat
  BY DEF PromptTyped
<1>2. Glue.mergeNote \in Nat
  BY PromptAssumption DEF Words
<1> DEFINE m == Len(plan.summaries)
           part(i) == plan.summaries[i].size
<1>3. m \in Nat /\ DOMAIN plan.summaries = 1 .. m
  BY <1>1
<1>4. \A i \in 1 .. m : part(i) \in Nat
  BY <1>1
<1>5. SummaryParts = [i \in 1 .. m |-> part(i)]
  BY <1>3 DEF SummaryParts
<1> HIDE DEF m, part
<1>6. SummaryParts \in Seq(Nat) /\ Len(SummaryParts) = m
  BY <1>3, <1>4, <1>5
<1> QED BY <1>2, <1>3, <1>6

(* The prompt is planned again, from the summaries.                        *)
LEMMA MergeStep == ASSUME PromptInv, Merge PROVE PromptInv'
<1> DEFINE p == Planned(SummaryParts, Glue.mergeNote)
           over == Tokens(p.size) - EffectiveBudget(input.backend)
<1>1. SummaryParts \in Seq(Nat) /\ Glue.mergeNote \in Nat
  BY SummaryPartsFacts DEF PromptInv
<1>2. /\ p.outcome \in {"planned", "refused"}
      /\ p.outcome = "planned" => over <= 0
      /\ p.outcome = "refused" => p.scaffold \/ over = 1
  BY <1>1, PlannedFacts DEF PromptInv, PromptTyped
<1>3. MergesWith(p)
  BY MergeBooks DEF PromptInv
<1> HIDE DEF p
<1>4. PromptTyped'
  BY <1>3 DEF MergesWith, PromptInv, PromptTyped
<1>5. RefusedOnlyByRounding'
  BY <1>2, <1>3 DEF MergesWith, RefusedOnlyByRounding
<1> QED BY <1>4, <1>5 DEF PromptInv

(* No step of the planner breaks the invariant.                            *)
LEMMA PromptInvStep == PromptInv /\ [PromptNext]_promptVars => PromptInv'
<1> SUFFICES ASSUME PromptInv, [PromptNext]_promptVars PROVE PromptInv'
  OBVIOUS
<1>1. CASE BackendFails
  BY <1>1, FailsBooks DEF PromptInv, PromptTyped, RefusedOnlyByRounding
<1>2. CASE UNCHANGED promptVars
  BY <1>2 DEF promptVars, PromptInv, PromptTyped, RefusedOnlyByRounding
<1> QED BY <1>1, <1>2, BuildPromptStep, SummarizeFileStep, MergeStep DEF PromptNext

(* A prompt that is sent keeps to the budget; one whose fixed part keeps   *)
(* to it is refused only for the token that the rounding of two estimates  *)
(* hides (build_prompt, build_prompt_from_chunks).                         *)
THEOREM RefusalsAreRounding == PromptSpec => []RefusedOnlyByRounding
<1>1. PromptInv => RefusedOnlyByRounding
  BY DEF PromptInv
<1> QED BY <1>1, PromptInvInit, PromptInvStep, PTL DEF PromptSpec

(* The files that are not inlined are summarized or still to be, each of   *)
(* them once.                                                              *)
SummarizedOnce ==
    plan.at = "summarizing" =>
      /\ plan.left # {} \/ plan.summaries # <<>>
      /\ plan.left \subseteq DOMAIN input.files
      /\ \A i \in DOMAIN input.files \ plan.inlined :
           i \in plan.left \/ \E n \in DOMAIN plan.summaries : plan.summaries[n].file = i
      /\ \A n \in DOMAIN plan.summaries : plan.summaries[n].file \notin plan.left
      /\ \A m, n \in DOMAIN plan.summaries : plan.summaries[m].file = plan.summaries[n].file => m = n

NoneYet == plan.at = "start" => plan.summaries = <<>>

(* A file is left to be summarized only for want of room, and left out of  *)
(* the prompt that is sent only for that, or with the first prompt.        *)
LeavesForRoom ==
    plan.at = "summarizing" =>
      \A i \in DOMAIN input.files \ plan.inlined :
        NoRoomFor(i, FileParts, plan.inlined, Glue.chunkNote) \/ plan.trimmed

SentForRoom ==
    plan.at = "sent" =>
      \A i \in DOMAIN input.files \ plan.shown :
        \/ i \in plan.inlined /\ plan.summaries # <<>>
        \/ \E n \in DOMAIN plan.summaries :
             /\ plan.summaries[n].file = i
             /\ NoRoomFor(n, SummaryParts, Merged, Glue.mergeNote) \/ plan.trimmed

RoomInv == NoneYet /\ SummarizedOnce /\ LeavesForRoom /\ SentForRoom

(* The prompt of the files leaves out only what does not fit.              *)
LEMMA BuildPromptRoom == ASSUME PromptTyped, RoomInv, BuildPrompt PROVE RoomInv'
<1> DEFINE p == Planned(FileParts, Glue.chunkNote)
           left == ToSummarize(p.shown)
<1>1. input \in PromptInput
  BY DEF PromptTyped
<1>2. FileParts \in Seq(Nat) /\ DOMAIN input.files = 1 .. Len(FileParts) /\ Glue.chunkNote \in Nat
  BY <1>1, FilePartsFacts
<1>3. p.outcome = "planned" => p.trimmed = TRUE \/ \A i \in 1 .. Len(FileParts) : i \notin p.shown =>
        NoRoomFor(i, FileParts, p.shown, Glue.chunkNote)
  <2>1. DOMAIN FileParts = 1 .. Len(FileParts)
    BY <1>2
  <2> QED BY <1>1, <1>2, <2>1, PlannedLeaves DEF NoRoomFor
<1>4. BuildsWith(p, left) /\ plan.summaries = <<>>
  BY BuildPromptBooks DEF BuildPrompt, RoomInv, NoneYet
<1>5. p.outcome \in {"planned", "refused"}
  BY <1>1 DEF Planned, WithKids, Judged
<1>6. left = DOMAIN input.files \ p.shown
  BY DEF ToSummarize
<1> HIDE DEF p, left
<1>7. \/ plan'.at = "refused" /\ p.outcome = "refused"
      \/ plan'.at = "sent" /\ p.outcome = "planned" /\ left = {}
      \/ plan'.at = "summarizing" /\ p.outcome = "planned" /\ left # {}
  BY <1>4, <1>5 DEF BuildsWith
<1>8. NoneYet' /\ SentForRoom'
  BY <1>4, <1>6, <1>7 DEF BuildsWith, NoneYet, SentForRoom
<1>9. SummarizedOnce'
  BY <1>4, <1>6, <1>7 DEF BuildsWith, SummarizedOnce
<1>10. LeavesForRoom'
  <2> SUFFICES ASSUME plan'.at = "summarizing", NEW i \in DOMAIN input.files \ p.shown, p.trimmed # TRUE
               PROVE  NoRoomFor(i, FileParts, plan.inlined, Glue.chunkNote)'
    BY <1>4 DEF BuildsWith, LeavesForRoom
  <2>1. NoRoomFor(i, FileParts, p.shown, Glue.chunkNote)
    BY <1>2, <1>3, <1>7
  <2>2. input' = input /\ plan'.inlined = p.shown
    BY <1>4 DEF BuildsWith
  <2> QED BY <2>1, <2>2 DEF NoRoomFor, FileParts
<1> QED BY <1>8, <1>9, <1>10 DEF RoomInv

(* The next file goes from what is left to what is summarized.             *)
LEMMA SummarizeFileRoom == ASSUME PromptTyped, RoomInv, SummarizeFile PROVE RoomInv'
<1>1. /\ input' = input
      /\ plan'.inlined = plan.inlined /\ plan'.trimmed = plan.trimmed
      /\ \/ plan'.at = "failed"
         \/ \E n \in SummaryLengths : Summarizes(Min(plan.left), n)
  BY SummarizeBooks
<1>2. CASE plan'.at = "failed"
  BY <1>2 DEF RoomInv, NoneYet, SummarizedOnce, LeavesForRoom, SentForRoom
<1>3. ASSUME NEW size \in SummaryLengths, Summarizes(Min(plan.left), size)
      PROVE  RoomInv'
  <2> DEFINE least == Min(plan.left)
             new == [file |-> least, size |-> size]
             N == Len(plan.summaries)
  <2>1. plan.at = "summarizing" /\ plan.left # {} /\ plan'.at = "summarizing"
    BY <1>3 DEF SummarizeFile, Summarizes
  <2>2. least \in plan.left
    <3>1. plan.left \in SUBSET Nat
      <4>1. plan.left \subseteq DOMAIN input.files
        BY <2>1 DEF RoomInv, SummarizedOnce
      <4>2. DOMAIN input.files \subseteq Nat
        BY FilePartsFacts DEF PromptTyped
      <4> QED BY <4>1, <4>2
    <3> QED BY <2>1, <3>1, LeastNumber DEF Min
  <2>3. plan'.left = plan.left \ {least} /\ plan'.summaries = Append(plan.summaries, new) /\ new.file = least
    BY <1>3 DEF Summarizes
  <2> HIDE DEF new, least
  <2>4. /\ N \in Nat /\ DOMAIN plan.summaries = 1 .. N /\ DOMAIN plan'.summaries = 1 .. N + 1
        /\ \A n \in 1 .. N : plan'.summaries[n] = plan.summaries[n]
        /\ plan'.summaries[N + 1] = new
    <3>1. PICK S : plan.summaries \in Seq(S)
      BY DEF PromptTyped
    <3>2. plan.summaries \in Seq(S \cup {new}) /\ new \in S \cup {new}
      BY <3>1
    <3> QED BY <2>3, <3>1, <3>2, AppendProperties
  <2>5. \A n \in 1 .. N + 1 : n \in 1 .. N \/ n = N + 1
    BY <2>4
  <2> HIDE DEF N
  <2>6. SummarizedOnce
    BY DEF RoomInv
  <2>7. /\ plan'.summaries # <<>>
        /\ plan'.left \subseteq DOMAIN input.files
    BY <2>1, <2>3, <2>4, <2>6 DEF SummarizedOnce
  <2>8. ASSUME NEW i \in DOMAIN input.files \ plan.inlined
        PROVE  i \in plan'.left \/ \E n \in DOMAIN plan'.summaries : plan'.summaries[n].file = i
    <3>1. CASE i = least
      <4>1. N + 1 \in DOMAIN plan'.summaries /\ plan'.summaries[N + 1].file = i
        BY <2>3, <2>4, <3>1
      <4> QED BY <4>1
    <3>2. CASE i # least /\ i \in plan.left
      BY <2>3, <3>2
    <3>3. CASE i \notin plan.left
      <4>1. PICK n \in 1 .. N : plan.summaries[n].file = i
        BY <2>1, <2>4, <2>6, <3>3 DEF SummarizedOnce
      <4>2. n \in 1 .. N + 1 /\ plan'.summaries[n].file = i
        BY <2>4, <4>1
      <4> QED BY <2>4, <4>2
    <3> QED BY <3>1, <3>2, <3>3
  <2>9. \A n \in DOMAIN plan'.summaries : plan'.summaries[n].file \notin plan'.left
    BY <2>1, <2>3, <2>4, <2>5, <2>6 DEF SummarizedOnce
  <2>10. \A n \in 1 .. N : plan'.summaries[n].file # least
    BY <2>1, <2>2, <2>4, <2>6 DEF SummarizedOnce
  <2>11. ASSUME NEW m \in DOMAIN plan'.summaries, NEW n \in DOMAIN plan'.summaries,
                plan'.summaries[m].file = plan'.summaries[n].file
         PROVE  m = n
    <3>1. CASE m \in 1 .. N /\ n \in 1 .. N
      BY <2>1, <2>4, <2>6, <2>11, <3>1 DEF SummarizedOnce
    <3>2. CASE m = N + 1 /\ n \in 1 .. N
      BY <2>3, <2>4, <2>10, <2>11, <3>2
    <3>3. CASE n = N + 1 /\ m \in 1 .. N
      BY <2>3, <2>4, <2>10, <2>11, <3>3
    <3> QED BY <2>4, <2>5, <3>1, <3>2, <3>3
  <2>12. SummarizedOnce'
    BY <1>1, <2>7, <2>8, <2>9, <2>11 DEF SummarizedOnce
  <2>13. NoneYet' /\ SentForRoom'
    BY <2>1 DEF NoneYet, SentForRoom
  <2>14. LeavesForRoom'
    BY <1>1, <2>1 DEF RoomInv, LeavesForRoom, NoRoomFor, FileParts
  <2> QED BY <2>12, <2>13, <2>14 DEF RoomInv
<1> QED BY <1>1, <1>2, <1>3

(* The merge prompt has the summaries, but for those that do not fit.      *)
LEMMA MergeRoom == ASSUME PromptTyped, RoomInv, Merge PROVE RoomInv'
<1> DEFINE p == Planned(SummaryParts, Glue.mergeNote)
<1>1. input \in PromptInput
  BY DEF PromptTyped
<1>2. /\ SummaryParts \in Seq(Nat) /\ DOMAIN plan.summaries = 1 .. Len(SummaryParts)
      /\ Glue.mergeNote \in Nat
  BY SummaryPartsFacts
<1>3. p.outcome = "planned" => p.trimmed = TRUE \/ \A n \in 1 .. Len(SummaryParts) : n \notin p.shown =>
        NoRoomFor(n, SummaryParts, p.shown, Glue.mergeNote)
  <2>1. DOMAIN SummaryParts = 1 .. Len(SummaryParts)
    BY <1>2
  <2> QED BY <1>1, <1>2, <2>1, PlannedLeaves DEF NoRoomFor
<1>4. p.shown \subseteq DOMAIN plan.summaries
  BY <1>2, PlannedAmong
<1>5. p.outcome \in {"planned", "refused"}
  BY <1>1 DEF Planned, WithKids, Judged
<1>6. MergesWith(p)
  BY MergeBooks
<1> HIDE DEF p
<1>7. /\ plan.at = "summarizing" /\ plan.left = {}
      /\ \/ plan'.at = "refused"
         \/ plan'.at = "sent" /\ p.outcome = "planned"
  BY <1>5, <1>6 DEF Merge, MergesWith
<1>8. SummarizedOnce
  BY DEF RoomInv
<1>9. Merged' = p.shown
  <2>1. \A m, n \in DOMAIN plan.summaries : plan.summaries[m].file = plan.summaries[n].file => m = n
    BY <1>7, <1>8 DEF SummarizedOnce
  <2>2. Merged' = {n \in DOMAIN plan.summaries : plan.summaries[n].file \in {plan.summaries[m].file : m \in p.shown}}
    BY <1>6 DEF MergesWith, Merged
  <2> QED BY <1>4, <2>1, <2>2
<1>10. NoneYet' /\ SummarizedOnce' /\ LeavesForRoom'
  BY <1>7 DEF NoneYet, SummarizedOnce, LeavesForRoom
<1>11. SentForRoom'
  <2> SUFFICES ASSUME plan'.at = "sent", NEW i \in DOMAIN input.files, i \notin plan'.shown
               PROVE  \/ i \in plan'.inlined /\ plan'.summaries # <<>>
                      \/ \E n \in DOMAIN plan'.summaries :
                           /\ plan'.summaries[n].file = i
                           /\ NoRoomFor(n, SummaryParts, Merged, Glue.mergeNote)' \/ plan'.trimmed
    BY <1>6 DEF MergesWith, SentForRoom
  <2>1. /\ input' = input /\ plan'.inlined = plan.inlined /\ plan'.summaries = plan.summaries
        /\ plan'.trimmed = p.trimmed /\ plan'.shown = {plan.summaries[n].file : n \in p.shown}
    BY <1>6 DEF MergesWith
  <2>2. CASE i \in plan.inlined
    BY <1>7, <1>8, <2>1, <2>2 DEF SummarizedOnce
  <2>3. CASE i \notin plan.inlined
    <3>1. PICK n \in DOMAIN plan.summaries : plan.summaries[n].file = i
      BY <1>7, <1>8, <2>3 DEF SummarizedOnce
    <3>2. n \notin p.shown
      BY <2>1, <3>1
    <3>3. p.trimmed = TRUE \/ NoRoomFor(n, SummaryParts, p.shown, Glue.mergeNote)
      BY <1>2, <1>3, <1>7, <3>2
    <3>4. NoRoomFor(n, SummaryParts, Merged, Glue.mergeNote)' = NoRoomFor(n, SummaryParts, p.shown, Glue.mergeNote)
      BY <1>9, <2>1 DEF NoRoomFor, SummaryParts
    <3> QED BY <2>1, <3>1, <3>3, <3>4
  <2> QED BY <2>2, <2>3
<1> QED BY <1>10, <1>11 DEF RoomInv

(* No step of the planner leaves out more.                                 *)
LEMMA RoomStep == ASSUME PromptTyped, RoomInv, [PromptNext]_promptVars PROVE RoomInv'
<1>1. CASE UNCHANGED promptVars
  <2>1. input' = input /\ plan' = plan
    BY <1>1 DEF promptVars
  <2>2. NoneYet' /\ SummarizedOnce'
    BY <2>1 DEF RoomInv, NoneYet, SummarizedOnce
  <2>3. LeavesForRoom'
    BY <2>1 DEF RoomInv, LeavesForRoom, NoRoomFor, FileParts
  <2>4. SentForRoom'
    <3>1. SummaryParts' = SummaryParts /\ Merged' = Merged
      BY <2>1 DEF SummaryParts, Merged
    <3>2. ASSUME NEW n
          PROVE  NoRoomFor(n, SummaryParts, Merged, Glue.mergeNote)' = NoRoomFor(n, SummaryParts, Merged, Glue.mergeNote)
      BY <2>1, <3>1 DEF NoRoomFor
    <3> QED BY <2>1, <3>2 DEF RoomInv, SentForRoom
  <2> QED BY <2>2, <2>3, <2>4 DEF RoomInv
<1>2. CASE BackendFails
  <2>1. plan'.at = "failed"
    BY <1>2, FailsBooks
  <2> QED BY <2>1 DEF RoomInv, NoneYet, SummarizedOnce, LeavesForRoom, SentForRoom
<1> QED BY <1>1, <1>2, BuildPromptRoom, SummarizeFileRoom, MergeRoom DEF PromptNext

(* The invariant of the planner.                                           *)
PlannerInv == PromptInv /\ RoomInv

(* Nothing is left yet.                                                    *)
LEMMA PlannerInvInit == PromptInit => PlannerInv
<1>1. PromptInit => RoomInv
  BY DEF PromptInit, RoomInv, NoneYet, SummarizedOnce, LeavesForRoom, SentForRoom
<1> QED BY <1>1, PromptInvInit DEF PlannerInv

(* Every step of the planner keeps it.                                     *)
LEMMA PlannerInvStep == PlannerInv /\ [PromptNext]_promptVars => PlannerInv'
  BY PromptInvStep, RoomStep DEF PlannerInv, PromptInv

(* It says which files are left out of which prompt.                       *)
LEMMA PlannerInvSuffices == PlannerInv => OnlyTheseAreLeftOut
  BY ChunksKept DEF PlannerInv, PromptInv, PromptTyped, RoomInv, LeavesForRoom, SentForRoom, OnlyTheseAreLeftOut

(* OnlyTheseAreLeftOut for any files, budget and wording: the prompt that  *)
(* is sent has every file of the area, as it is or by summaries of the     *)
(* whole of its text, but for one whose summaries do not fit, and those    *)
(* that were inlined in a first prompt which is given up because another   *)
(* file did not fit (build_prompt, split_markdown_chunks,                  *)
(* build_prompt_from_chunks).                                              *)
THEOREM NothingElseIsLeftOut == PromptSpec => []OnlyTheseAreLeftOut
  BY PlannerInvInit, PlannerInvStep, PlannerInvSuffices, PTL DEF PromptSpec

-----------------------------------------------------------------------------
(***************************************************************************)
(* Routines: side by side, one of them running and the others over, they   *)
(* keep what each of them promises.                                        *)
(***************************************************************************)

(* A step of the one is a step of nobody else.                             *)
LEMMA EachForItself ==
  [RoutinesNext]_routinesVars =>
    /\ [SchemaNext]_schemaVars /\ [PromptNext]_promptVars /\ [DoctorNext]_doctorVars
    /\ [CommitNext]_commitVars /\ [CallNext]_callVars /\ [CachesNext]_cacheVars
    /\ [SettingsNext]_settingsVars
  BY DEF RoutinesNext, routinesVars

(* Nobody has the database open, and no source is worked on, in a routine  *)
(* that is over: its invariant holds of it.                                *)
LEMMA SchemaOverKept == SchemaOver => SchemaInv
<1> SUFFICES ASSUME SchemaOver PROVE SchemaInv
  OBVIOUS
<1>1. SchemaTyped
  BY FilesFacts, SchemaAssumption DEF SchemaOver, SchemaTyped, Database, Empty, Doings, Upgrading
<1>2. Alone
  BY SchemaAssumption DEF SchemaOver, Alone, Coherent, Empty
<1>3. RowsAtPath
  BY DEF SchemaOver, RowsAtPath
<1> QED BY <1>1, <1>2, <1>3 DEF SchemaInv

(* So it does of the settings of a source that nobody updates or polls.    *)
LEMMA SettingsOverKept == SettingsOver => SettingsInv
  BY RoutinesAssumption
  DEF SettingsOver, AsAdded, NoUpdate, NoPoll, Manifests, Commands, Behind,
      SettingsInv, SettingsTyped, UpdatesTyped, PollTyped, NothingAhead, ChildrenKept

(* And of a breaker that is shut, with no call under way.                  *)
LEMMA CallOverKept == CallOver => CallInv
  BY ThresholdAssumption DEF CallOver, Closed, NoCall, CallInv, CallTyped, Metered

(* What is over does not go on.                                            *)
LEMMA OverStays ==
  /\ PromptOver /\ [PromptNext]_promptVars => PromptOver'
  /\ DoctorOver /\ [DoctorNext]_doctorVars => DoctorOver' /\ (Scan => FALSE)
  /\ CommitOver /\ [CommitNext]_commitVars => CommitOver'
  /\ CachesOver /\ [CachesNext]_cacheVars => CachesOver'
<1>1. \A n \in Nat : ~ (n < n)
  OBVIOUS
<1>2. ASSUME PromptOver, [PromptNext]_promptVars PROVE PromptOver'
  BY <1>2 DEF PromptOver, promptVars, PromptNext, BuildPrompt, SummarizeFile, BackendFails, Merge
<1>3. ASSUME DoctorOver, [DoctorNext]_doctorVars PROVE DoctorOver' /\ (Scan => FALSE)
  <2>1. ~ (MaxRounds < MaxRounds)
    BY <1>1, RoutinesAssumption
  <2>2. visit.at = "away" /\ rounds = MaxRounds
    BY <1>3 DEF DoctorOver, NoVisit
  <2>3. ~ DoctorNext
    BY <2>1, <2>2, Zenon DEF DoctorNext, Scan, Fix, FixRaises, Leaves, DoctorDies
  <2> QED BY <1>3, <2>3 DEF DoctorOver, doctorVars, DoctorNext, NoVisit
<1>4. ASSUME CommitOver, [CommitNext]_commitVars PROVE CommitOver'
  <2>1. ~ (MaxPolls < MaxPolls)
    BY <1>1, RoutinesAssumption
  <2>2. commit.at = "idle" /\ polls = MaxPolls
    BY <1>4 DEF CommitOver, NoCommit
  <2>3. ~ CommitNext
    BY <2>1, <2>2
    DEF CommitNext, Skip, Prepare, MoveLegacy, RemoveContext, RemoveBare, MigrationRaises, WriteAttachment,
        Attached, WriteText, RemoveDouble, WriteManifest, WriteRaises, UndoWrite, UndoMove, Undone, UndoRaises,
        CommitDies, Goes
  <2> QED BY <1>4, <2>3 DEF CommitOver, commitVars, NoCommit
<1>5. ASSUME CachesOver, [CachesNext]_cacheVars PROVE CachesOver'
  <2>1. ~ (MaxLoads < MaxLoads) /\ ~ (MaxChanges < MaxChanges)
    BY <1>1, RoutinesAssumption
  <2>2. load.at = "idle" /\ loads = MaxLoads /\ changes = MaxChanges
    BY <1>5 DEF CachesOver, NoLoad
  <2>3. ~ CachesNext
    BY <2>1, <2>2
    DEF CachesNext, LoadIndex, Capture, Checked, Walk, Walked, Built, CollectContext, ReadCore, OthersChange, Began
  <2> QED BY <1>5, <2>3 DEF CachesOver, cacheVars, NoAreaIndex, NoContext, NoLoad
<1> QED BY <1>2, <1>3, <1>4, <1>5

(* The invariant of each, or that it is over.                              *)
RoutinesInv ==
  /\ SchemaInv /\ CallInv /\ SettingsInv
  /\ PlannerInv \/ PromptOver
  /\ DoctorInv \/ DoctorOver
  /\ CommitInv \/ CommitOver
  /\ CachesInv \/ CachesOver

(* One of them begins.                                                     *)
LEMMA RoutinesInvInit == RoutinesInit => RoutinesInv
  BY SchemaInvInit, SchemaOverKept, CallInvInit, CallOverKept, SettingsInvInit, SettingsOverKept,
     PlannerInvInit, DoctorInvInit, CommitInvInit, CachesInvInit, Zenon
  DEF RoutinesInit, RoutinesInv

(* And its steps keep its invariant.                                       *)
LEMMA RoutinesInvStep == RoutinesInv /\ [RoutinesNext]_routinesVars => RoutinesInv'
  BY EachForItself, SchemaInvStep, CallInvStep, SettingsInvStep, PlannerInvStep, DoctorInvStep,
     CommitInvStep, CachesInvStep, OverStays, Zenon
  DEF RoutinesInv

(* What Spec promises, for all of them: whoever runs, what is handed out   *)
(* serves, prompts keep to the budget and leave out only what they say, a  *)
(* commit is all or nothing, the breaker meters, the caches tell the       *)
(* truth, rows are migrated in place, what is fixed stays fixed, and what  *)
(* is asked is heard.                                                      *)
THEOREM RoutinesKeepTheirPromises ==
  Spec => /\ [](/\ HandedOutServes /\ RefusedOnlyByRounding /\ OnlyTheseAreLeftOut
                /\ CommitIsAllOrNothing /\ BreakerMeters /\ CachesTellTheTruth)
          /\ MigratesInPlace /\ FixedStaysFixed /\ AskedIsHeard
<1>1. RoutinesInv => /\ HandedOutServes /\ RefusedOnlyByRounding /\ OnlyTheseAreLeftOut
                     /\ CommitIsAllOrNothing /\ BreakerMeters /\ CachesTellTheTruth
  <2> SUFFICES ASSUME RoutinesInv
               PROVE  /\ HandedOutServes /\ RefusedOnlyByRounding /\ OnlyTheseAreLeftOut
                      /\ CommitIsAllOrNothing /\ BreakerMeters /\ CachesTellTheTruth
    OBVIOUS
  <2>1. HandedOutServes /\ BreakerMeters
    BY SchemaInvServes, CallInvMeters DEF RoutinesInv
  <2>2. RefusedOnlyByRounding /\ OnlyTheseAreLeftOut
    <3>1. CASE PlannerInv
      BY <3>1, PlannerInvSuffices DEF PlannerInv, PromptInv
    <3>2. CASE PromptOver
      BY <3>2 DEF PromptOver, RefusedOnlyByRounding, OnlyTheseAreLeftOut
    <3> QED BY <3>1, <3>2 DEF RoutinesInv
  <2>3. CommitIsAllOrNothing
    <3>1. CASE CommitOver
      BY <3>1 DEF CommitOver, NoCommit, CommitIsAllOrNothing
    <3> QED BY <3>1, CommitInvSuffices DEF RoutinesInv
  <2>4. CachesTellTheTruth
    <3>1. CASE CachesOver
      BY <3>1 DEF CachesOver, NoLoad, CachesTellTheTruth
    <3> QED BY <3>1 DEF RoutinesInv, CachesInv
  <2> QED BY <2>1, <2>2, <2>3, <2>4
<1>2. RoutinesInv /\ [RoutinesNext]_routinesVars =>
        [\A p \in Openers : Reset(p) /\ file # 0 /\ disk[file].rows
                               => MetSetAside(p) \/ ReadAcrossUpgrade(p)]_schemaVars
  BY MisledToReset, EachForItself DEF RoutinesInv
<1>3. RoutinesInv /\ [RoutinesNext]_routinesVars =>
        [Scan => \A f \in visit.fixed \cap ToSet(Findings(world)) :
                   Contested(f) \/ PassedOver(f) \/ f.check = "db_path_normalization"]_doctorVars
  BY SettledNotFound, OverStays, EachForItself DEF RoutinesInv
<1>4. RoutinesInv /\ [RoutinesNext]_routinesVars =>
        [RequestHeard /\ SettingKept /\ VersionKept]_settingsVars
  BY StepIsHeard, EachForItself DEF RoutinesInv
<1> QED BY <1>1, <1>2, <1>3, <1>4, RoutinesInvInit, RoutinesInvStep, PTL
        DEF Spec, MigratesInPlace, FixedStaysFixed, AskedIsHeard, RequestHeard, SettingKept, VersionKept

=============================================================================
