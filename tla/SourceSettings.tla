--------------------------- MODULE SourceSettings ---------------------------
(***************************************************************************)
(* What a user asks of a registered source besides its content: the        *)
(* setting sync_attachments in its manifest, and the one-shot request to   *)
(* register the children of its page, in a table of the runtime database.  *)
(* update_source (sync/lifecycle.py) reads and rewrites both without a     *)
(* lease, while the daemon polls the source, rewrites the manifest, asks   *)
(* for the children and drops the request.  A request is known by the      *)
(* number of the command it comes from, 0 is none.                         *)
(***************************************************************************)
EXTENDS Integers, FiniteSets

CONSTANTS Updaters,   \* processes that call update_source
          ChildPages, \* the children of the page
          MaxUpdates, \* bound on the commands
          MaxPages,   \* bound on the versions of the page
          MaxVisits,  \* bound on the polls and reconciles of the daemon
          MaxMishaps  \* bound on what goes wrong or crosses a poll

VARIABLES parent,     \* the manifest of the source
          wished,     \* its row of child_discovery_requests
          page,       \* the remote version
          registered, \* the children that are sources of their own
          poll,       \* the daemon's poll, or reconcile, of the source
          update,     \* the command each updater executes
          updates, visits, mishaps

settingsVars == <<parent, wished, page, registered, poll, update, updates, visits, mishaps>>

NoUpdate == [at |-> "idle", fetch |-> "keep", attach |-> "keep", path |-> FALSE,
             existing |-> 0, number |-> 0, read |-> <<>>]

\* request: what it read at the beginning; source: the manifest it started from; read: the manifest
\* it is about to rewrite; asked: the remote was asked for the children, and told them.
NoPoll == [at |-> "away", request |-> 0, source |-> <<>>, read |-> <<>>, writes |-> "nothing",
           version |-> 0, asked |-> FALSE, left |-> {}, missed |-> FALSE]

\* add_source was called, with fetch_children or without.
AsAdded == [state |-> "awaiting", attach |-> "off", version |-> 0]

SettingsInit == /\ parent = AsAdded
                /\ wished \in 0 .. 1
                /\ page = 1
                /\ registered \in SUBSET ChildPages
                /\ poll = NoPoll
                /\ update = [u \in Updaters |-> NoUpdate]
                /\ updates = 1 /\ visits = 0 /\ mishaps = 0

Mishap == mishaps < MaxMishaps /\ mishaps' = mishaps + 1

\* Nobody else writes the database during a commit section; a manifest has no such guard.
Fenced == poll.at \in {"read", "write"}

-----------------------------------------------------------------------------
\* update_source

BeginUpdate(u) ==
    /\ update[u].at = "idle" /\ updates < MaxUpdates
    /\ updates' = updates + 1
    /\ \E fetch \in {"keep", "yes", "no"}, attach \in {"keep", "on", "off"}, path \in BOOLEAN :
         update' = [update EXCEPT ![u] =
             [at |-> IF attach = "keep" THEN "request" ELSE "read", fetch |-> fetch, attach |-> attach,
              path |-> path, existing |-> wished, number |-> updates', read |-> <<>>]]
    /\ UNCHANGED <<parent, wished, page, registered, poll, visits, mishaps>>

\* update_source_sync_settings
ReadSettings(u) ==
    /\ update[u].at = "read"
    /\ update' = [update EXCEPT ![u].at = "write", ![u].read = parent]
    /\ UNCHANGED <<parent, wished, page, registered, poll, updates, visits, mishaps>>

WriteSettings(u) ==
    /\ update[u].at = "write"
    /\ parent' = [update[u].read EXCEPT !.attach = update[u].attach]
    /\ update' = [update EXCEPT ![u].at = "request"]
    /\ UNCHANGED <<wished, page, registered, poll, updates, visits, mishaps>>

\* A request that was there when the command began is written back.
NextRequest(u) ==
    CASE update[u].fetch = "yes" -> update[u].number
      [] update[u].fetch = "keep" -> update[u].existing
      [] update[u].fetch = "no" -> 0

\* A path without a request is refused, by now the settings have been written.
SaveRequest(u) ==
    /\ update[u].at = "request" /\ ~ Fenced
    /\ wished' = IF update[u].path /\ NextRequest(u) = 0 THEN wished ELSE NextRequest(u)
    /\ update' = [update EXCEPT ![u] = NoUpdate]
    /\ UNCHANGED <<parent, page, registered, poll, updates, visits, mishaps>>

-----------------------------------------------------------------------------
\* sync_active_source_once

BeginPoll == /\ poll.at = "away" /\ visits < MaxVisits
             /\ parent.state # "missing"
             /\ poll' = [NoPoll EXCEPT !.at = "lease", !.request = wished]
             /\ visits' = visits + 1
             /\ UNCHANGED <<parent, wished, page, registered, update, updates, mishaps>>

\* process_source takes the lease and loads the source again; if that is missing it asks nobody.
LoadAgain == /\ poll.at = "lease"
             /\ poll' = [poll EXCEPT !.at = IF parent.state = "missing" THEN "heard" ELSE "ask",
                                     !.source = parent]
             /\ UNCHANGED <<parent, wished, page, registered, update, updates, visits, mishaps>>

IsUnchanged == poll.source.state = "materialized" /\ poll.source.version = page

\* Neither is asked for its children: a page that has not changed, nor one without credentials.
NothingNew == /\ poll.at = "ask"
              /\ IF IsUnchanged THEN UNCHANGED mishaps ELSE Mishap
              /\ poll' = [poll EXCEPT !.at = "heard"]
              /\ UNCHANGED <<parent, wished, page, registered, update, updates, visits>>

\* The text, and the children if they are wished for; that they could not be had is only logged.
Fetched == /\ poll.at = "ask" /\ ~ IsUnchanged
           /\ \E asked \in BOOLEAN :
                /\ IF asked \/ poll.request = 0 THEN UNCHANGED mishaps ELSE Mishap
                /\ poll' = [poll EXCEPT !.at = "read", !.writes = "content", !.version = page,
                                        !.asked = asked /\ poll.request # 0]
           /\ UNCHANGED <<parent, wished, page, registered, update, updates, visits>>

RemoteMissing == /\ poll.at = "ask" /\ Mishap
                 /\ poll' = [poll EXCEPT !.at = "read", !.writes = "missing"]
                 /\ UNCHANGED <<parent, wished, page, registered, update, updates, visits>>

\* A lease that is taken, or lost, an error of the remote or of a write, or the end of the process.
PollEnds == /\ poll.at # "away" /\ Mishap
            /\ poll' = NoPoll
            /\ UNCHANGED <<parent, wished, page, registered, update, updates, visits>>

ReadParent == /\ poll.at = "read"
              /\ poll' = [poll EXCEPT !.at = "write", !.read = parent]
              /\ UNCHANGED <<parent, wished, page, registered, update, updates, visits, mishaps>>

\* A mutated form: the manifest is written as the poll has loaded it.
RewrittenAsLoaded == [poll.source EXCEPT !.state = "materialized", !.version = poll.version]

\* update_manifest_materialization, mark_manifest_missing, sync_manifest_to_found_path
Rewritten ==
    CASE poll.writes = "content" -> [poll.read EXCEPT !.state = "materialized", !.version = poll.version]
      [] poll.writes = "missing" -> [poll.read EXCEPT !.state = "missing"]
      [] poll.writes = "found" -> [poll.read EXCEPT !.state = IF @ = "missing" THEN "stale" ELSE @]

WriteParent ==
    /\ poll.at = "write"
    /\ parent' = IF poll.writes # "content" /\ Rewritten = poll.read THEN parent ELSE Rewritten
    /\ poll' = CASE poll.writes = "content" -> [poll EXCEPT !.at = "heard"]
                 [] poll.writes = "missing" /\ poll.request # 0 -> [poll EXCEPT !.at = "drop"]
                 [] OTHER -> NoPoll
    /\ UNCHANGED <<wished, page, registered, update, updates, visits, mishaps>>

\* process_discovered_children, with the request as it was read at the beginning.
Discovered == /\ poll.at = "heard"
              /\ poll' = IF poll.request = 0 THEN NoPoll
                         ELSE [poll EXCEPT !.at = "drop", !.left = IF poll.asked THEN ChildPages ELSE {}]
              /\ UNCHANGED <<parent, wished, page, registered, update, updates, visits, mishaps>>

\* A child that is registered already is passed over, and so is one that cannot be.
RegisterChild(k) ==
    /\ poll.at = "drop" /\ k \in poll.left
    /\ \/ registered' = registered \cup {k} /\ poll' = [poll EXCEPT !.left = @ \ {k}]
          /\ UNCHANGED mishaps
       \/ k \notin registered /\ Mishap /\ poll' = [poll EXCEPT !.left = @ \ {k}, !.missed = TRUE]
          /\ UNCHANGED registered
    /\ UNCHANGED <<parent, wished, page, update, updates, visits>>

\* clear_child_discovery_request, whatever the table says by now.
DropRequest == /\ poll.at = "drop" /\ poll.left = {}
               /\ wished' = 0
               /\ poll' = NoPoll
               /\ UNCHANGED <<parent, page, registered, update, updates, visits, mishaps>>

\* A reconcile of the daemon finds the file of a missing source.
FileFound == /\ poll.at = "away" /\ visits < MaxVisits
             /\ parent.state = "missing"
             /\ poll' = [NoPoll EXCEPT !.at = "read", !.writes = "found"]
             /\ visits' = visits + 1
             /\ UNCHANGED <<parent, wished, page, registered, update, updates, mishaps>>

PageChanges == /\ page < MaxPages /\ page' = page + 1
               /\ UNCHANGED <<parent, wished, registered, poll, update, updates, visits, mishaps>>

SettingsNext == \/ \E u \in Updaters : BeginUpdate(u) \/ ReadSettings(u) \/ WriteSettings(u) \/ SaveRequest(u)
                \/ BeginPoll \/ LoadAgain \/ NothingNew \/ Fetched \/ RemoteMissing \/ PollEnds
                \/ ReadParent \/ WriteParent \/ Discovered \/ DropRequest \/ FileFound \/ PageChanges
                \/ \E k \in ChildPages : RegisterChild(k)

-----------------------------------------------------------------------------
PollWrites == poll.at = "write" /\ poll'.at # "write"
UpdateWrites(u) == update[u].at = "write" /\ update'[u].at # "write"

\* The children were asked for on its behalf, and every one is registered.
Heard == poll.at = "drop" /\ poll.asked /\ poll.request = wished /\ ChildPages \subseteq registered

\* Dropped with another request, by a poll that did not ask, or that missed a child.
DroppedUnheard == /\ poll.at = "drop" /\ poll'.at = "away"
                  /\ poll.request # wished \/ ~ poll.asked \/ poll.missed

\* An update says otherwise, or has not seen it.
TakenBack == \E u \in Updaters : /\ update[u].at = "request" /\ update'[u].at = "idle"
                                 /\ update[u].fetch # "keep" \/ update[u].existing # wished

\* A request leaves the table when its children are registered or a later command says so, and a
\* setting changes and content goes back by a command alone, though the daemon rewrites both all the
\* time: except for a request that a poll drops unheard, or that an update crosses which had read
\* the table before, and for a manifest that was written between the reading and the writing of it.
AskedIsHeard ==
    [][/\ wished # 0 /\ wished' # wished => Heard \/ DroppedUnheard \/ TakenBack
       /\ parent'.attach # parent.attach =>
            \/ PollWrites /\ poll.read # parent
            \/ \E u \in Updaters : UpdateWrites(u)
       /\ parent'.version < parent.version =>
            \/ PollWrites /\ poll.read # parent
            \/ \E u \in Updaters : UpdateWrites(u) /\ update[u].read # parent]_settingsVars

=============================================================================
