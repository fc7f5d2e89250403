---------------------------- MODULE DatabaseOpen ----------------------------
(***************************************************************************)
(* One database of the browser and the clients that open, upgrade, delete   *)
(* and close it through Factory (src/factory.rs) and OwnedDatabase/Database *)
(* (src/database.rs).  The browser serves the requests on a database in the *)
(* order they were made; an upgrade and a deletion wait until no connection *)
(* is open, because the crate handles neither `versionchange` nor `blocked`.*)
(* The upgrade callback is driven by TransactionRunner and appears here as  *)
(* its abstraction AtomicRun.                                               *)
(***************************************************************************)
EXTENDS Naturals, Sequences

CONSTANTS
  Clients,      \* tasks, each with at most one call or connection at a time
  MaxVersion,   \* bound: the highest version asked for
  Calls,        \* the methods of Factory that clients use
  Usage,        \* what clients do beyond the documented discipline
  Faults        \* what goes wrong in the browser

ASSUME MaxVersionAssumption == MaxVersion \in Nat \ {0}

ASSUME CallsAssumption == Calls \subseteq {"open", "latest", "delete"}

ASSUME OpenUsageAssumption ==
  Usage \subseteq {
    "leak",     \* drop a Database without closing it
    "cancel",   \* drop the future of a call
    "close",    \* close the database from within its upgrade callback
    "misuse" }  \* await something forbidden in the upgrade callback

ASSUME OpenFaultsAssumption ==
  Faults \subseteq {
    "commit",   \* the upgrade does not commit
    "unknown" } \* a request fails with an error the crate panics on

VARIABLES
  phase,        \* where each client is in its call
  ask,          \* the call it made: the method and the version
  event,        \* the completion event of its request, once fired
  result,       \* what the upgrade callback of the call returned
  queue,        \* requests the browser has not completed, oldest first
  connections,  \* clients in whose name a connection is open
  version,      \* the version of the database, 0 when it does not exist
  schema,       \* the version whose upgrade callback last took effect
  before,       \* the version to return to if the running upgrade aborts
  decision,     \* the running upgrade callback, as in AtomicRun
  store         \* its versionchange transaction, as in AtomicRun

clientVars  == << phase, ask, result >>
upgradeVars == << before, decision, store >>
vars == << clientVars, event, queue, connections, version, schema, upgradeVars >>

Upgrade == INSTANCE AtomicRun WITH answer <- "none"

Versions == 0 .. MaxVersion

NoCall == [op |-> "open", version |-> 0]

TypeOK ==
  /\ phase \in [Clients -> {"idle", "waiting", "owned", "manual", "err", "panicked",
                            "done", "cancelled", "leaked"}]
  /\ ask \in [Clients -> [op : {"open", "latest", "delete"}, version : Versions]]
  /\ event \in [Clients -> {"none", "success", "VersionError", "AbortError", "UnknownError"}]
  /\ result \in [Clients -> {"none", "Ok", "Err", "failed"}]
  /\ queue \in Seq(Clients)
  /\ connections \subseteq Clients
  /\ version \in Versions /\ schema \in Versions /\ before \in Versions
  /\ decision \in {"none", "Ok", "Err", "failed"}
  /\ store \in {"none", "open", "committed", "aborted"}

Init ==
  /\ phase = [c \in Clients |-> "idle"]
  /\ ask = [c \in Clients |-> NoCall]
  /\ event = [c \in Clients |-> "none"]
  /\ result = [c \in Clients |-> "none"]
  /\ queue = << >>
  /\ connections = {}
  /\ version = 0 /\ schema = 0 /\ before = 0
  /\ decision = "none" /\ store = "none"

----------------------------------------------------------------------------
(* Clients.                                                                 *)

(* A call sends its request in its first poll.                              *)
Send(c, op, v) ==
  /\ phase' = [phase EXCEPT ![c] = "waiting"]
  /\ ask' = [ask EXCEPT ![c] = [op |-> op, version |-> v]]
  /\ result' = [result EXCEPT ![c] = "none"]
  /\ queue' = Append(queue, c)
  /\ UNCHANGED << event, connections, version, schema, upgradeVars >>

(* Mutant: version zero reaches the browser, which throws a TypeError.      *)
UncheckedZero == "panicked"

RefusedZero == "err"

(* Factory::open refuses version zero before it sends anything.             *)
Open(c, v) ==
  /\ phase[c] = "idle" /\ "open" \in Calls
  /\ IF v = 0
     THEN /\ phase' = [phase EXCEPT ![c] = RefusedZero]
          /\ UNCHANGED << ask, result, event, queue, connections, version, schema, upgradeVars >>
     ELSE Send(c, "open", v)

OpenLatestVersion(c) ==
  /\ phase[c] = "idle" /\ "latest" \in Calls
  /\ Send(c, "latest", 0)

DeleteDatabase(c) ==
  /\ phase[c] = "idle" /\ "delete" \in Calls
  /\ Send(c, "delete", 0)

(* Mutants: the completion is looked at before the callback's result; a     *)
(* callback's Err is ignored.                                               *)
CompletionFirst(c) ==
  CASE event[c] = "VersionError"                         -> "err"
    [] event[c] \in {"AbortError", "UnknownError"}       -> "panicked"
    [] event[c] = "success" /\ result[c] = "Err"         -> "err"
    [] event[c] = "success" /\ ask[c].op = "open"        -> "owned"
    [] event[c] = "success" /\ ask[c].op = "latest"      -> "manual"
    [] event[c] = "success" /\ ask[c].op = "delete"      -> "done"
ErrIgnored(c) ==
  CASE result[c] \in {"Err", "failed"} -> "owned"
    [] OTHER                           -> CompletionFirst(c)

(* What a call that got its event returns: the callback's refusal first,    *)
(* then the failure of the request, then the database.                      *)
Answer(c) ==
  CASE result[c] = "failed" -> "panicked"
    [] result[c] = "Err"    -> "err"
    [] result[c] \in {"none", "Ok"} /\ event[c] = "VersionError" -> "err"
    [] result[c] \in {"none", "Ok"} /\ event[c] \in {"AbortError", "UnknownError"} -> "panicked"
    [] result[c] \in {"none", "Ok"} /\ event[c] = "success" ->
         [open |-> "owned", latest |-> "manual", delete |-> "done"][ask[c].op]

(* Mutant: finished_rx is awaited even if no upgrade callback ran.          *)
CompletedAndFinished(c) == event[c] # "none" /\ result[c] # "none"

(* The success or error event of the request has fired.                     *)
Completed(c) == event[c] # "none"

Resume(c) ==
  /\ phase[c] = "waiting" /\ Completed(c)
  /\ phase' = [phase EXCEPT ![c] = Answer(c)]
  /\ event' = [event EXCEPT ![c] = "none"]
  /\ UNCHANGED << ask, result, queue, connections, version, schema, upgradeVars >>

(* The future of the call is dropped; its request stays with the browser,   *)
(* and a connection that it opens, or has opened, belongs to nobody.        *)
Cancel(c) ==
  /\ "cancel" \in Usage
  /\ phase[c] = "waiting"
  /\ phase' = [phase EXCEPT ![c] = "cancelled"]
  /\ UNCHANGED << ask, result, event, queue, connections, version, schema, upgradeVars >>

Orphaned(c) ==
  /\ phase[c] = "cancelled" /\ event[c] # "none"
  /\ phase' = [phase EXCEPT ![c] = IF c \in connections THEN "leaked" ELSE "done"]
  /\ event' = [event EXCEPT ![c] = "none"]
  /\ UNCHANGED << ask, result, queue, connections, version, schema, upgradeVars >>

(* The client is done with its call and what it returned.                   *)
Leaves(c) ==
  /\ phase' = [phase EXCEPT ![c] = "idle"]
  /\ ask' = [ask EXCEPT ![c] = NoCall]
  /\ result' = [result EXCEPT ![c] = "none"]

(* Mutant: dropping an OwnedDatabase does not close it.                     *)
DroppedOpen(c) == connections

Closed(c) == connections \ {c}

(* OwnedDatabase::drop or close, Database::close.                           *)
Close(c) ==
  /\ phase[c] \in {"owned", "manual"}
  /\ Leaves(c)
  /\ connections' = Closed(c)
  /\ UNCHANGED << event, queue, version, schema, upgradeVars >>

IntoManualClose(c) ==
  /\ phase[c] = "owned"
  /\ phase' = [phase EXCEPT ![c] = "manual"]
  /\ UNCHANGED << ask, result, event, queue, connections, version, schema, upgradeVars >>

(* A Database is dropped: nothing closes the connection ...                 *)
Leak(c) ==
  /\ "leak" \in Usage
  /\ phase[c] = "manual"
  /\ phase' = [phase EXCEPT ![c] = "leaked"]
  /\ UNCHANGED << ask, result, event, queue, connections, version, schema, upgradeVars >>

(* ... until the garbage collector of the browser finds it.                 *)
Collect(c) ==
  /\ phase[c] = "leaked"
  /\ Leaves(c)
  /\ connections' = connections \ {c}
  /\ UNCHANGED << event, queue, version, schema, upgradeVars >>

(* The caller has seen the outcome and may go on to another call.           *)
Proceed(c) ==
  /\ phase[c] \in {"done", "err", "panicked"}
  /\ Leaves(c)
  /\ UNCHANGED << event, queue, connections, version, schema, upgradeVars >>

----------------------------------------------------------------------------
(* The browser serves the oldest request.                                   *)

(* Mutant: every open asks for the next version.                            *)
WantedNext(c) == version + 1

(* Opening without a version creates a database that does not exist.        *)
Wanted(c) == IF ask[c].op = "open" THEN ask[c].version
             ELSE IF version = 0 THEN 1 ELSE version

(* The request of c is complete and its event is fired.                     *)
Fire(c, e) ==
  /\ queue' = Tail(queue)
  /\ event' = [event EXCEPT ![c] = e]

Serves(c) == queue # << >> /\ c = Head(queue) /\ store = "none"

BrowserOpens(c) ==
  /\ Serves(c) /\ ask[c].op # "delete" /\ Wanted(c) = version
  /\ connections' = connections \cup {c}
  /\ Fire(c, "success")
  /\ UNCHANGED << clientVars, version, schema, upgradeVars >>

BrowserRefuses(c) ==
  /\ Serves(c)
  /\ \/ /\ ask[c].op # "delete" /\ Wanted(c) < version
        /\ Fire(c, "VersionError")
     \/ /\ "unknown" \in Faults
        /\ Fire(c, "UnknownError")
  /\ UNCHANGED << clientVars, connections, version, schema, upgradeVars >>

BrowserDeletes(c) ==
  /\ Serves(c) /\ ask[c].op = "delete" /\ connections = {}
  /\ version' = 0 /\ schema' = 0
  /\ Fire(c, "success")
  /\ UNCHANGED << clientVars, connections, upgradeVars >>

(* A higher version starts an upgrade and fires `upgradeneeded`.            *)
BrowserUpgrades(c) ==
  /\ Serves(c) /\ ask[c].op # "delete" /\ Wanted(c) > version /\ connections = {}
  /\ connections' = {c}
  /\ version' = Wanted(c)
  /\ before' = version
  /\ Upgrade!Open
  /\ UNCHANGED << clientVars, event, queue, schema >>

Upgrading(c) == queue # << >> /\ c = Head(queue) /\ store # "none"

(* Mutant: the callback's Err is recorded but does not abort.               *)
CallbackErrCommits(c) ==
  /\ Upgrading(c) /\ ask[c].op = "open" /\ phase[c] = "waiting"
  /\ Upgrade!Accept
  /\ \E v \in {"Ok", "Err"} : result' = [result EXCEPT ![c] = v]
  /\ UNCHANGED << phase, ask, event, queue, connections, version, schema, before >>

(* The crate listens to `upgradeneeded` only in `open`: the callback runs   *)
(* as a transaction and accepts or refuses the upgrade ...                  *)
CallbackDecides(c) ==
  /\ Upgrading(c) /\ ask[c].op = "open" /\ phase[c] = "waiting"
  /\ Upgrade!Accept \/ (Upgrade!Refuse /\ ("misuse" \in Usage \/ decision' = "Err"))
  /\ result' = [result EXCEPT ![c] = decision']
  /\ UNCHANGED << phase, ask, event, queue, connections, version, schema, before >>

(* ... `open_latest_version` has no callback and nothing stops the empty    *)
(* upgrade ...                                                              *)
NobodyDecides(c) ==
  /\ Upgrading(c) /\ ask[c].op = "latest"
  /\ Upgrade!Accept
  /\ UNCHANGED << clientVars, event, queue, connections, version, schema, before >>

(* ... and the dropped closure, or the dropped receiver, of a cancelled     *)
(* `open` aborts it.                                                        *)
OrphanRefuses(c) ==
  /\ Upgrading(c) /\ ask[c].op = "open" /\ phase[c] = "cancelled"
  /\ Upgrade!Refuse /\ decision' = "failed"
  /\ UNCHANGED << clientVars, event, queue, connections, version, schema, before >>

(* The callback closes the connection through VersionChangeEvent::database. *)
CallbackCloses(c) ==
  /\ "close" \in Usage
  /\ Upgrading(c) /\ ask[c].op = "open" /\ phase[c] = "waiting" /\ decision = "none"
  /\ connections' = Closed(c)
  /\ UNCHANGED << clientVars, event, queue, version, schema, upgradeVars >>

(* Mutant: the listener for `upgradeneeded` is set after the event fired.   *)
LateListener(c) == schema

(* What a committed upgrade leaves behind.                                  *)
SchemaOf(c) == IF ask[c].op = "open" THEN version ELSE schema

UpgradeCommits(c) ==
  /\ Upgrading(c)
  /\ Upgrade!Commit
  /\ schema' = SchemaOf(c)
  /\ UNCHANGED << clientVars, event, queue, connections, version, before >>

UpgradeFails(c) ==
  /\ "commit" \in Faults
  /\ Upgrading(c) /\ store = "open" /\ decision = "Ok"
  /\ store' = "aborted"
  /\ UNCHANGED << clientVars, event, queue, connections, version, schema, before, decision >>

(* The end of the versionchange transaction completes the request.  A       *)
(* connection that was closed meanwhile fails it although it committed.     *)
UpgradeEnds(c) ==
  /\ Upgrading(c) /\ store \in {"committed", "aborted"}
  /\ Fire(c, IF store = "committed" /\ c \in connections THEN "success" ELSE "AbortError")
  /\ connections' = IF store = "committed" THEN connections ELSE {}
  /\ version' = IF store = "committed" THEN version ELSE before
  /\ decision' = "none" /\ store' = "none" /\ before' = 0
  /\ UNCHANGED << clientVars, schema >>

----------------------------------------------------------------------------
ClientStep(c) ==
  \/ \E v \in Versions : Open(c, v)
  \/ OpenLatestVersion(c) \/ DeleteDatabase(c)
  \/ Resume(c) \/ Cancel(c) \/ Orphaned(c)
  \/ Close(c) \/ IntoManualClose(c) \/ Leak(c) \/ Collect(c) \/ Proceed(c)

Browser(c) ==
  \/ BrowserOpens(c) \/ BrowserRefuses(c) \/ BrowserDeletes(c) \/ BrowserUpgrades(c)
  \/ CallbackDecides(c) \/ NobodyDecides(c) \/ OrphanRefuses(c) \/ CallbackCloses(c)
  \/ UpgradeCommits(c) \/ UpgradeFails(c) \/ UpgradeEnds(c)

Next == \E c \in Clients : ClientStep(c) \/ Browser(c)

(* The browser serves its queue, an upgrade callback returns, a woken task  *)
(* runs, and who holds a database closes it in the end.                     *)
Fairness == \A c \in Clients :
  /\ WF_vars(Browser(c))
  /\ WF_vars(Resume(c) \/ Orphaned(c))
  /\ WF_vars(Close(c))

Spec == Init /\ [][Next]_vars /\ Fairness

----------------------------------------------------------------------------
(* Properties.                                                              *)

Holding(c) == phase[c] \in {"owned", "manual"}

(* Who asked for a version and holds a database is connected to that very   *)
(* version, however other clients upgrade or delete (factory.rs:90-99).     *)
OpenedAsAsked ==
  \A c \in Clients :
    Holding(c) => /\ c \in connections
                  /\ ask[c].op = "open" => version = ask[c].version

(* A database that `open` handed out has had the upgrade callback of its    *)
(* version run and committed (factory.rs:95-96, 144-157).  Unless           *)
(* open_latest_version can create the database first.                       *)
SchemaReady ==
  \A c \in Clients : Holding(c) /\ ask[c].op = "open" => schema = ask[c].version

(* A callback's result reaches its caller as it took effect: a refusal only *)
(* with the upgrade rolled back, and an acceptance only without error.      *)
AnswerMatchesUpgrade ==
  \A c \in Clients :
    /\ phase[c] = "waiting" /\ event[c] # "none" /\ result[c] \in {"Err", "failed"}
         => event[c] = "AbortError"
    /\ Holding(c) => result[c] \in {"none", "Ok"}

(* No call panics: the errors of from_dom_exception (error.rs:91-97) that   *)
(* have no variant stay hidden behind the callback's own Err.               *)
NeverPanics == \A c \in Clients : phase[c] # "panicked"

(* Every open connection belongs to a holder, to a call that is about to    *)
(* return it, or to the running upgrade: an upgrade or a deletion never     *)
(* waits for a client that waits itself (database.rs:6-8).                  *)
NoOrphanedConnection ==
  \A c \in connections :
    Holding(c) \/ (phase[c] = "waiting" /\ (event[c] = "success" \/ Upgrading(c)))

(* The version that lasts if the running upgrade aborts, and what each      *)
(* client holds.                                                            *)
Lasting == IF store \in {"open", "aborted"} THEN before ELSE version

Held == [c \in Clients |-> IF ~Holding(c) THEN 0
                           ELSE IF ask[c].op = "open" THEN ask[c].version ELSE version]

Versioned == INSTANCE VersionedDatabase WITH version <- Lasting, holds <- Held

(* Clients see a database that nothing changes while they hold it and that  *)
(* upgrades as a whole or not at all, whatever goes wrong in between        *)
(* (factory.rs:90-99, 136-141).                                             *)
RefinesVersioned == Versioned!VersionedSpec

(* Every call returns, provided that whoever holds a database closes it.    *)
CallsReturn == \A c \in Clients : (phase[c] = "waiting") ~> (phase[c] # "waiting")
============================================================================
