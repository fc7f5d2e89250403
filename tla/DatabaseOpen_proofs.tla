------------------------ MODULE DatabaseOpen_proofs ------------------------
(***************************************************************************)
(* What clients of a database may rely on, for any set of clients.  The     *)
(* first part holds whatever clients and the browser do; each of the others *)
(* names the usage and the faults that it excludes.                         *)
(***************************************************************************)
EXTENDS DatabaseOpen, SequenceTheorems, TLAPS

USE DEF Versions, NoCall, clientVars, upgradeVars

----------------------------------------------------------------------------
(* The queue of the browser.                                                *)

Queued == {queue[i] : i \in 1 .. Len(queue)}

NoRepeats == \A i, j \in 1 .. Len(queue) : queue[i] = queue[j] => i = j

(* Who is in the queue, or has an event to see, is in the middle of a call. *)
QueueInv ==
  /\ NoRepeats
  /\ \A c \in Clients :
       /\ c \in Queued => phase[c] \in {"waiting", "cancelled"} /\ event[c] = "none"
       /\ event[c] # "none" => phase[c] \in {"waiting", "cancelled"}

(* An upgrade belongs to the head of the queue, and has the database for    *)
(* itself.                                                                  *)
UpgradeInv ==
  store # "none" =>
    /\ queue # << >>
    /\ connections \subseteq {Head(queue)}
    /\ ask[Head(queue)].op # "delete"
    /\ ask[Head(queue)].op = "open" => version = ask[Head(queue)].version

(* Who has a database, or is about to see that it does, is connected to it. *)
HolderInv ==
  \A c \in Clients :
    Holding(c) \/ (event[c] = "success" /\ ask[c].op # "delete") =>
      /\ c \in connections
      /\ ask[c].op = "open" => version = ask[c].version

(* A refusal aborts, is seen as an abort, and excludes a database.          *)
ResultInv ==
  \A c \in Clients :
    /\ c \in Queued /\ ~Upgrading(c) => result[c] = "none"
    /\ Upgrading(c) /\ result[c] \in {"Err", "failed"} => store = "aborted"
    /\ event[c] # "none" /\ result[c] \in {"Err", "failed"} => event[c] = "AbortError"
    /\ Holding(c) => result[c] \in {"none", "Ok"}

OpenInv == TypeOK /\ QueueInv /\ UpgradeInv /\ HolderInv /\ ResultInv

(* The queue under its three operations.                                    *)
LEMMA HeadIsQueued ==
  ASSUME TypeOK, queue # << >>
  PROVE  Head(queue) \in Queued /\ Head(queue) \in Clients
<1>1. queue \in Seq(Clients)
  BY DEF TypeOK
<1>2. Len(queue) \in Nat \ {0}
  BY <1>1, EmptySeq
<1> QED
  BY <1>1, <1>2, HeadTailProperties DEF Queued

LEMMA Pushed ==
  ASSUME TypeOK, NoRepeats, NEW c \in Clients, c \notin Queued, queue' = Append(queue, c)
  PROVE  /\ queue' \in Seq(Clients) /\ queue' # << >>
         /\ NoRepeats'
         /\ Queued' = Queued \cup {c}
         /\ queue # << >> => Head(queue)' = Head(queue)
<1>1. queue \in Seq(Clients)
  BY DEF TypeOK
<1>2. /\ queue' \in Seq(Clients) /\ queue' # << >>
      /\ Len(queue') = Len(queue) + 1
      /\ \A i \in 1 .. Len(queue) : queue'[i] = queue[i]
      /\ queue'[Len(queue) + 1] = c
  BY <1>1, AppendProperties
<1>3. Len(queue) \in Nat
  BY <1>1, LenProperties
<1>4. NoRepeats'
  BY <1>2, <1>3 DEF NoRepeats, Queued
<1>5. Queued' = Queued \cup {c}
  BY <1>2, <1>3 DEF Queued
<1>6. queue # << >> => Head(queue)' = Head(queue)
  BY <1>1, HeadTailAppend
<1> QED
  BY <1>2, <1>4, <1>5, <1>6

LEMMA Popped ==
  ASSUME TypeOK, NoRepeats, queue # << >>, queue' = Tail(queue)
  PROVE  /\ queue' \in Seq(Clients)
         /\ NoRepeats'
         /\ Queued' = Queued \ {Head(queue)}
<1>1. queue \in Seq(Clients)
  BY DEF TypeOK
<1>2. Len(queue) \in Nat \ {0}
  BY <1>1, EmptySeq
<1>3. /\ queue' \in Seq(Clients)
      /\ Len(queue') = Len(queue) - 1
      /\ \A i \in 1 .. Len(queue') : queue'[i] = queue[i + 1]
  BY <1>1, HeadTailProperties
<1>4. NoRepeats'
  BY <1>2, <1>3 DEF NoRepeats
<1>5. Head(queue) = queue[1]
  BY <1>1
<1>6. ASSUME NEW d \in Queued, d # Head(queue)
      PROVE  d \in Queued'
  <2>1. PICK i \in 1 .. Len(queue) : queue[i] = d
    BY <1>6 DEF Queued
  <2>2. i - 1 \in 1 .. Len(queue') /\ queue'[i - 1] = d
    BY <2>1, <1>2, <1>3, <1>5, <1>6
  <2> QED
    BY <2>2 DEF Queued
<1>7. ASSUME NEW d \in Queued'
      PROVE  d \in Queued /\ d # Head(queue)
  <2>1. PICK i \in 1 .. Len(queue') : queue'[i] = d
    BY <1>7 DEF Queued
  <2>2. i + 1 \in 1 .. Len(queue) /\ queue[i + 1] = d
    BY <2>1, <1>2, <1>3
  <2>3. d # queue[1]
    BY <2>1, <2>2, <1>2 DEF NoRepeats
  <2> QED
    BY <2>2, <2>3, <1>5 DEF Queued
<1> QED
  BY <1>3, <1>4, <1>6, <1>7

----------------------------------------------------------------------------
(* The invariant of any usage.                                              *)

LEMMA OpenInitially == Init => OpenInv
<1> SUFFICES ASSUME Init PROVE OpenInv
  OBVIOUS
<1>1. queue = << >> /\ Len(queue) = 0 /\ queue \in Seq(Clients)
  BY EmptySeq DEF Init
<1>2. Queued = {} /\ NoRepeats
  BY <1>1 DEF Queued, NoRepeats
<1>3. TypeOK
  BY <1>1, MaxVersionAssumption DEF Init, TypeOK
<1> QED
  BY <1>2, <1>3 DEF Init, OpenInv, QueueInv, UpgradeInv, HolderInv, ResultInv, Holding, Upgrading

(* A call sends its request.                                                *)
LEMMA SendKeepsInv ==
  ASSUME OpenInv, NEW c \in Clients, NEW op \in {"open", "latest", "delete"},
         NEW v \in Versions, phase[c] = "idle", Send(c, op, v)
  PROVE  OpenInv'
<1> USE DEF Send
<1>1. c \notin Queued
  BY DEF OpenInv, QueueInv
<1>2. /\ queue' \in Seq(Clients) /\ queue' # << >> /\ NoRepeats'
      /\ Queued' = Queued \cup {c}
      /\ queue # << >> => Head(queue)' = Head(queue)
  BY <1>1, Pushed DEF OpenInv, QueueInv
<1>3. \A d \in Clients : Upgrading(d)' <=> Upgrading(d)
  BY <1>2 DEF OpenInv, UpgradeInv, Upgrading
<1>4. ~Upgrading(c) /\ event[c] = "none" /\ (queue # << >> => Head(queue) # c)
  BY <1>1, HeadIsQueued DEF OpenInv, QueueInv, Upgrading
<1>5. TypeOK'
  BY <1>2 DEF OpenInv, TypeOK
<1>6. QueueInv'
  BY <1>2, <1>4 DEF OpenInv, TypeOK, QueueInv
<1>7. UpgradeInv'
  BY <1>2, <1>4, HeadIsQueued DEF OpenInv, TypeOK, UpgradeInv
<1>8. HolderInv'
  BY <1>4 DEF OpenInv, TypeOK, HolderInv, Holding
<1>9. ResultInv'
  BY <1>2, <1>3, <1>4 DEF OpenInv, TypeOK, ResultInv, Holding
<1> QED
  BY <1>5, <1>6, <1>7, <1>8, <1>9 DEF OpenInv

(* The request of the head of the queue completes: what all such steps      *)
(* have in common.                                                          *)
LEMMA FireKeepsQueue ==
  ASSUME OpenInv, NEW c \in Clients, queue # << >>, c = Head(queue), NEW e, Fire(c, e),
         e \in {"success", "VersionError", "AbortError", "UnknownError"},
         UNCHANGED phase, store' = "none"
  PROVE  /\ queue' \in Seq(Clients)
         /\ event' = [event EXCEPT ![c] = e]
         /\ Queued' = Queued \ {c}
         /\ QueueInv'
         /\ UpgradeInv'
         /\ \A d \in Clients : ~Upgrading(d)'
<1>1. queue' \in Seq(Clients) /\ NoRepeats' /\ Queued' = Queued \ {c}
  BY Popped DEF OpenInv, QueueInv, Fire
<1>2. c \in Queued
  BY HeadIsQueued DEF OpenInv
<1>3. QueueInv'
  BY <1>1, <1>2 DEF OpenInv, TypeOK, QueueInv, Fire
<1> QED
  BY <1>1, <1>3 DEF UpgradeInv, Upgrading, Fire

LEMMA ServeKeepsInv ==
  ASSUME OpenInv, NEW c \in Clients,
         BrowserOpens(c) \/ BrowserRefuses(c) \/ BrowserDeletes(c)
  PROVE  OpenInv'
<1>1. /\ queue # << >> /\ c = Head(queue) /\ store = "none"
      /\ UNCHANGED << phase, ask, result, before, decision, store >>
  BY DEF BrowserOpens, BrowserRefuses, BrowserDeletes, Serves
<1>2. PICK e \in {"success", "VersionError", "UnknownError"} : Fire(c, e)
  BY DEF BrowserOpens, BrowserRefuses, BrowserDeletes
<1>3. /\ queue' \in Seq(Clients)
      /\ event' = [event EXCEPT ![c] = e]
      /\ Queued' = Queued \ {c}
      /\ QueueInv' /\ UpgradeInv' /\ \A d \in Clients : ~Upgrading(d)'
  BY <1>1, <1>2, FireKeepsQueue
<1>4. c \in Queued /\ ~Upgrading(c) /\ result[c] = "none" /\ ~Holding(c)
  BY <1>1, HeadIsQueued DEF OpenInv, QueueInv, ResultInv, Upgrading, Holding
<1>5. /\ connections' \in {connections, connections \cup {c}}
      /\ version' \in Versions /\ schema' \in Versions
      /\ version' = version \/ connections = {}
  BY MaxVersionAssumption
  DEF OpenInv, TypeOK, BrowserOpens, BrowserRefuses, BrowserDeletes
<1>6. TypeOK'
  BY <1>1, <1>3, <1>5 DEF OpenInv, TypeOK
<1>7. e = "success" /\ ask[c].op # "delete" =>
        /\ c \in connections' /\ version' = version
        /\ ask[c].op = "open" => version = ask[c].version
  <2>1. CASE BrowserOpens(c)
    BY <2>1 DEF BrowserOpens, Wanted
  <2>2. CASE BrowserRefuses(c)
    BY <2>2, <1>2, <1>3, <1>1 DEF OpenInv, TypeOK, BrowserRefuses, Fire
  <2>3. CASE BrowserDeletes(c)
    BY <2>3 DEF BrowserDeletes
  <2> QED
    BY <2>1, <2>2, <2>3
<1>8. HolderInv'
  BY <1>1, <1>3, <1>4, <1>5, <1>7 DEF OpenInv, TypeOK, HolderInv, Holding
<1>9. ResultInv'
  <2> SUFFICES ASSUME NEW d \in Clients
               PROVE  /\ d \in Queued' => result[d] = "none"
                      /\ event'[d] # "none" /\ result[d] \in {"Err", "failed"} => event'[d] = "AbortError"
                      /\ Holding(d) => result[d] \in {"none", "Ok"}
    BY <1>1, <1>3 DEF ResultInv, Holding
  <2>1. ~Upgrading(d)
    BY <1>1 DEF Upgrading
  <2> QED
    BY <2>1, <1>1, <1>3, <1>4 DEF OpenInv, TypeOK, ResultInv
<1> QED
  BY <1>3, <1>6, <1>8, <1>9 DEF OpenInv

LEMMA UpgradeEndsKeepsInv ==
  ASSUME OpenInv, NEW c \in Clients, UpgradeEnds(c)
  PROVE  OpenInv'
<1> DEFINE e == IF store = "committed" /\ c \in connections THEN "success" ELSE "AbortError"
<1>1. /\ queue # << >> /\ c = Head(queue) /\ store # "none" /\ store' = "none"
      /\ UNCHANGED << phase, ask, result, schema >> /\ Fire(c, e)
      /\ e \in {"success", "AbortError"}
      /\ Upgrading(c)
  BY DEF UpgradeEnds, Upgrading
<1>2. /\ queue' \in Seq(Clients)
      /\ event' = [event EXCEPT ![c] = e]
      /\ Queued' = Queued \ {c}
      /\ QueueInv' /\ UpgradeInv' /\ \A d \in Clients : ~Upgrading(d)'
  <2> HIDE DEF e
  <2> QED
    BY <1>1, FireKeepsQueue
<1>3. c \in Queued /\ ~Holding(c)
  BY <1>1, HeadIsQueued DEF OpenInv, QueueInv, Holding
<1>4. connections \subseteq {c} /\ ask[c].op # "delete"
      /\ (ask[c].op = "open" => version = ask[c].version)
  BY <1>1 DEF OpenInv, UpgradeInv
<1>5. \A d \in Clients \ {c} : ~Holding(d) /\ ~(event[d] = "success" /\ ask[d].op # "delete")
  BY <1>4 DEF OpenInv, HolderInv
<1>6. TypeOK'
  BY <1>2, MaxVersionAssumption DEF OpenInv, TypeOK, UpgradeEnds
<1>7. e = "success" => c \in connections' /\ version' = version
  BY DEF UpgradeEnds
<1>8. result[c] \in {"Err", "failed"} => e = "AbortError"
  BY <1>1 DEF OpenInv, ResultInv
<1> HIDE DEF e
<1>9. HolderInv'
  BY <1>1, <1>2, <1>3, <1>4, <1>5, <1>7 DEF OpenInv, TypeOK, HolderInv, Holding
<1>10. ResultInv'
  <2> SUFFICES ASSUME NEW d \in Clients
               PROVE  /\ d \in Queued' => result[d] = "none"
                      /\ event'[d] # "none" /\ result[d] \in {"Err", "failed"} => event'[d] = "AbortError"
                      /\ Holding(d) => result[d] \in {"none", "Ok"}
    BY <1>1, <1>2 DEF ResultInv, Holding
  <2>1. d # c => ~Upgrading(d)
    BY <1>1 DEF Upgrading
  <2> QED
    BY <2>1, <1>1, <1>2, <1>3, <1>8 DEF OpenInv, TypeOK, ResultInv
<1> QED
  BY <1>2, <1>6, <1>9, <1>10 DEF OpenInv

(* What a call returns.                                                     *)
LEMMA AnswerIsAClient ==
  ASSUME TypeOK, NEW c \in Clients, event[c] # "none"
  PROVE  /\ Answer(c) \in {"owned", "manual", "err", "panicked", "done"}
         /\ Answer(c) \in {"owned", "manual"} =>
              event[c] = "success" /\ ask[c].op # "delete" /\ result[c] \in {"none", "Ok"}
         /\ Answer(c) = "panicked" =>
              \/ result[c] = "failed"
              \/ result[c] # "Err" /\ event[c] \in {"AbortError", "UnknownError"}
         /\ event[c] = "success" /\ ask[c].op # "delete" /\ result[c] \in {"none", "Ok"} =>
              Answer(c) \in {"owned", "manual"}
<1>1. /\ event[c] \in {"success", "VersionError", "AbortError", "UnknownError"}
      /\ result[c] \in {"none", "Ok", "Err", "failed"}
      /\ ask[c].op \in {"open", "latest", "delete"}
  BY DEF TypeOK
<1>2. CASE result[c] = "failed"
  BY <1>2 DEF Answer
<1>3. CASE result[c] = "Err"
  BY <1>3 DEF Answer
<1>4. CASE result[c] \in {"none", "Ok"} /\ event[c] # "success"
  BY <1>1, <1>4 DEF Answer
<1>5. CASE result[c] \in {"none", "Ok"} /\ event[c] = "success"
  <2>1. Answer(c) = [open |-> "owned", latest |-> "manual", delete |-> "done"][ask[c].op]
    BY <1>5 DEF Answer
  <2> QED
    BY <1>1, <1>5, <2>1
<1> QED
  BY <1>1, <1>2, <1>3, <1>4, <1>5

(* The steps of a client that is not in the queue, and Cancel: what happens *)
(* concerns nobody else, and only Resume hands out a database.              *)
LEMMA AloneKeepsInv ==
  ASSUME OpenInv, NEW c \in Clients, TypeOK',
         UNCHANGED << queue, version, schema, before, decision, store >>,
         \A d \in Clients \ {c} : /\ phase'[d] = phase[d] /\ ask'[d] = ask[d]
                                  /\ event'[d] = event[d] /\ result'[d] = result[d]
                                  /\ d \in connections => d \in connections',
         connections' \subseteq connections,
         c \in Queued => /\ phase'[c] \in {"waiting", "cancelled"} /\ ask'[c] = ask[c]
                         /\ event'[c] = event[c] /\ result'[c] = result[c],
         event'[c] # "none" => phase'[c] \in {"waiting", "cancelled"} /\ event'[c] = event[c],
         Holding(c)' \/ event'[c] # "none" =>
           /\ ask'[c] = ask[c] /\ result'[c] = result[c] /\ connections' = connections,
         Holding(c)' =>
           \/ Holding(c)
           \/ event[c] = "success" /\ ask[c].op # "delete" /\ result[c] \in {"none", "Ok"}
  PROVE  OpenInv'
<1>1. Queued' = Queued /\ \A d \in Clients : Upgrading(d)' <=> Upgrading(d)
  BY DEF Queued, Upgrading
<1>2. QueueInv'
  BY <1>1 DEF OpenInv, QueueInv, NoRepeats
<1>3. UpgradeInv'
  BY HeadIsQueued DEF OpenInv, UpgradeInv
<1>4. HolderInv'
  BY DEF OpenInv, HolderInv, Holding
<1>5. ResultInv'
  <2>1. \A d \in Clients : Upgrading(d) => d \in Queued
    BY HeadIsQueued DEF OpenInv, Upgrading
  <2> SUFFICES ASSUME NEW d \in Clients
               PROVE  /\ d \in Queued /\ ~Upgrading(d) => result'[d] = "none"
                      /\ Upgrading(d) /\ result'[d] \in {"Err", "failed"} => store = "aborted"
                      /\ event'[d] # "none" /\ result'[d] \in {"Err", "failed"} => event'[d] = "AbortError"
                      /\ Holding(d)' => result'[d] \in {"none", "Ok"}
    BY <1>1 DEF ResultInv
  <2>2. CASE d = c
    BY <2>1, <2>2 DEF OpenInv, ResultInv
  <2>3. CASE d # c
    BY <2>1, <2>3 DEF OpenInv, ResultInv, Holding
  <2> QED
    BY <2>2, <2>3
<1> QED
  BY <1>2, <1>3, <1>4, <1>5 DEF OpenInv

LEMMA ResumeKeepsInv ==
  ASSUME OpenInv, NEW c \in Clients, Resume(c)
  PROVE  OpenInv'
<1>1. c \notin Queued /\ event[c] # "none"
  BY DEF Resume, Completed, OpenInv, QueueInv
<1>2. /\ Answer(c) \in {"owned", "manual", "err", "panicked", "done"}
      /\ Answer(c) \in {"owned", "manual"} =>
           event[c] = "success" /\ ask[c].op # "delete" /\ result[c] \in {"none", "Ok"}
  BY <1>1, AnswerIsAClient DEF OpenInv
<1>3. phase' = [phase EXCEPT ![c] = Answer(c)] /\ event' = [event EXCEPT ![c] = "none"]
      /\ UNCHANGED << ask, result, queue, connections, version, schema, upgradeVars >>
  BY DEF Resume
<1>4. TypeOK'
  BY <1>2, <1>3 DEF OpenInv, TypeOK
<1>5. phase'[c] = Answer(c) /\ event'[c] = "none"
      /\ \A d \in Clients \ {c} : phase'[d] = phase[d] /\ event'[d] = event[d]
  BY <1>3 DEF OpenInv, TypeOK
<1> QED
  BY <1>1, <1>2, <1>3, <1>4, <1>5, AloneKeepsInv DEF Holding

LEMMA OthersKeepInv ==
  ASSUME OpenInv, NEW c \in Clients,
         \/ Open(c, 0) \/ Cancel(c) \/ Orphaned(c)
         \/ Close(c) \/ IntoManualClose(c) \/ Leak(c) \/ Collect(c) \/ Proceed(c)
  PROVE  OpenInv'
<1>1. /\ c \in Queued => phase[c] \in {"waiting", "cancelled"} /\ event[c] = "none"
      /\ event[c] # "none" => phase[c] \in {"waiting", "cancelled"}
  BY DEF OpenInv, QueueInv
<1>2. CASE Open(c, 0) \/ Cancel(c) \/ Orphaned(c) \/ IntoManualClose(c) \/ Leak(c)
  <2>1. PICK p \in {"err", "cancelled", "leaked", "done", "manual"} :
          /\ phase' = [phase EXCEPT ![c] = p]
          /\ p = "manual" => phase[c] = "owned"
          /\ p = "cancelled" => phase[c] = "waiting"
          /\ p \in {"leaked", "done", "err"} => event'[c] = "none" /\ c \notin Queued
    BY <1>1, <1>2
    DEF OpenInv, TypeOK, Open, RefusedZero, Cancel, Orphaned, IntoManualClose, Leak
  <2>2. /\ UNCHANGED << ask, result, queue, connections, version, schema, upgradeVars >>
        /\ event' = event \/ (event' = [event EXCEPT ![c] = "none"] /\ c \notin Queued)
    BY <1>1, <1>2 DEF Open, Cancel, Orphaned, IntoManualClose, Leak
  <2>3. TypeOK'
    BY <2>1, <2>2 DEF OpenInv, TypeOK
  <2>4. \A d \in Clients \ {c} : phase'[d] = phase[d] /\ event'[d] = event[d]
    BY <2>1, <2>2 DEF OpenInv, TypeOK
  <2>5. /\ phase'[c] = p
        /\ event'[c] = event[c] \/ (event'[c] = "none" /\ c \notin Queued)
    BY <2>1, <2>2 DEF OpenInv, TypeOK
  <2>6. event'[c] # "none" => phase'[c] \in {"waiting", "cancelled"}
    BY <1>1, <2>1, <2>5
  <2>7. c \in Queued => phase'[c] \in {"waiting", "cancelled"}
    BY <1>1, <2>1, <2>5
  <2>8. Holding(c)' => Holding(c)
    BY <2>1, <2>5 DEF Holding
  <2> QED
    BY <2>2, <2>3, <2>4, <2>5, <2>6, <2>7, <2>8, AloneKeepsInv
<1>3. CASE Close(c) \/ Collect(c) \/ Proceed(c)
  <2>1. /\ c \notin Queued /\ event[c] = "none"
        /\ Leaves(c) /\ connections' \in {connections, connections \ {c}}
        /\ UNCHANGED << event, queue, version, schema, upgradeVars >>
    BY <1>1, <1>3 DEF Close, Closed, Collect, Proceed
  <2>2. TypeOK'
    BY <2>1, MaxVersionAssumption DEF OpenInv, TypeOK, Leaves
  <2>3. /\ phase'[c] = "idle"
        /\ \A d \in Clients \ {c} :
              phase'[d] = phase[d] /\ ask'[d] = ask[d] /\ result'[d] = result[d]
    BY <2>1 DEF OpenInv, TypeOK, Leaves
  <2> QED
    BY <2>1, <2>2, <2>3, AloneKeepsInv DEF Holding
<1> QED
  BY <1>2, <1>3

LEMMA UpgradeKeepsInv ==
  ASSUME OpenInv, NEW c \in Clients,
         \/ BrowserUpgrades(c) \/ CallbackDecides(c) \/ NobodyDecides(c) \/ OrphanRefuses(c)
         \/ CallbackCloses(c) \/ UpgradeCommits(c) \/ UpgradeFails(c)
  PROVE  OpenInv'
<1> USE DEF BrowserUpgrades, CallbackDecides, NobodyDecides, OrphanRefuses, CallbackCloses,
            UpgradeCommits, UpgradeFails
<1>0. /\ queue # << >> /\ c = Head(queue) /\ UNCHANGED << phase, ask, event, queue >>
      /\ Queued' = Queued
  BY DEF Serves, Upgrading, Queued
<1>1. c \in Queued /\ ~Holding(c) /\ event[c] = "none"
  BY <1>0, HeadIsQueued DEF OpenInv, QueueInv, Holding
<1>2. TypeOK'
  <2>1. CASE BrowserUpgrades(c)
    BY <2>1, <1>0, MaxVersionAssumption DEF OpenInv, TypeOK, Wanted, Upgrade!Open
  <2>2. CASE CallbackDecides(c) \/ NobodyDecides(c) \/ OrphanRefuses(c)
    <3>1. /\ UNCHANGED << phase, ask, event, queue, connections, version, schema, before >>
          /\ store' \in {store, "aborted"} /\ decision' \in {"Ok", "Err", "failed"}
          /\ result' \in {result, [result EXCEPT ![c] = decision']}
      BY <2>2, <1>0 DEF Upgrade!Accept, Upgrade!Refuse, clientVars
    <3> QED
      BY <3>1 DEF OpenInv, TypeOK
  <2>3. CASE CallbackCloses(c) \/ UpgradeCommits(c) \/ UpgradeFails(c)
    BY <2>3, <1>0 DEF OpenInv, TypeOK, Closed, SchemaOf, Upgrade!Commit
  <2> QED
    BY <2>1, <2>2, <2>3
<1>3. QueueInv'
  BY <1>0 DEF OpenInv, QueueInv, NoRepeats
<1>4. UpgradeInv'
  BY <1>0
  DEF OpenInv, UpgradeInv, Wanted, Closed, Serves, Upgrading,
      Upgrade!Open, Upgrade!Accept, Upgrade!Refuse, Upgrade!Commit
<1>5. HolderInv'
  BY <1>0, <1>1 DEF OpenInv, HolderInv, Holding, Closed
<1>6. ResultInv'
  <2> SUFFICES ASSUME NEW d \in Clients
               PROVE  /\ d \in Queued /\ ~Upgrading(d)' => result'[d] = "none"
                      /\ Upgrading(d)' /\ result'[d] \in {"Err", "failed"} => store' = "aborted"
                      /\ event[d] # "none" /\ result'[d] \in {"Err", "failed"} => event[d] = "AbortError"
                      /\ Holding(d) => result'[d] \in {"none", "Ok"}
    BY <1>0 DEF ResultInv, Holding
  <2>1. CASE d = c
    BY <2>1, <1>0, <1>1
    DEF OpenInv, TypeOK, ResultInv, Serves, Upgrading,
        Upgrade!Open, Upgrade!Accept, Upgrade!Refuse, Upgrade!Commit
  <2>2. CASE d # c
    BY <2>2, <1>0, <1>1
    DEF OpenInv, TypeOK, ResultInv, Serves, Upgrading
  <2> QED
    BY <2>1, <2>2
<1> QED
  BY <1>2, <1>3, <1>4, <1>5, <1>6 DEF OpenInv

LEMMA OpenStep ==
  ASSUME OpenInv, [Next]_vars
  PROVE  OpenInv'
<1>1. CASE UNCHANGED vars
  BY <1>1
  DEF vars, OpenInv, TypeOK, QueueInv, NoRepeats, Queued, UpgradeInv, HolderInv, ResultInv, Holding, Upgrading
<1>2. ASSUME NEW c \in Clients, ClientStep(c) PROVE OpenInv'
  <2>1. ASSUME NEW v \in Versions, Open(c, v) PROVE OpenInv'
    BY <2>1, SendKeepsInv, OthersKeepInv, MaxVersionAssumption DEF Open
  <2>2. CASE OpenLatestVersion(c) \/ DeleteDatabase(c)
    BY <2>2, SendKeepsInv, MaxVersionAssumption DEF OpenLatestVersion, DeleteDatabase
  <2>3. CASE \/ Resume(c) \/ Cancel(c) \/ Orphaned(c)
             \/ Close(c) \/ IntoManualClose(c) \/ Leak(c) \/ Collect(c) \/ Proceed(c)
    BY <2>3, ResumeKeepsInv, OthersKeepInv
  <2> QED
    BY <1>2, <2>1, <2>2, <2>3 DEF ClientStep
<1>3. ASSUME NEW c \in Clients, Browser(c) PROVE OpenInv'
  BY <1>3, ServeKeepsInv, UpgradeKeepsInv, UpgradeEndsKeepsInv DEF Browser
<1> QED
  BY <1>1, <1>2, <1>3 DEF Next

LEMMA OpenInvariant == Spec => []OpenInv
  BY OpenInitially, OpenStep, PTL DEF Spec

----------------------------------------------------------------------------
(* Whatever clients and the browser do.                                     *)

(* Every variable keeps its type.                                           *)
THEOREM TypeCorrect == Spec => []TypeOK
<1>1. OpenInv => TypeOK
  BY DEF OpenInv
<1> QED
  BY <1>1, OpenInvariant, PTL

(* Who asked for a version and holds a database is connected to that very   *)
(* version, whoever else opens, upgrades or deletes it.                     *)
THEOREM VersionIsAsAsked == Spec => []OpenedAsAsked
<1>1. OpenInv => OpenedAsAsked
  BY DEF OpenInv, HolderInv, OpenedAsAsked
<1> QED
  BY <1>1, OpenInvariant, PTL

(* A refusal reaches its caller only with the upgrade rolled back, and a    *)
(* database only after an acceptance.                                       *)
THEOREM AnswersMatchUpgrades == Spec => []AnswerMatchesUpgrade
<1>1. OpenInv => AnswerMatchesUpgrade
  BY DEF OpenInv, ResultInv, AnswerMatchesUpgrade
<1> QED
  BY <1>1, OpenInvariant, PTL

----------------------------------------------------------------------------
(* The refinement of VersionedDatabase.                                     *)

(* An upgrade raises the version, and without a callback it only creates    *)
(* the database.  Who is connected is connected to something.               *)
RiseInv ==
  /\ store # "none" =>
       /\ before < version
       /\ ask[Head(queue)].op = "latest" => before = 0 /\ version = 1
  /\ connections # {} => version # 0
  /\ \A c \in Queued : ask[c].op = "open" => ask[c].version # 0

LEMMA SendRises ==
  ASSUME OpenInv, RiseInv, NEW c \in Clients, NEW op \in {"open", "latest", "delete"},
         NEW v \in Versions, phase[c] = "idle", op = "open" => v # 0, Send(c, op, v)
  PROVE  RiseInv'
<1>1. c \notin Queued
  BY DEF OpenInv, QueueInv
<1>2. Queued' = Queued \cup {c} /\ (queue # << >> => Head(queue)' = Head(queue) /\ Head(queue) # c)
  BY <1>1, Pushed, HeadIsQueued DEF OpenInv, QueueInv, Send
<1>3. \A d \in Queued : d \in Clients
  BY DEF OpenInv, TypeOK, Queued
<1> QED
  BY <1>1, <1>2, <1>3, HeadIsQueued DEF OpenInv, TypeOK, UpgradeInv, RiseInv, Send

LEMMA ClientRises ==
  ASSUME OpenInv, RiseInv, NEW c \in Clients, ClientStep(c)
  PROVE  RiseInv'
<1>1. CASE OpenLatestVersion(c) \/ DeleteDatabase(c) \/ \E v \in Versions \ {0} : Open(c, v)
  BY <1>1, SendRises, MaxVersionAssumption DEF OpenLatestVersion, DeleteDatabase, Open
<1>2. CASE \/ Open(c, 0) \/ Resume(c) \/ Cancel(c) \/ Orphaned(c) \/ IntoManualClose(c) \/ Leak(c)
           \/ Close(c) \/ Collect(c) \/ Proceed(c)
  <2>1. /\ UNCHANGED << queue, version, before, store >>
        /\ connections' \subseteq connections
        /\ ask' = ask \/ (Leaves(c) /\ phase[c] \notin {"waiting", "cancelled"})
    BY <1>2
    DEF Open, Resume, Cancel, Orphaned, Close, Closed, IntoManualClose, Leak, Collect, Proceed
  <2>2. \A d \in Queued : d \in Clients /\ ask'[d] = ask[d]
    <3>1. \A d \in Queued : d \in Clients
      BY DEF OpenInv, TypeOK, Queued
    <3>2. c \in Queued => ask' = ask
      BY <2>1 DEF OpenInv, QueueInv
    <3> QED
      BY <3>1, <3>2, <2>1 DEF OpenInv, TypeOK, Leaves
  <2>3. store # "none" => ask'[Head(queue)] = ask[Head(queue)]
    BY <2>2, HeadIsQueued DEF OpenInv, UpgradeInv
  <2> QED
    BY <2>1, <2>2, <2>3 DEF RiseInv, Queued
<1> QED
  BY <1>1, <1>2 DEF ClientStep

LEMMA BrowserRises ==
  ASSUME OpenInv, RiseInv, NEW c \in Clients, Browser(c)
  PROVE  RiseInv'
<1>1. /\ queue # << >> /\ c = Head(queue) /\ UNCHANGED ask
  BY DEF Browser, BrowserOpens, BrowserRefuses, BrowserDeletes, BrowserUpgrades, CallbackDecides,
         NobodyDecides, OrphanRefuses, CallbackCloses, UpgradeCommits, UpgradeFails, UpgradeEnds,
         Serves, Upgrading
<1>2. c \in Queued
  BY <1>1, HeadIsQueued DEF OpenInv
<1>3. CASE BrowserOpens(c) \/ BrowserRefuses(c) \/ BrowserDeletes(c) \/ UpgradeEnds(c)
  <2>1. store' = "none" /\ \E e : Fire(c, e)
    BY <1>3
    DEF BrowserOpens, BrowserRefuses, BrowserDeletes, UpgradeEnds, Serves
  <2>2. Queued' \subseteq Queued
    BY <1>1, <2>1, Popped DEF OpenInv, QueueInv, Fire
  <2>3. connections' # {} => version' # 0
    <3>1. CASE BrowserOpens(c)
      BY <1>2, <3>1 DEF OpenInv, TypeOK, RiseInv, BrowserOpens, Wanted
    <3>2. CASE BrowserRefuses(c) \/ BrowserDeletes(c) \/ UpgradeEnds(c)
      BY <3>2 DEF RiseInv, BrowserRefuses, BrowserDeletes, UpgradeEnds
    <3> QED
      BY <1>3, <3>1, <3>2
  <2> QED
    BY <1>1, <2>1, <2>2, <2>3 DEF RiseInv
<1>4. CASE BrowserUpgrades(c)
  <2>1. /\ UNCHANGED queue /\ before' = version /\ version' = Wanted(c) /\ Wanted(c) > version
        /\ version \in Nat /\ Wanted(c) \in Nat
    BY <1>4, MaxVersionAssumption DEF OpenInv, TypeOK, BrowserUpgrades, Wanted
  <2>2. ask[c].op = "latest" => before' = 0 /\ version' = 1
    BY <2>1 DEF Wanted
  <2> QED
    BY <1>1, <2>1, <2>2 DEF RiseInv, Queued
<1>5. CASE \/ CallbackDecides(c) \/ NobodyDecides(c) \/ OrphanRefuses(c) \/ CallbackCloses(c)
           \/ UpgradeCommits(c) \/ UpgradeFails(c)
  <2>1. /\ UNCHANGED << queue, version, before >> /\ store # "none"
        /\ connections' \subseteq connections
    BY <1>5
    DEF CallbackDecides, NobodyDecides, OrphanRefuses, CallbackCloses, Closed, UpgradeCommits,
        UpgradeFails, Upgrading
  <2> QED
    BY <1>1, <2>1 DEF RiseInv, Queued
<1> QED
  BY <1>3, <1>4, <1>5 DEF Browser

LEMMA RiseInvariant == Spec => []RiseInv
<1>1. Init => RiseInv
  <2> SUFFICES ASSUME Init PROVE RiseInv
    OBVIOUS
  <2>1. Queued = {}
    BY EmptySeq DEF Init, Queued
  <2> QED
    BY <2>1 DEF Init, RiseInv
<1>2. OpenInv /\ RiseInv /\ UNCHANGED vars => RiseInv'
  BY DEF vars, RiseInv, Queued
<1>3. OpenInv /\ RiseInv /\ [Next]_vars => RiseInv'
  BY <1>2, ClientRises, BrowserRises DEF Next
<1> QED
  BY <1>1, <1>3, OpenInvariant, PTL DEF Spec

(* While an upgrade runs, or nobody is connected, no client holds anything. *)
LEMMA NobodyHolds ==
  ASSUME OpenInv, store # "none" \/ connections = {}, NEW c \in Clients
  PROVE  ~Holding(c)
<1>1. ASSUME store # "none", c = Head(queue)
      PROVE  ~Holding(c)
  BY <1>1, HeadIsQueued DEF OpenInv, QueueInv, UpgradeInv, Holding
<1>2. c \in connections /\ store # "none" => c = Head(queue)
  BY DEF OpenInv, UpgradeInv
<1> QED
  BY <1>1, <1>2 DEF OpenInv, HolderInv

LEMMA HeldIsTheVersion ==
  ASSUME OpenInv, RiseInv, NEW c \in Clients,
         Holding(c) \/ (event[c] = "success" /\ ask[c].op # "delete")
  PROVE  /\ version # 0 /\ Lasting = version
         /\ ask[c].op = "open" => ask[c].version = version
<1>1. c \in connections /\ (ask[c].op = "open" => ask[c].version = version)
  BY DEF OpenInv, HolderInv
<1>2. store = "none"
  BY <1>1, HeadIsQueued DEF OpenInv, QueueInv, UpgradeInv, Holding
<1> QED
  BY <1>1, <1>2 DEF RiseInv, Lasting

(* A client that takes a step gets the database, gives it up, or neither.   *)
LEMMA ClientImplements ==
  ASSUME OpenInv, RiseInv, NEW c \in Clients, ClientStep(c)
  PROVE  [Versioned!VersionedNext]_Versioned!versionedVars
<1>1. UNCHANGED << version, schema, before, store >>
  BY DEF ClientStep, Open, OpenLatestVersion, DeleteDatabase, Send, Resume, Cancel, Orphaned, Close,
         IntoManualClose, Leak, Collect, Proceed
<1>2. UNCHANGED << Lasting, schema >>
  BY <1>1 DEF Lasting
<1>3. \A d \in Clients \ {c} : phase'[d] = phase[d] /\ ask'[d] = ask[d]
  BY DEF OpenInv, TypeOK, ClientStep, Open, OpenLatestVersion, DeleteDatabase, Send, Resume,
         Cancel, Orphaned, Close, IntoManualClose, Leak, Collect, Proceed, Leaves
<1>4. \A d \in Clients \ {c} : Held'[d] = Held[d]
  BY <1>1, <1>3 DEF Held, Holding
<1>5. Held = [d \in Clients |-> Held[d]] /\ Held' = [d \in Clients |-> Held'[d]]
  BY DEF Held
<1>6. Holding(c) => Held[c] = version /\ version # 0 /\ Lasting = version
  BY HeldIsTheVersion DEF Held
<1>7. Holding(c)' => Held'[c] = version /\ version # 0 /\ Lasting = version
  <2>1. Holding(c)' =>
          ask' = ask /\ (Holding(c) \/ (event[c] = "success" /\ ask[c].op # "delete"))
    <3>1. CASE Resume(c)
      BY <3>1, AnswerIsAClient DEF OpenInv, TypeOK, Resume, Completed, Holding
    <3>2. CASE ~Resume(c)
      BY <3>2
      DEF OpenInv, TypeOK, Holding, ClientStep, Open, RefusedZero, OpenLatestVersion, DeleteDatabase,
          Send, Cancel, Orphaned, Close, IntoManualClose, Leak, Collect, Proceed, Leaves
    <3> QED
      BY <3>1, <3>2
  <2> QED
    BY <1>1, <2>1, HeldIsTheVersion DEF Held
<1>8. ~Holding(c) => Held[c] = 0
  BY DEF Held
<1>9. ~Holding(c)' => Held'[c] = 0
  BY DEF Held
<1>10. CASE Holding(c) <=> Holding(c)'
  <2>1. Held'[c] = Held[c]
    BY <1>6, <1>7, <1>8, <1>9, <1>10
  <2>2. Held' = Held
    BY <1>4, <1>5, <2>1
  <2> QED
    BY <1>2, <2>2 DEF Versioned!versionedVars
<1>11. CASE ~Holding(c) /\ Holding(c)'
  <2>1. Held' = [Held EXCEPT ![c] = Lasting]
    BY <1>4, <1>5, <1>7, <1>11
  <2>2. Versioned!Acquire(c)
    BY <1>2, <1>7, <1>8, <1>11, <2>1 DEF Versioned!Acquire
  <2> QED
    BY <2>2 DEF Versioned!VersionedNext
<1>12. CASE Holding(c) /\ ~Holding(c)'
  <2>1. Held' = [Held EXCEPT ![c] = 0]
    BY <1>4, <1>5, <1>9, <1>12
  <2>2. Versioned!Release(c)
    BY <1>2, <1>6, <1>12, <2>1 DEF Versioned!Release
  <2> QED
    BY <2>2 DEF Versioned!VersionedNext
<1> QED
  BY <1>10, <1>11, <1>12

(* A step of the browser is a deletion, or the commit of an upgrade, or     *)
(* nothing that a client sees.                                              *)
LEMMA BrowserImplements ==
  ASSUME OpenInv, RiseInv, NEW c \in Clients, Browser(c)
  PROVE  [Versioned!VersionedNext]_Versioned!versionedVars
<1>1. /\ UNCHANGED << phase, ask >> /\ queue # << >> /\ c = Head(queue)
  BY DEF Browser, BrowserOpens, BrowserRefuses, BrowserDeletes, BrowserUpgrades, CallbackDecides,
         NobodyDecides, OrphanRefuses, CallbackCloses, UpgradeCommits, UpgradeFails, UpgradeEnds,
         Serves, Upgrading
<1>2. ASSUME store # "none" \/ connections = {}
      PROVE  Held' = Held /\ Versioned!Free
  <2>1. \A d \in Clients : ~Holding(d) /\ ~Holding(d)'
    BY <1>1, <1>2, NobodyHolds DEF Holding
  <2> QED
    BY <2>1 DEF Held, Versioned!Free
<1>3. version' = version => Held' = Held
  BY <1>1 DEF Held, Holding
<1>4. CASE BrowserOpens(c) \/ BrowserRefuses(c)
  <2>1. UNCHANGED << version, schema, before, store >>
    BY <1>4 DEF BrowserOpens, BrowserRefuses
  <2> QED
    BY <1>3, <2>1 DEF Lasting, Versioned!versionedVars
<1>5. CASE BrowserDeletes(c)
  <2>1. Lasting' = 0 /\ schema' = 0
    BY <1>5 DEF BrowserDeletes, Serves, Lasting
  <2> QED
    BY <1>2, <1>5, <2>1 DEF BrowserDeletes, Versioned!Delete, Versioned!VersionedNext
<1>6. CASE BrowserUpgrades(c)
  <2>1. UNCHANGED << Lasting, schema >>
    BY <1>6 DEF BrowserUpgrades, Serves, Lasting, Upgrade!Open
  <2> QED
    BY <1>2, <1>6, <2>1 DEF BrowserUpgrades, Versioned!versionedVars
<1>7. CASE \/ CallbackDecides(c) \/ NobodyDecides(c) \/ OrphanRefuses(c) \/ CallbackCloses(c)
           \/ UpgradeFails(c)
  <2>1. UNCHANGED << version, Lasting, schema >>
    BY <1>7
    DEF CallbackDecides, NobodyDecides, OrphanRefuses, CallbackCloses, UpgradeFails, Lasting,
        Upgrade!Accept, Upgrade!Refuse
  <2> QED
    BY <1>3, <2>1 DEF Versioned!versionedVars
<1>8. CASE UpgradeCommits(c)
  <2>1. /\ Lasting = before /\ Lasting' = version /\ store # "none"
        /\ schema' = SchemaOf(c)
    BY <1>8 DEF UpgradeCommits, Upgrading, Lasting, Upgrade!Commit
  <2>2. Held' = Held /\ Versioned!Free
    BY <1>2, <2>1
  <2>3. /\ before < version
        /\ ask[c].op = "latest" => before = 0 /\ version = 1
        /\ ask[c].op \in {"open", "latest"}
    BY <1>1, <2>1 DEF OpenInv, TypeOK, UpgradeInv, RiseInv
  <2>4. CASE ask[c].op = "open"
    BY <2>1, <2>2, <2>3, <2>4 DEF SchemaOf, OpenInv, TypeOK, Versioned!Raise, Versioned!VersionedNext
  <2>5. CASE ask[c].op = "latest"
    BY <2>1, <2>2, <2>3, <2>5 DEF SchemaOf, Versioned!Create, Versioned!VersionedNext
  <2> QED
    BY <2>3, <2>4, <2>5
<1>9. CASE UpgradeEnds(c)
  <2>1. UNCHANGED << Lasting, schema >> /\ store # "none"
    BY <1>9 DEF UpgradeEnds, Upgrading, Lasting
  <2> QED
    BY <1>2, <2>1 DEF Versioned!versionedVars
<1> QED
  BY <1>4, <1>5, <1>6, <1>7, <1>8, <1>9 DEF Browser

(* The database implements VersionedDatabase: nothing changes under a       *)
(* client that holds it, and an upgrade takes place as a whole or not at    *)
(* all, whatever clients, callbacks and the browser do.                     *)
THEOREM ImplementsVersioned == Spec => RefinesVersioned
<1>1. Init => Versioned!VersionedInit
  BY DEF Init, Versioned!VersionedInit, Lasting, Held, Holding
<1>2. UNCHANGED vars => UNCHANGED Versioned!versionedVars
  BY DEF vars, Versioned!versionedVars, Lasting, Held, Holding
<1>3. OpenInv /\ RiseInv /\ [Next]_vars
        => [Versioned!VersionedNext]_Versioned!versionedVars
  BY <1>2, ClientImplements, BrowserImplements DEF Next
<1> QED
  BY <1>1, <1>3, OpenInvariant, RiseInvariant, PTL DEF Spec, RefinesVersioned, Versioned!VersionedSpec

----------------------------------------------------------------------------
(* What some usage or fault would break, one invariant each.                *)

(* Nobody opens the database without naming a version.                      *)
VersionsAreNamed == "latest" \notin Calls

(* The schema is that of the version, except while an upgrade runs.         *)
SchemaInv ==
  /\ \A c \in Clients : ask[c].op # "latest"
  /\ store \in {"none", "committed"} => schema = version
  /\ store \in {"open", "aborted"} => schema = before

LEMMA SchemaStep ==
  ASSUME VersionsAreNamed, OpenInv, SchemaInv, [Next]_vars
  PROVE  SchemaInv'
<1>1. CASE UNCHANGED vars
  BY <1>1 DEF vars, SchemaInv
<1>2. ASSUME NEW c \in Clients, ClientStep(c)
      PROVE  SchemaInv'
  <2>1. UNCHANGED << version, schema, before, store >>
    BY <1>2
    DEF ClientStep, Open, OpenLatestVersion, DeleteDatabase, Send, Resume, Cancel, Orphaned, Close,
        IntoManualClose, Leak, Collect, Proceed
  <2>2. \A op \in {"open", "latest", "delete"}, v \in Versions : Send(c, op, v) /\ op # "latest" =>
          \A d \in Clients : ask'[d].op # "latest"
    BY DEF OpenInv, TypeOK, SchemaInv, Send
  <2>3. Leaves(c) => \A d \in Clients : ask'[d].op # "latest"
    BY DEF OpenInv, TypeOK, SchemaInv, Leaves
  <2>4. \A d \in Clients : ask'[d].op # "latest"
    <3>1. CASE \E v \in Versions : Open(c, v)
      BY <3>1, <2>2 DEF SchemaInv, Open
    <3>2. CASE OpenLatestVersion(c) \/ DeleteDatabase(c)
      BY <3>2, <2>2, MaxVersionAssumption DEF OpenLatestVersion, DeleteDatabase, VersionsAreNamed
    <3>3. CASE Resume(c) \/ Cancel(c) \/ Orphaned(c) \/ IntoManualClose(c) \/ Leak(c)
      BY <3>3 DEF SchemaInv, Resume, Cancel, Orphaned, IntoManualClose, Leak
    <3>4. CASE Close(c) \/ Collect(c) \/ Proceed(c)
      BY <3>4, <2>3 DEF Close, Collect, Proceed
    <3> QED
      BY <1>2, <3>1, <3>2, <3>3, <3>4 DEF ClientStep
  <2> QED
    BY <2>1, <2>4 DEF SchemaInv
<1>3. ASSUME NEW c \in Clients, Browser(c)
      PROVE  SchemaInv'
  <2>1. ask' = ask
    BY <1>3
    DEF Browser, BrowserOpens, BrowserRefuses, BrowserDeletes, BrowserUpgrades, CallbackDecides,
        NobodyDecides, OrphanRefuses, CallbackCloses, UpgradeCommits, UpgradeFails, UpgradeEnds
  <2>2. CASE BrowserOpens(c) \/ BrowserRefuses(c) \/ BrowserDeletes(c) \/ BrowserUpgrades(c)
    BY <2>1, <2>2
    DEF SchemaInv, BrowserOpens, BrowserRefuses, BrowserDeletes, BrowserUpgrades, Serves, Upgrade!Open
  <2>3. CASE CallbackDecides(c) \/ NobodyDecides(c) \/ OrphanRefuses(c) \/ CallbackCloses(c)
    BY <2>1, <2>3
    DEF SchemaInv, CallbackDecides, NobodyDecides, OrphanRefuses, CallbackCloses,
        Upgrade!Accept, Upgrade!Refuse
  <2>4. CASE UpgradeCommits(c)
    <3>1. ask[c].op = "open"
      BY <2>4 DEF OpenInv, TypeOK, UpgradeInv, SchemaInv, UpgradeCommits, Upgrading
    <3> QED
      BY <2>1, <2>4, <3>1 DEF SchemaInv, UpgradeCommits, SchemaOf, Upgrade!Commit
  <2>5. CASE UpgradeFails(c) \/ UpgradeEnds(c)
    BY <2>1, <2>5 DEF SchemaInv, UpgradeFails, UpgradeEnds
  <2> QED
    BY <1>3, <2>2, <2>3, <2>4, <2>5 DEF Browser
<1> QED
  BY <1>1, <1>2, <1>3 DEF Next

(* A database that `open` handed out has had the upgrade callback of its    *)
(* version run and committed, whatever goes wrong, provided that no         *)
(* open_latest_version can create the database first.                       *)
THEOREM SchemaIsReady ==
  ASSUME VersionsAreNamed
  PROVE  Spec => []SchemaReady
<1>1. Init => SchemaInv
  BY DEF Init, SchemaInv
<1>2. Spec => []SchemaInv
  BY <1>1, SchemaStep, OpenInvariant, PTL DEF Spec
<1>3. OpenInv /\ SchemaInv => SchemaReady
  <2> SUFFICES ASSUME OpenInv, SchemaInv, NEW c \in Clients, Holding(c), ask[c].op = "open"
               PROVE  schema = ask[c].version
    BY DEF SchemaReady
  <2>1. c \in connections /\ version = ask[c].version
    BY DEF OpenInv, HolderInv
  <2>2. store = "none"
    BY <2>1, HeadIsQueued DEF OpenInv, QueueInv, UpgradeInv, Holding
  <2> QED
    BY <2>1, <2>2 DEF SchemaInv
<1> QED
  BY <1>2, <1>3, OpenInvariant, PTL

----------------------------------------------------------------------------
(* Upgrade callbacks do as documented, and the browser what it is asked.    *)
UpgradesBehave == "close" \notin Usage /\ "misuse" \notin Usage /\ Faults = {}

(* An abort of which a caller hears is its callback's own doing, and its    *)
(* connection stays up to the end of the upgrade.                           *)
AbortInv ==
  \A c \in Clients :
    /\ phase[c] # "panicked" /\ result[c] # "failed" /\ event[c] # "UnknownError"
    /\ phase[c] = "waiting" /\ event[c] = "AbortError" => result[c] = "Err"
    /\ phase[c] = "waiting" /\ Upgrading(c) =>
         /\ c \in connections
         /\ store = "aborted" => result[c] = "Err"

LEMMA AbortStep ==
  ASSUME UpgradesBehave, OpenInv, AbortInv, [Next]_vars
  PROVE  AbortInv'
<1>1. CASE UNCHANGED vars
  BY <1>1 DEF vars, AbortInv, Upgrading
<1>2. ASSUME NEW c \in Clients, ClientStep(c)
      PROVE  AbortInv'
  <2>1. ASSUME NEW op \in {"open", "latest", "delete"}, NEW v \in Versions,
               phase[c] = "idle", Send(c, op, v)
        PROVE  AbortInv'
    <3>1. c \notin Queued /\ event[c] = "none"
      BY <2>1 DEF OpenInv, QueueInv
    <3>2. queue' # << >> /\ (queue # << >> => Head(queue)' = Head(queue) /\ Head(queue) # c)
      BY <2>1, <3>1, Pushed, HeadIsQueued DEF OpenInv, QueueInv, Send
    <3>3. \A d \in Clients : Upgrading(d)' <=> (Upgrading(d) /\ d # c)
      BY <2>1, <3>2 DEF OpenInv, UpgradeInv, Upgrading, Send
    <3> QED
      BY <2>1, <3>1, <3>3 DEF OpenInv, TypeOK, AbortInv, Send
  <2>2. CASE OpenLatestVersion(c) \/ DeleteDatabase(c) \/ \E v \in Versions \ {0} : Open(c, v)
    BY <2>1, <2>2, MaxVersionAssumption DEF OpenLatestVersion, DeleteDatabase, Open
  <2>3. CASE Open(c, 0) \/ Resume(c) \/ Cancel(c) \/ Orphaned(c) \/ IntoManualClose(c) \/ Leak(c)
    <3>1. /\ UNCHANGED << ask, result, queue, connections, store >>
          /\ event' = event \/ event' = [event EXCEPT ![c] = "none"]
      BY <2>3 DEF Open, Resume, Cancel, Orphaned, IntoManualClose, Leak
    <3>2. PICK p : phase' = [phase EXCEPT ![c] = p] /\ p \notin {"panicked", "waiting"}
      <4>1. CASE Resume(c)
        BY <4>1, AnswerIsAClient DEF OpenInv, AbortInv, Resume, Completed
      <4> QED
        BY <2>3, <4>1 DEF Open, RefusedZero, Cancel, Orphaned, IntoManualClose, Leak
    <3>3. \A d \in Clients : Upgrading(d)' <=> Upgrading(d)
      BY <3>1 DEF Upgrading
    <3> QED
      BY <3>1, <3>2, <3>3 DEF OpenInv, TypeOK, AbortInv
  <2>4. CASE Close(c) \/ Collect(c) \/ Proceed(c)
    <3>1. /\ Leaves(c) /\ connections' \in {connections, connections \ {c}}
          /\ UNCHANGED << event, queue, store >>
      BY <2>4 DEF Close, Closed, Collect, Proceed
    <3>2. \A d \in Clients : Upgrading(d)' <=> Upgrading(d)
      BY <3>1 DEF Upgrading
    <3> QED
      BY <3>1, <3>2 DEF OpenInv, TypeOK, AbortInv, Leaves
  <2> QED
    BY <1>2, <2>2, <2>3, <2>4 DEF ClientStep
<1>3. ASSUME NEW c \in Clients, Browser(c)
      PROVE  AbortInv'
  <2>1. CASE BrowserOpens(c) \/ BrowserRefuses(c) \/ BrowserDeletes(c) \/ UpgradeEnds(c)
    <3>1. /\ UNCHANGED << phase, ask, result >> /\ store' = "none"
          /\ queue # << >> /\ c = Head(queue)
      BY <2>1
      DEF BrowserOpens, BrowserRefuses, BrowserDeletes, UpgradeEnds, Serves, Upgrading
    <3>2. \A d \in Clients : ~Upgrading(d)'
      BY <3>1 DEF Upgrading
    <3>3. PICK e \in {"success", "VersionError", "AbortError"} :
            /\ Fire(c, e)
            /\ e = "AbortError" => /\ Upgrading(c) /\ store \in {"committed", "aborted"}
                                   /\ store = "committed" => c \notin connections
      BY <2>1
      DEF UpgradesBehave, BrowserOpens, BrowserRefuses, BrowserDeletes, UpgradeEnds
    <3>4. phase[c] = "waiting" /\ e = "AbortError" => result[c] = "Err"
      BY <3>3 DEF AbortInv
    <3> QED
      BY <3>1, <3>2, <3>3, <3>4 DEF OpenInv, TypeOK, AbortInv, Fire
  <2>2. CASE BrowserUpgrades(c)
    <3>1. /\ UNCHANGED << phase, ask, result, event, queue >>
          /\ store' = "open" /\ connections' = {c} /\ c = Head(queue)
      BY <2>2 DEF BrowserUpgrades, Serves, Upgrade!Open
    <3> QED
      BY <3>1 DEF OpenInv, TypeOK, AbortInv, Upgrading
  <2>3. CASE CallbackDecides(c)
    <3>1. /\ UNCHANGED << phase, ask, event, queue, connections >>
          /\ queue # << >> /\ c = Head(queue) /\ store = "open"
          /\ \/ store' = "open" /\ result' = [result EXCEPT ![c] = "Ok"]
             \/ store' = "aborted" /\ result' = [result EXCEPT ![c] = "Err"]
      BY <2>3
      DEF UpgradesBehave, CallbackDecides, Upgrading, Upgrade!Accept, Upgrade!Refuse
    <3>2. event[c] = "none"
      BY <3>1, HeadIsQueued DEF OpenInv, QueueInv
    <3> QED
      BY <3>1, <3>2 DEF OpenInv, TypeOK, AbortInv, Upgrading
  <2>4. CASE NobodyDecides(c) \/ OrphanRefuses(c) \/ UpgradeCommits(c)
    <3>1. /\ UNCHANGED << phase, ask, result, event, queue, connections >>
          /\ queue # << >> /\ c = Head(queue) /\ store # "none"
          /\ store' = "aborted" => phase[c] # "waiting"
      BY <2>4
      DEF NobodyDecides, OrphanRefuses, UpgradeCommits, Upgrading,
          Upgrade!Accept, Upgrade!Refuse, Upgrade!Commit
    <3> QED
      BY <3>1 DEF AbortInv, Upgrading
  <2>5. ~CallbackCloses(c) /\ ~UpgradeFails(c)
    BY DEF UpgradesBehave, CallbackCloses, UpgradeFails
  <2> QED
    BY <1>3, <2>1, <2>2, <2>3, <2>4, <2>5 DEF Browser
<1> QED
  BY <1>1, <1>2, <1>3 DEF Next

(* No call panics: an abort is always the callback's own, and its Err is    *)
(* what the caller gets.  Whatever methods are called, and though futures   *)
(* and databases are dropped at any moment.                                 *)
THEOREM NoCallPanics ==
  ASSUME UpgradesBehave
  PROVE  Spec => []NeverPanics
<1>1. Init => AbortInv
  BY DEF Init, AbortInv, Upgrading
<1>2. Spec => []AbortInv
  BY <1>1, AbortStep, OpenInvariant, PTL DEF Spec
<1>3. AbortInv => NeverPanics
  BY DEF AbortInv, NeverPanics
<1> QED
  BY <1>2, <1>3, PTL

----------------------------------------------------------------------------
(* Calls are awaited to their end, and databases closed.                    *)
CallsAreAwaited == "leak" \notin Usage /\ "cancel" \notin Usage

(* A connection belongs to a holder, to a call that will return it, or to   *)
(* the running upgrade.                                                     *)
ConnectionInv ==
  /\ \A c \in Clients : phase[c] \notin {"cancelled", "leaked"}
  /\ \A c \in connections :
       \/ Holding(c)
       \/ phase[c] = "waiting" /\ ask[c].op # "delete"
            /\ (event[c] = "success" \/ (event[c] = "none" /\ Upgrading(c)))

LEMMA ConnectionStep ==
  ASSUME CallsAreAwaited, OpenInv, ConnectionInv, [Next]_vars
  PROVE  ConnectionInv'
<1>1. CASE UNCHANGED vars
  BY <1>1 DEF vars, ConnectionInv, Holding, Upgrading
<1>2. ASSUME NEW c \in Clients, ClientStep(c)
      PROVE  ConnectionInv'
  <2>1. ASSUME NEW op \in {"open", "latest", "delete"}, NEW v \in Versions,
               phase[c] = "idle", Send(c, op, v)
        PROVE  ConnectionInv'
    <3>1. c \notin Queued /\ c \notin connections
      BY <2>1 DEF OpenInv, QueueInv, ConnectionInv, Holding
    <3>2. queue' # << >> /\ (queue # << >> => Head(queue)' = Head(queue))
      BY <2>1, <3>1, Pushed DEF OpenInv, QueueInv, Send
    <3>3. \A d \in Clients : Upgrading(d) => Upgrading(d)'
      BY <2>1, <3>2 DEF Upgrading, Send
    <3> QED
      BY <2>1, <3>1, <3>3 DEF OpenInv, TypeOK, ConnectionInv, Holding, Send
  <2>2. CASE OpenLatestVersion(c) \/ DeleteDatabase(c) \/ \E v \in Versions \ {0} : Open(c, v)
    BY <2>1, <2>2, MaxVersionAssumption DEF OpenLatestVersion, DeleteDatabase, Open
  <2>3. CASE Open(c, 0) \/ IntoManualClose(c)
    <3>1. /\ UNCHANGED << ask, event, queue, connections, store >>
          /\ \A d \in Clients \ {c} : phase'[d] = phase[d]
          /\ phase'[c] \in {"err", "manual"} /\ phase[c] # "waiting" /\ (Holding(c) => Holding(c)')
      BY <2>3 DEF OpenInv, TypeOK, Open, RefusedZero, IntoManualClose, Holding
    <3>2. \A d \in Clients : /\ Holding(d) => Holding(d)'
                             /\ Upgrading(d) => Upgrading(d)'
                             /\ phase[d] = "waiting" => phase'[d] = "waiting"
                             /\ phase'[d] \in {phase[d], "err", "manual"}
      BY <3>1 DEF Holding, Upgrading
    <3>3. connections \subseteq Clients
      BY DEF OpenInv, TypeOK
    <3> QED
      BY <3>1, <3>2, <3>3 DEF ConnectionInv
  <2>4. CASE Resume(c)
    <3>1. /\ event[c] # "none" /\ phase[c] = "waiting"
          /\ phase' = [phase EXCEPT ![c] = Answer(c)] /\ event' = [event EXCEPT ![c] = "none"]
          /\ UNCHANGED << ask, queue, connections, store >>
      BY <2>4 DEF Resume, Completed
    <3>2. /\ Answer(c) \in {"owned", "manual", "err", "panicked", "done"}
          /\ c \in connections => Answer(c) \in {"owned", "manual"}
      BY <3>1, AnswerIsAClient DEF OpenInv, TypeOK, ResultInv, ConnectionInv, Holding
    <3> QED
      BY <3>1, <3>2 DEF OpenInv, TypeOK, ConnectionInv, Holding, Upgrading
  <2>5. CASE Close(c) \/ Proceed(c)
    <3>1. /\ Leaves(c) /\ connections' \in {connections, connections \ {c}}
          /\ c \notin connections' /\ UNCHANGED << event, queue, store >>
      BY <2>5 DEF Close, Closed, Proceed, ConnectionInv, Holding
    <3> QED
      BY <3>1 DEF OpenInv, TypeOK, ConnectionInv, Holding, Upgrading, Leaves
  <2>6. ~Cancel(c) /\ ~Orphaned(c) /\ ~Leak(c) /\ ~Collect(c)
    BY DEF CallsAreAwaited, ConnectionInv, Cancel, Orphaned, Leak, Collect
  <2> QED
    BY <1>2, <2>2, <2>3, <2>4, <2>5, <2>6 DEF ClientStep
<1>3. ASSUME NEW c \in Clients, Browser(c)
      PROVE  ConnectionInv'
  <2>1. /\ queue # << >> /\ c = Head(queue) /\ UNCHANGED << phase, ask >>
        /\ phase[c] = "waiting" /\ event[c] = "none"
    <3>1. queue # << >> /\ c = Head(queue) /\ UNCHANGED << phase, ask >>
      BY <1>3
      DEF Browser, BrowserOpens, BrowserRefuses, BrowserDeletes, BrowserUpgrades, CallbackDecides,
          NobodyDecides, OrphanRefuses, CallbackCloses, UpgradeCommits, UpgradeFails, UpgradeEnds,
          Serves, Upgrading
    <3> QED
      BY <3>1, HeadIsQueued DEF OpenInv, QueueInv, ConnectionInv
  <2>2. CASE BrowserOpens(c) \/ BrowserRefuses(c) \/ BrowserDeletes(c)
    <3>1. store = "none" /\ store' = "none" /\ c \notin connections
      BY <2>1, <2>2
      DEF ConnectionInv, Holding, Upgrading, BrowserOpens, BrowserRefuses, BrowserDeletes, Serves
    <3>2. /\ \A d \in Clients \ {c} : event'[d] = event[d]
          /\ connections' \subseteq connections \cup {c}
          /\ c \in connections' => event'[c] = "success" /\ ask[c].op # "delete"
      BY <2>2, <3>1
      DEF OpenInv, TypeOK, BrowserOpens, BrowserRefuses, BrowserDeletes, Fire
    <3> QED
      BY <2>1, <3>1, <3>2 DEF OpenInv, TypeOK, ConnectionInv, Holding, Upgrading
  <2>3. CASE \/ BrowserUpgrades(c) \/ CallbackDecides(c) \/ NobodyDecides(c) \/ OrphanRefuses(c)
             \/ CallbackCloses(c) \/ UpgradeCommits(c) \/ UpgradeFails(c)
    <3>1. /\ UNCHANGED << event, queue >> /\ store' # "none"
          /\ connections' \subseteq {c} /\ ask[c].op # "delete"
      BY <2>1, <2>3
      DEF OpenInv, UpgradeInv, BrowserUpgrades, CallbackDecides, NobodyDecides, OrphanRefuses,
          CallbackCloses, Closed, UpgradeCommits, UpgradeFails, Upgrading,
          Upgrade!Open, Upgrade!Accept, Upgrade!Refuse, Upgrade!Commit
    <3> QED
      BY <2>1, <3>1 DEF ConnectionInv, Upgrading
  <2>4. CASE UpgradeEnds(c)
    <3>1. /\ connections' \subseteq {c} /\ ask[c].op # "delete"
          /\ c \in connections' => event'[c] = "success"
      BY <2>1, <2>4 DEF OpenInv, TypeOK, UpgradeInv, UpgradeEnds, Upgrading, Fire
    <3> QED
      BY <2>1, <3>1 DEF ConnectionInv
  <2> QED
    BY <1>3, <2>2, <2>3, <2>4 DEF Browser
<1> QED
  BY <1>1, <1>2, <1>3 DEF Next

(* Every open connection belongs to a client that can still close it,       *)
(* whatever upgrade callbacks and the browser do.                           *)
THEOREM ConnectionsAreOwned ==
  ASSUME CallsAreAwaited
  PROVE  Spec => []NoOrphanedConnection
<1>1. Init => ConnectionInv
  BY DEF Init, ConnectionInv
<1>2. Spec => []ConnectionInv
  BY <1>1, ConnectionStep, OpenInvariant, PTL DEF Spec
<1>3. ConnectionInv => NoOrphanedConnection
  BY DEF ConnectionInv, NoOrphanedConnection
<1> QED
  BY <1>2, <1>3, PTL
============================================================================
