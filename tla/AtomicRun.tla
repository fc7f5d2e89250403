----------------------------- MODULE AtomicRun -----------------------------
(***************************************************************************)
(* What `TransactionBuilder::run` promises (README, doc of `run`): the      *)
(* callback decides once; a transaction commits after an Ok and only then,  *)
(* is aborted in the same instant as any other decision, and the caller is  *)
(* told what was decided, if it still waits.                                *)
(***************************************************************************)
VARIABLES
  decision,   \* what was decided; "failed": it ended without a result, by a
              \* forbidden await, a panic, the caller or the browser
  store,      \* what became of the transaction in the database
  answer      \* what the caller of `run` got

atomicVars == << decision, store, answer >>

AtomicInit == decision = "none" /\ store = "none" /\ answer = "none"

Reject ==
  /\ store = "none" /\ answer = "none"
  /\ answer' = "err"
  /\ UNCHANGED << decision, store >>

Open ==
  /\ store = "none" /\ answer = "none"
  /\ store' = "open"
  /\ UNCHANGED << decision, answer >>

Accept ==
  /\ store = "open" /\ decision = "none"
  /\ decision' = "Ok"
  /\ UNCHANGED << store, answer >>

Refuse ==
  /\ store = "open" /\ decision = "none"
  /\ decision' \in {"Err", "failed"}
  /\ store' = "aborted"
  /\ UNCHANGED answer

Commit ==
  /\ store = "open" /\ decision = "Ok"
  /\ store' = "committed"
  /\ UNCHANGED << decision, answer >>

Verdict == CASE decision = "Ok"     -> "ok"
             [] decision = "Err"    -> "err"
             [] decision = "failed" -> "panicked"

Tell ==
  /\ answer = "none" /\ decision # "none"
  /\ answer' = Verdict
  /\ UNCHANGED << decision, store >>

(* A panic of the first poll passes through the caller itself.              *)
Crash ==
  /\ store = "open" /\ decision = "none" /\ answer = "none"
  /\ decision' = "failed" /\ store' = "aborted" /\ answer' = "panicked"

(* The caller stops waiting.                                                *)
Abandon ==
  /\ store # "none" /\ answer = "none"
  /\ answer' = "cancelled"
  /\ UNCHANGED << decision, store >>

AtomicNext == Reject \/ Open \/ Accept \/ Refuse \/ Commit \/ Tell \/ Crash \/ Abandon

(* Once decided, the effect and the answer both follow.                     *)
AtomicSpec ==
  /\ AtomicInit /\ [][AtomicNext]_atomicVars
  /\ WF_atomicVars(Commit) /\ WF_atomicVars(Tell)
============================================================================
