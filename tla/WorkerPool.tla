----------------------------- MODULE WorkerPool -----------------------------
(***************************************************************************)
(* worker_pool.rs: the generic pool every phase runs in. spawn starts an   *)
(* aggregator task; it subscribes to the drain channel and starts one      *)
(* worker_loop per slot; each loop checks the drain, claims a row,         *)
(* processes it and publishes the verdict; the aggregator joins the slots  *)
(* and resolves the pool's handle with the first error.                    *)
(*                                                                         *)
(* The module is about one pool and the rows of the states it moves:       *)
(* "upstream" stands for every state before claim_state, the others for    *)
(* the four states a Worker names. The tokio watch channel is modelled     *)
(* from how it is used here: `send` stores the value only while a receiver *)
(* exists, a slot owns one receiver from its spawn to its end. The sleeps  *)
(* between two polls are left out: a parked slot may always look again.    *)
(* No Worker overrides handles_own_completion, so the loop always          *)
(* publishes. Module MediaSync composes two such pools over real rows.     *)
(***************************************************************************)
EXTENDS Naturals

CONSTANTS Slots,      \* the workers the pool was built with
          Rows,       \* the directories
          None,       \* "no row"
          MaxFaults   \* bound on failing calls, failing rows and panics

ASSUME PoolAssumption ==
  /\ Slots # {}
  /\ None \notin Rows
  /\ MaxFaults \in Nat

VARIABLES
  row,      \* row[r]: "upstream" or one of the Worker's four states
  called,   \* signal_drain has been called
  signal,   \* the value in the watch channel
  agg,      \* the aggregator: "built", "spawned", "waiting", "resolved"
  result,   \* what the handle resolved with
  pc,       \* pc[s]: where slot s is
  claimed,  \* claimed[s]: the row slot s works on
  failed,   \* slots whose task ended with Err or by a panic
  faults    \* what MaxFaults bounds

vars == <<row, called, signal, agg, result, pc, claimed, failed, faults>>

Alive == {s \in Slots : pc[s] \in {"top", "claim", "process", "publish", "fail"}}

Claimable == {r \in Rows : row[r] = "claim_state"}

Init ==
  /\ row = [r \in Rows |-> "upstream"]
  /\ called = FALSE /\ signal = FALSE
  /\ agg = "built" /\ result = "none"
  /\ pc = [s \in Slots |-> "unborn"]
  /\ claimed = [s \in Slots |-> None]
  /\ failed = {}
  /\ faults = 0

\* Something fails: one fault less to come.
Fault == faults < MaxFaults /\ faults' = faults + 1

Goto(s, step) == pc' = [pc EXCEPT ![s] = step]
-----------------------------------------------------------------------------
(* The pool.                                                               *)

spawn ==
  /\ agg = "built"
  /\ agg' = "spawned"
  /\ UNCHANGED <<row, called, signal, result, pc, claimed, failed, faults>>

\* The aggregator task subscribes for one slot and starts it.
StartSlot(s) ==
  /\ agg = "spawned"
  /\ pc[s] = "unborn"
  /\ Goto(s, "top")
  /\ agg' = IF \A t \in Slots \ {s} : pc[t] # "unborn" THEN "waiting" ELSE agg
  /\ UNCHANGED <<row, called, signal, result, claimed, failed, faults>>

\* watch::Sender::send: without a receiver the value is not even stored.
signal_drain ==
  /\ agg # "built"
  /\ called' = TRUE
  /\ signal' = (signal \/ Alive # {})
  /\ UNCHANGED <<row, agg, result, pc, claimed, failed, faults>>

\* Mistake: the first slot to end resolves the handle.
ResolveAtFirst ==
  /\ agg = "waiting"
  /\ \E s \in Slots : pc[s] = "ended"
  /\ agg' = "resolved"
  /\ result' = IF failed = {} THEN "ok" ELSE "err"
  /\ UNCHANGED <<row, called, signal, pc, claimed, failed, faults>>

\* join_next has returned every slot; the first error is the pool's.
Resolve ==
  /\ agg = "waiting"
  /\ \A s \in Slots : pc[s] = "ended"
  /\ agg' = "resolved"
  /\ result' = IF failed = {} THEN "ok" ELSE "err"
  /\ UNCHANGED <<row, called, signal, pc, claimed, failed, faults>>
-----------------------------------------------------------------------------
(* worker_loop.                                                            *)

\* Mistake: rows in flight count as remaining: the slots wait for each other's.
DrainCheckInFlight(s) ==
  /\ pc[s] = "top"
  /\ Goto(s, IF signal /\ \A r \in Rows : row[r] \notin {"claim_state", "in_flight"}
             THEN "ended" ELSE "claim")
  /\ UNCHANGED <<row, called, signal, agg, result, claimed, failed, faults>>

\* Mistake: a failing count ends the slot with its error.
DrainCheckHalts(s) ==
  /\ pc[s] = "top"
  /\ \/ /\ Goto(s, IF signal /\ Claimable = {} THEN "ended" ELSE "claim")
        /\ UNCHANGED <<failed, faults>>
     \/ /\ signal /\ Fault
        /\ Goto(s, "ended") /\ failed' = failed \cup {s}
  /\ UNCHANGED <<row, called, signal, agg, result, claimed>>

\* Signalled, and count_remaining is 0: the slot ends. A failing count is taken
\* for work pending.
DrainCheck(s) ==
  /\ pc[s] = "top"
  /\ \/ /\ Goto(s, IF signal /\ Claimable = {} THEN "ended" ELSE "claim")
        /\ UNCHANGED faults
     \/ /\ signal /\ Fault
        /\ Goto(s, "claim")
  /\ UNCHANGED <<row, called, signal, agg, result, claimed, failed>>

\* Mistake: the claim reads the row and leaves it for others to read.
ClaimBySelect(s) ==
  /\ pc[s] = "claim"
  /\ \/ /\ \E r \in Claimable : claimed' = [claimed EXCEPT ![s] = r]
        /\ Goto(s, "process")
     \/ /\ Claimable = {}
        /\ Goto(s, "top")
        /\ UNCHANGED claimed
  /\ UNCHANGED <<row, called, signal, agg, result, failed, faults>>

\* Mistake: the row is marked with a state the schema does not have.
ClaimUnknownState(s) ==
  /\ pc[s] = "claim"
  /\ \E r \in Claimable :
       /\ row' = [row EXCEPT ![r] = "claimed"]
       /\ claimed' = [claimed EXCEPT ![s] = r]
  /\ Goto(s, "process")
  /\ UNCHANGED <<called, signal, agg, result, failed, faults>>

\* One row goes in flight, or there is none, or the call fails: then the slot
\* comes back after the poll interval.
Claim(s) ==
  /\ pc[s] = "claim"
  /\ \/ /\ \E r \in Claimable :
             /\ row' = [row EXCEPT ![r] = "in_flight"]
             /\ claimed' = [claimed EXCEPT ![s] = r]
        /\ Goto(s, "process")
        /\ UNCHANGED faults
     \/ /\ \/ Claimable = {} /\ UNCHANGED faults
           \/ Fault
        /\ Goto(s, "top")
        /\ UNCHANGED <<row, claimed>>
  /\ UNCHANGED <<called, signal, agg, result, failed>>

Process(s) ==
  /\ pc[s] = "process"
  /\ \/ Goto(s, "publish") /\ UNCHANGED faults
     \/ Goto(s, "fail") /\ Fault
  /\ UNCHANGED <<row, called, signal, agg, result, claimed, failed>>

\* The task of s ends by Err or by a panic: it drops its receiver.
EndInError(s) ==
  /\ Goto(s, "ended")
  /\ failed' = failed \cup {s}

\* process panics.
Panic(s) ==
  /\ pc[s] = "process"
  /\ Fault
  /\ EndInError(s)
  /\ UNCHANGED <<row, called, signal, agg, result, claimed>>

\* process returned Ok: the row succeeds, unless the call itself fails.
Publish(s) ==
  /\ pc[s] = "publish"
  /\ \/ /\ row' = [row EXCEPT ![claimed[s]] = "success_state"]
        /\ claimed' = [claimed EXCEPT ![s] = None]
        /\ Goto(s, "top")
        /\ UNCHANGED <<failed, faults>>
     \/ /\ Fault
        /\ EndInError(s)
        /\ UNCHANGED <<row, claimed>>
  /\ UNCHANGED <<called, signal, agg, result>>

\* Mistake: a slot whose row failed goes on, and forgets the error.
SwallowFailure(s) ==
  /\ pc[s] = "fail"
  /\ row' = [row EXCEPT ![claimed[s]] = "failure_state"]
  /\ claimed' = [claimed EXCEPT ![s] = None]
  /\ Goto(s, "top")
  /\ UNCHANGED <<called, signal, agg, result, failed, faults>>

\* process returned Err: the row fails if that call works; the slot halts.
PublishFailure(s) ==
  /\ pc[s] = "fail"
  /\ \/ /\ row' = [row EXCEPT ![claimed[s]] = "failure_state"]
        /\ claimed' = [claimed EXCEPT ![s] = None]
        /\ UNCHANGED faults
     \/ Fault /\ UNCHANGED <<row, claimed>>
  /\ EndInError(s)
  /\ UNCHANGED <<called, signal, agg, result>>

SlotStep(s) ==
  \/ DrainCheck(s) \/ Claim(s) \/ Process(s) \/ Panic(s)
  \/ Publish(s) \/ PublishFailure(s)
-----------------------------------------------------------------------------
(* The upstream phase: in the cascade it is drained before the signal.     *)

Arrive(r) ==
  /\ row[r] = "upstream"
  /\ ~called
  /\ row' = [row EXCEPT ![r] = "claim_state"]
  /\ UNCHANGED <<called, signal, agg, result, pc, claimed, failed, faults>>

Next ==
  \/ spawn \/ signal_drain \/ Resolve
  \/ \E s \in Slots : StartSlot(s) \/ SlotStep(s)
  \/ \E r \in Rows : Arrive(r)

Spec == Init /\ [][Next]_vars

\* The runtime runs every task that is ready.
FairSpec ==
  /\ Spec
  /\ WF_vars(Resolve)
  /\ \A s \in Slots : WF_vars(StartSlot(s)) /\ WF_vars(SlotStep(s))
-----------------------------------------------------------------------------
TypeOK ==
  /\ row \in [Rows -> {"upstream", "claim_state", "in_flight",
                       "success_state", "failure_state"}]
  /\ called \in BOOLEAN /\ signal \in BOOLEAN
  /\ agg \in {"built", "spawned", "waiting", "resolved"}
  /\ result \in {"none", "ok", "err"}
  /\ pc \in [Slots -> {"unborn", "top", "claim", "process", "publish", "fail", "ended"}]
  /\ claimed \in [Slots -> Rows \cup {None}]
  /\ failed \subseteq Slots
  /\ faults \in Nat

\* A row in flight has exactly one owner, alive or dead: no two slots process
\* it, and a live owner finds it in flight when it publishes.
OneOwner ==
  /\ \A s \in Slots : claimed[s] # None => row[claimed[s]] = "in_flight"
  /\ \A s, t \in Slots : claimed[s] # None /\ claimed[s] = claimed[t] => s = t
  /\ \A r \in Rows : row[r] = "in_flight" => \E s \in Slots : claimed[s] = r

\* The result of the handle is true. Ok means drained: every row that reached the pool has
\* succeeded, none is left claimable, in flight or failed, however the slots' last counts,
\* claims and ends were interleaved. Err means a row the pool gave up on (failed, or in
\* flight with its owner gone): no failure is lost, and none is made up.
ResultIsTrue ==
  agg = "resolved" =>
    \/ result = "ok" /\ \A r \in Rows : row[r] \in {"upstream", "success_state"}
    \/ result = "err" /\ \E r \in Rows : row[r] \in {"in_flight", "failure_state"}

\* The rows in the words of module FileQueue, and the row each live slot works on.
Stage ==
  [r \in Rows |-> CASE row[r] = "upstream"      -> "none"
                    [] row[r] = "claim_state"   -> "detected"
                    [] row[r] = "in_flight"     -> "downloading"
                    [] row[r] = "success_state" -> "synced"
                    [] OTHER                    -> "failed"]

Holds ==
  [s \in Slots |-> IF pc[s] \in {"process", "publish", "fail"} THEN claimed[s] ELSE None]

\* The pool implements a phase of the cascade.
Cascade == INSTANCE Phase WITH
             Files <- Rows, Workers <- Slots, state <- Stage, holds <- Holds, outcome <- result

\* What the main task relies on when it has joined the pool: a row is settled only by
\* the slot that holds it and for good; the handle resolves with Err exactly if a row was
\* given up; from then on no slot touches a row, whatever still happens upstream.
PhaseSpec == Cascade!PSpec

\* A drain signal that is in the channel is obeyed: the handle resolves.
DrainEnds == signal ~> agg = "resolved"
=============================================================================
