-------------------------------- MODULE Phase --------------------------------
(***************************************************************************)
(* What a phase of the cascade promises to the main task, which waits for  *)
(* the handle of its pool before it signals the next phase: a queue of     *)
(* rows, as in FileQueue, that comes to an end.                            *)
(*   - The handle resolves once. With Ok no row is left over, and none     *)
(*     comes later. It resolves with Err exactly when the phase has given  *)
(*     up on a row: one that failed, or that a dead worker left in flight. *)
(*   - After that the phase claims nothing and settles nothing.            *)
(* WorkerPool implements this specification (WorkerPool!PhaseSpec).        *)
(***************************************************************************)
EXTENDS FileQueue

VARIABLE outcome   \* of the handle: "none", "ok" or "err"

pvars == <<qvars, outcome>>

PInit == QInit /\ outcome = "none"

\* Rows come from upstream, which is drained first: none after an Ok.
Enter(F) ==
  /\ outcome # "ok"
  /\ Track(F)
  /\ UNCHANGED outcome

\* Worker w claims a row, settles it or dies.
Work(w) ==
  /\ outcome = "none"
  /\ \/ \E f \in Files : Claim(w, f)
     \/ \E verdict \in {"synced", "failed"} : Settle(w, verdict)
     \/ Lose({w})
  /\ UNCHANGED outcome

GivenUp == {f \in Files : state[f] \in {"downloading", "failed"}}

\* The handle resolves; nobody holds a row then.
End ==
  /\ outcome = "none"
  /\ \A w \in Workers : holds[w] = None
  /\ \/ GivenUp # {} /\ outcome' = "err"
     \/ \A f \in Files : state[f] \in {"none", "synced"}
        /\ outcome' = "ok"
  /\ UNCHANGED qvars

PNext ==
  \/ \E F \in SUBSET Files : Enter(F)
  \/ \E w \in Workers : Work(w)
  \/ End

PSpec == PInit /\ [][PNext]_pvars
=============================================================================
