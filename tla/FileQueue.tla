----------------------------- MODULE FileQueue -----------------------------
(***************************************************************************)
(* What the per-file download queue (table file_downloads) promises to the *)
(* rest of the pipeline, whatever the walker, the drain protocol and the   *)
(* directory rows do around it:                                            *)
(*   - a file enters the queue once, and is claimed only while queued;     *)
(*   - only the worker that holds a file decides how it ends;              *)
(*   - a verdict (synced or failed) is final: so the code has it, and      *)
(*     README.md:168; README.md:125 has failed files reset by the walk;    *)
(*   - a claim whose worker died, or never heard of it, can be taken back, *)
(*     but only while no worker holds anything: a live download is never   *)
(*     handed out twice.                                                   *)
(* MediaSync implements this specification (MediaSync!QueueSpec).          *)
(***************************************************************************)
EXTENDS Naturals

CONSTANTS Files,    \* the files of every directory
          Workers,  \* the downloader slots
          None      \* "no file"

VARIABLES state,    \* state[f]: the state column of f's row, "none" before it has one
          holds     \* holds[w]: the file worker w has claimed and not yet settled

qvars == <<state, holds>>

QTypeOK ==
  /\ state \in [Files -> {"none", "detected", "downloading", "synced", "failed"}]
  /\ holds \in [Workers -> Files \cup {None}]

QInit ==
  /\ state = [f \in Files |-> "none"]
  /\ holds = [w \in Workers |-> None]

\* New files are queued, one by one by the walker or several by the backfill.
Track(F) ==
  /\ \A f \in F : state[f] = "none"
  /\ state' = [f \in Files |-> IF f \in F THEN "detected" ELSE state[f]]
  /\ UNCHANGED holds

Claim(w, f) ==
  /\ holds[w] = None
  /\ state[f] = "detected"
  /\ state' = [state EXCEPT ![f] = "downloading"]
  /\ holds' = [holds EXCEPT ![w] = f]

\* A claim is recorded whose answer never reaches its worker.
Strand(f) ==
  /\ state[f] = "detected"
  /\ state' = [state EXCEPT ![f] = "downloading"]
  /\ UNCHANGED holds

Settle(w, verdict) ==
  /\ holds[w] # None
  /\ state' = [state EXCEPT ![holds[w]] = verdict]
  /\ holds' = [holds EXCEPT ![w] = None]

\* The workers in W die, and leave their rows in "downloading".
Lose(W) ==
  /\ holds' = [w \in Workers |-> IF w \in W THEN None ELSE holds[w]]
  /\ UNCHANGED state

\* Orphaned claims go back to the queue; nobody is downloading at that time.
Recover(F) ==
  /\ \A w \in Workers : holds[w] = None
  /\ \A f \in F : state[f] = "downloading"
  /\ state' = [f \in Files |-> IF f \in F THEN "detected" ELSE state[f]]
  /\ UNCHANGED holds

QNext ==
  \/ \E F \in SUBSET Files : Track(F) \/ Recover(F)
  \/ \E w \in Workers : \/ \E f \in Files : Claim(w, f)
                        \/ \E verdict \in {"synced", "failed"} : Settle(w, verdict)
  \/ \E f \in Files : Strand(f)
  \/ \E W \in SUBSET Workers : Lose(W)

QSpec == QInit /\ [][QNext]_qvars
=============================================================================
