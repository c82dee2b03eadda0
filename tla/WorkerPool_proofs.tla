-------------------------- MODULE WorkerPool_proofs --------------------------
(***************************************************************************)
(* Proofs about WorkerPool: a row has one owner, the result of the handle  *)
(* is true, and the pool implements a phase of the cascade, for any number *)
(* of slots, rows and faults.                                              *)
(***************************************************************************)
EXTENDS WorkerPool, TLAPS

\* A slot holds a row from its claim to the verdict, or for ever if it has failed.
HoldInv ==
  \A s \in Slots :
    /\ pc[s] \in {"process", "publish", "fail"} => claimed[s] # None
    /\ claimed[s] # None => pc[s] \in {"process", "publish", "fail"} \/ s \in failed
    /\ s \in failed => pc[s] = "ended"

\* A slot that has ended without an error has seen the signal and no claimable row,
\* and after the signal no row arrives.
DrainInv ==
  /\ signal => called
  /\ \A s \in Slots : pc[s] = "ended" /\ s \notin failed => called /\ Claimable = {}

\* A row that has failed has ended the slot it failed in.
FailInv == (\E r \in Rows : row[r] = "failure_state") => failed # {}

\* A slot ends in error over a row: it still holds it, or the row has failed.
ErrorInv ==
  failed # {} => \/ \E r \in Rows : row[r] = "failure_state"
                 \/ \E s \in failed : claimed[s] # None

\* The handle resolves when every slot has ended, with the errors there are then.
ResultInv ==
  /\ agg = "resolved" => /\ \A s \in Slots : pc[s] = "ended"
                         /\ result = IF failed = {} THEN "ok" ELSE "err"
  /\ result # "none" => agg = "resolved"

IInv == TypeOK /\ OneOwner /\ HoldInv /\ DrainInv /\ FailInv /\ ErrorInv /\ ResultInv
-----------------------------------------------------------------------------
LEMMA TypeStep == ASSUME TypeOK, [Next]_vars PROVE TypeOK'
<1> USE DEF TypeOK, Goto, Fault
<1>1. CASE spawn BY <1>1 DEF spawn
<1>2. CASE signal_drain BY <1>2 DEF signal_drain
<1>3. CASE Resolve BY <1>3 DEF Resolve
<1>4. ASSUME NEW s \in Slots, StartSlot(s) PROVE TypeOK'
  BY <1>4 DEF StartSlot
<1>5. ASSUME NEW s \in Slots, SlotStep(s) PROVE TypeOK'
  <2>1. CASE DrainCheck(s) BY <2>1 DEF DrainCheck
  <2>2. CASE Claim(s) BY <2>2 DEF Claim, Claimable
  <2>3. CASE Process(s) BY <2>3 DEF Process
  <2>4. CASE Panic(s) BY <2>4 DEF Panic, EndInError
  <2>5. CASE Publish(s) BY <2>5 DEF Publish, EndInError
  <2>6. CASE PublishFailure(s) BY <2>6 DEF PublishFailure, EndInError
  <2> QED BY <1>5, <2>1, <2>2, <2>3, <2>4, <2>5, <2>6 DEF SlotStep
<1>6. ASSUME NEW r \in Rows, Arrive(r) PROVE TypeOK'
  BY <1>6 DEF Arrive
<1>7. CASE UNCHANGED vars BY <1>7 DEF vars
<1> QED BY <1>1, <1>2, <1>3, <1>4, <1>5, <1>6, <1>7 DEF Next

LEMMA HoldStep == ASSUME IInv, [Next]_vars PROVE HoldInv'
<1> USE DEF IInv, TypeOK, HoldInv, Goto
<1>1. CASE spawn \/ signal_drain \/ Resolve
  BY <1>1 DEF spawn, signal_drain, Resolve
<1>4. ASSUME NEW s \in Slots, StartSlot(s) PROVE HoldInv'
  BY <1>4 DEF StartSlot
<1>5. ASSUME NEW s \in Slots, SlotStep(s) PROVE HoldInv'
  <2>1. CASE DrainCheck(s) BY <2>1 DEF DrainCheck
  <2>2. CASE Claim(s) BY <2>2, PoolAssumption DEF Claim, Claimable
  <2>3. CASE Process(s) BY <2>3 DEF Process
  <2>4. CASE Panic(s) BY <2>4 DEF Panic, EndInError
  <2>5. CASE Publish(s) BY <2>5 DEF Publish, EndInError
  <2>6. CASE PublishFailure(s) BY <2>6 DEF PublishFailure, EndInError
  <2> QED BY <1>5, <2>1, <2>2, <2>3, <2>4, <2>5, <2>6 DEF SlotStep
<1>6. ASSUME NEW r \in Rows, Arrive(r) PROVE HoldInv'
  BY <1>6 DEF Arrive
<1>7. CASE UNCHANGED vars BY <1>7 DEF vars
<1> QED BY <1>1, <1>4, <1>5, <1>6, <1>7 DEF Next

LEMMA OwnerStep == ASSUME IInv, [Next]_vars PROVE OneOwner'
<1> USE DEF IInv, TypeOK, HoldInv, OneOwner, Goto
<1>1. CASE spawn \/ signal_drain \/ Resolve
  BY <1>1 DEF spawn, signal_drain, Resolve
<1>4. ASSUME NEW s \in Slots, StartSlot(s) PROVE OneOwner'
  BY <1>4 DEF StartSlot
<1>5. ASSUME NEW s \in Slots, SlotStep(s) PROVE OneOwner'
  <2>1. CASE DrainCheck(s) BY <2>1 DEF DrainCheck
  <2>2. CASE Claim(s)
    <3>1. CASE UNCHANGED <<row, claimed>> BY <3>1
    <3>2. ASSUME NEW r \in Claimable,
                 row' = [row EXCEPT ![r] = "in_flight"],
                 claimed' = [claimed EXCEPT ![s] = r],
                 pc[s] = "claim"
          PROVE OneOwner'
      <4>1. claimed[s] = None BY <3>2
      <4>2. r \in Rows /\ row[r] = "claim_state" BY <3>2 DEF Claimable
      <4>3. \A t \in Slots : claimed[t] # r BY <4>2, PoolAssumption
      <4> QED BY <3>2, <4>1, <4>2, <4>3, PoolAssumption
    <3> QED BY <2>2, <3>1, <3>2 DEF Claim
  <2>3. CASE Process(s) BY <2>3 DEF Process
  <2>4. CASE Panic(s) BY <2>4 DEF Panic, EndInError
  <2>5. CASE Publish(s) BY <2>5, PoolAssumption DEF Publish, EndInError
  <2>6. CASE PublishFailure(s) BY <2>6, PoolAssumption DEF PublishFailure, EndInError
  <2> QED BY <1>5, <2>1, <2>2, <2>3, <2>4, <2>5, <2>6 DEF SlotStep
<1>6. ASSUME NEW r \in Rows, Arrive(r) PROVE OneOwner'
  BY <1>6 DEF Arrive
<1>7. CASE UNCHANGED vars BY <1>7 DEF vars
<1> QED BY <1>1, <1>4, <1>5, <1>6, <1>7 DEF Next

LEMMA DrainStep == ASSUME IInv, [Next]_vars PROVE DrainInv'
<1> USE DEF IInv, TypeOK, HoldInv, DrainInv, Claimable, Goto
<1>1. CASE spawn \/ signal_drain \/ Resolve
  BY <1>1 DEF spawn, signal_drain, Resolve
<1>4. ASSUME NEW s \in Slots, StartSlot(s) PROVE DrainInv'
  BY <1>4 DEF StartSlot
<1>5. ASSUME NEW s \in Slots, SlotStep(s) PROVE DrainInv'
  <2>1. CASE DrainCheck(s) BY <2>1 DEF DrainCheck
  <2>2. CASE Claim(s) BY <2>2 DEF Claim
  <2>3. CASE Process(s) BY <2>3 DEF Process
  <2>4. CASE Panic(s) BY <2>4 DEF Panic, EndInError
  <2>5. CASE Publish(s) BY <2>5 DEF Publish, EndInError
  <2>6. CASE PublishFailure(s) BY <2>6 DEF PublishFailure, EndInError
  <2> QED BY <1>5, <2>1, <2>2, <2>3, <2>4, <2>5, <2>6 DEF SlotStep
<1>6. ASSUME NEW r \in Rows, Arrive(r) PROVE DrainInv'
  BY <1>6 DEF Arrive
<1>7. CASE UNCHANGED vars BY <1>7 DEF vars
<1> QED BY <1>1, <1>4, <1>5, <1>6, <1>7 DEF Next

LEMMA FailStep == ASSUME IInv, [Next]_vars PROVE FailInv'
<1> USE DEF IInv, TypeOK, FailInv, Goto
<1>1. CASE spawn \/ signal_drain \/ Resolve
  BY <1>1 DEF spawn, signal_drain, Resolve
<1>4. ASSUME NEW s \in Slots, StartSlot(s) PROVE FailInv'
  BY <1>4 DEF StartSlot
<1>5. ASSUME NEW s \in Slots, SlotStep(s) PROVE FailInv'
  <2>1. CASE DrainCheck(s) BY <2>1 DEF DrainCheck
  <2>2. CASE Claim(s) BY <2>2 DEF Claim
  <2>3. CASE Process(s) BY <2>3 DEF Process
  <2>4. CASE Panic(s) BY <2>4 DEF Panic, EndInError
  <2>5. CASE Publish(s) BY <2>5 DEF Publish, EndInError
  <2>6. CASE PublishFailure(s) BY <2>6 DEF PublishFailure, EndInError
  <2> QED BY <1>5, <2>1, <2>2, <2>3, <2>4, <2>5, <2>6 DEF SlotStep
<1>6. ASSUME NEW r \in Rows, Arrive(r) PROVE FailInv'
  BY <1>6 DEF Arrive
<1>7. CASE UNCHANGED vars BY <1>7 DEF vars
<1> QED BY <1>1, <1>4, <1>5, <1>6, <1>7 DEF Next

LEMMA ErrorStep == ASSUME IInv, [Next]_vars PROVE ErrorInv'
<1> USE DEF IInv, TypeOK, HoldInv, OneOwner, ErrorInv, Goto
<1>1. CASE spawn \/ signal_drain \/ Resolve
  BY <1>1 DEF spawn, signal_drain, Resolve
<1>4. ASSUME NEW s \in Slots, StartSlot(s) PROVE ErrorInv'
  BY <1>4 DEF StartSlot
<1>5. ASSUME NEW s \in Slots, SlotStep(s) PROVE ErrorInv'
  <2>1. CASE DrainCheck(s) BY <2>1 DEF DrainCheck
  <2>2. CASE Claim(s) BY <2>2 DEF Claim, Claimable
  <2>3. CASE Process(s) BY <2>3 DEF Process
  <2>4. CASE Panic(s) BY <2>4 DEF Panic, EndInError
  <2>5. CASE Publish(s) BY <2>5 DEF Publish, EndInError
  <2>6. CASE PublishFailure(s) BY <2>6 DEF PublishFailure, EndInError
  <2> QED BY <1>5, <2>1, <2>2, <2>3, <2>4, <2>5, <2>6 DEF SlotStep
<1>6. ASSUME NEW r \in Rows, Arrive(r) PROVE ErrorInv'
  BY <1>6 DEF Arrive
<1>7. CASE UNCHANGED vars BY <1>7 DEF vars
<1> QED BY <1>1, <1>4, <1>5, <1>6, <1>7 DEF Next

LEMMA ResultStep == ASSUME IInv, [Next]_vars PROVE ResultInv'
<1> USE DEF IInv, TypeOK, ResultInv, Goto
<1>1. CASE spawn \/ signal_drain \/ Resolve
  BY <1>1 DEF spawn, signal_drain, Resolve
<1>4. ASSUME NEW s \in Slots, StartSlot(s) PROVE ResultInv'
  BY <1>4 DEF StartSlot
<1>5. ASSUME NEW s \in Slots, SlotStep(s) PROVE ResultInv'
  \* A slot that takes a step has not ended: the handle has not resolved.
  <2>1. agg # "resolved" /\ agg' = agg /\ result' = result
    BY <1>5 DEF SlotStep, DrainCheck, Claim, Process, Panic, Publish, PublishFailure
  <2> QED BY <2>1
<1>6. ASSUME NEW r \in Rows, Arrive(r) PROVE ResultInv'
  BY <1>6 DEF Arrive
<1>7. CASE UNCHANGED vars BY <1>7 DEF vars
<1> QED BY <1>1, <1>4, <1>5, <1>6, <1>7 DEF Next

LEMMA Inductive == Spec => []IInv
<1>1. Init => IInv
  <2> SUFFICES ASSUME Init PROVE IInv
    OBVIOUS
  <2>1. TypeOK BY DEF Init, TypeOK
  <2>2. OneOwner BY DEF Init, OneOwner
  <2>3. HoldInv BY DEF Init, HoldInv
  <2>4. DrainInv BY DEF Init, DrainInv
  <2>5. FailInv BY DEF Init, FailInv
  <2>6. ErrorInv BY DEF Init, ErrorInv
  <2>7. ResultInv BY DEF Init, ResultInv
  <2> QED BY <2>1, <2>2, <2>3, <2>4, <2>5, <2>6, <2>7 DEF IInv
<1>2. IInv /\ [Next]_vars => IInv'
  BY TypeStep, HoldStep, OwnerStep, DrainStep, FailStep, ErrorStep, ResultStep DEF IInv
<1> QED BY <1>1, <1>2, PTL DEF Spec

\* The state of a pool is well typed: worker_pool.rs.
THEOREM TypeCorrect == Spec => []TypeOK
<1>1. IInv => TypeOK BY DEF IInv
<1> QED BY <1>1, Inductive, PTL

\* No two slots process one row, and a row in flight is held by one: the claims of
\* worker_loop.
THEOREM RowsHaveOneOwner == Spec => []OneOwner
<1>1. IInv => OneOwner BY DEF IInv
<1> QED BY <1>1, Inductive, PTL

\* What the handle of spawn resolves with is true of the rows: with Ok none is left behind,
\* although every slot makes the drain check of worker_loop for itself; with Err one has
\* failed, or a dead slot holds it.
THEOREM ResultTellsTruth == Spec => []ResultIsTrue
<1>1. IInv => ResultIsTrue
  <2> SUFFICES ASSUME IInv, agg = "resolved" PROVE ResultIsTrue
    BY DEF ResultIsTrue
  <2>1. CASE failed # {}
    <3>1. \E r \in Rows : row[r] \in {"in_flight", "failure_state"}
      BY <2>1 DEF IInv, ErrorInv, OneOwner, TypeOK
    <3> QED BY <2>1, <3>1 DEF IInv, ResultInv, ResultIsTrue
  <2>2. CASE failed = {}
    <3>1. Claimable = {}
      BY <2>2, PoolAssumption DEF IInv, ResultInv, DrainInv
    <3>2. ASSUME NEW r \in Rows PROVE row[r] \notin {"in_flight", "failure_state"}
      BY <2>2, PoolAssumption DEF IInv, ResultInv, OneOwner, HoldInv, FailInv
    <3> QED BY <2>2, <3>1, <3>2 DEF IInv, TypeOK, Claimable, ResultInv, ResultIsTrue
  <2> QED BY <2>1, <2>2
<1> QED BY <1>1, Inductive, PTL
-----------------------------------------------------------------------------
(* The phase that the pool implements.                                     *)

LEMMA StageOf ==
  ASSUME TypeOK, NEW r \in Rows
  PROVE  /\ Stage[r] = "none" <=> row[r] = "upstream"
         /\ Stage[r] = "detected" <=> row[r] = "claim_state"
         /\ Stage[r] = "downloading" <=> row[r] = "in_flight"
         /\ Stage[r] = "synced" <=> row[r] = "success_state"
         /\ Stage[r] = "failed" <=> row[r] = "failure_state"
BY DEF Stage, TypeOK

LEMMA SlotPhaseStep ==
  ASSUME IInv, NEW s \in Slots, SlotStep(s)
  PROVE  Cascade!Work(s) \/ UNCHANGED <<Stage, Holds, result>>
<1> USE DEF IInv, Goto
<1>1. pc[s] # "ended" /\ UNCHANGED result
  BY DEF SlotStep, DrainCheck, Claim, Process, Panic, Publish, PublishFailure, TypeOK
<1>2. result = "none" BY <1>1 DEF ResultInv, TypeOK
<1>3. CASE DrainCheck(s)
  BY <1>1, <1>3 DEF DrainCheck, Stage, Holds, TypeOK
<1>4. CASE Claim(s)
  <2>1. CASE pc' = [pc EXCEPT ![s] = "top"] /\ UNCHANGED <<row, claimed>>
    BY <1>1, <1>4, <2>1 DEF Claim, Stage, Holds, TypeOK
  <2>2. ASSUME NEW r \in Claimable, row' = [row EXCEPT ![r] = "in_flight"],
               claimed' = [claimed EXCEPT ![s] = r], pc' = [pc EXCEPT ![s] = "process"]
        PROVE  Cascade!Work(s)
    <3>1. r \in Rows /\ Stage[r] = "detected" BY StageOf DEF Claimable
    <3>2. Stage' = [Stage EXCEPT ![r] = "downloading"]
      BY <2>2, <3>1 DEF Stage, TypeOK
    <3>3. Holds[s] = None /\ Holds' = [Holds EXCEPT ![s] = r]
      BY <1>4, <2>2 DEF Claim, Holds, TypeOK
    <3> QED BY <1>1, <1>2, <3>1, <3>2, <3>3 DEF Cascade!Work, Cascade!Claim
  <2> QED BY <1>4, <2>1, <2>2 DEF Claim
<1>5. CASE Process(s)
  BY <1>1, <1>5 DEF Process, Stage, Holds, TypeOK
<1>6. CASE /\ pc[s] \in {"process", "publish", "fail"} /\ pc' = [pc EXCEPT ![s] = "ended"]
           /\ UNCHANGED <<row, claimed>>
  <2>1. Stage' = Stage BY <1>6 DEF Stage
  <2>2. Holds' = [w \in Slots |-> IF w \in {s} THEN None ELSE Holds[w]]
    BY <1>1, <1>6 DEF Holds, TypeOK
  <2> QED BY <1>1, <1>2, <2>1, <2>2 DEF Cascade!Work, Cascade!Lose
<1>7. ASSUME NEW verdict \in {"success_state", "failure_state"}, NEW step \in {"top", "ended"},
             pc[s] \in {"publish", "fail"}, pc' = [pc EXCEPT ![s] = step],
             row' = [row EXCEPT ![claimed[s]] = verdict],
             claimed' = [claimed EXCEPT ![s] = None]
      PROVE  Cascade!Work(s)
  <2>1. Holds[s] = claimed[s] /\ claimed[s] \in Rows
    BY <1>7 DEF Holds, HoldInv, TypeOK
  <2>2. Holds[s] # None BY <2>1, PoolAssumption
  <2>3. Holds' = [Holds EXCEPT ![s] = None]
    BY <1>1, <1>7 DEF Holds, TypeOK
  <2>4. PICK settled \in {"synced", "failed"} : Stage' = [Stage EXCEPT ![claimed[s]] = settled]
    BY <1>7, <2>1 DEF Stage, TypeOK
  <2> QED BY <1>1, <1>2, <2>1, <2>2, <2>3, <2>4 DEF Cascade!Work, Cascade!Settle
<1> QED BY <1>3, <1>4, <1>5, <1>6, <1>7 DEF SlotStep, Panic, Publish, PublishFailure, EndInError

\* When the handle resolves with an error a row has been given up, otherwise none is left.
LEMMA ResolvePhaseStep == ASSUME IInv, Resolve PROVE Cascade!End
<1> USE DEF IInv
<1>1. /\ UNCHANGED <<row, pc, claimed>> /\ \A s \in Slots : pc[s] = "ended"
      /\ result = "none" /\ result' = IF failed = {} THEN "ok" ELSE "err"
  BY DEF Resolve, ResultInv
<1>2. UNCHANGED <<Stage, Holds>> /\ \A s \in Slots : Holds[s] = None
  BY <1>1 DEF Stage, Holds
<1>3. CASE failed # {}
  <2>1. PICK r \in Rows : row[r] \in {"in_flight", "failure_state"}
    BY <1>3 DEF ErrorInv, OneOwner, TypeOK
  <2>2. r \in Cascade!GivenUp BY <2>1, StageOf DEF Cascade!GivenUp
  <2> QED BY <1>1, <1>2, <1>3, <2>2 DEF Cascade!End, Cascade!qvars
<1>4. CASE failed = {}
  <2>1. ASSUME NEW r \in Rows PROVE row[r] \in {"upstream", "success_state"}
    BY <1>1, <1>4, PoolAssumption
       DEF TypeOK, DrainInv, Claimable, OneOwner, HoldInv, FailInv
  <2>2. \A r \in Rows : Stage[r] \in {"none", "synced"} BY <2>1, StageOf
  <2> QED BY <1>1, <1>2, <1>4, <2>2 DEF Cascade!End, Cascade!qvars
<1> QED BY <1>3, <1>4

\* A row arrives before the drain is signalled, hence before an Ok.
LEMMA ArrivePhaseStep ==
  ASSUME IInv, NEW r \in Rows, Arrive(r) PROVE Cascade!Enter({r})
<1> USE DEF IInv
<1>1. result # "ok"
  BY PoolAssumption DEF Arrive, ResultInv, DrainInv
<1>2. Stage[r] = "none" BY StageOf DEF Arrive
<1>3. Stage' = [q \in Rows |-> IF q \in {r} THEN "detected" ELSE Stage[q]]
  BY DEF Arrive, Stage, TypeOK
<1>4. UNCHANGED <<Holds, result>> BY DEF Arrive, Holds
<1> QED BY <1>1, <1>2, <1>3, <1>4 DEF Cascade!Enter, Cascade!Track

LEMMA PhaseStep == IInv /\ [Next]_vars => [Cascade!PNext]_(Cascade!pvars)
<1> SUFFICES ASSUME IInv, [Next]_vars
             PROVE  Cascade!PNext \/ UNCHANGED <<Stage, Holds, result>>
  BY DEF Cascade!pvars, Cascade!qvars
<1>1. CASE spawn \/ signal_drain
  BY <1>1 DEF spawn, signal_drain, Stage, Holds
<1>2. CASE Resolve BY <1>2, ResolvePhaseStep DEF Cascade!PNext
<1>3. ASSUME NEW s \in Slots, StartSlot(s) PROVE UNCHANGED <<Stage, Holds, result>>
  BY <1>3 DEF StartSlot, Goto, Stage, Holds, IInv, TypeOK
<1>4. ASSUME NEW s \in Slots, SlotStep(s)
      PROVE  Cascade!PNext \/ UNCHANGED <<Stage, Holds, result>>
  BY <1>4, SlotPhaseStep DEF Cascade!PNext
<1>5. ASSUME NEW r \in Rows, Arrive(r) PROVE Cascade!PNext
  <2>1. {r} \in SUBSET Rows OBVIOUS
  <2> QED BY <1>5, <2>1, ArrivePhaseStep DEF Cascade!PNext
<1>6. CASE UNCHANGED vars BY <1>6 DEF vars, Stage, Holds
<1> QED BY <1>1, <1>2, <1>3, <1>4, <1>5, <1>6 DEF Next

\* The generic pool of worker_pool.rs is a phase of the cascade: its rows are a queue, its
\* handle resolves with an error exactly if a row was given up, and a pool that has been
\* joined claims and settles nothing.
THEOREM ImplementsPhase == Spec => PhaseSpec
<1>1. Init => Cascade!PInit
  BY DEF Init, Stage, Holds, Cascade!PInit, Cascade!QInit
<1>2. IInv /\ [Next]_vars => [Cascade!PNext]_(Cascade!pvars)
  BY PhaseStep
<1> QED BY <1>1, <1>2, Inductive, PTL DEF Spec, PhaseSpec, Cascade!PSpec
=============================================================================
