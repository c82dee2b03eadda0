---------------------------- MODULE Session_proofs ---------------------------
(***************************************************************************)
(* Proofs about Session: what an outage costs a retry budget, for any      *)
(* number of slots, retries, directories and outages.                      *)
(***************************************************************************)
EXTENDS Session, FiniteSetTheorems, TLAPS

N == Cardinality(Clients)

\* What the outages so far may have cost an operation.
Allowance == N * outages

Retried == {"download", "list", "collect"}

\* The clients on their way to replacing the transport.
Replacing == {c \in Clients : pc[c] \in {"wantReconnect", "connect"}}

\* Would a channel on transport t work for c?
WorksOn(c, t) == alive /\ IF t = Own THEN own[c] /\ transport = 1 ELSE t = transport

\* The attempts of c that may still fail though nothing else goes wrong: one on the
\* channel it has, and one for each client that may replace the transport under it,
\* which after an outage may be all the others.
Ahead(c) ==
  IF alive
  THEN Cardinality(Replacing \ {c}) +
       (IF pc[c] = "try" /\ ~WorksOn(c, channel[c]) THEN 1 ELSE 0)
  ELSE IF pc[c] \in {"try", "open"} THEN N ELSE N - 1

TypeInv ==
  /\ TypeOK
  /\ outages \in Nat /\ faults \in Nat /\ outages + faults <= MaxEvents
  /\ op[walker] \in {"none", "list", "collect", "hash"}
  /\ \A s \in Slots : op[s] \in {"none", "stat", "download"}
  /\ \A c \in Clients : op[c] \notin Retried => pc[c] = "try"

\* A channel is on a transport there has been, or a fault has broken it.
ChannelInv ==
  \A c \in Clients :
    /\ channel[c] \in 0..transport \cup {Broken}
    /\ channel[c] = Broken \/ ~own[c] => faults > 0

\* Each outage makes each client replace the transport once at most.
TransportInv ==
  transport - 1 + (IF alive THEN Cardinality(Replacing) ELSE N) <= Allowance

\* What an operation has spent, and may still have to, is within the allowance.
BudgetInv ==
  ~refused /\ Unreadable = {} =>
  \A c \in Clients : op[c] \in Retried => attempt[c] + Ahead(c) <= Allowance + faults

IInv == TypeInv /\ ChannelInv /\ TransportInv /\ BudgetInv /\ BudgetOutlivesRecovery
-----------------------------------------------------------------------------
(* Facts about the numbers.                                                *)

LEMMA Clients_N == IsFiniteSet(Clients) /\ N \in Nat /\ N >= 1 /\ walker \in Clients
<1>1. IsFiniteSet(Slots) /\ walker \notin Slots BY SessionAssumption
<1>2. IsFiniteSet(Clients) /\ N = Cardinality(Slots) + 1
  BY <1>1, FS_AddElement DEF Clients, N
<1>3. Cardinality(Slots) \in Nat BY <1>1, FS_CardinalityType
<1> QED BY <1>2, <1>3 DEF Clients

\* How many clients replace the transport, c left aside.
LEMMA ReplacingFacts ==
  ASSUME NEW c \in Clients
  PROVE  /\ Cardinality(Replacing) \in 0..N /\ Cardinality(Replacing \ {c}) \in 0..N - 1
         /\ Cardinality(Replacing \ {c}) <= Cardinality(Replacing)
         /\ c \in Replacing => Cardinality(Replacing \ {c}) = Cardinality(Replacing) - 1
<1>1. Replacing \subseteq Clients BY DEF Replacing
<1>2. IsFiniteSet(Replacing) /\ Cardinality(Replacing) <= N
  BY <1>1, Clients_N, FS_Subset DEF N
<1>3. Cardinality(Replacing) \in Nat BY <1>2, FS_CardinalityType
<1>4. /\ IsFiniteSet(Replacing \ {c})
      /\ Cardinality(Replacing \ {c}) =
           IF c \in Replacing THEN Cardinality(Replacing) - 1 ELSE Cardinality(Replacing)
  BY <1>2, FS_RemoveElement
<1>5. Cardinality(Replacing \ {c}) \in Nat BY <1>4, FS_CardinalityType
<1>6. IsFiniteSet(Clients \ {c}) /\ Cardinality(Clients \ {c}) = N - 1
  BY Clients_N, FS_RemoveElement DEF N
<1>7. Cardinality(Replacing \ {c}) <= N - 1
  <2>1. Replacing \ {c} \in SUBSET (Clients \ {c}) BY <1>1
  <2> QED BY <2>1, <1>6, FS_Subset
<1> QED BY <1>2, <1>3, <1>4, <1>5, <1>7, Clients_N

LEMMA AheadNat == ASSUME NEW c \in Clients PROVE Ahead(c) \in Nat
BY ReplacingFacts, Clients_N DEF Ahead

LEMMA Times == ASSUME NEW n \in Nat, NEW a \in Nat, NEW b \in Nat, a <= b
               PROVE  n * a \in Nat /\ n * b \in Nat /\ n * a <= n * b /\ n * (a + 1) = n * a + n
<1>1. b - a \in Nat /\ b = a + (b - a) OBVIOUS
<1>2. n * b = n * a + n * (b - a) BY <1>1
<1>3. n * (b - a) \in Nat /\ n * a \in Nat /\ n * b \in Nat BY <1>1
<1> QED BY <1>2, <1>3

LEMMA AllowanceFacts ==
  ASSUME TypeInv
  PROVE  Allowance \in Nat /\ Allowance + 2 <= Broken /\ Broken \in Nat
<1>1. outages \in Nat /\ MaxEvents \in Nat /\ outages <= MaxEvents
  BY SessionAssumption DEF TypeInv
<1>2. N * outages \in Nat /\ N * MaxEvents \in Nat /\ N * outages <= N * MaxEvents
  BY <1>1, Clients_N, Times
<1>3. Broken = 1 + N * MaxEvents + 1 BY DEF Broken, N
<1> QED BY <1>2, <1>3 DEF Allowance

LEMMA BudgetFacts ==
  BudgetOutlivesRecovery <=>
    (Allowance + faults <= MaxRetries /\ ~refused /\ Unreadable = {} => spent = {})
BY DEF BudgetOutlivesRecovery, Allowance, N

\* The channel of a client that is about to try: if it does not work, something has
\* happened that pays for the attempt.
LEMMA Fresh ==
  ASSUME TypeInv, ChannelInv, TransportInv, NEW c \in Clients, pc[c] = "try",
         NEW t \in {Own, channel[c]}
  PROVE  IF alive
         THEN Cardinality(Replacing \ {c}) + (IF WorksOn(c, t) THEN 0 ELSE 1)
                <= Allowance + faults
         ELSE N <= Allowance + faults
<1> DEFINE R == Cardinality(Replacing)
           O == Cardinality(Replacing \ {c})
<1>1. R \in Nat /\ O \in Nat /\ O <= R BY ReplacingFacts, Clients_N
<1>2. /\ transport \in Nat /\ transport >= 1 /\ faults \in Nat /\ Allowance \in Nat
      /\ alive \in BOOLEAN
  BY AllowanceFacts DEF TypeInv, TypeOK
<1>3. CASE ~alive BY <1>2, <1>3, Clients_N DEF TransportInv
<1>4. CASE alive
  <2>1. transport - 1 + R <= Allowance BY <1>4 DEF TransportInv
  <2>2. WorksOn(c, t) \/ transport > 1 \/ faults > 0
    BY <1>2, <1>4 DEF WorksOn, ChannelInv, Own
  <2> HIDE DEF R, O
  <2>3. O + (IF WorksOn(c, t) THEN 0 ELSE 1) <= Allowance + faults
    BY <1>1, <1>2, <2>1, <2>2
  <2> QED BY <1>4, <2>3 DEF O
<1> QED BY <1>2, <1>3, <1>4
-----------------------------------------------------------------------------
(* The steps, by what they do to the budgets.                              *)

\* c begins an operation, or ends one.
LEMMA BeginStep ==
  ASSUME IInv, NEW c \in Clients, NEW what, pc[c] = "try", Begin(c, what),
         UNCHANGED <<conn, own, ghost, outages, faults>>,
         channel' \in {channel, [channel EXCEPT ![c] = Own]}
  PROVE  ChannelInv' /\ TransportInv' /\ BudgetInv' /\ BudgetOutlivesRecovery'
<1> USE DEF IInv
<1>1. /\ pc' = pc /\ Replacing' = Replacing /\ Allowance' = Allowance
      /\ UNCHANGED <<transport, alive, own, spent, refused, faults>>
      /\ attempt \in [Clients -> 0..MaxRetries] /\ channel \in [Clients -> 0..Broken]
      /\ op \in [Clients -> {"none", "stat", "download", "list", "collect", "hash"}]
      /\ transport \in Nat
  BY DEF Begin, Replacing, Allowance, conn, ghost, TypeInv, TypeOK
<1>2. ChannelInv' BY <1>1 DEF ChannelInv, Own
<1>3. TransportInv' BY <1>1 DEF TransportInv
<1>4. BudgetInv'
  <2> SUFFICES ASSUME ~refused, Unreadable = {}, NEW e \in Clients, op'[e] \in Retried
               PROVE  attempt'[e] + Ahead(e)' <= Allowance + faults
    BY <1>1 DEF BudgetInv
  <2>1. CASE e = c
    <3>1. attempt'[c] = 0 BY <1>1 DEF Begin
    <3>2. channel'[c] \in {Own, channel[c]} BY <1>1
    <3>3. WorksOn(c, channel[c])' <=> WorksOn(c, channel'[c]) BY <1>1 DEF WorksOn
    <3>4. Ahead(c)' = IF alive
                      THEN Cardinality(Replacing \ {c}) +
                             (IF WorksOn(c, channel'[c]) THEN 0 ELSE 1)
                      ELSE N
      BY <1>1, <3>3 DEF Ahead
    <3>5. Ahead(c)' \in Nat BY <3>4, ReplacingFacts, Clients_N
    <3>6. Ahead(c)' <= Allowance + faults BY <3>2, <3>4, Fresh
    <3> QED BY <2>1, <3>1, <3>5, <3>6
  <2>2. CASE e # c
    <3>1. op'[e] = op[e] /\ attempt'[e] = attempt[e] /\ channel'[e] = channel[e]
      BY <1>1, <2>2 DEF Begin
    <3>2. Ahead(e)' = Ahead(e) BY <1>1, <3>1 DEF Ahead, WorksOn
    <3> QED BY <3>1, <3>2 DEF BudgetInv
  <2> QED BY <2>1, <2>2
<1>5. BudgetOutlivesRecovery'
  BY <1>1 DEF BudgetOutlivesRecovery, ghost
<1> QED BY <1>2, <1>3, <1>4, <1>5

LEMMA Apart == walker \notin Slots /\ None \notin Clients /\ MaxRetries \in Nat /\ 0 \in 0..MaxRetries
BY SessionAssumption

LEMMA ProcessStep == ASSUME IInv, NEW s \in Slots, process(s) PROVE IInv'
<1> USE DEF IInv
<1>1. /\ s \in Clients /\ s # walker /\ pc[s] = "try" /\ Begin(s, "stat")
      /\ UNCHANGED <<conn, holder, own, dir, todo, ghost, outages, faults>>
      /\ channel' = [channel EXCEPT ![s] = Own]
  BY Apart DEF process, Clients, TypeInv, Retried
<1>2. 0 \in 0..Broken BY AllowanceFacts
<1>3. TypeInv' BY <1>1, <1>2, Apart DEF TypeInv, TypeOK, Begin, conn, ghost, Own, Retried
<1> QED BY <1>1, <1>3, BeginStep

LEMMA StatStep == ASSUME IInv, NEW s \in Slots, Stat(s) PROVE IInv'
<1> USE DEF IInv
<1>1. PICK what \in {"download", "none"} : Begin(s, what) BY DEF Stat
<1>2. /\ s \in Clients /\ s # walker /\ pc[s] = "try"
      /\ UNCHANGED <<conn, holder, own, channel, dir, todo, ghost, outages, faults>>
  BY Apart DEF Stat, Clients, TypeInv, Retried, work
<1>3. TypeInv' BY <1>1, <1>2, Apart DEF TypeInv, TypeOK, Begin, conn, ghost, Retried
<1> QED BY <1>1, <1>2, <1>3, BeginStep

LEMMA SyncStep == ASSUME IInv, sync_category PROVE IInv'
<1> USE DEF IInv
<1>1. /\ walker \in Clients /\ walker \notin Slots /\ pc[walker] = "try" /\ Begin(walker, "list")
      /\ UNCHANGED <<conn, holder, own, dir, todo, ghost, outages, faults>>
      /\ channel' = [channel EXCEPT ![walker] = Own]
  BY Apart DEF sync_category, Clients, TypeInv, Retried
<1>2. 0 \in 0..Broken BY AllowanceFacts
<1>3. TypeInv' BY <1>1, <1>2, Apart DEF TypeInv, TypeOK, Begin, conn, ghost, Own, Retried
<1> QED BY <1>1, <1>3, BeginStep

\* The walker goes on to a directory, or has none left.
LEMMA NextDirStep ==
  ASSUME IInv, NEW left \in SUBSET Dirs, NextDir(left), pc[walker] = "try",
         UNCHANGED <<conn, holder, own, channel, ghost, outages, faults>>
  PROVE  IInv'
<1> USE DEF IInv
<1>1. PICK what \in {"collect", "none"} : Begin(walker, what) BY DEF NextDir
<1>2. dir' \in Dirs \cup {None} /\ todo' \subseteq Dirs BY DEF NextDir
<1>3. walker \in Clients /\ walker \notin Slots BY Clients_N, Apart
<1>4. TypeInv' BY <1>1, <1>2, <1>3, Apart DEF TypeInv, TypeOK, Begin, conn, ghost, Retried
<1> QED BY <1>1, <1>3, <1>4, BeginStep

LEMMA HashStep == ASSUME IInv, collect_remote_hashes PROVE IInv'
<1>1. pc[walker] = "try" /\ todo \in SUBSET Dirs
  BY Clients_N DEF collect_remote_hashes, IInv, TypeInv, TypeOK, Retried
<1> QED BY <1>1, NextDirStep DEF collect_remote_hashes

LEMMA SucceedStep == ASSUME IInv, NEW c \in Clients, Succeed(c) PROVE IInv'
<1> USE DEF IInv
<1>0. /\ UNCHANGED <<conn, holder, own, channel, ghost, outages, faults>> /\ pc[c] = "try"
      /\ c = walker \/ (c \in Slots /\ c # walker)
  BY Apart DEF Succeed, Clients
<1>1. CASE op[c] = "download" /\ Begin(c, "none") /\ UNCHANGED <<dir, todo>>
  <2>1. TypeInv' BY <1>0, <1>1, Apart DEF TypeInv, TypeOK, Begin, conn, ghost, Retried
  <2> QED BY <1>0, <1>1, <2>1, BeginStep
<1>2. CASE op[c] = "list" /\ NextDir(Dirs)
  <2>1. c = walker BY <1>0, <1>2 DEF TypeInv
  <2> QED BY <1>0, <1>2, <2>1, NextDirStep
<1>3. CASE op[c] = "collect" /\ Begin(c, "hash") /\ UNCHANGED <<dir, todo>>
  <2>1. c = walker BY <1>0, <1>3 DEF TypeInv
  <2>2. TypeInv' BY <1>0, <1>3, <2>1, Apart DEF TypeInv, TypeOK, Begin, conn, ghost, Retried
  <2> QED BY <1>0, <1>3, <2>2, BeginStep
<1> QED BY <1>1, <1>2, <1>3 DEF Succeed

\* An attempt fails: what it costs c is one less ahead of it, or one more fault. Only
\* a budget smaller than the allowance is spent.
LEMMA FailStep == ASSUME IInv, NEW c \in Clients, Fail(c) PROVE IInv'
<1> USE DEF IInv
<1>0. /\ UNCHANGED <<conn, holder, files, categories, refused, outages>>
      /\ pc[c] = "try" /\ op[c] \in Retried
      /\ attempt \in [Clients -> 0..MaxRetries] /\ MaxRetries \in Nat
      /\ op \in [Clients -> {"none", "stat", "download", "list", "collect", "hash"}]
      /\ pc \in [Clients -> {"try", "wantReopen", "reopen", "wantReconnect", "connect", "open"}]
      /\ channel \in [Clients -> 0..Broken] /\ own \in [Clients -> BOOLEAN] /\ faults \in Nat
  BY Apart DEF Fail, Retried, TypeInv, TypeOK
<1>1. \/ /\ ~WorksOn(c, channel[c]) \/ (op[c] = "collect" /\ dir \in Unreadable)
         /\ UNCHANGED <<own, channel, faults>>
      \/ /\ outages + faults < MaxEvents /\ faults' = faults + 1
         /\ own' \in {own, [own EXCEPT ![c] = FALSE]}
         /\ channel' \in {channel, [channel EXCEPT ![c] = Broken]}
  BY DEF Fail, Works, WorksOn
<1>2. \/ /\ attempt[c] < MaxRetries /\ attempt' = [attempt EXCEPT ![c] = @ + 1]
         /\ pc' = [pc EXCEPT ![c] = "wantReopen"] /\ UNCHANGED <<op, dir, todo, spent>>
      \/ /\ attempt[c] = MaxRetries /\ spent' = spent \cup {c} /\ UNCHANGED <<pc, dir, todo>>
         /\ \/ Begin(c, "none")
            \/ UNCHANGED task
  BY DEF Fail, Failed, GiveUp, Begin, task
<1>3. /\ Replacing' = Replacing /\ Allowance' = Allowance /\ faults' \in {faults, faults + 1}
      /\ UNCHANGED <<transport, alive, refused>>
      /\ \A e \in Clients \ {c} : /\ op'[e] = op[e] /\ pc'[e] = pc[e] /\ attempt'[e] = attempt[e]
                                  /\ own'[e] = own[e] /\ channel'[e] = channel[e]
  BY <1>0, <1>1, <1>2 DEF Replacing, Allowance, conn, Begin, task
<1>4. Broken \in Nat /\ Allowance \in Nat BY AllowanceFacts
<1>5. TypeInv'
  <2>1. channel' \in [Clients -> 0..Broken] /\ own' \in [Clients -> BOOLEAN]
    <3>1. Broken \in 0..Broken BY <1>4
    <3>2. [channel EXCEPT ![c] = Broken] \in [Clients -> 0..Broken] BY <1>0, <3>1
    <3>3. [own EXCEPT ![c] = FALSE] \in [Clients -> BOOLEAN] BY <1>0
    <3> QED BY <1>0, <1>1, <3>2, <3>3
  <2>2. /\ attempt' \in [Clients -> 0..MaxRetries]
        /\ op' \in [Clients -> {"none", "stat", "download", "list", "collect", "hash"}]
        /\ pc' \in [Clients -> {"try", "wantReopen", "reopen", "wantReconnect", "connect", "open"}]
        /\ pc'[c] \in {"try", "wantReopen"} /\ op'[c] \in {op[c], "none"}
        /\ op'[c] \notin Retried => pc'[c] = "try"
    BY <1>0, <1>2 DEF Begin, task
  <2>3. TypeOK' BY <1>0, <1>2, <1>3, <2>1, <2>2 DEF TypeInv, TypeOK, conn
  <2>4. outages' \in Nat /\ faults' \in Nat /\ outages' + faults' <= MaxEvents
    BY <1>0, <1>1, SessionAssumption DEF TypeInv
  <2> QED BY <1>3, <2>2, <2>3, <2>4, Clients_N DEF TypeInv, Clients
<1>6. ChannelInv' BY <1>0, <1>1, <1>3 DEF ChannelInv, conn
<1>7. TransportInv' BY <1>3 DEF TransportInv
<1>8. ASSUME ~refused, Unreadable = {}
      PROVE  attempt[c] + 1 + (IF alive THEN Cardinality(Replacing \ {c}) ELSE N - 1)
               <= Allowance + faults'
  <2>1. attempt[c] + Ahead(c) <= Allowance + faults BY <1>0, <1>8 DEF BudgetInv
  <2>2. attempt[c] \in Nat /\ Cardinality(Replacing \ {c}) \in Nat /\ N \in Nat
    BY <1>0, ReplacingFacts, Clients_N
  <2>3. faults' = faults + 1 \/ (faults' = faults /\ ~WorksOn(c, channel[c])) BY <1>1, <1>8
  <2> QED BY <1>0, <1>4, <2>1, <2>2, <2>3 DEF Ahead
<1>9. BudgetInv'
  <2> SUFFICES ASSUME ~refused, Unreadable = {}, NEW e \in Clients, op'[e] \in Retried
               PROVE  attempt'[e] + Ahead(e)' <= Allowance + faults'
    BY <1>3 DEF BudgetInv
  <2>0. attempt[e] \in Nat /\ Cardinality(Replacing \ {e}) \in Nat /\ N \in Nat /\ N >= 1
    BY <1>0, ReplacingFacts, Clients_N
  <2>1. CASE e # c
    <3>1. Ahead(e)' = Ahead(e) BY <1>3, <2>1 DEF Ahead, WorksOn
    <3>2. attempt[e] + Ahead(e) <= Allowance + faults BY <1>3, <2>1 DEF BudgetInv
    <3>3. Ahead(e) \in Nat BY <2>0 DEF Ahead
    <3>4. attempt'[e] = attempt[e] /\ faults <= faults' /\ faults' \in Nat
      BY <1>0, <1>3, <2>1
    <3> QED BY <1>0, <1>4, <2>0, <3>1, <3>2, <3>3, <3>4
  <2>2. CASE e = c /\ attempt'[c] = attempt[c] + 1 /\ pc'[c] = "wantReopen"
    <3>1. Ahead(c)' = IF alive THEN Cardinality(Replacing \ {c}) ELSE N - 1
      BY <1>3, <2>0, <2>2 DEF Ahead
    <3> QED BY <1>8, <2>0, <2>2, <3>1
  <2>3. CASE e = c /\ UNCHANGED task
    <3>1. Ahead(c)' <= (IF alive THEN Cardinality(Replacing \ {c}) ELSE N - 1) + 1
      BY <1>3, <2>0, <2>3 DEF Ahead, task
    <3>2. Ahead(c)' \in Nat BY <1>3, <2>0, <2>3 DEF Ahead, task
    <3>3. attempt'[e] = attempt[c] /\ faults' \in Nat BY <1>0, <1>3, <2>3 DEF task
    <3> QED BY <1>4, <1>8, <2>0, <2>3, <3>1, <3>2, <3>3
  <2> QED BY <1>0, <1>2, <2>1, <2>2, <2>3 DEF Begin, Retried
<1>10. BudgetOutlivesRecovery'
  <2>1. PICK f \in Nat : faults' = f /\ faults <= f BY <1>0, <1>3
  <2> SUFFICES ASSUME Allowance + f <= MaxRetries, ~refused, Unreadable = {}
               PROVE  spent' = {}
    BY <1>3, <2>1, BudgetFacts DEF BudgetOutlivesRecovery, Allowance, N
  <2>2. spent = {}
    <3>1. Allowance + faults <= MaxRetries BY <1>0, <1>4, <2>1
    <3> QED BY <3>1, BudgetFacts
  <2>3. attempt[c] < MaxRetries
    <3>1. attempt[c] \in Nat /\ Cardinality(Replacing \ {c}) \in Nat /\ N \in Nat /\ N >= 1
      BY <1>0, ReplacingFacts, Clients_N
    <3> QED BY <1>0, <1>4, <1>8, <2>1, <3>1
  <2> QED BY <1>0, <1>2, <2>2, <2>3
<1> QED BY <1>5, <1>6, <1>7, <1>9, <1>10

\* A step of a recovery, or of the network, that costs no attempt: nobody has more
\* ahead after it.
LEMMA RecoveryStep ==
  ASSUME IInv, UNCHANGED <<op, attempt, spent, outages, faults>>,
         refused' = refused \/ refused' = TRUE,
         \A e \in Clients : Ahead(e)' \in Nat /\ Ahead(e)' <= Ahead(e)
  PROVE  BudgetInv' /\ BudgetOutlivesRecovery'
<1> USE DEF IInv
<1>1. Allowance \in Nat /\ Allowance' = Allowance BY AllowanceFacts DEF Allowance
<1>2. faults \in Nat /\ attempt \in [Clients -> 0..MaxRetries] /\ MaxRetries \in Nat
  BY Apart DEF TypeInv, TypeOK
<1>3. \A e \in Clients : Ahead(e) \in Nat BY AheadNat
<1>4. BudgetInv'
  <2> SUFFICES ASSUME ~refused, Unreadable = {}, NEW e \in Clients, op[e] \in Retried
               PROVE  attempt[e] + Ahead(e)' <= Allowance + faults
    BY <1>1 DEF BudgetInv
  <2>1. attempt[e] + Ahead(e) <= Allowance + faults BY DEF BudgetInv
  <2>2. attempt[e] \in Nat BY <1>2
  <2>3. PICK a \in Nat : Ahead(e)' = a /\ a <= Ahead(e) OBVIOUS
  <2> QED BY <1>1, <1>2, <1>3, <2>1, <2>2, <2>3
<1>5. BudgetOutlivesRecovery' BY DEF BudgetOutlivesRecovery
<1> QED BY <1>4, <1>5

\* The place of c in the recovery.
LEMMA GotoFacts ==
  ASSUME IInv, NEW c \in Clients, pc[c] # "try", holder' \in Clients \cup {None},
         NEW step \in {"try", "reopen", "wantReconnect", "connect", "open"}, Goto(c, step),
         UNCHANGED <<reachable, own, work, spent, outages, faults>>,
         transport' \in 1..Broken - 1, alive' \in BOOLEAN, channel' \in [Clients -> 0..Broken],
         \A e \in Clients : holder' = e <=> pc'[e] \in {"reopen", "connect", "open"}
  PROVE  /\ TypeInv'
         /\ UNCHANGED <<op, attempt>> /\ pc' = [pc EXCEPT ![c] = step] /\ Allowance' = Allowance
         /\ step \in {"wantReconnect", "connect"} => Replacing' = Replacing \cup {c}
         /\ step \notin {"wantReconnect", "connect"} => Replacing' = Replacing \ {c}
<1> USE DEF IInv
<1>1. UNCHANGED <<op, attempt>> /\ pc' = [pc EXCEPT ![c] = step] /\ Allowance' = Allowance
  BY DEF Goto, Allowance
<1>2. TypeOK' BY <1>1 DEF TypeInv, TypeOK, work
<1>3. op[c] \in Retried BY DEF TypeInv
<1>4. TypeInv' BY <1>1, <1>2, <1>3 DEF TypeInv, TypeOK
<1>5. pc \in [Clients -> {"try", "wantReopen", "reopen", "wantReconnect", "connect", "open"}]
  BY DEF TypeInv, TypeOK
<1>6. \A e \in Clients : pc'[e] = IF e = c THEN step ELSE pc[e] BY <1>1, <1>5
<1> QED BY <1>1, <1>4, <1>6 DEF Replacing

LEMMA LockStep == ASSUME IInv, NEW c \in Clients, Lock(c) PROVE IInv'
<1> USE DEF IInv
<1>0. /\ UNCHANGED <<conn, own, channel, work, ghost, outages, faults>>
      /\ holder = None /\ holder' = c
      /\ UNCHANGED <<transport, alive, reachable, refused, spent>>
  BY DEF Lock, conn, ghost
<1>1. PICK step \in {"reopen", "connect"} :
        Goto(c, step) /\ pc[c] = (IF step = "reopen" THEN "wantReopen" ELSE "wantReconnect")
  BY DEF Lock
<1>2. \A e \in Clients : holder' = e <=> pc'[e] \in {"reopen", "connect", "open"}
  BY <1>0, <1>1, Apart DEF Goto, TypeInv, TypeOK
<1>3. /\ TypeInv' /\ pc' = [pc EXCEPT ![c] = step] /\ Allowance' = Allowance
      /\ UNCHANGED <<op, attempt>>
      /\ step = "connect" => Replacing' = Replacing \cup {c}
      /\ step = "reopen" => Replacing' = Replacing \ {c}
  BY <1>0, <1>1, <1>2, GotoFacts DEF TypeInv, TypeOK
<1>4. Replacing' = Replacing BY <1>1, <1>3 DEF Replacing
<1>5. ChannelInv' /\ TransportInv' BY <1>0, <1>3, <1>4 DEF ChannelInv, TransportInv
<1>6. ASSUME NEW e \in Clients PROVE Ahead(e)' = Ahead(e)
  <2>1. \/ pc'[e] = pc[e]
        \/ {pc[e], pc'[e]} \cap {"try", "open"} = {}
    BY <1>1, <1>3 DEF TypeInv, TypeOK
  <2> QED BY <1>0, <1>4, <2>1 DEF Ahead, WorksOn
<1> QED BY <1>0, <1>3, <1>5, <1>6, AheadNat, RecoveryStep

LEMMA ReopenStep == ASSUME IInv, NEW c \in Clients, Reopen(c) PROVE IInv'
<1> USE DEF IInv
<1>0. /\ UNCHANGED <<conn, own, work, ghost, outages, faults>> /\ pc[c] = "reopen"
      /\ UNCHANGED <<transport, alive, reachable, refused, spent>> /\ holder' = None /\ holder = c
      /\ transport \in 1..Broken - 1 /\ alive \in BOOLEAN /\ channel \in [Clients -> 0..Broken]
      /\ pc \in [Clients -> {"try", "wantReopen", "reopen", "wantReconnect", "connect", "open"}]
      /\ N \in Nat /\ Broken \in Nat
  BY AllowanceFacts, Clients_N DEF Reopen, conn, ghost, TypeInv, TypeOK
<1>1. CASE alive /\ Goto(c, "try") /\ channel' = [channel EXCEPT ![c] = transport]
  <2>1. \A e \in Clients : holder' = e <=> pc'[e] \in {"reopen", "connect", "open"}
    BY <1>0, <1>1, Apart DEF Goto, TypeInv, TypeOK
  <2>2. transport \in 0..Broken BY <1>0
  <2>3. channel' \in [Clients -> 0..Broken] BY <1>0, <1>1, <2>2
  <2>4. /\ TypeInv' /\ pc' = [pc EXCEPT ![c] = "try"] /\ Allowance' = Allowance
        /\ UNCHANGED <<op, attempt>> /\ Replacing' = Replacing \ {c}
    BY <1>0, <1>1, <2>1, <2>3, GotoFacts
  <2>5. Replacing' = Replacing BY <1>0, <2>4 DEF Replacing
  <2>6. ChannelInv' BY <1>0, <1>1 DEF ChannelInv
  <2>7. TransportInv' BY <1>0, <2>4, <2>5 DEF TransportInv
  <2>8. ASSUME NEW e \in Clients PROVE Ahead(e)' = Ahead(e)
    <3>1. CASE e = c
      <4>1. Ahead(c) = Cardinality(Replacing \ {c}) + 0 BY <1>0, <1>1 DEF Ahead
      <4>2. WorksOn(c, channel[c])' BY <1>0, <1>1 DEF WorksOn, Own
      <4>3. Ahead(c)' = Cardinality(Replacing \ {c}) + 0
        BY <1>0, <1>1, <2>4, <2>5, <4>2 DEF Ahead
      <4> QED BY <3>1, <4>1, <4>3
    <3>2. CASE e # c
      <4>1. pc'[e] = pc[e] /\ channel'[e] = channel[e] BY <1>0, <1>1, <2>4, <3>2
      <4> QED BY <1>0, <2>5, <4>1 DEF Ahead, WorksOn
    <3> QED BY <3>1, <3>2
  <2> QED BY <1>0, <2>4, <2>6, <2>7, <2>8, AheadNat, RecoveryStep
<1>2. CASE ~alive /\ Goto(c, "wantReconnect") /\ UNCHANGED channel
  <2>1. \A e \in Clients : holder' = e <=> pc'[e] \in {"reopen", "connect", "open"}
    BY <1>0, <1>2, Apart DEF Goto, TypeInv, TypeOK
  <2>2. /\ TypeInv' /\ pc' = [pc EXCEPT ![c] = "wantReconnect"] /\ Allowance' = Allowance
        /\ UNCHANGED <<op, attempt>>
    BY <1>0, <1>2, <2>1, GotoFacts
  <2>3. ChannelInv' BY <1>0, <1>2 DEF ChannelInv
  <2>4. TransportInv' BY <1>0, <1>2, <2>2 DEF TransportInv
  <2>5. \A e \in Clients : Ahead(e)' = Ahead(e)
    BY <1>0, <1>2, <2>2, Clients_N DEF Ahead
  <2> QED BY <1>0, <2>2, <2>3, <2>4, <2>5, AheadNat, RecoveryStep
<1> QED BY <1>1, <1>2 DEF Reopen

\* c replaces the transport: it is no longer one of those who may, and what it ends
\* for the others is the channel they have.
LEMMA ConnectStep == ASSUME IInv, NEW c \in Clients, Connect(c) PROVE IInv'
<1> USE DEF IInv
<1>0. /\ UNCHANGED <<reachable, own, channel, work, spent, outages, faults>> /\ pc[c] = "connect"
      /\ holder = c /\ c \in Replacing
      /\ alive \in BOOLEAN /\ channel \in [Clients -> 0..Broken]
      /\ pc \in [Clients -> {"try", "wantReopen", "reopen", "wantReconnect", "connect", "open"}]
      /\ transport \in Nat /\ transport >= 1 /\ Allowance \in Nat /\ Broken \in Nat
      /\ Allowance + 2 <= Broken /\ N \in Nat /\ N >= 1
      /\ \A e \in Clients \ {c} : pc[e] \notin {"reopen", "connect", "open"}
  BY AllowanceFacts, Clients_N DEF Connect, TypeInv, TypeOK, Replacing
<1>1. CASE /\ transport' = transport + 1 /\ alive' = TRUE /\ Goto(c, "open")
           /\ UNCHANGED <<holder, refused>>
  <2>1. \A e \in Clients : holder' = e <=> pc'[e] \in {"reopen", "connect", "open"}
    BY <1>0, <1>1, Apart DEF Goto, TypeInv, TypeOK
  <2>2. /\ Cardinality(Replacing) \in Nat /\ Cardinality(Replacing) <= N
        /\ Cardinality(Replacing \ {c}) \in Nat
        /\ Cardinality(Replacing \ {c}) = Cardinality(Replacing) - 1
    BY <1>0, ReplacingFacts
  <2>3. transport + Cardinality(Replacing \ {c}) <= Allowance
    <3>1. CASE alive BY <1>0, <2>2, <3>1 DEF TransportInv
    <3>2. CASE ~alive BY <1>0, <2>2, <3>2 DEF TransportInv
    <3> QED BY <1>0, <3>1, <3>2
  <2>4. transport + 1 \in 1..Broken - 1 BY <1>0, <2>2, <2>3
  <2>5. /\ TypeInv' /\ pc' = [pc EXCEPT ![c] = "open"] /\ Allowance' = Allowance
        /\ UNCHANGED <<op, attempt>> /\ Replacing' = Replacing \ {c}
    BY <1>0, <1>1, <2>1, <2>4, GotoFacts DEF TypeInv, TypeOK
  <2>6. ChannelInv' BY <1>0, <1>1 DEF ChannelInv
  <2>7. TransportInv' BY <1>0, <1>1, <2>2, <2>3, <2>5 DEF TransportInv
  <2>8. ASSUME NEW e \in Clients PROVE Ahead(e)' \in Nat /\ Ahead(e)' <= Ahead(e)
    <3>1. CASE e = c
      <4>1. Ahead(c)' = Cardinality(Replacing \ {c}) + 0
        <5>1. (Replacing \ {c}) \ {c} = Replacing \ {c} /\ pc'[c] = "open" BY <1>0, <2>5
        <5> QED BY <1>1, <2>5, <5>1 DEF Ahead
      <4>2. Ahead(c) = IF alive THEN Cardinality(Replacing \ {c}) + 0 ELSE N - 1
        BY <1>0 DEF Ahead
      <4> QED BY <1>0, <2>2, <3>1, <4>1, <4>2
    <3>2. CASE e # c
      <4> DEFINE O == Cardinality(Replacing \ {e})
                 P == Cardinality((Replacing \ {c}) \ {e})
      <4>1. O \in Nat /\ P \in Nat /\ O <= N - 1 /\ P = O - 1
        <5>1. IsFiniteSet(Replacing) BY Clients_N, FS_Subset DEF Replacing
        <5>2. IsFiniteSet(Replacing \ {e}) BY <5>1, FS_RemoveElement
        <5>3. (Replacing \ {c}) \ {e} = (Replacing \ {e}) \ {c} /\ c \in Replacing \ {e}
          BY <1>0, <3>2
        <5>4. P = O - 1 /\ IsFiniteSet((Replacing \ {c}) \ {e}) BY <5>2, <5>3, FS_RemoveElement
        <5>5. P \in Nat BY <5>4, FS_CardinalityType
        <5> QED BY <5>4, <5>5, ReplacingFacts, Clients_N
      <4>2. pc'[e] = pc[e] /\ pc[e] # "open" BY <1>0, <2>5, <3>2
      <4>3. Ahead(e)' = P + (IF pc[e] = "try" /\ ~WorksOn(e, channel[e])' THEN 1 ELSE 0)
        BY <1>0, <1>1, <2>5, <4>2 DEF Ahead
      <4>4. Ahead(e)' \in {P, P + 1} /\ (pc[e] # "try" => Ahead(e)' = P) BY <4>1, <4>3
      <4>5. Ahead(e) = IF alive
                       THEN O + (IF pc[e] = "try" /\ ~WorksOn(e, channel[e]) THEN 1 ELSE 0)
                       ELSE IF pc[e] = "try" THEN N ELSE N - 1
        BY <4>2 DEF Ahead
      <4> HIDE DEF O, P
      <4> QED BY <1>0, <4>1, <4>4, <4>5
    <3> QED BY <3>1, <3>2
  <2> QED BY <1>0, <1>1, <2>5, <2>6, <2>7, <2>8, RecoveryStep
<1>2. CASE /\ refused' = TRUE /\ Goto(c, "try") /\ holder' = None
           /\ UNCHANGED <<transport, alive>>
  <2>1. \A e \in Clients : holder' = e <=> pc'[e] \in {"reopen", "connect", "open"}
    BY <1>0, <1>2, Apart DEF Goto, TypeInv, TypeOK
  <2>2. /\ TypeInv' /\ pc' = [pc EXCEPT ![c] = "try"] /\ Allowance' = Allowance
        /\ UNCHANGED <<op, attempt>> /\ Replacing' = Replacing \ {c}
    BY <1>0, <1>2, <2>1, GotoFacts DEF TypeInv, TypeOK
  <2>3. ChannelInv' BY <1>0, <1>2 DEF ChannelInv
  <2>4. TransportInv'
    <3>1. /\ Cardinality(Replacing) \in Nat /\ Cardinality(Replacing \ {c}) \in Nat
          /\ Cardinality(Replacing \ {c}) <= Cardinality(Replacing)
      BY <1>0, ReplacingFacts
    <3> QED BY <1>0, <1>2, <2>2, <3>1 DEF TransportInv
  <2>5. BudgetInv' /\ BudgetOutlivesRecovery' BY <1>2 DEF BudgetInv, BudgetOutlivesRecovery
  <2> QED BY <2>2, <2>3, <2>4, <2>5
<1> QED BY <1>1, <1>2 DEF Connect

LEMMA OpenStep == ASSUME IInv, NEW c \in Clients, Open(c) PROVE IInv'
<1> USE DEF IInv
<1>0. /\ UNCHANGED <<conn, own, work, ghost, outages, faults>> /\ pc[c] = "open"
      /\ UNCHANGED <<transport, alive, reachable, refused, spent>> /\ holder' = None /\ holder = c
      /\ transport \in 1..Broken - 1 /\ alive \in BOOLEAN /\ channel \in [Clients -> 0..Broken]
      /\ pc \in [Clients -> {"try", "wantReopen", "reopen", "wantReconnect", "connect", "open"}]
      /\ N \in Nat /\ Broken \in Nat
      /\ Goto(c, "try")
      /\ channel' = IF alive THEN [channel EXCEPT ![c] = transport] ELSE channel
  BY AllowanceFacts, Clients_N DEF Open, conn, ghost, TypeInv, TypeOK
<1>1. \A e \in Clients : holder' = e <=> pc'[e] \in {"reopen", "connect", "open"}
  BY <1>0, Apart DEF Goto, TypeInv, TypeOK
<1>2. transport \in 0..Broken BY <1>0
<1>3. channel' \in [Clients -> 0..Broken] BY <1>0, <1>2
<1>4. /\ TypeInv' /\ pc' = [pc EXCEPT ![c] = "try"] /\ Allowance' = Allowance
      /\ UNCHANGED <<op, attempt>> /\ Replacing' = Replacing \ {c}
  BY <1>0, <1>1, <1>3, GotoFacts
<1>5. Replacing' = Replacing BY <1>0, <1>4 DEF Replacing
<1>6. ChannelInv' BY <1>0 DEF ChannelInv
<1>7. TransportInv' BY <1>0, <1>4, <1>5 DEF TransportInv
<1>8. ASSUME NEW e \in Clients PROVE Ahead(e)' = Ahead(e)
  <2>1. CASE ~alive BY <1>0, <1>4, <2>1 DEF Ahead
  <2>2. CASE alive /\ e = c
    <3>1. WorksOn(c, channel[c])' BY <1>0, <2>2 DEF WorksOn, Own
    <3>2. Ahead(c)' = Cardinality(Replacing \ {c}) + 0
      BY <1>0, <1>4, <1>5, <2>2, <3>1 DEF Ahead
    <3>3. Ahead(c) = Cardinality(Replacing \ {c}) + 0 BY <1>0, <2>2 DEF Ahead
    <3> QED BY <2>2, <3>2, <3>3
  <2>3. CASE alive /\ e # c
    <3>1. pc'[e] = pc[e] /\ channel'[e] = channel[e] BY <1>0, <1>4, <2>3
    <3> QED BY <1>0, <1>5, <3>1 DEF Ahead, WorksOn
  <2> QED BY <1>0, <2>1, <2>2, <2>3
<1> QED BY <1>0, <1>4, <1>6, <1>7, <1>8, AheadNat, RecoveryStep

\* An outage adds one attempt for each client to what everybody has ahead, and as much
\* to the allowance.
LEMMA OutageStep == ASSUME IInv, Outage PROVE IInv'
<1> USE DEF IInv
<1>0. /\ UNCHANGED <<transport, holder, own, channel, task, work, ghost, faults>>
      /\ UNCHANGED <<op, pc, attempt, spent, refused>>
      /\ outages + faults < MaxEvents /\ outages' = outages + 1 /\ alive' = FALSE
      /\ reachable' \in BOOLEAN /\ outages \in Nat /\ faults \in Nat /\ MaxEvents \in Nat
      /\ attempt \in [Clients -> 0..MaxRetries] /\ MaxRetries \in Nat /\ transport \in Nat
  BY SessionAssumption DEF Outage, task, ghost, TypeInv, TypeOK
<1>1. /\ Allowance \in Nat /\ N \in Nat /\ N >= 1 /\ Allowance' = Allowance + N
      /\ Replacing' = Replacing
  <2>1. N * (outages + 1) = N * outages + N BY <1>0, Clients_N, Times
  <2> QED BY <1>0, <2>1, AllowanceFacts, Clients_N DEF Allowance, Replacing
<1>2. TypeInv'
  <2>1. TypeOK' BY <1>0 DEF TypeInv, TypeOK, work
  <2> QED BY <1>0, <2>1 DEF TypeInv
<1>3. ChannelInv' BY <1>0 DEF ChannelInv
<1>4. transport - 1 <= Allowance
  <2>1. Cardinality(Replacing) \in Nat
    <3>1. Cardinality(Replacing) \in 0..N BY Clients_N, ReplacingFacts
    <3> QED BY <1>1, <3>1
  <2> QED BY <1>0, <1>1, <2>1 DEF TransportInv
<1>5. TransportInv' BY <1>0, <1>1, <1>4 DEF TransportInv
<1>6. BudgetInv'
  <2> SUFFICES ASSUME ~refused, Unreadable = {}, NEW e \in Clients, op[e] \in Retried
               PROVE  attempt[e] + Ahead(e)' <= Allowance + N + faults
    BY <1>0, <1>1 DEF BudgetInv
  <2>1. attempt[e] + Ahead(e) <= Allowance + faults BY DEF BudgetInv
  <2>2. attempt[e] \in Nat /\ Ahead(e) \in Nat BY <1>0, AheadNat
  <2>3. PICK a \in Nat : Ahead(e)' = a /\ a <= N BY <1>0, <1>1 DEF Ahead
  <2> QED BY <1>0, <1>1, <2>1, <2>2, <2>3
<1>7. BudgetOutlivesRecovery'
  <2> SUFFICES ASSUME Allowance + N + faults <= MaxRetries, ~refused, Unreadable = {}
               PROVE  spent = {}
    <3>1. Cardinality(Clients) * outages' = Allowance + N BY <1>1 DEF Allowance, N
    <3> QED BY <1>0, <1>1, <3>1 DEF BudgetOutlivesRecovery
  <2>1. Allowance + faults <= MaxRetries BY <1>0, <1>1
  <2> QED BY <2>1, BudgetFacts
<1> QED BY <1>2, <1>3, <1>5, <1>6, <1>7

LEMMA RestoreStep == ASSUME IInv, Restore PROVE IInv'
<1> USE DEF IInv
<1>1. /\ UNCHANGED <<transport, alive, holder, own, channel, task, work, ghost, outages, faults>>
      /\ UNCHANGED <<op, pc, attempt, files, dir, todo, spent, refused>>
      /\ reachable' \in BOOLEAN /\ Allowance' = Allowance /\ Replacing' = Replacing
  BY DEF Restore, task, work, ghost, Allowance, Replacing
<1>2. TypeInv' BY <1>1 DEF TypeInv, TypeOK
<1>3. ChannelInv' /\ TransportInv' BY <1>1 DEF ChannelInv, TransportInv
<1>4. \A e \in Clients : Ahead(e)' = Ahead(e) BY <1>1 DEF Ahead, WorksOn
<1> QED BY <1>1, <1>2, <1>3, <1>4, AheadNat, RecoveryStep

LEMMA StutterStep == ASSUME IInv, UNCHANGED vars PROVE IInv'
<1>1. /\ UNCHANGED <<transport, alive, reachable, holder, own, channel, op, pc, attempt>>
      /\ UNCHANGED <<dir, todo, spent, refused, outages, faults>>
  BY DEF vars, conn, task, work, ghost
<1> QED BY <1>1 DEF IInv, TypeInv, TypeOK, ChannelInv, TransportInv, BudgetInv,
                    BudgetOutlivesRecovery, Allowance, Replacing, Ahead, WorksOn

LEMMA Initially == Init => IInv
<1> SUFFICES ASSUME Init PROVE IInv OBVIOUS
<1>1. /\ Broken \in Nat /\ Broken >= 2 /\ N \in Nat /\ N * outages = 0
  <2>1. N * MaxEvents \in Nat BY Clients_N, Times, SessionAssumption
  <2>2. Broken = 1 + N * MaxEvents + 1 BY DEF Broken, N
  <2> QED BY <2>1, <2>2, Clients_N DEF Init
<1>2. Replacing = {} BY DEF Init, Replacing
<1>3. 0 \in 0..Broken /\ 1 \in 1..Broken - 1 BY <1>1
<1>4. TypeOK BY <1>3, Apart DEF Init, TypeOK, Own
<1>5. TypeInv BY <1>4, SessionAssumption, Clients_N DEF TypeInv, Init, Clients, Retried
<1>6. ChannelInv BY <1>1 DEF ChannelInv, Init, Own
<1>7. TransportInv BY <1>1, <1>2, FS_EmptySet DEF TransportInv, Init, Allowance
<1>8. BudgetInv /\ BudgetOutlivesRecovery
  BY DEF BudgetInv, BudgetOutlivesRecovery, Init, Retried
<1> QED BY <1>5, <1>6, <1>7, <1>8 DEF IInv

LEMMA Inductive == IInv /\ [Next]_vars => IInv'
<1> SUFFICES ASSUME IInv, [Next]_vars PROVE IInv' OBVIOUS
<1>1. ASSUME NEW c \in Clients, Step(c) PROVE IInv'
  BY <1>1, SucceedStep, FailStep, LockStep, ReopenStep, ConnectStep, OpenStep DEF Step
<1>2. CASE \E s \in Slots : SlotStep(s)
  BY <1>1, <1>2, ProcessStep, StatStep DEF SlotStep, Clients
<1>3. CASE WalkerStep BY <1>1, <1>3, SyncStep, HashStep, Clients_N DEF WalkerStep
<1> QED BY <1>2, <1>3, OutageStep, RestoreStep, StutterStep DEF Next
-----------------------------------------------------------------------------
(* The theorems.                                                           *)

\* The types, with the mutex of the Handle: who holds it is in the middle of opening a
\* channel or of replacing the transport, and nobody else is.
THEOREM TypeCorrect == Spec => []TypeOK
<1>1. IInv => TypeOK BY DEF IInv, TypeInv
<1> QED BY <1>1, Initially, Inductive, PTL DEF Spec

\* A retry budget of one attempt for each client and outage, and one for each other
\* failure, is not exhausted while the remote can be reached, whoever replaces whose
\* transport and when (download_file, run_walker and reconnect_handle_and_sftp).
THEOREM BudgetHolds == Spec => []BudgetOutlivesRecovery
<1>1. IInv => BudgetOutlivesRecovery BY DEF IInv
<1> QED BY <1>1, Initially, Inductive, PTL DEF Spec

=============================================================================
