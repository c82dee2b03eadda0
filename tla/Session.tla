------------------------------- MODULE Session ------------------------------
(***************************************************************************)
(* The SSH session of a run (sync.rs): one transport, the russh Handle, in *)
(* a mutex; an SFTP channel opened on it for each downloader slot and for  *)
(* the walker when the engine starts; and the recovery that download_file  *)
(* and run_walker repeat: after a failed attempt open a new channel on the *)
(* Handle, and if that fails replace the Handle.                           *)
(*                                                                         *)
(* Transports are numbered; a channel works while its transport is the     *)
(* current one and alive. Replacing the Handle drops the transport before  *)
(* it with every channel on it. A slot starts each file on the channel it  *)
(* was given at the start, the walker each category: what a retry opened   *)
(* is a local of download_file or of run_walker. What a download writes is *)
(* modules Download and MediaSync; the files of a slot are only counted.   *)
(***************************************************************************)
EXTENDS Naturals, FiniteSets

CONSTANTS Slots,       \* the downloader slots
          walker,      \* the walker
          Dirs,        \* the directories the remote lists for a category
          Unreadable,  \* those whose manifest cannot be collected, ever
          None,        \* "nobody", "no directory"
          MaxRetries,  \* max_download_retries
          Lasting,     \* may the remote stay out of reach after an outage?
          MaxFiles,    \* bound on the files a slot claims
          MaxCategories, \* bound on the categories of the run
          MaxEvents    \* bound on the times the transport dies, and the attempts that
                       \* fail for other reasons, together

Clients == Slots \cup {walker}

ASSUME SessionAssumption ==
  /\ IsFiniteSet(Slots) /\ walker \notin Slots /\ None \notin Clients \cup Dirs
  /\ Unreadable \subseteq Dirs /\ Lasting \in BOOLEAN
  /\ {MaxRetries, MaxFiles, MaxCategories, MaxEvents} \subseteq Nat

VARIABLES
  transport, alive,  \* the Handle: the number of its transport, does it work
  reachable,         \* does the remote accept connections
  holder,            \* who holds the mutex of the Handle
  own,               \* own[c]: the channel from the start was not broken by an attempt
  channel,           \* channel[c]: the transport of the channel in use, Own, or Broken
  op,                \* op[c]: the operation in hand, "none" between two
  pc,                \* pc[c]: where it is in the recovery from a failure of op[c]
  attempt,           \* attempt[c]: retries of op[c] so far
  files,             \* files[s]: files the slot has claimed
  dir, todo,         \* the walker's directory, and the directories after it
  categories,        \* categories the walker has begun
  spent,             \* clients that have exhausted a retry budget
  refused,           \* has the remote refused a connection
  outages, faults

conn  == <<transport, alive, reachable>>
task  == <<op, pc, attempt>>
work  == <<files, dir, todo, categories>>
ghost == <<spent, refused>>
vars  == <<conn, holder, own, channel, task, work, ghost, outages, faults>>

Own == 0                          \* the channel from the start, on transport 1
Broken == 1 + Cardinality(Clients) * MaxEvents + 1  \* no transport has this number

Works(c) == alive /\ IF channel[c] = Own THEN own[c] /\ transport = 1
                                         ELSE channel[c] = transport

\* SyncEngine::new: connected, every channel open, the pool running.
Init ==
  /\ transport = 1 /\ alive = TRUE /\ reachable = TRUE
  /\ holder = None
  /\ own = [c \in Clients |-> TRUE]
  /\ channel = [c \in Clients |-> Own]
  /\ op = [c \in Clients |-> "none"]
  /\ pc = [c \in Clients |-> "try"]
  /\ attempt = [c \in Clients |-> 0]
  /\ files = [s \in Slots |-> 0]
  /\ dir = None /\ todo = {} /\ categories = 0
  /\ spent = {} /\ refused = FALSE
  /\ outages = 0 /\ faults = 0

Begin(c, what) ==
  /\ op' = [op EXCEPT ![c] = what]
  /\ attempt' = [attempt EXCEPT ![c] = 0]
  /\ UNCHANGED pc

Goto(c, step) == pc' = [pc EXCEPT ![c] = step] /\ UNCHANGED <<op, attempt>>
-----------------------------------------------------------------------------
(* The operations.                                                         *)

\* A file is claimed: download_file starts on the channel of the slot.
process(s) ==
  /\ op[s] = "none"
  /\ files[s] < MaxFiles
  /\ files' = [files EXCEPT ![s] = @ + 1]
  /\ channel' = [channel EXCEPT ![s] = Own]
  /\ Begin(s, "stat")
  /\ UNCHANGED <<conn, holder, own, dir, todo, categories, ghost, outages, faults>>

\* The stat of the remote file comes before the retry loop: without an answer the
\* file has failed.
Stat(s) ==
  /\ op[s] = "stat"
  /\ Begin(s, IF Works(s) THEN "download" ELSE "none")
  /\ UNCHANGED <<conn, holder, own, channel, work, ghost, outages, faults>>

\* sync_category: run_walker starts on the channel of the engine.
sync_category ==
  /\ op[walker] = "none"
  /\ categories < MaxCategories
  /\ categories' = categories + 1
  /\ channel' = [channel EXCEPT ![walker] = Own]
  /\ Begin(walker, "list")
  /\ UNCHANGED <<conn, holder, own, files, dir, todo, ghost, outages, faults>>

\* The next directory, with a budget of its own, or the end of the category.
NextDir(left) ==
  \/ /\ left = {}
     /\ Begin(walker, "none")
     /\ dir' = None /\ todo' = {}
  \/ \E d \in left :
       /\ Begin(walker, "collect")
       /\ dir' = d /\ todo' = left \ {d}

\* An attempt succeeds.
Succeed(c) ==
  /\ pc[c] = "try" /\ op[c] \in {"download", "list", "collect"}
  /\ Works(c)
  /\ \/ op[c] = "download" /\ Begin(c, "none") /\ UNCHANGED <<dir, todo>>
     \/ op[c] = "list" /\ NextDir(Dirs)
     \/ /\ op[c] = "collect" /\ dir \notin Unreadable
        /\ Begin(c, "hash") /\ UNCHANGED <<dir, todo>>
  /\ UNCHANGED <<conn, holder, own, channel, files, categories, ghost, outages, faults>>

\* collect_remote_hashes opens a channel for one command under the mutex; if it
\* cannot, there are no fingerprints, and the walk goes on.
collect_remote_hashes ==
  /\ op[walker] = "hash"
  /\ holder = None
  /\ NextDir(todo)
  /\ UNCHANGED <<conn, holder, own, channel, files, categories, ghost, outages, faults>>

\* What follows the last failure. A file has failed; a category is given up; the
\* loop around collect_manifest is not left: its last arm is a `continue`.
GiveUp(c) ==
  /\ spent' = spent \cup {c}
  /\ \/ op[c] \in {"download", "list"} /\ Begin(c, "none")
     \/ op[c] = "collect" /\ UNCHANGED task
  /\ UNCHANGED <<dir, todo>>

Failed(c) ==
  \/ /\ attempt[c] < MaxRetries
     /\ attempt' = [attempt EXCEPT ![c] = @ + 1]
     /\ pc' = [pc EXCEPT ![c] = "wantReopen"]
     /\ UNCHANGED <<op, dir, todo, spent>>
  \/ attempt[c] = MaxRetries /\ GiveUp(c)

\* An attempt fails: the channel does not work, the directory cannot be read, or
\* something else goes wrong, which may leave the channel broken.
Fail(c) ==
  /\ pc[c] = "try" /\ op[c] \in {"download", "list", "collect"}
  /\ \/ /\ ~Works(c) \/ (op[c] = "collect" /\ dir \in Unreadable)
        /\ UNCHANGED <<own, channel, faults>>
     \/ /\ outages + faults < MaxEvents /\ faults' = faults + 1
        /\ \/ UNCHANGED <<own, channel>>
           \/ /\ channel[c] = Own /\ own' = [own EXCEPT ![c] = FALSE]
              /\ UNCHANGED channel
           \/ /\ channel[c] # Own /\ channel' = [channel EXCEPT ![c] = Broken]
              /\ UNCHANGED own
  /\ Failed(c)
  /\ UNCHANGED <<conn, holder, files, categories, refused, outages>>
-----------------------------------------------------------------------------
(* The recovery. The mutex is held over each await of it.                  *)

Lock(c) ==
  /\ holder = None
  /\ \/ pc[c] = "wantReopen" /\ Goto(c, "reopen")
     \/ pc[c] = "wantReconnect" /\ Goto(c, "connect")
  /\ holder' = c
  /\ UNCHANGED <<conn, own, channel, work, ghost, outages, faults>>

\* Mistake: the guard lives on while the helper locks the mutex again.
ReopenKeepsGuard(c) ==
  /\ pc[c] = "reopen"
  /\ \/ /\ alive /\ Goto(c, "try")
        /\ channel' = [channel EXCEPT ![c] = transport]
        /\ holder' = None
     \/ ~alive /\ Goto(c, "wantReconnect") /\ UNCHANGED <<channel, holder>>
  /\ UNCHANGED <<conn, own, work, ghost, outages, faults>>

\* Mistake: no escalation, the next attempt is made on the dead channel.
ReopenOnly(c) ==
  /\ pc[c] = "reopen"
  /\ Goto(c, "try")
  /\ channel' = IF alive THEN [channel EXCEPT ![c] = transport] ELSE channel
  /\ holder' = None
  /\ UNCHANGED <<conn, own, work, ghost, outages, faults>>

\* open_sftp_session on the current Handle; if that fails, the lock is given back
\* before reconnect_handle_and_sftp takes it again.
Reopen(c) ==
  /\ pc[c] = "reopen"
  /\ \/ /\ alive /\ Goto(c, "try")
        /\ channel' = [channel EXCEPT ![c] = transport]
     \/ ~alive /\ Goto(c, "wantReconnect") /\ UNCHANGED channel
  /\ holder' = None
  /\ UNCHANGED <<conn, own, work, ghost, outages, faults>>

\* establish_russh_session: the Handle is replaced, whatever it is by now; without
\* a connection it stays, and so does the channel.
Connect(c) ==
  /\ pc[c] = "connect"
  /\ \/ /\ reachable
        /\ transport' = transport + 1 /\ alive' = TRUE
        /\ Goto(c, "open")
        /\ UNCHANGED <<holder, refused>>
     \/ /\ ~reachable
        /\ refused' = TRUE
        /\ Goto(c, "try")
        /\ holder' = None
        /\ UNCHANGED <<transport, alive>>
  /\ UNCHANGED <<reachable, own, channel, work, spent, outages, faults>>

\* The channel on the new Handle, still under the lock.
Open(c) ==
  /\ pc[c] = "open"
  /\ channel' = IF alive THEN [channel EXCEPT ![c] = transport] ELSE channel
  /\ Goto(c, "try")
  /\ holder' = None
  /\ UNCHANGED <<conn, own, work, ghost, outages, faults>>
-----------------------------------------------------------------------------
(* The network.                                                            *)

Outage ==
  /\ outages + faults < MaxEvents /\ outages' = outages + 1
  /\ alive' = FALSE
  /\ reachable' \in (IF Lasting THEN BOOLEAN ELSE {reachable})
  /\ UNCHANGED <<transport, holder, own, channel, task, work, ghost, faults>>

Restore ==
  /\ ~reachable /\ reachable' = TRUE
  /\ UNCHANGED <<transport, alive, holder, own, channel, task, work, ghost, outages, faults>>

Step(c) == Succeed(c) \/ Fail(c) \/ Lock(c) \/ Reopen(c) \/ Connect(c) \/ Open(c)

SlotStep(s) == process(s) \/ Stat(s) \/ Step(s)

WalkerStep == sync_category \/ collect_remote_hashes \/ Step(walker)

Next == (\E s \in Slots : SlotStep(s)) \/ WalkerStep \/ Outage \/ Restore

\* Slots and walker are tasks the runtime runs; tokio's mutex is given to those who
\* wait in their order; an outage ends.
Spec == Init /\ [][Next]_vars

FairSpec ==
  /\ Spec
  /\ WF_vars(WalkerStep) /\ WF_vars(Restore) /\ SF_vars(Lock(walker))
  /\ SF_vars(collect_remote_hashes)
  /\ \A s \in Slots : WF_vars(SlotStep(s)) /\ SF_vars(Lock(s))
-----------------------------------------------------------------------------
TypeOK ==
  /\ transport \in 1..Broken - 1
  /\ alive \in BOOLEAN /\ reachable \in BOOLEAN
  /\ holder \in Clients \cup {None}
  /\ own \in [Clients -> BOOLEAN]
  /\ channel \in [Clients -> 0..Broken]
  /\ op \in [Clients -> {"none", "stat", "download", "list", "collect", "hash"}]
  /\ pc \in [Clients -> {"try", "wantReopen", "reopen", "wantReconnect", "connect", "open"}]
  /\ attempt \in [Clients -> 0..MaxRetries]
  /\ \A c \in Clients : holder = c <=> pc[c] \in {"reopen", "connect", "open"}
  /\ dir \in Dirs \cup {None} /\ todo \subseteq Dirs
  /\ spent \subseteq Clients

\* However many clients notice one outage, and replace each other's transport while
\* they recover from it, it costs an operation one attempt for itself and at most
\* one for each other client: a budget of that size is not exhausted by it, unless
\* the remote stays out of reach. (A directory nobody can read exhausts any.)
BudgetOutlivesRecovery ==
  /\ MaxRetries >= Cardinality(Clients) * outages + faults
  /\ ~refused /\ Unreadable = {}
  => spent = {}

\* A file a slot has claimed comes to an end, whatever the network does, and so does
\* the walk of a category, unless the walker has exhausted a budget: no client waits
\* for the mutex for ever.
OperationsEnd ==
  /\ \A s \in Slots : op[s] # "none" ~> op[s] = "none"
  /\ op[walker] # "none" ~> op[walker] = "none" \/ walker \in spent

\* sync.rs:2069-2071, "a directory that exhausts retries is logged and skipped": the
\* walk of a category comes to an end.
WalkEnds == op[walker] # "none" ~> op[walker] = "none"
=============================================================================
