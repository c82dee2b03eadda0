------------------------------ MODULE Download ------------------------------
(***************************************************************************)
(* sync.rs: download_file for one file, with its retries, the pipelined    *)
(* reader and the writes it leaves behind. Module MediaSync sees only the  *)
(* two outcomes; property Contract is what it relies on.                   *)
(*                                                                         *)
(* A file is a sequence of chunks (SFTP_READ_CHUNK), each                  *)
(*   "right"  the bytes of the recorded fingerprint,                       *)
(*   "other"  bytes of another version: the remote was replaced, or an     *)
(*            earlier process left them,                                   *)
(*   "hole"   zeros of the pre-extension.                                  *)
(* write_all on a tokio File returns when the write is queued on the       *)
(* blocking pool, not when it is done: a queued write outlives its task,   *)
(* its attempt and the call, holds the inode it opened, and its error is   *)
(* reported to nobody. RawSessionReader turns an empty answer into an      *)
(* error, so the reader's end-of-file branch is never taken.               *)
(***************************************************************************)
EXTENDS Naturals, Sequences, FiniteSets

CONSTANTS Sizes,        \* sizes, in chunks, the remote file may have
          Hashes,       \* "none", "right", "stale": what get_expected_hash may say
          Local,        \* the local copies a download may find
          NoFile,       \* there is no local file
          max_inflight, \* SFTP_INFLIGHT_REQUESTS
          max_retries,
          MaxFaults     \* bound on what fails and on chunks of another version

ASSUME DownloadAssumption ==
  /\ Sizes \subseteq Nat
  /\ Hashes \subseteq {"none", "right", "stale"}
  /\ Local \subseteq {NoFile} \cup Seq({"right", "other", "hole"})
  /\ NoFile \notin Seq({"right", "other", "hole"})
  /\ max_inflight \in Nat \ {0} /\ max_retries \in Nat /\ MaxFaults \in Nat

VARIABLES
  total, hash, found, \* remote_size, expected hash, the local copy found
  file,       \* the local copy now
  inode,      \* which file the local path names
  pc,         \* "stat", "attempt", "read", "check", "ok", "err"
  attempt,    \* failed attempts so far
  start, next,\* start_offset, next_offset_to_issue
  inflight,   \* chunk -> "reading", "done" or "failed": the JoinSet
  queued,     \* writes handed to the blocking pool: [inode, chunk, data]
  faults

given == <<total, hash, found>>
local == <<file, inode>>
reader == <<start, next, inflight>>
vars == <<given, local, pc, attempt, reader, queued, faults>>

NoTask == [c \in {} |-> "done"]

Init ==
  /\ total \in Sizes /\ hash \in Hashes /\ found \in Local
  /\ file = found /\ inode = 0
  /\ pc = "stat" /\ attempt = 0
  /\ start = 0 /\ next = 0 /\ inflight = NoTask
  /\ queued = {}
  /\ faults = 0

Fault == faults < MaxFaults /\ faults' = faults + 1

Length(f) == IF f = NoFile THEN 0 ELSE Len(f)

\* The bytes of f are those of the recorded fingerprint.
Matches(f) == hash = "right" /\ f # NoFile /\ \A c \in 1..Len(f) : f[c] = "right"

\* verify_existing_file, for a copy of the remote's length.
verify_existing_file ==
  IF total = 0 \/ hash = "none" \/ Matches(file) THEN "Trust" ELSE "Delete"

remove_file == file' = NoFile /\ inode' = inode + 1

\* Mistake: one attempt too many.
AttemptFailsOnceMore ==
  /\ IF attempt <= max_retries
     THEN attempt' = attempt + 1 /\ pc' = "attempt"
     ELSE UNCHANGED attempt /\ pc' = "err"
  /\ inflight' = NoTask
  /\ UNCHANGED <<start, next>>

\* An attempt is over without success. Its tasks are aborted.
AttemptFails ==
  /\ IF attempt < max_retries
     THEN attempt' = attempt + 1 /\ pc' = "attempt"
     ELSE UNCHANGED attempt /\ pc' = "err"
  /\ inflight' = NoTask
  /\ UNCHANGED <<start, next>>
-----------------------------------------------------------------------------
\* lstat of the remote, then the check of what is on disk already.
Stat ==
  /\ pc = "stat"
  /\ \/ Fault /\ pc' = "err" /\ UNCHANGED local
     \/ /\ UNCHANGED faults
        /\ \/ Length(file) # total /\ pc' = "attempt" /\ UNCHANGED local
           \/ Length(file) = total /\ verify_existing_file = "Trust"
              /\ pc' = "ok" /\ UNCHANGED local
           \/ Length(file) = total /\ verify_existing_file = "Delete"
              /\ pc' = "attempt" /\ remove_file
  /\ UNCHANGED <<given, attempt, reader, queued>>

Extend(f, n) == [c \in 1..n |-> IF c <= Length(f) THEN f[c] ELSE "hole"]

\* try_download_file up to the reader: open the remote file, create the local
\* one if need be, extend it to its final length. The attempt resumes at the
\* length it found.
TryDownload ==
  /\ pc = "attempt"
  /\ start' = Length(file) /\ next' = Length(file)
  /\ file' = IF total > Length(file) THEN Extend(file, total)
             ELSE IF file = NoFile THEN << >> ELSE file
  /\ pc' = "read"
  /\ UNCHANGED <<given, inode, attempt, inflight, queued, faults>>

\* The stat of the local copy or get_expected_hash fails: `?`, without a retry.
GiveUp ==
  /\ pc = "attempt"
  /\ Fault
  /\ pc' = "err"
  /\ UNCHANGED <<given, local, attempt, reader, queued>>

\* The remote cannot be opened; or the local file was created, not extended.
OpenFails ==
  /\ pc = "attempt"
  /\ Fault
  /\ AttemptFails
  /\ \/ UNCHANGED file
     \/ file = NoFile /\ file' = << >>
  /\ UNCHANGED <<given, inode, queued>>
-----------------------------------------------------------------------------
(* pipelined_read_to_file.                                                 *)

Issue ==
  /\ pc = "read"
  /\ Cardinality(DOMAIN inflight) < max_inflight /\ next < total
  /\ inflight' = [c \in DOMAIN inflight \cup {next + 1} |->
                    IF c = next + 1 THEN "reading" ELSE inflight[c]]
  /\ next' = next + 1
  /\ UNCHANGED <<given, local, pc, attempt, start, queued, faults>>

Queue(c, bytes) == queued' = queued \cup {[inode |-> inode, chunk |-> c, data |-> bytes]}

\* The answer for chunk c arrives and its write is queued; or the read fails
\* or stalls, or the local file cannot be opened.
ReadChunk(c) ==
  /\ pc = "read"
  /\ c \in DOMAIN inflight /\ inflight[c] = "reading"
  /\ \/ /\ \/ Queue(c, "right") /\ UNCHANGED faults
           \/ Queue(c, "other") /\ Fault
        /\ inflight' = [inflight EXCEPT ![c] = "done"]
     \/ /\ Fault
        /\ inflight' = [inflight EXCEPT ![c] = "failed"]
        /\ UNCHANGED queued
  /\ UNCHANGED <<given, local, pc, attempt, start, next>>

\* Mistake: a write opens its path when it is performed, not when it is queued.
LandByPath(w) ==
  /\ w \in queued
  /\ queued' = queued \ {w}
  /\ \/ /\ file' = IF w.chunk <= Length(file) THEN [file EXCEPT ![w.chunk] = w.data] ELSE file
        /\ UNCHANGED faults
     \/ Fault /\ UNCHANGED file
  /\ UNCHANGED <<given, inode, pc, attempt, reader>>

\* A queued write is performed, or fails unnoticed.
Land(w) ==
  /\ w \in queued
  /\ queued' = queued \ {w}
  /\ \/ /\ file' = IF w.inode = inode THEN [file EXCEPT ![w.chunk] = w.data] ELSE file
        /\ UNCHANGED faults
     \/ Fault /\ UNCHANGED file
  /\ UNCHANGED <<given, inode, pc, attempt, reader>>

\* join_next, once the pipeline is full or everything has been issued.
JoinNext(c) ==
  /\ pc = "read"
  /\ Cardinality(DOMAIN inflight) = max_inflight \/ next >= total
  /\ c \in DOMAIN inflight
  /\ \/ /\ inflight[c] = "done"
        /\ inflight' = [k \in DOMAIN inflight \ {c} |-> inflight[k]]
        /\ UNCHANGED <<pc, attempt, start, next>>
     \/ inflight[c] = "failed" /\ AttemptFails
  /\ UNCHANGED <<given, local, queued, faults>>

\* Mistake: the reader returns when everything has been issued.
ReaderDoneEarly ==
  /\ pc = "read"
  /\ next >= total
  /\ pc' = "check"
  /\ UNCHANGED <<given, local, attempt, reader, queued, faults>>

ReaderDone ==
  /\ pc = "read"
  /\ next >= total /\ DOMAIN inflight = {}
  /\ pc' = "check"
  /\ UNCHANGED <<given, local, attempt, reader, queued, faults>>

\* check_zero_writes.
ZeroWrites == next = start /\ start < total

\* Mistake: the fingerprint decides nothing.
CheckSizeOnly ==
  /\ pc = "check"
  /\ \/ /\ ~ZeroWrites /\ Length(file) = total
        /\ pc' = "ok"
        /\ UNCHANGED <<attempt, reader>>
     \/ (ZeroWrites \/ Length(file) # total) /\ AttemptFails
  /\ UNCHANGED <<given, local, queued, faults>>

\* What try_download_file checks once the reader has returned. A copy of the
\* right length and the wrong fingerprint is deleted; hashing the copy or
\* deleting it may fail, and the copy stays.
Check ==
  /\ pc = "check"
  /\ \/ /\ ZeroWrites \/ Length(file) # total
        /\ AttemptFails
        /\ UNCHANGED <<local, faults>>
     \/ /\ ~ZeroWrites /\ Length(file) = total
        /\ hash = "none" \/ Matches(file)
        /\ pc' = "ok"
        /\ UNCHANGED <<local, attempt, reader, faults>>
     \/ /\ ~ZeroWrites /\ Length(file) = total
        /\ hash # "none"
        /\ AttemptFails
        /\ \/ ~Matches(file) /\ remove_file /\ UNCHANGED faults
           \/ Fault /\ UNCHANGED local
  /\ UNCHANGED <<given, queued>>

Next ==
  \/ Stat \/ TryDownload \/ GiveUp \/ OpenFails
  \/ Issue \/ ReaderDone \/ Check
  \/ \E c \in DOMAIN inflight : ReadChunk(c) \/ JoinNext(c)
  \/ \E w \in queued : Land(w)

Spec == Init /\ [][Next]_vars
-----------------------------------------------------------------------------
TypeOK ==
  /\ total \in Sizes /\ hash \in Hashes /\ found \in Local
  /\ file \in {NoFile} \cup Seq({"right", "other", "hole"})
  /\ inode \in Nat
  /\ pc \in {"stat", "attempt", "read", "check", "ok", "err"}
  /\ attempt \in 0..max_retries
  /\ start \in Nat /\ next \in Nat
  /\ \A c \in DOMAIN inflight : inflight[c] \in {"reading", "done", "failed"}
  /\ \A w \in queued : w.inode \in 0..inode /\ w.chunk \in 1..total
  /\ faults \in Nat

\* A copy that is trusted as it is: of the remote's length, and empty, not
\* fingerprinted, or of the recorded fingerprint.
Trusted(f) == Length(f) = total /\ (total = 0 \/ hash = "none" \/ Matches(f))

\* What MediaSync!DownloadOk assumes of an Ok. Either the copy found was trusted, and is
\* as it was (an empty remote file leaves a missing copy missing); or it was no longer
\* than the remote, now has its length and, when a fingerprint is recorded, is exactly
\* the fingerprinted bytes: and stays so whatever late write still lands.
Contract ==
  pc = "ok" =>
    \/ Trusted(found) /\ file = found
    \/ /\ total > 0 /\ ~Trusted(found)
       /\ Length(found) <= total /\ Length(file) = total
       /\ hash # "none" => Matches(file)

\* A verified copy is never spoilt again, neither by the retry logic nor by
\* queued writes of attempts that were given up.
VerifiedIsKept ==
  [][total > 0 /\ Length(file) = total /\ Matches(file) => file' = file]_vars

\* No chunk is skipped: when the reader returns, every chunk it was to fetch
\* has been written, is queued, or its write was attempted and lost.
EveryChunkWritten ==
  pc = "check" /\ faults = 0 =>
    \A c \in (start + 1)..total :
      file[c] # "hole" \/ \E w \in queued : w.chunk = c /\ w.inode = inode
=============================================================================
