--------------------------- MODULE Download_proofs ---------------------------
(***************************************************************************)
(* Proofs about Download: what an Ok means, that a verified copy is never  *)
(* spoilt, and that no chunk is skipped, for any size, any copy found, any *)
(* number of chunks in flight, retries and faults.                         *)
(***************************************************************************)
EXTENDS Download, TLAPS

Chunk == {"right", "other", "hole"}

\* The writes that can still change the copy.
Live == {w \in queued : w.inode = inode}

\* A live write is for a chunk that nothing has been written to, and is the only
\* one for it: an attempt resumes at the length it finds, and once a copy has its
\* final length no attempt reads anything before the copy is deleted.
WriteInv ==
  /\ \A w \in queued : /\ w.inode \in 0..inode /\ w.chunk \in 1..total
                       /\ w.data \in {"right", "other"}
  /\ \A w \in Live : file # NoFile /\ Len(file) = total /\ file[w.chunk] = "hole"
  /\ \A v, w \in Live : v.chunk = w.chunk => v = w

\* The chunks that are not yet answered for.
Pending == {c \in DOMAIN inflight : inflight[c] = "reading"} \cup (next + 1)..total

\* Where a reader is; to a chunk that is not answered for nothing has been written.
ReadInv ==
  /\ pc # "read" => DOMAIN inflight = {}
  /\ pc = "read" =>
       /\ file # NoFile /\ start <= Len(file) /\ start <= next
       /\ start < total => Len(file) = total /\ next <= total
       /\ start >= total => next = start
       /\ DOMAIN inflight \subseteq (start + 1)..next
       /\ \A c \in Pending : file[c] = "hole" /\ \A w \in Live : w.chunk # c
  /\ pc = "check" => file # NoFile /\ next >= total

\* While nothing has gone wrong, a chunk that was answered for is written or about
\* to be.
WrittenInv ==
  faults = 0 =>
    /\ \A c \in DOMAIN inflight : inflight[c] # "failed"
    /\ pc \in {"read", "check"} =>
       \A c \in (start + 1)..total :
         c \in Pending \/ file[c] # "hole" \/ \E w \in Live : w.chunk = c

\* A copy that was too long stays too long.
LengthInv == Length(found) <= total \/ Length(file) > total

\* A copy that is trusted is seen to be so at once, and left alone.
TrustInv ==
  /\ pc = "stat" => file = found /\ queued = {}
  /\ Trusted(found) => pc \in {"stat", "ok", "err"} /\ file = found /\ queued = {}

IInv == TypeOK /\ WriteInv /\ ReadInv /\ WrittenInv /\ LengthInv /\ TrustInv /\ Contract
-----------------------------------------------------------------------------
(* Facts about the operators.                                              *)

LEMMA Sized == ASSUME NEW f \in {NoFile} \cup Seq(Chunk) PROVE Length(f) \in Nat
BY DEF Length

\* The extended copy: what was there, and holes.
LEMMA Extended ==
  ASSUME NEW f \in {NoFile} \cup Seq(Chunk), NEW n \in Nat, n > Length(f)
  PROVE  /\ Extend(f, n) \in Seq(Chunk) /\ Len(Extend(f, n)) = n
         /\ \A c \in 1..n : Extend(f, n)[c] = IF c <= Length(f) THEN f[c] ELSE "hole"
<1>1. \A c \in 1..n : (IF c <= Length(f) THEN f[c] ELSE "hole") \in Chunk
  BY Sized DEF Length, Chunk
<1>2. Extend(f, n) \in [1..n -> Chunk] BY <1>1 DEF Extend
<1>3. Extend(f, n) \in Seq(Chunk) BY <1>2
<1>4. Len(Extend(f, n)) = n BY <1>2, <1>3
<1> QED BY <1>3, <1>4 DEF Extend

\* What was written over one chunk of a copy.
LEMMA Written ==
  ASSUME NEW f \in Seq(Chunk), NEW c \in 1..Len(f), NEW data \in Chunk
  PROVE  /\ [f EXCEPT ![c] = data] \in Seq(Chunk)
         /\ Len([f EXCEPT ![c] = data]) = Len(f)
         /\ \A k \in 1..Len(f) : [f EXCEPT ![c] = data][k] = IF k = c THEN data ELSE f[k]
OBVIOUS

\* No sequence of chunks is the missing file.
LEMMA NotMissing == NoFile \notin Seq(Chunk)
BY DownloadAssumption DEF Chunk

\* A copy with a live write has a hole, and is not the fingerprinted one.
LEMMA LiveMeansUnverified == ASSUME TypeOK, WriteInv, Matches(file) PROVE Live = {}
<1>1. SUFFICES ASSUME NEW w \in Live PROVE FALSE OBVIOUS
<1>2. /\ file \in Seq(Chunk) /\ w.chunk \in 1..Len(file) /\ file[w.chunk] = "hole"
  BY DEF TypeOK, WriteInv, Live, Chunk
<1> QED BY <1>2 DEF Matches

\* What follows an attempt does not see the reader or the tasks of this one.
LEMMA AttemptFailsFacts ==
  ASSUME TypeOK, AttemptFails
  PROVE  /\ attempt' \in 0..max_retries /\ pc' \in {"attempt", "err"}
         /\ DOMAIN inflight' = {} /\ start' = start /\ next' = next
         /\ \A c \in DOMAIN inflight' : inflight'[c] \in {"reading", "done", "failed"}
BY DownloadAssumption DEF AttemptFails, NoTask, TypeOK
-----------------------------------------------------------------------------
(* The steps.                                                              *)

\* A step that leaves the copy and the writes alone.
LEMMA Untouched ==
  ASSUME IInv, UNCHANGED <<given, local, queued>>
  PROVE  WriteInv' /\ LengthInv'
BY DEF IInv, given, local, WriteInv, Live, LengthInv, Length

\* A step that ends outside the reader, with no task left and no verdict.
LEMMA Outside ==
  ASSUME pc' \in {"stat", "attempt", "err"}, DOMAIN inflight' = {}
  PROVE  ReadInv' /\ WrittenInv' /\ Contract'
BY DEF ReadInv, WrittenInv, Contract

\* A step of an attempt, which is made for a copy that is not trusted.
LEMMA Distrusted ==
  ASSUME IInv, pc \in {"attempt", "read", "check"}, UNCHANGED given, pc' # "stat"
  PROVE  TrustInv'
<1>1. ~Trusted(found) BY DEF IInv, TrustInv
<1>2. Trusted(found)' = Trusted(found) BY DEF Trusted, Matches, Length, given
<1> QED BY <1>1, <1>2 DEF TrustInv

LEMMA StatStep == ASSUME IInv, Stat PROVE IInv'
<1> USE DEF IInv
<1>0. DOMAIN inflight = {} /\ inflight' = inflight /\ start' = start /\ next' = next
  BY DEF Stat, ReadInv, reader
<1>1. TypeOK' BY <1>0 DEF Stat, TypeOK, given, local, reader, Fault, remove_file
<1>2. CASE pc' = "ok"
  <2>1. /\ UNCHANGED <<given, local, queued>> /\ Length(file) = total
        /\ verify_existing_file = "Trust"
    BY <1>2 DEF Stat, local, remove_file
  <2>2. WriteInv' /\ LengthInv' BY <2>1, Untouched
  <2>3. file = found /\ Trusted(found)
    BY <2>1 DEF Stat, TrustInv, Trusted, verify_existing_file
  <2>4. Contract' /\ TrustInv'
    BY <1>2, <2>1, <2>3 DEF Contract, TrustInv, Trusted, Matches, Length, given, local, Stat
  <2> QED BY <1>0, <1>1, <1>2, <2>2, <2>4 DEF ReadInv, WrittenInv
<1>3. CASE pc' # "ok" /\ UNCHANGED local
  <2>1. pc' \in {"attempt", "err"} /\ UNCHANGED <<given, local, queued>>
    BY <1>3 DEF Stat
  <2>2. TrustInv'
    BY <1>2, <1>3, <2>1
       DEF Stat, TrustInv, Trusted, verify_existing_file, Matches, Length, given, local
  <2> QED BY <1>0, <1>1, <2>1, <2>2, Untouched, Outside
<1>4. CASE pc' # "ok" /\ remove_file
  <2>1. /\ pc' = "attempt" /\ file' = NoFile /\ inode' = inode + 1 /\ Length(file) = total
        /\ UNCHANGED <<given, queued>>
    BY <1>4 DEF Stat, remove_file, local, TypeOK
  <2>2. WriteInv' BY <2>1 DEF WriteInv, Live, given, TypeOK
  <2>3. Length(found) <= total
    BY <2>1, DownloadAssumption DEF LengthInv, TypeOK
  <2>4. LengthInv' BY <2>1, <2>3 DEF LengthInv, given, Length
  <2>5. TrustInv'
    BY <1>4, <2>1 DEF Stat, TrustInv, Trusted, verify_existing_file, Matches, Length, given,
                      local, remove_file, TypeOK
  <2> QED BY <1>0, <1>1, <2>1, <2>2, <2>4, <2>5, Outside
<1> QED BY <1>2, <1>3, <1>4 DEF Stat

LEMMA GiveUpStep == ASSUME IInv, GiveUp PROVE IInv'
<1>1. DOMAIN inflight' = {} BY DEF GiveUp, IInv, ReadInv, reader
<1>2. TypeOK' BY DEF GiveUp, IInv, TypeOK, given, local, reader, Fault
<1> QED BY <1>1, <1>2, Untouched, Outside, Distrusted DEF GiveUp, IInv

LEMMA OpenFailsStep == ASSUME IInv, OpenFails PROVE IInv'
<1> USE DEF IInv
<1>1. /\ attempt' \in 0..max_retries /\ pc' \in {"attempt", "err"}
      /\ DOMAIN inflight' = {} /\ start' = start /\ next' = next
      /\ \A c \in DOMAIN inflight' : inflight'[c] \in {"reading", "done", "failed"}
  BY AttemptFailsFacts DEF OpenFails
<1>0. TrustInv' BY <1>1, Distrusted DEF OpenFails
<1>2. CASE UNCHANGED file
  <2>1. TypeOK' BY <1>1, <1>2 DEF OpenFails, TypeOK, given, Fault
  <2> QED BY <1>0, <1>1, <1>2, <2>1, Untouched, Outside DEF OpenFails, local
<1>3. CASE file = NoFile /\ file' = << >>
  <2>1. file' \in Seq(Chunk) /\ Length(file') = 0 /\ Length(file) = 0
    BY <1>3 DEF Length
  <2>2. TypeOK' BY <1>1, <2>1 DEF OpenFails, TypeOK, given, Fault, Chunk
  <2>3. WriteInv' BY <1>3 DEF OpenFails, WriteInv, Live, given
  <2>4. LengthInv' BY <2>1 DEF OpenFails, LengthInv, given, Length
  <2> QED BY <1>0, <1>1, <2>2, <2>3, <2>4, Outside
<1> QED BY <1>2, <1>3 DEF OpenFails

LEMMA TryDownloadStep == ASSUME IInv, TryDownload PROVE IInv'
<1> USE DEF IInv
<1>0. /\ file \in {NoFile} \cup Seq(Chunk) /\ Length(file) \in Nat /\ total \in Nat
      /\ DOMAIN inflight = {}
  BY Sized, DownloadAssumption DEF TypeOK, Chunk, TryDownload, ReadInv
<1>1. /\ UNCHANGED <<given, inode, attempt, inflight, queued, faults>>
      /\ pc' = "read" /\ start' = Length(file) /\ next' = Length(file)
  BY DEF TryDownload
<1>trust. TrustInv' BY <1>1, Distrusted DEF TryDownload
<1>2. CASE total > Length(file)
  <2>1. /\ file' \in Seq(Chunk) /\ Len(file') = total
        /\ \A c \in 1..total : file'[c] = IF c <= Length(file) THEN file[c] ELSE "hole"
    BY <1>0, <1>2, Extended DEF TryDownload
  <2>2. Live = {} BY <1>0, <1>2 DEF WriteInv, Length
  <2>3. TypeOK' BY <1>0, <1>1, <2>1 DEF TypeOK, given, Chunk
  <2>4. WriteInv' BY <1>1, <2>2 DEF WriteInv, Live, given
  <2>5. ReadInv'
    <3>1. \A c \in Pending' : c \in (Length(file) + 1)..total
      BY <1>0, <1>1 DEF Pending, given
    <3> QED BY <1>0, <1>1, <1>2, <2>1, <2>2, <3>1, NotMissing DEF ReadInv, given, Live
  <2>6. WrittenInv' BY <1>0, <1>1 DEF WrittenInv, Pending, given
  <2>7. LengthInv' BY <1>0, <1>1, <1>2 DEF LengthInv, given
  <2>8. Contract' BY <1>1 DEF Contract
  <2> QED BY <1>trust, <2>3, <2>4, <2>5, <2>6, <2>7, <2>8
<1>3. CASE ~(total > Length(file))
  <2>1. /\ file' \in Seq(Chunk) /\ Length(file') = Length(file) /\ Len(file') = Length(file)
        /\ file # NoFile => file' = file
    BY <1>0, <1>3, NotMissing DEF TryDownload, Length
  <2>2. TypeOK' BY <1>0, <1>1, <2>1 DEF TypeOK, given, Chunk
  <2>3. WriteInv' BY <1>1, <2>1 DEF WriteInv, Live, given
  <2>4. ReadInv'
    <3>1. Pending' = {} BY <1>0, <1>1, <1>3 DEF Pending, given
    <3> QED BY <1>0, <1>1, <1>3, <2>1, <3>1, NotMissing DEF ReadInv, given
  <2>5. WrittenInv' BY <1>0, <1>1, <1>3 DEF WrittenInv, given
  <2>6. LengthInv' BY <1>1, <2>1 DEF LengthInv, given, Length
  <2>7. Contract' BY <1>1 DEF Contract
  <2> QED BY <1>trust, <2>2, <2>3, <2>4, <2>5, <2>6, <2>7
<1> QED BY <1>2, <1>3

LEMMA IssueStep == ASSUME IInv, Issue PROVE IInv'
<1> USE DEF IInv
<1>0. /\ total \in Nat /\ start \in Nat /\ next \in Nat /\ next < total /\ pc = "read"
  BY DownloadAssumption DEF TypeOK, Issue
<1>1. /\ UNCHANGED <<given, local, pc, start, queued, faults, attempt>> /\ next' = next + 1
      /\ DOMAIN inflight' = DOMAIN inflight \cup {next + 1}
      /\ inflight'[next + 1] = "reading"
      /\ \A c \in DOMAIN inflight : c # next + 1 => inflight'[c] = inflight[c]
  BY DEF Issue
<1>2. start < total /\ DOMAIN inflight \subseteq (start + 1)..next
  BY <1>0 DEF ReadInv
<1>3. next + 1 \notin DOMAIN inflight BY <1>0, <1>2
<1>4. Pending' = Pending BY <1>0, <1>1, <1>3 DEF Pending, given
<1>5. TypeOK' BY <1>0, <1>1 DEF TypeOK, given, local
<1>6. ReadInv' BY <1>0, <1>1, <1>2, <1>4 DEF ReadInv, given, local, Live
<1>7. WrittenInv' BY <1>0, <1>1, <1>3, <1>4 DEF WrittenInv, given, local, Live
<1>8. Contract' BY <1>0, <1>1 DEF Contract
<1> QED BY <1>0, <1>1, <1>5, <1>6, <1>7, <1>8, Untouched, Distrusted

\* The write of the answer is live, and the first for its chunk.
LEMMA ReadChunkStep == ASSUME IInv, NEW c \in DOMAIN inflight, ReadChunk(c) PROVE IInv'
<1> USE DEF IInv
<1>0. /\ total \in Nat /\ start \in Nat /\ next \in Nat /\ inode \in Nat
      /\ pc = "read" /\ inflight[c] = "reading" /\ start < total
      /\ c \in (start + 1)..total /\ c \in Pending
      /\ DOMAIN inflight \subseteq (start + 1)..next
  <2>1. c \in (start + 1)..next BY DEF ReadChunk, ReadInv
  <2> QED BY <2>1, DownloadAssumption DEF TypeOK, ReadChunk, ReadInv, Pending
<1>1. /\ UNCHANGED <<given, local, pc, attempt, start, next>>
      /\ DOMAIN inflight' = DOMAIN inflight
      /\ \A k \in DOMAIN inflight : k # c => inflight'[k] = inflight[k]
      /\ inflight'[c] \in {"done", "failed"}
  BY DEF ReadChunk
<1>2. Pending' = Pending \ {c} BY <1>0, <1>1 DEF Pending, given
<1>3. \A w \in Live : w.chunk # c BY <1>0 DEF ReadInv
<1>trust. TrustInv' BY <1>0, <1>1, Distrusted
<1>4. CASE UNCHANGED queued /\ Fault
  <2>1. TypeOK' BY <1>0, <1>1, <1>4 DEF TypeOK, given, local, Fault
  <2>2. ReadInv' BY <1>0, <1>1, <1>2, <1>4 DEF ReadInv, given, local, Live
  <2>3. WrittenInv' BY <1>4 DEF WrittenInv, Fault, TypeOK
  <2>4. Contract' BY <1>0, <1>1 DEF Contract
  <2> QED BY <1>1, <1>trust, <1>4, <2>1, <2>2, <2>3, <2>4, Untouched
<1>5. ASSUME NEW data \in {"right", "other"}, Queue(c, data),
             inflight'[c] = "done", UNCHANGED faults \/ Fault
      PROVE  IInv'
  <2> DEFINE new == [inode |-> inode, chunk |-> c, data |-> data]
  <2>1. queued' = queued \cup {new} /\ Live' = Live \cup {new}
    BY <1>1, <1>5 DEF Queue, Live, local
  <2>2. TypeOK' BY <1>0, <1>1, <1>5, <2>1 DEF TypeOK, given, local, Fault
  <2>3. WriteInv'
    <3>1. file # NoFile /\ Len(file) = total /\ file[c] = "hole" BY <1>0 DEF ReadInv
    <3> QED BY <1>0, <1>1, <1>3, <2>1, <3>1 DEF WriteInv, given, local
  <2>4. ReadInv' BY <1>0, <1>1, <1>2, <2>1 DEF ReadInv, given, local
  <2>5. WrittenInv'
    <3> SUFFICES ASSUME faults' = 0 PROVE WrittenInv' BY DEF WrittenInv
    <3>1. faults = 0 BY <1>5 DEF Fault, TypeOK
    <3>2. \A k \in DOMAIN inflight' : inflight'[k] # "failed"
      BY <1>1, <1>5, <3>1 DEF WrittenInv
    <3>3. ASSUME NEW k \in (start + 1)..total
          PROVE  k \in Pending' \/ file[k] # "hole" \/ \E w \in Live' : w.chunk = k
      <4>1. CASE k = c
        <5>1. new \in Live' /\ new.chunk = c BY <2>1
        <5> QED BY <4>1, <5>1
      <4>2. CASE k # c
        <5>1. k \in Pending \/ file[k] # "hole" \/ \E w \in Live : w.chunk = k
          BY <1>0, <3>1 DEF WrittenInv
        <5> QED BY <1>2, <2>1, <4>2, <5>1
      <4> QED BY <4>1, <4>2
    <3> HIDE DEF new
    <3> QED BY <1>1, <3>2, <3>3 DEF WrittenInv, given, local
  <2>6. LengthInv' BY <1>1 DEF LengthInv, given, local, Length
  <2>7. Contract' BY <1>0, <1>1 DEF Contract
  <2> QED BY <1>trust, <2>2, <2>3, <2>4, <2>5, <2>6, <2>7
<1> QED BY <1>4, <1>5 DEF ReadChunk

LEMMA JoinNextStep == ASSUME IInv, NEW c \in DOMAIN inflight, JoinNext(c) PROVE IInv'
<1> USE DEF IInv
<1>0. pc = "read" /\ UNCHANGED <<given, local, queued, faults>> BY DEF JoinNext
<1>1. CASE inflight[c] = "failed" /\ AttemptFails
  <2>1. TypeOK' BY <1>0, <1>1, AttemptFailsFacts DEF TypeOK, given, local
  <2> QED BY <1>0, <1>1, <2>1, AttemptFailsFacts, Untouched, Outside, Distrusted
<1>2. CASE inflight[c] = "done"
  <2>1. /\ UNCHANGED <<pc, attempt, start, next>>
        /\ DOMAIN inflight' = DOMAIN inflight \ {c}
        /\ \A k \in DOMAIN inflight \ {c} : inflight'[k] = inflight[k]
    BY <1>2 DEF JoinNext
  <2>2. next \in Nat /\ total \in Nat /\ start \in Nat BY DownloadAssumption DEF TypeOK
  <2>3. Pending' = Pending
    BY <1>0, <1>2, <2>1 DEF Pending, given
  <2>4. TypeOK' BY <1>0, <2>1 DEF TypeOK, given, local
  <2>5. ReadInv' BY <1>0, <2>1, <2>2, <2>3 DEF ReadInv, given, local, Live
  <2>6. WrittenInv' BY <1>0, <2>1, <2>3 DEF WrittenInv, given, local, Live
  <2>7. Contract' BY <1>0, <2>1 DEF Contract
  <2> QED BY <1>0, <2>1, <2>4, <2>5, <2>6, <2>7, Untouched, Distrusted
<1> QED BY <1>1, <1>2 DEF JoinNext

LEMMA ReaderDoneStep == ASSUME IInv, ReaderDone PROVE IInv'
<1> USE DEF IInv
<1>1. /\ UNCHANGED <<given, local, attempt, reader, queued, faults>>
      /\ pc = "read" /\ pc' = "check" /\ next >= total /\ DOMAIN inflight = {}
  BY DEF ReaderDone
<1>2. TypeOK' BY <1>1 DEF TypeOK, given, local, reader
<1>3. ReadInv' BY <1>1 DEF ReadInv, given, local, reader
<1>4. WrittenInv' BY <1>1 DEF WrittenInv, Pending, Live, given, local, reader
<1>5. Contract' BY <1>1 DEF Contract
<1> QED BY <1>1, <1>2, <1>3, <1>4, <1>5, Untouched, Distrusted

LEMMA CheckStep == ASSUME IInv, Check PROVE IInv'
<1> USE DEF IInv
<1>0. pc = "check" /\ UNCHANGED <<given, queued>> /\ DOMAIN inflight = {}
  BY DEF Check, ReadInv
<1>trust. pc' # "stat" => TrustInv' BY <1>0, Distrusted
<1>1. CASE AttemptFails /\ UNCHANGED local /\ (UNCHANGED faults \/ Fault)
  <2>1. TypeOK' BY <1>0, <1>1, AttemptFailsFacts DEF TypeOK, given, local, Fault
  <2> QED BY <1>0, <1>trust, <1>1, <2>1, AttemptFailsFacts, Untouched, Outside
<1>2. CASE AttemptFails /\ remove_file /\ UNCHANGED faults /\ Length(file) = total
  <2>1. file' = NoFile /\ inode' = inode + 1 BY <1>2 DEF remove_file
  <2>2. TypeOK' BY <1>0, <1>2, <2>1, AttemptFailsFacts DEF TypeOK, given
  <2>3. WriteInv' BY <1>0, <2>1 DEF WriteInv, Live, given, TypeOK
  <2>4. Length(found) <= total BY <1>2, DownloadAssumption DEF LengthInv, TypeOK
  <2>5. LengthInv' BY <1>0, <2>4 DEF LengthInv, given, Length
  <2> QED BY <1>trust, <1>2, <2>2, <2>3, <2>5, AttemptFailsFacts, Outside
<1>3. CASE /\ Length(file) = total /\ (hash = "none" \/ Matches(file))
           /\ pc' = "ok" /\ UNCHANGED <<local, attempt, reader, faults>>
  <2>1. TypeOK' BY <1>0, <1>3 DEF TypeOK, given, local, reader
  <2>2. Length(found) <= total BY <1>3, DownloadAssumption DEF LengthInv, TypeOK
  <2>3. ReadInv' BY <1>0, <1>3 DEF ReadInv, reader
  <2>4. WrittenInv' BY <1>0, <1>3 DEF WrittenInv, reader
  <2>5. ~Trusted(found) /\ total > 0
    <3>1. ~Trusted(found) BY <1>0 DEF TrustInv
    <3>2. ASSUME total = 0 PROVE FALSE
      <4>1. Length(found) \in Nat /\ Length(found) <= 0
        BY <2>2, <3>2, Sized, DownloadAssumption DEF TypeOK, Chunk
      <4> QED BY <3>1, <3>2, <4>1 DEF Trusted
    <3> QED BY <3>1, <3>2, DownloadAssumption DEF TypeOK
  <2>6. Contract'
    BY <1>0, <1>3, <2>2, <2>5 DEF Contract, Trusted, Matches, Length, given, local
  <2> QED BY <1>0, <1>trust, <1>3, <2>1, <2>3, <2>4, <2>6, Untouched
<1> QED BY <1>1, <1>2, <1>3 DEF Check

\* A write lands in a hole, or in a copy that is not there any more.
LEMMA LandStep == ASSUME IInv, NEW w \in queued, Land(w) PROVE IInv'
<1> USE DEF IInv
<1>0. /\ UNCHANGED <<given, inode, pc, attempt, reader>> /\ queued' = queued \ {w}
      /\ Live' = Live \ {w} /\ Pending' = Pending
      /\ faults' \in Nat /\ (faults' = 0 => faults = 0)
      /\ total \in Nat /\ start \in Nat /\ next \in Nat
  BY DownloadAssumption DEF Land, Live, Pending, given, reader, Fault, TypeOK
<1>trust. /\ ~Trusted(found) /\ pc # "stat" BY DEF TrustInv
<1>kept. TrustInv' BY <1>0, <1>trust DEF TrustInv, Trusted, Matches, Length, given
<1>1. CASE UNCHANGED file
  <2>1. TypeOK' BY <1>0, <1>1 DEF TypeOK, given, reader
  <2>2. WriteInv' BY <1>0, <1>1 DEF WriteInv, given
  <2>3. ReadInv' BY <1>0, <1>1 DEF ReadInv, given, reader
  <2>4. WrittenInv'
    <3> SUFFICES ASSUME faults' = 0 PROVE w \notin Live
      BY <1>0, <1>1 DEF WrittenInv, given, reader
    <3> SUFFICES ASSUME w \in Live PROVE FALSE OBVIOUS
    <3>1. ~Fault BY DEF Fault, TypeOK
    <3>2. file' = [file EXCEPT ![w.chunk] = w.data] BY <3>1 DEF Land, Live
    <3>3. /\ file \in Seq(Chunk) /\ w.chunk \in 1..Len(file) /\ file[w.chunk] = "hole"
          /\ w.data \in {"right", "other"}
      BY DEF TypeOK, WriteInv, Live, Chunk
    <3> QED BY <1>1, <3>2, <3>3, Written DEF Chunk
  <2>5. LengthInv' /\ Contract'
    BY <1>0, <1>1 DEF LengthInv, Contract, Trusted, Matches, given, Length
  <2> QED BY <1>kept, <2>1, <2>2, <2>3, <2>4, <2>5
<1>2. CASE w \in Live /\ file' = [file EXCEPT ![w.chunk] = w.data]
  <2>1. /\ file \in Seq(Chunk) /\ file # NoFile /\ w.chunk \in 1..Len(file)
        /\ w.data \in {"right", "other"} /\ file[w.chunk] = "hole" /\ Len(file) = total
    BY <1>2, NotMissing DEF TypeOK, WriteInv, Live, Chunk
  <2>2. /\ file' \in Seq(Chunk) /\ file' # NoFile /\ Len(file') = Len(file)
        /\ \A k \in 1..Len(file) : file'[k] = IF k = w.chunk THEN w.data ELSE file[k]
    BY <1>2, <2>1, Written, NotMissing DEF Chunk
  <2>3. TypeOK' BY <1>0, <2>2 DEF TypeOK, given, reader, Chunk
  <2>4. WriteInv' BY <1>0, <1>2, <2>1, <2>2 DEF WriteInv, given
  <2>5. ReadInv'
    <3>1. pc = "read" => Pending \subseteq 1..total /\ w.chunk \notin Pending
      <4>1. pc = "read" => w.chunk \notin Pending BY <1>2 DEF ReadInv
      <4>2. pc = "read" => DOMAIN inflight \subseteq (start + 1)..total
        BY <1>0, <2>1 DEF ReadInv
      <4> QED BY <1>0, <4>1, <4>2 DEF Pending
    <3> QED BY <1>0, <2>1, <2>2, <3>1 DEF ReadInv, given, reader
  <2>6. WrittenInv'
    BY <1>0, <1>2, <2>1, <2>2 DEF WrittenInv, given, reader
  <2>7. LengthInv' BY <1>0, <2>1, <2>2 DEF LengthInv, given, Length
  <2>8. Contract'
    <3>1. ~Matches(file) BY <1>2, LiveMeansUnverified
    <3>2. Trusted(found)' = Trusted(found) BY <1>0 DEF Trusted, Matches, Length, given
    <3> QED BY <1>0, <1>trust, <2>1, <2>2, <3>1, <3>2 DEF Contract, given, Length
  <2> QED BY <1>kept, <2>3, <2>4, <2>5, <2>6, <2>7, <2>8
<1> QED BY <1>1, <1>2 DEF Land, Live
-----------------------------------------------------------------------------
LEMMA Inductive == Spec => []IInv
<1>1. Init => IInv
  <2> SUFFICES ASSUME Init PROVE IInv OBVIOUS
  <2>1. TypeOK BY DownloadAssumption DEF Init, TypeOK, NoTask
  <2>2. WriteInv /\ ReadInv /\ WrittenInv /\ Contract
    BY DEF Init, WriteInv, Live, ReadInv, WrittenInv, Contract, NoTask
  <2>3. LengthInv
    BY <2>1, Sized, DownloadAssumption DEF Init, LengthInv, TypeOK, Chunk
  <2>4. TrustInv BY DEF Init, TrustInv
  <2> QED BY <2>1, <2>2, <2>3, <2>4 DEF IInv
<1>2. IInv /\ [Next]_vars => IInv'
  <2> SUFFICES ASSUME IInv, [Next]_vars PROVE IInv' OBVIOUS
  <2>1. CASE UNCHANGED vars
    BY <2>1 DEF vars, given, local, reader, IInv, TypeOK, WriteInv, Live, ReadInv, Pending,
                WrittenInv, LengthInv, TrustInv, Contract, Trusted, Matches, Length
  <2> QED BY <2>1, StatStep, TryDownloadStep, GiveUpStep, OpenFailsStep, IssueStep,
             ReadChunkStep, JoinNextStep, ReaderDoneStep, CheckStep, LandStep DEF Next
<1> QED BY <1>1, <1>2, PTL DEF Spec

\* The state of a download is well typed: sync.rs, download_file and what it calls.
THEOREM TypeCorrect == Spec => []TypeOK
<1>1. IInv => TypeOK BY DEF IInv
<1> QED BY <1>1, Inductive, PTL

\* An Ok of download_file means that the copy found was trusted and left alone, or that there
\* is one of the remote's length and, where a fingerprint is recorded, of its bytes; and no
\* late write changes that.
THEOREM ContractHolds == Spec => []Contract
<1>1. IInv => Contract BY DEF IInv
<1> QED BY <1>1, Inductive, PTL

\* The pipelined reader returns only when every chunk has been handed to the disk.
THEOREM ChunksAreWritten == Spec => []EveryChunkWritten
<1>1. IInv => EveryChunkWritten
  <2> SUFFICES ASSUME IInv, pc = "check", faults = 0, NEW c \in (start + 1)..total
               PROVE  file[c] # "hole" \/ \E w \in queued : w.chunk = c /\ w.inode = inode
    BY DEF EveryChunkWritten
  <2>1. Pending = {}
    BY DownloadAssumption DEF IInv, TypeOK, ReadInv, Pending
  <2> QED BY <2>1 DEF IInv, WrittenInv, Live
<1> QED BY <1>1, Inductive, PTL

\* Neither a retry nor a write of an attempt that was given up changes a copy that has the
\* recorded fingerprint.
THEOREM VerifiedStays == Spec => VerifiedIsKept
<1>1. IInv /\ [Next]_vars => [total > 0 /\ Length(file) = total /\ Matches(file) => file' = file]_vars
  <2> SUFFICES ASSUME IInv, Next, total > 0, Length(file) = total, Matches(file)
               PROVE  file' = file
    OBVIOUS
  <2> USE DEF IInv
  <2>1. Live = {} BY LiveMeansUnverified
  <2>2. file # NoFile /\ ~(total > Length(file))
    BY DownloadAssumption DEF Matches, TypeOK
  <2>3. CASE Stat
    BY <2>3 DEF Stat, verify_existing_file, local
  <2>4. CASE TryDownload
    BY <2>2, <2>4 DEF TryDownload
  <2>5. CASE GiveUp \/ OpenFails \/ Issue \/ ReaderDone
    BY <2>2, <2>5 DEF GiveUp, OpenFails, Issue, ReaderDone, local
  <2>6. CASE Check BY <2>6 DEF Check, local
  <2>7. ASSUME NEW c \in DOMAIN inflight, ReadChunk(c) \/ JoinNext(c) PROVE file' = file
    BY <2>7 DEF ReadChunk, JoinNext, local
  <2>8. ASSUME NEW w \in queued, Land(w) PROVE file' = file
    BY <2>1, <2>8 DEF Land, Live
  <2> QED BY <2>3, <2>4, <2>5, <2>6, <2>7, <2>8 DEF Next
<1> QED BY <1>1, Inductive, PTL DEF Spec, VerifiedIsKept
=============================================================================
