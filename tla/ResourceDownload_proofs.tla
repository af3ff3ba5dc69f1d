---------------------- MODULE ResourceDownload_proofs ----------------------
(***************************************************************************)
(* Theorems about ResourceDownload, for any number of callers, chunks and  *)
(* versions.  Where a theorem assumes Timely, every chunk arrives within   *)
(* MAX_DOWNLOAD_IDLE_TIME, so that no lock in use is released as idle.     *)
(***************************************************************************)
EXTENDS ResourceDownload, SequenceTheorems, TLAPS

\* Calls between the acquisition of the lock and the end of the download.
Holds(c) == caller[c].pc \in {"open", "write", "track", "fail"}

\* The tracker of a download in progress is open, and belongs to one call.
LockIsHeld ==
  \A c \in Callers : Holds(c) =>
    /\ tracker = "open"
    /\ \A d \in Callers : Holds(d) => c = d

\* All chunks of a file are from one version.
Uniform(chunks) ==
  \E v \in Versions : \A i \in 1 .. Len(chunks) : chunks[i] = v

\* Unless the cleaner has deleted it at the wrong time, the file never mixes
\* versions, is as long as the call that writes it believes, and is complete
\* when its tracker says so.
FileFits ==
  ~swept =>
    /\ Uniform(file.chunks)
    /\ tracker = "done" => Len(file.chunks) = Chunks
    /\ \A c \in Callers : caller[c].pc \in {"write", "track"} =>
         /\ caller[c].stream \in Versions
         /\ Len(file.chunks) = caller[c].offset
         /\ \A i \in 1 .. Len(file.chunks) : file.chunks[i] = caller[c].stream

\* A call has downloaded nothing before it has opened the file.
OffsetsFit ==
  \A c \in Callers :
    caller[c].pc \in {"check", "lock", "open"} => caller[c].offset = 0

IInv == TypeOK /\ LockIsHeld /\ OffsetsFit /\ FileFits

-----------------------------------------------------------------------------
(* Types                                                                   *)

\* A function on the first numbers is a sequence of that length.
LEMMA FunctionIsSeq ==
  ASSUME NEW S, NEW n \in Nat, NEW f \in [1 .. n -> S]
  PROVE  f \in Seq(S) /\ Len(f) = n
<1>1. f \in Seq(S)
  BY SeqDef
<1>2. Len(f) \in Nat /\ 1 .. Len(f) = 1 .. n
  BY <1>1, LenProperties
<1>. QED
  BY <1>1, <1>2

\* What a write leaves of a file that is shorter than the resource.
LEMMA WriteFacts ==
  ASSUME NEW chunks \in Seq(0 .. MaxVersions), Len(chunks) <= Chunks,
         NEW offset \in 0 .. Chunks, offset < Chunks,
         NEW version \in 0 .. MaxVersions
  PROVE  LET written == Write(chunks, offset, version)
         IN  /\ written \in Seq(0 .. MaxVersions)
             /\ Len(written) <= Chunks
             /\ offset = Len(chunks) =>
                  /\ Len(written) = offset + 1
                  /\ written[offset + 1] = version
                  /\ \A i \in 1 .. offset : written[i] = chunks[i]
<1>. DEFINE size == IF offset < Len(chunks) THEN Len(chunks) ELSE offset + 1
            written == Write(chunks, offset, version)
<1>1. Len(chunks) \in Nat /\ size \in Nat /\ size <= Chunks
  BY SizeAssumption, LenProperties
<1>2. 0 \in 0 .. MaxVersions
  BY SizeAssumption
<1>3. ASSUME NEW i \in 1 .. size
      PROVE  (IF i = offset + 1 THEN version
              ELSE IF i <= Len(chunks) THEN chunks[i] ELSE 0)
               \in 0 .. MaxVersions
  <2>1. CASE i <= Len(chunks)
    <3>1. i \in 1 .. Len(chunks)
      BY <1>1, <2>1
    <3>2. chunks[i] \in 0 .. MaxVersions
      BY <3>1, ElementOfSeq
    <3>. QED
      BY <1>1, <2>1, <3>2
  <2>. QED
    BY <1>1, <1>2, <2>1
<1>4. written \in Seq(0 .. MaxVersions) /\ Len(written) = size
  <2>1. written \in [1 .. size -> 0 .. MaxVersions]
    BY <1>3 DEF Write
  <2>. HIDE DEF written, size
  <2>. QED
    BY <1>1, <2>1, FunctionIsSeq
<1>5. ASSUME offset = Len(chunks)
      PROVE  /\ size = offset + 1
             /\ written[offset + 1] = version
             /\ \A i \in 1 .. offset : written[i] = chunks[i]
  BY <1>1, <1>5 DEF Write
<1>. QED
  BY <1>1, <1>4, <1>5

\* The updates of a call keep it a record of its type.
LEMMA CallType ==
  ASSUME TypeOK, NEW c \in Callers
  PROVE  /\ caller \in [Callers -> Call]
         /\ IdleCaller \in Call
         /\ \A pc \in {"idle", "check", "lock", "open", "write", "track",
                       "fail", "wait", "returned", "raised"} :
              At(c, pc) => caller' \in [Callers -> Call]
<1>1. caller \in [Callers -> Call]
  BY DEF TypeOK
<1>2. IdleCaller \in Call
  BY SizeAssumption DEF IdleCaller, Call
<1>3. ASSUME NEW pc \in {"idle", "check", "lock", "open", "write", "track",
                         "fail", "wait", "returned", "raised"}, At(c, pc)
      PROVE  caller' \in [Callers -> Call]
  <2>1. [caller[c] EXCEPT !.pc = pc] \in Call
    BY <1>1 DEF Call
  <2>. QED
    BY <1>1, <1>3, <2>1 DEF At
<1>. QED
  BY <1>1, <1>2, <1>3

\* An empty file has the type of a file.
LEMMA EmptyFile ==
  /\ <<>> \in Seq(0 .. MaxVersions)
  /\ Len(<<>>) = 0
  /\ Len(<<>>) <= Chunks
<1>1. <<>> \in Seq(0 .. MaxVersions) /\ Len(<<>>) = 0
  BY EmptySeq
<1>. QED
  BY <1>1, SizeAssumption

\* The initial values are of their kinds.
LEMMA TypeInit == Init => TypeOK
<1>. SUFFICES ASSUME Init PROVE TypeOK
  OBVIOUS
<1>1. caller \in [Callers -> Call]
  BY SizeAssumption DEF Init, IdleCaller, Call
<1>2. file \in File /\ Len(file.chunks) <= Chunks
  BY EmptyFile, SizeAssumption DEF Init, NoFile, File
<1>3. source \in Versions /\ calls \in 0 .. MaxCalls
  BY SizeAssumption, CallAssumption DEF Init, Versions
<1>. QED
  BY <1>1, <1>2, <1>3 DEF Init, TypeOK

\* Every step of a call, of the cron jobs and of the world keeps the types.
LEMMA TypeNext == TypeOK /\ [Next]_vars => TypeOK'
<1>. SUFFICES ASSUME TypeOK, [Next]_vars PROVE TypeOK'
  OBVIOUS
<1>1. ASSUME NEW c \in Callers, DownloadResource(c) PROVE TypeOK'
  <2>1. [IdleCaller EXCEPT !.pc = "check", !.wanted = source] \in Call
    <3>1. source \in 0 .. MaxVersions
      BY SizeAssumption DEF TypeOK, Versions
    <3>. QED
      BY <3>1, CallType DEF Call
  <2>2. caller' \in [Callers -> Call]
    BY <1>1, <2>1, CallType DEF DownloadResource
  <2>3. calls' \in 0 .. MaxCalls
    BY <1>1, CallAssumption DEF DownloadResource, TypeOK
  <2>. QED
    BY <1>1, <2>2, <2>3 DEF DownloadResource, TypeOK
<1>2. ASSUME NEW c \in Callers, CheckCache(c) PROVE TypeOK'
  <2>1. caller' \in [Callers -> Call]
    BY <1>2, CallType DEF CheckCache
  <2>. QED
    BY <1>2, <2>1 DEF CheckCache, TypeOK
<1>3. ASSUME NEW c \in Callers, TryAcquireDownloadLock(c) PROVE TypeOK'
  <2>1. caller' \in [Callers -> Call]
    BY <1>3, CallType DEF TryAcquireDownloadLock
  <2>. QED
    BY <1>3, <2>1 DEF TryAcquireDownloadLock, TypeOK
<1>4. ASSUME NEW c \in Callers, OpenFile(c) PROVE TypeOK'
  <2>1. [caller[c] EXCEPT !.pc = "write", !.stream = source] \in Call
    <3>1. source \in 0 .. MaxVersions /\ caller[c] \in Call
      BY SizeAssumption, CallType DEF TypeOK, Versions
    <3>. QED
      BY <3>1 DEF Call
  <2>2. caller' \in [Callers -> Call]
    BY <1>4, <2>1, CallType DEF OpenFile
  <2>3. file'.chunks = <<>> /\ file' \in File
    BY <1>4, EmptyFile DEF OpenFile, TypeOK, Versions, File
  <2>. QED
    BY <1>4, <2>2, <2>3, EmptyFile DEF OpenFile, TypeOK
<1>5. ASSUME NEW c \in Callers, WriteChunk(c) PROVE TypeOK'
  <2>1. caller[c] \in Call
    BY CallType
  <2>2. /\ caller[c].offset \in 0 .. Chunks
        /\ caller[c].offset < Chunks
        /\ caller[c].stream \in 0 .. MaxVersions
    BY <1>5, <2>1, SizeAssumption DEF Call, WriteChunk, StreamEnds
  <2>3. [caller[c] EXCEPT !.pc = "track", !.offset = @ + 1] \in Call
    <3>1. caller[c].offset + 1 \in 0 .. Chunks
      BY <2>2, SizeAssumption
    <3>. QED
      BY <2>1, <3>1 DEF Call
  <2>4. caller' \in [Callers -> Call]
    BY <1>5, <2>3, CallType DEF WriteChunk
  <2>5. /\ file'.chunks \in Seq(0 .. MaxVersions)
        /\ Len(file'.chunks) <= Chunks
        /\ file' = [chunks |-> file'.chunks, stamp |-> source]
    BY <1>5, <2>2, WriteFacts DEF WriteChunk, TypeOK, File
  <2>. QED
    BY <1>5, <2>4, <2>5 DEF WriteChunk, TypeOK, File, Versions
<1>6. ASSUME NEW c \in Callers, TrackProgress(c) PROVE TypeOK'
  <2>1. caller' \in [Callers -> Call]
    BY <1>6, CallType DEF TrackProgress
  <2>. QED
    BY <1>6, <2>1 DEF TrackProgress, TypeOK
<1>7. ASSUME NEW c \in Callers, CompleteDownload(c) PROVE TypeOK'
  <2>1. caller' \in [Callers -> Call]
    BY <1>7, CallType DEF CompleteDownload
  <2>. QED
    BY <1>7, <2>1 DEF CompleteDownload, TypeOK
<1>8. ASSUME NEW c \in Callers, StoreError(c) PROVE TypeOK'
  <2>1. caller' \in [Callers -> Call]
    BY <1>8, CallType DEF StoreError
  <2>. QED
    BY <1>8, <2>1 DEF StoreError, TypeOK
<1>9. ASSUME NEW c \in Callers, PollDownload(c) PROVE TypeOK'
  <2>1. caller' \in [Callers -> Call]
    BY <1>9, CallType DEF PollDownload
  <2>. QED
    BY <1>9, <2>1 DEF PollDownload, TypeOK
<1>10. ASSUME NEW c \in Callers, DownloadFails(c) PROVE TypeOK'
  <2>1. caller' \in [Callers -> Call]
    BY <1>10, CallType DEF DownloadFails
  <2>. QED
    BY <1>10, <2>1 DEF DownloadFails, TypeOK
<1>11. ASSUME NEW c \in Callers, CallerDies(c) PROVE TypeOK'
  <2>1. caller' \in [Callers -> Call]
    BY <1>11, CallType DEF CallerDies
  <2>. QED
    BY <1>11, <2>1 DEF CallerDies, TypeOK
<1>12. CASE ReleaseIdleLock
  BY <1>12 DEF ReleaseIdleLock, TypeOK
<1>13. CASE ListOldFiles
  BY <1>13 DEF ListOldFiles, TypeOK
<1>14. CASE DeleteOldFile
  BY <1>14, EmptyFile, SizeAssumption DEF DeleteOldFile, NoFile, TypeOK, File
<1>15. CASE Restart
  <2>1. caller' \in [Callers -> Call]
    BY <1>15, SizeAssumption DEF Restart, IdleCaller, Call
  <2>. QED
    BY <1>15, <2>1 DEF Restart, TypeOK
<1>16. CASE Publish
  BY <1>16, SizeAssumption DEF Publish, Versions, TypeOK
<1>17. CASE UNCHANGED vars
  BY <1>17 DEF vars, TypeOK
<1>. QED
  BY <1>1, <1>2, <1>3, <1>4, <1>5, <1>6, <1>7, <1>8, <1>9, <1>10, <1>11,
     <1>12, <1>13, <1>14, <1>15, <1>16, <1>17 DEF Next, CallerStep

\* Every variable keeps a value of its kind.
THEOREM TypeCorrect == Spec => []TypeOK
<1>. QED
  BY TypeInit, TypeNext, PTL DEF Spec

-----------------------------------------------------------------------------
(* The lock and the file                                                   *)

\* A step of call c that moves it to pc leaves the other calls alone.
LEMMA CallMoves ==
  ASSUME TypeOK, NEW c \in Callers, NEW pc, At(c, pc)
  PROVE  /\ caller'[c].pc = pc
         /\ caller'[c].stream = caller[c].stream
         /\ caller'[c].offset = caller[c].offset
         /\ \A d \in Callers \ {c} : caller'[d] = caller[d]
<1>1. caller \in [Callers -> Call]
  BY CallType
<1>. QED
  BY <1>1 DEF At, Call

\* A call that begins, opens the file, writes to it or dies does so alone.
LEMMA CallUpdates ==
  ASSUME TypeOK, NEW c \in Callers
  PROVE  /\ DownloadResource(c) \/ OpenFile(c) \/ WriteChunk(c) \/ CallerDies(c)
              => \A d \in Callers \ {c} : caller'[d] = caller[d]
         /\ DownloadResource(c) =>
              caller'[c].pc = "check" /\ caller'[c].offset = 0
         /\ OpenFile(c) => /\ caller'[c].pc = "write"
                           /\ caller'[c].stream = source
                           /\ caller'[c].offset = caller[c].offset
         /\ WriteChunk(c) => /\ caller'[c].pc = "track"
                             /\ caller'[c].stream = caller[c].stream
                             /\ caller'[c].offset = caller[c].offset + 1
         /\ CallerDies(c) => caller'[c].pc = "idle"
<1>1. caller \in [Callers -> Call]
  BY CallType
<1>2. IdleCaller.offset = 0 /\ IdleCaller.pc = "idle"
  BY DEF IdleCaller
<1>3. DownloadResource(c) =>
        /\ \A d \in Callers \ {c} : caller'[d] = caller[d]
        /\ caller'[c].pc = "check" /\ caller'[c].offset = 0
  BY <1>1 DEF DownloadResource, IdleCaller
<1>4. OpenFile(c) =>
        /\ \A d \in Callers \ {c} : caller'[d] = caller[d]
        /\ caller'[c].pc = "write"
        /\ caller'[c].stream = source
        /\ caller'[c].offset = caller[c].offset
  BY <1>1 DEF OpenFile, Call
<1>5. WriteChunk(c) =>
        /\ \A d \in Callers \ {c} : caller'[d] = caller[d]
        /\ caller'[c].pc = "track"
        /\ caller'[c].stream = caller[c].stream
        /\ caller'[c].offset = caller[c].offset + 1
  BY <1>1 DEF WriteChunk, Call
<1>6. CallerDies(c) =>
        /\ \A d \in Callers \ {c} : caller'[d] = caller[d]
        /\ caller'[c].pc = "idle"
  BY <1>1, <1>2 DEF CallerDies
<1>. QED
  BY <1>3, <1>4, <1>5, <1>6

\* No step gives the lock to a second call, or takes it from the call that has
\* it: a lock in use is not released as idle, because chunks are timely.
LEMMA LockIsHeldNext ==
  ASSUME Timely, TypeOK, LockIsHeld, [Next]_vars
  PROVE  LockIsHeld'
<1>1. ASSUME NEW c \in Callers,
             \/ DownloadResource(c) \/ OpenFile(c)
             \/ WriteChunk(c) \/ CallerDies(c)
      PROVE  LockIsHeld'
  <2>1. /\ \A d \in Callers \ {c} : caller'[d] = caller[d]
        /\ caller'[c].pc \in {"check", "write", "track", "idle"}
        /\ caller'[c].pc \in {"write", "track"} => Holds(c)
    BY <1>1, CallUpdates DEF Holds, OpenFile, WriteChunk
  <2>2. tracker' = tracker
    BY <1>1 DEF DownloadResource, OpenFile, WriteChunk, CallerDies
  <2>. QED
    BY <2>1, <2>2 DEF LockIsHeld, Holds
<1>2. ASSUME NEW c \in Callers,
             CheckCache(c) \/ PollDownload(c) \/ DownloadFails(c)
      PROVE  LockIsHeld'
  <2>1. PICK pc \in {"returned", "lock", "raised", "fail"} :
             At(c, pc) /\ (pc = "fail" => Holds(c))
    BY <1>2 DEF CheckCache, PollDownload, DownloadFails, Holds
  <2>2. tracker' = tracker
    BY <1>2 DEF CheckCache, PollDownload, DownloadFails
  <2>. QED
    BY <2>1, <2>2, CallMoves DEF LockIsHeld, Holds
<1>3. ASSUME NEW c \in Callers, TryAcquireDownloadLock(c)
      PROVE  LockIsHeld'
  <2>1. CASE LockIsFree
    <3>1. /\ \A d \in Callers : ~Holds(d)
          /\ tracker' = "open"
          /\ At(c, "open")
      BY <1>3, <2>1 DEF TryAcquireDownloadLock, LockIsFree, LockIsHeld
    <3>. QED
      BY <3>1, CallMoves DEF LockIsHeld, Holds
  <2>2. CASE ~LockIsFree
    <3>1. tracker' = tracker /\ At(c, "wait")
      BY <1>3, <2>2 DEF TryAcquireDownloadLock
    <3>. QED
      BY <3>1, CallMoves DEF LockIsHeld, Holds
  <2>. QED
    BY <2>1, <2>2
<1>4. ASSUME NEW c \in Callers,
             TrackProgress(c) \/ CompleteDownload(c) \/ StoreError(c)
      PROVE  LockIsHeld'
  <2>1. Holds(c) /\ tracker = "open" /\ \A d \in Callers : Holds(d) => c = d
    BY <1>4 DEF TrackProgress, CompleteDownload, StoreError, Holds, LockIsHeld
  <2>2. \/ At(c, "write") /\ tracker' = "open"
        \/ At(c, "returned")
        \/ At(c, "raised")
    BY <1>4, <2>1 DEF TrackProgress, CompleteDownload, StoreError, NoTracker
  <2>. QED
    BY <2>1, <2>2, CallMoves DEF LockIsHeld, Holds
<1>5. CASE ReleaseIdleLock
  <2>1. \A c \in Callers : ~Holds(c)
    BY <1>5 DEF ReleaseIdleLock, Holds
  <2>. QED
    BY <1>5, <2>1 DEF ReleaseIdleLock, LockIsHeld, Holds
<1>6. CASE Restart
  BY <1>6 DEF Restart, IdleCaller, LockIsHeld, Holds
<1>7. CASE ListOldFiles \/ DeleteOldFile \/ Publish \/ UNCHANGED vars
  BY <1>7 DEF ListOldFiles, DeleteOldFile, Publish, vars, LockIsHeld, Holds
<1>. QED
  BY <1>1, <1>2, <1>3, <1>4, <1>5, <1>6, <1>7 DEF Next, CallerStep

\* No step moves the offset of a call that has not opened the file.
LEMMA OffsetsFitNext ==
  ASSUME TypeOK, OffsetsFit, [Next]_vars
  PROVE  OffsetsFit'
<1>1. ASSUME NEW c \in Callers,
             \/ DownloadResource(c) \/ OpenFile(c)
             \/ WriteChunk(c) \/ CallerDies(c)
      PROVE  OffsetsFit'
  BY <1>1, CallUpdates DEF OffsetsFit
<1>2. ASSUME NEW c \in Callers, CallerStep(c) \/ DownloadFails(c),
             ~OpenFile(c), ~WriteChunk(c)
      PROVE  OffsetsFit'
  <2>1. PICK pc : /\ At(c, pc)
                  /\ pc \in {"lock", "open"} => caller[c].pc \in {"check", "lock"}
    BY <1>2 DEF CallerStep, CheckCache, TryAcquireDownloadLock, TrackProgress,
                CompleteDownload, StoreError, PollDownload, DownloadFails
  <2>2. pc # "check"
    BY <1>2, <2>1, CallMoves
    DEF CallerStep, CheckCache, TryAcquireDownloadLock, TrackProgress,
        CompleteDownload, StoreError, PollDownload, DownloadFails
  <2>. QED
    BY <2>1, <2>2, CallMoves DEF OffsetsFit
<1>3. CASE Restart
  BY <1>3 DEF Restart, IdleCaller, OffsetsFit
<1>4. CASE \/ ReleaseIdleLock \/ ListOldFiles \/ DeleteOldFile
           \/ Publish \/ UNCHANGED vars
  BY <1>4 DEF ReleaseIdleLock, ListOldFiles, DeleteOldFile, Publish, vars,
              OffsetsFit
<1>. QED
  BY <1>1, <1>2, <1>3, <1>4 DEF Next, CallerStep

\* A download writes one version from the beginning to the end, and nobody
\* touches the file before the next one.
LEMMA FileFitsNext ==
  ASSUME Timely, IInv, [Next]_vars
  PROVE  FileFits'
<1>. SUFFICES ASSUME ~swept' PROVE FileFits'
  BY DEF FileFits
<1>. DEFINE Stays == \A d \in Callers : caller'[d].pc \in {"write", "track"} =>
                       /\ caller[d].pc \in {"write", "track"}
                       /\ caller'[d].stream = caller[d].stream
                       /\ caller'[d].offset = caller[d].offset
<1>1. TypeOK /\ LockIsHeld /\ OffsetsFit /\ FileFits
  BY DEF IInv
<1>2. ~swept
  BY DEF Next, CallerStep, DownloadResource, CheckCache, TryAcquireDownloadLock,
         OpenFile, WriteChunk, TrackProgress, CompleteDownload, StoreError,
         PollDownload, DownloadFails, CallerDies, ReleaseIdleLock, ListOldFiles,
         DeleteOldFile, Restart, Publish, vars
<1>3. ASSUME Stays, file' = file, tracker' # "done" \/ tracker' = tracker
      PROVE  FileFits'
  BY <1>1, <1>2, <1>3 DEF FileFits
<1>4. ASSUME NEW c \in Callers, DownloadResource(c) \/ CallerDies(c)
      PROVE  FileFits'
  <2>1. Stays
    BY <1>1, <1>4, CallUpdates
  <2>. QED
    BY <1>3, <1>4, <2>1 DEF DownloadResource, CallerDies
<1>5. ASSUME NEW c \in Callers,
             \/ CheckCache(c) \/ TryAcquireDownloadLock(c) \/ TrackProgress(c)
             \/ StoreError(c) \/ PollDownload(c) \/ DownloadFails(c)
      PROVE  FileFits'
  <2>1. PICK pc : /\ At(c, pc)
                  /\ pc \in {"write", "track"} => caller[c].pc = "track"
    BY <1>5 DEF CheckCache, TryAcquireDownloadLock, TrackProgress, StoreError,
                PollDownload, DownloadFails
  <2>2. Stays
    BY <1>1, <2>1, CallMoves
  <2>3. /\ file' = file
        /\ tracker' # "done" \/ tracker' = tracker
    BY <1>5 DEF CheckCache, TryAcquireDownloadLock, TrackProgress, StoreError,
                PollDownload, DownloadFails
  <2>. QED
    BY <1>3, <2>2, <2>3
<1>6. ASSUME NEW c \in Callers, OpenFile(c) PROVE FileFits'
  <2>1. /\ tracker' = "open"
        /\ file'.chunks = <<>>
        /\ source \in Versions
        /\ caller[c].offset = 0
    BY <1>1, <1>6 DEF OpenFile, LockIsHeld, Holds, OffsetsFit, TypeOK
  <2>2. \A d \in Callers : caller'[d].pc \in {"write", "track"} =>
          caller'[d].stream = source /\ caller'[d].offset = 0
    BY <1>1, <1>6, <2>1, CallUpdates DEF OpenFile, LockIsHeld, Holds
  <2>3. \A i \in 1 .. Len(file'.chunks) : file'.chunks[i] = source
    BY <2>1, EmptyFile
  <2>. QED
    BY <2>1, <2>2, <2>3, EmptyFile DEF FileFits, Uniform
<1>7. ASSUME NEW c \in Callers, WriteChunk(c) PROVE FileFits'
  <2>. DEFINE version == caller[c].stream
              offset == caller[c].offset
  <2>1. /\ caller[c] \in Call
        /\ file.chunks \in Seq(0 .. MaxVersions)
        /\ Len(file.chunks) <= Chunks
    BY <1>1 DEF TypeOK, File
  <2>2. /\ version \in Versions
        /\ Len(file.chunks) = offset
        /\ \A i \in 1 .. Len(file.chunks) : file.chunks[i] = version
    BY <1>1, <1>2, <1>7 DEF FileFits, WriteChunk
  <2>3. offset \in 0 .. Chunks /\ offset < Chunks /\ version \in 0 .. MaxVersions
    BY <1>7, <2>1, SizeAssumption DEF WriteChunk, StreamEnds, Call
  <2>4. file'.chunks = Write(file.chunks, offset, version)
    BY <1>7 DEF WriteChunk
  <2>. HIDE DEF version, offset
  <2>5. /\ Len(file'.chunks) = offset + 1
        /\ file'.chunks[offset + 1] = version
        /\ \A i \in 1 .. offset : file'.chunks[i] = file.chunks[i]
    BY <2>1, <2>2, <2>3, <2>4, WriteFacts
  <2>6. \A i \in 1 .. Len(file'.chunks) : file'.chunks[i] = version
    BY <2>2, <2>3, <2>5
  <2>7. tracker' = "open"
    BY <1>1, <1>7 DEF WriteChunk, LockIsHeld, Holds
  <2>8. \A d \in Callers : caller'[d].pc \in {"write", "track"} =>
          caller'[d].stream = version /\ caller'[d].offset = offset + 1
    BY <1>1, <1>7, CallUpdates
    DEF WriteChunk, LockIsHeld, Holds, version, offset
  <2>. QED
    BY <2>2, <2>5, <2>6, <2>7, <2>8 DEF FileFits, Uniform
<1>8. ASSUME NEW c \in Callers, CompleteDownload(c) PROVE FileFits'
  <2>1. CASE NoTracker
    <3>1. At(c, "fail")
      BY <1>8, <2>1 DEF CompleteDownload
    <3>2. Stays
      BY <1>1, <3>1, CallMoves
    <3>. QED
      BY <1>3, <1>8, <2>1, <3>2 DEF CompleteDownload
  <2>2. CASE ~NoTracker
    <3>1. At(c, "returned") /\ file' = file /\ caller[c].pc = "write"
      BY <1>8, <2>2 DEF CompleteDownload
    <3>2. \A d \in Callers : caller'[d].pc \notin {"write", "track"}
      BY <1>1, <3>1, CallMoves DEF LockIsHeld, Holds
    <3>3. /\ Len(file.chunks) = caller[c].offset
          /\ Uniform(file.chunks)
      BY <1>1, <1>2, <3>1 DEF FileFits
    <3>4. Len(file.chunks) = Chunks
      BY <1>1, <1>8, <3>3, SizeAssumption
      DEF CompleteDownload, StreamEnds, TypeOK, Call
    <3>. QED
      BY <3>1, <3>2, <3>3, <3>4 DEF FileFits
  <2>. QED
    BY <2>1, <2>2
<1>9. CASE ReleaseIdleLock \/ ListOldFiles \/ Publish \/ UNCHANGED vars
  BY <1>3, <1>9 DEF ReleaseIdleLock, ListOldFiles, Publish, vars
<1>10. CASE DeleteOldFile
  <2>1. /\ file'.chunks = <<>>
        /\ tracker' = tracker /\ tracker # "done"
        /\ caller' = caller /\ Idle
    BY <1>10 DEF DeleteOldFile, NoFile
  <2>2. Uniform(<<>>)
    BY EmptyFile, SizeAssumption DEF Uniform, Versions
  <2>. QED
    BY <2>1, <2>2 DEF FileFits, Idle
<1>11. CASE Restart
  <2>1. Stays
    BY <1>11 DEF Restart, IdleCaller
  <2>. QED
    BY <1>3, <1>11, <2>1 DEF Restart
<1>. QED
  BY <1>4, <1>5, <1>6, <1>7, <1>8, <1>9, <1>10, <1>11 DEF Next, CallerStep

\* At the beginning there is no call and no file.
LEMMA InitIInv == Init => IInv
<1>. SUFFICES ASSUME Init PROVE IInv
  OBVIOUS
<1>1. \A c \in Callers : caller[c].pc = "idle"
  BY DEF Init, IdleCaller
<1>2. Uniform(<<>>)
  BY EmptyFile, SizeAssumption DEF Uniform, Versions
<1>3. file.chunks = <<>> /\ tracker = "none"
  BY DEF Init, NoFile
<1>. QED
  BY <1>1, <1>2, <1>3, TypeInit
  DEF IInv, LockIsHeld, Holds, OffsetsFit, FileFits

\* The lock is exclusive and the file whole in every state of every behaviour
\* in which chunks are timely.
THEOREM Invariance ==
  ASSUME Timely
  PROVE  Spec => []IInv
<1>1. IInv /\ [Next]_vars => IInv'
  BY TypeNext, LockIsHeldNext, OffsetsFitNext, FileFitsNext DEF IInv
<1>. QED
  BY InitIInv, <1>1, PTL DEF Spec

\* Two calls never write the cache file at the same time.
THEOREM Exclusion ==
  ASSUME Timely
  PROVE  Spec => []OneWriter
<1>1. IInv => OneWriter
  BY DEF IInv, LockIsHeld, Holds, OneWriter, Writing
<1>. QED
  BY Invariance, <1>1, PTL

\* A cache URL is returned for a complete file of one version only, unless the
\* cleaner has deleted the file under a call.
THEOREM WholeFiles ==
  ASSUME Timely
  PROVE  Spec => ReturnedFileIsWhole
<1>. DEFINE A == \A c \in Callers : Returns(c) => Whole(file.chunks) \/ swept
<1>1. IInv /\ [Next]_vars => [A]_vars
  <2>. SUFFICES ASSUME IInv, Next, NEW c \in Callers, Returns(c), ~swept
                PROVE  Whole(file.chunks)
    OBVIOUS
  <2>1. TypeOK /\ FileFits
    BY DEF IInv
  <2>2. ASSUME NEW d \in Callers \ {c}, caller'[c] = caller[c] PROVE FALSE
    BY <2>2 DEF Returns
  <2>3. \/ CheckCache(c) /\ IsCached(caller[c].wanted)
        \/ CompleteDownload(c) /\ ~NoTracker
        \/ PollDownload(c) /\ tracker = "done"
    <3>1. PICK d \in Callers :
                 \/ DownloadResource(d) \/ CallerStep(d)
                 \/ DownloadFails(d) \/ CallerDies(d)
      BY DEF Next, Restart, IdleCaller, ReleaseIdleLock, ListOldFiles,
             DeleteOldFile, Publish, Returns
    <3>2. d = c
      BY <2>1, <2>2, <3>1, CallMoves, CallUpdates
      DEF CallerStep, CheckCache, TryAcquireDownloadLock, TrackProgress,
          CompleteDownload, StoreError, PollDownload, DownloadFails
    <3>3. \/ CheckCache(c) \/ CompleteDownload(c) \/ PollDownload(c)
          \/ DownloadResource(c) \/ OpenFile(c) \/ WriteChunk(c)
          \/ CallerDies(c)
          \/ TryAcquireDownloadLock(c) \/ TrackProgress(c) \/ StoreError(c)
          \/ DownloadFails(c)
      BY <3>1, <3>2 DEF CallerStep
    <3>4. caller'[c].pc = "returned"
      BY DEF Returns
    <3>5. ~( \/ DownloadResource(c) \/ OpenFile(c) \/ WriteChunk(c)
             \/ CallerDies(c))
      BY <2>1, <3>4, CallUpdates
    <3>6. ~( \/ TryAcquireDownloadLock(c) \/ TrackProgress(c) \/ StoreError(c)
             \/ DownloadFails(c))
      BY <2>1, <3>4, CallMoves
      DEF TryAcquireDownloadLock, TrackProgress, StoreError, DownloadFails
    <3>. QED
      BY <2>1, <3>3, <3>4, <3>5, <3>6, CallMoves
      DEF CheckCache, CompleteDownload, PollDownload
  <2>4. Uniform(file.chunks)
    BY <2>1 DEF FileFits
  <2>5. Len(file.chunks) = Chunks
    <3>1. CASE CheckCache(c) /\ IsCached(caller[c].wanted)
      BY <3>1 DEF IsCached
    <3>2. CASE CompleteDownload(c) /\ ~NoTracker
      <4>1. Len(file.chunks) = caller[c].offset
        BY <2>1, <3>2 DEF CompleteDownload, FileFits
      <4>. QED
        BY <2>1, <3>2, <4>1, SizeAssumption
        DEF CompleteDownload, StreamEnds, TypeOK, Call
    <3>3. CASE PollDownload(c) /\ tracker = "done"
      BY <2>1, <3>3 DEF FileFits
    <3>. QED
      BY <2>3, <3>1, <3>2, <3>3
  <2>. QED
    BY <2>4, <2>5 DEF Whole, Uniform
<1>. QED
  BY Invariance, <1>1, PTL DEF Spec, ReturnedFileIsWhole
=============================================================================
