-------------------------- MODULE ResourceDownload --------------------------
(***************************************************************************)
(* The cache of test resources (download_util.py), for one resource URL.   *)
(* Calls of DownloadResource, made by the kick tasks of several runs, share *)
(* a TestResourceTracker entity, which is the lock of the download, and    *)
(* the cache file.  Cron jobs delete trackers that are idle and files that *)
(* are old; a restart of the server deletes all trackers.                  *)
(*                                                                         *)
(* The resource itself is outside of the repository: new versions of the   *)
(* same size may be published under its URL at any time.                   *)
(***************************************************************************)
EXTENDS Integers, Sequences

CONSTANTS
  Callers,     \* calls of DownloadResource there may be at a time
  Chunks,      \* the number of chunks of the resource
  MaxVersions, \* bound on the versions published
  MaxCalls,    \* bound on the calls made
  Timely       \* whether a chunk always takes less than MAX_DOWNLOAD_IDLE_TIME

ASSUME SizeAssumption == Chunks \in Nat \ {0} /\ MaxVersions \in Nat \ {0}

ASSUME CallAssumption == MaxCalls \in Nat

ASSUME TimelyAssumption == Timely \in BOOLEAN

Versions == 1 .. MaxVersions

VARIABLES
  source,   \* the version that is published
  tracker,  \* the TestResourceTracker: "none" if there is no such entity
  file,     \* the cache file; no chunks if there is no file
  caller,   \* the call each caller makes
  calls,    \* the calls made so far
  cleaner,  \* "delete" while CleanTestResourceCache is about to delete the file
  swept     \* it has deleted the file under a call or a completed download

vars == <<source, tracker, file, caller, calls, cleaner, swept>>

\* chunks: the version each chunk comes from, 0 where nothing was written;
\* stamp: the version that was published when the file was last modified (the
\* modification time is compared with the time of publication only).
File == [chunks : Seq(0 .. MaxVersions), stamp : 0 .. MaxVersions]
NoFile == [chunks |-> <<>>, stamp |-> 0]

\* wanted: the version the call found at the source; stream: the version it
\* downloads; offset: the chunks it has downloaded.
Call ==
  [pc : {"idle", "check", "lock", "open", "write", "track", "fail", "wait",
         "returned", "raised"},
   wanted : 0 .. MaxVersions, stream : 0 .. MaxVersions, offset : 0 .. Chunks]
IdleCaller == [pc |-> "idle", wanted |-> 0, stream |-> 0, offset |-> 0]

Init ==
  /\ source = 1
  /\ tracker = "none"
  /\ file = NoFile
  /\ caller = [c \in Callers |-> IdleCaller]
  /\ calls = 0
  /\ cleaner = "idle"
  /\ swept = FALSE

At(c, pc) == caller' = [caller EXCEPT ![c].pc = pc]
Idle == \A c \in Callers : caller[c].pc \in {"idle", "returned", "raised"}

\* Definitions named Mut... are bugs the code could have in the place of the
\* definition that follows them.

\* IsCached: the file is not older than the source, and has its size.
MutIsCached(version) == version <= file.stamp
IsCached(version) == version <= file.stamp /\ Len(file.chunks) = Chunks

\* _TryAcquireDownloadLock: "tracker and not tracker.error".
MutLockIsFree == tracker # "done"
LockIsFree == tracker \in {"none", "error"}

\* _GetTracker raises.
MutNoTracker == tracker = "error"
NoTracker == tracker \in {"none", "error"}

\* The download has no chunk left.
MutStreamEnds(offset) == Chunks < offset
StreamEnds(offset) == Chunks <= offset

\* A write at an offset, beyond the end of the file as well.
Write(chunks, offset, version) ==
  [i \in 1 .. (IF offset < Len(chunks) THEN Len(chunks) ELSE offset + 1) |->
     IF i = offset + 1 THEN version
     ELSE IF i <= Len(chunks) THEN chunks[i] ELSE 0]

-----------------------------------------------------------------------------

\* DownloadResource looks the resource up at its source.
DownloadResource(c) ==
  /\ caller[c].pc \in {"idle", "returned", "raised"}
  /\ calls < MaxCalls
  /\ calls' = calls + 1
  /\ caller' = [caller EXCEPT ![c] =
                  [IdleCaller EXCEPT !.pc = "check", !.wanted = source]]
  /\ UNCHANGED <<source, tracker, file, cleaner, swept>>

\* A cached resource is returned at once.
CheckCache(c) ==
  /\ caller[c].pc = "check"
  /\ At(c, IF IsCached(caller[c].wanted) THEN "returned" ELSE "lock")
  /\ UNCHANGED <<source, tracker, file, calls, cleaner, swept>>

\* _TryAcquireDownloadLock: a new tracker replaces one with an error.
TryAcquireDownloadLock(c) ==
  /\ caller[c].pc = "lock"
  /\ \/ LockIsFree /\ tracker' = "open" /\ At(c, "open")
     \/ ~LockIsFree /\ At(c, "wait") /\ UNCHANGED tracker
  /\ UNCHANGED <<source, file, calls, cleaner, swept>>

\* _PerformDownload truncates the file and opens the source.
OpenFile(c) ==
  /\ caller[c].pc = "open"
  /\ file' = [chunks |-> <<>>, stamp |-> source]
  /\ caller' = [caller EXCEPT ![c].pc = "write", ![c].stream = source]
  /\ UNCHANGED <<source, tracker, calls, cleaner, swept>>

\* A chunk arrives and is written.
WriteChunk(c) ==
  LET call == caller[c]
  IN
  /\ call.pc = "write"
  /\ ~StreamEnds(call.offset)
  /\ file' = [chunks |-> Write(file.chunks, call.offset, call.stream),
              stamp |-> source]
  /\ caller' = [caller EXCEPT ![c].pc = "track", ![c].offset = @ + 1]
  /\ UNCHANGED <<source, tracker, calls, cleaner, swept>>

\* _UpdateTracker stores the progress, and with it completed = False.
TrackProgress(c) ==
  /\ caller[c].pc = "track"
  /\ \/ NoTracker /\ At(c, "fail") /\ UNCHANGED tracker
     \/ ~NoTracker /\ tracker' = "open" /\ At(c, "write")
  /\ UNCHANGED <<source, file, calls, cleaner, swept>>

\* The file is closed and the tracker marked as completed.
CompleteDownload(c) ==
  /\ caller[c].pc = "write"
  /\ StreamEnds(caller[c].offset)
  /\ \/ NoTracker /\ At(c, "fail") /\ UNCHANGED tracker
     \/ ~NoTracker /\ tracker' = "done" /\ At(c, "returned")
  /\ UNCHANGED <<source, file, calls, cleaner, swept>>

\* The source or the disk fails.
DownloadFails(c) ==
  /\ caller[c].pc \in {"open", "write"}
  /\ At(c, "fail")
  /\ UNCHANGED <<source, tracker, file, calls, cleaner, swept>>

\* The error is stored in the tracker, if there is one, and raised.
StoreError(c) ==
  /\ caller[c].pc = "fail"
  /\ tracker' = IF NoTracker THEN tracker ELSE "error"
  /\ At(c, "raised")
  /\ UNCHANGED <<source, file, calls, cleaner, swept>>

\* One round of _WaitForDownload.
PollDownload(c) ==
  /\ caller[c].pc = "wait"
  /\ \/ NoTracker /\ At(c, "raised")
     \/ tracker = "done" /\ At(c, "returned")
  /\ UNCHANGED <<source, tracker, file, calls, cleaner, swept>>

\* The process that makes the call dies.
CallerDies(c) ==
  /\ caller[c].pc \notin {"idle", "returned", "raised"}
  /\ caller' = [caller EXCEPT ![c] = IdleCaller]
  /\ UNCHANGED <<source, tracker, file, calls, cleaner, swept>>

-----------------------------------------------------------------------------

\* TestResourceTrackerCleaner deletes a tracker that was not updated for
\* MAX_DOWNLOAD_IDLE_TIME.
ReleaseIdleLock ==
  /\ tracker # "none"
  /\ Timely => \A c \in Callers :
                 caller[c].pc \notin {"open", "write", "track", "fail"}
  /\ tracker' = "none"
  /\ UNCHANGED <<source, file, caller, calls, cleaner, swept>>

\* CleanTestResourceCache lists the files that no recent run uses and that are
\* days old, so that the tracker of their download is long gone ...
ListOldFiles ==
  /\ cleaner = "idle"
  /\ Idle
  /\ tracker # "done"
  /\ file # NoFile
  /\ cleaner' = "delete"
  /\ UNCHANGED <<source, tracker, file, caller, calls, swept>>

\* ... and deletes them one after the other, without looking again.
DeleteOldFile ==
  /\ cleaner = "delete"
  /\ file' = NoFile
  /\ cleaner' = "idle"
  /\ swept' = (swept \/ ~Idle \/ tracker = "done")
  /\ UNCHANGED <<source, tracker, caller, calls>>

\* The server restarts: calls are gone, and ReleaseDownloadLocks deletes every
\* tracker.
Restart ==
  /\ caller' = [c \in Callers |-> IdleCaller]
  /\ tracker' = "none"
  /\ cleaner' = "idle"
  /\ UNCHANGED <<source, file, calls, swept>>

\* A new version appears under the URL.
Publish ==
  /\ source < MaxVersions
  /\ source' = source + 1
  /\ UNCHANGED <<tracker, file, caller, calls, cleaner, swept>>

-----------------------------------------------------------------------------

CallerStep(c) ==
  \/ CheckCache(c)
  \/ TryAcquireDownloadLock(c)
  \/ OpenFile(c)
  \/ WriteChunk(c)
  \/ TrackProgress(c)
  \/ CompleteDownload(c)
  \/ StoreError(c)
  \/ PollDownload(c)

Next ==
  \/ \E c \in Callers :
       \/ DownloadResource(c)
       \/ CallerStep(c)
       \/ DownloadFails(c)
       \/ CallerDies(c)
  \/ ReleaseIdleLock
  \/ ListOldFiles
  \/ DeleteOldFile
  \/ Restart
  \/ Publish

\* A call goes on, and the cron job that releases idle locks keeps running.
Fairness ==
  /\ \A c \in Callers : WF_vars(CallerStep(c))
  /\ WF_vars(ReleaseIdleLock)

Spec == Init /\ [][Next]_vars

FairSpec == Spec /\ Fairness

-----------------------------------------------------------------------------
(* Properties                                                              *)

\* Every variable has a value of its kind.
TypeOK ==
  /\ source \in Versions
  /\ tracker \in {"none", "open", "done", "error"}
  /\ file \in File
  /\ Len(file.chunks) <= Chunks
  /\ caller \in [Callers -> Call]
  /\ calls \in 0 .. MaxCalls
  /\ cleaner \in {"idle", "delete"}
  /\ swept \in BOOLEAN

Writing(c) == caller[c].pc \in {"open", "write", "track"}

\* Two calls never write the cache file at the same time: the tracker is a
\* lock, as long as no chunk takes so long that the lock is released as idle.
OneWriter == \A c, d \in Callers : Writing(c) /\ Writing(d) => c = d

Returns(c) == caller[c].pc # "returned" /\ caller'[c].pc = "returned"

Whole(chunks) ==
  /\ Len(chunks) = Chunks
  /\ \E v \in Versions : \A i \in 1 .. Chunks : chunks[i] = v

\* When DownloadResource returns a cache URL, the file is there, complete and
\* from one version, whether it was found, downloaded or waited for, and
\* whatever became of earlier downloads of it.
ReturnedFileIsWhole ==
  [][\A c \in Callers : Returns(c) => Whole(file.chunks) \/ swept]_vars

\* A call of DownloadResource ends, even if the call that downloads the file
\* for it fails or dies.
CallsEnd ==
  \A c \in Callers :
    caller[c].pc = "check" ~> caller[c].pc \in {"idle", "returned", "raised"}

\* "If the resource is already downloaded and still up-to-date, this will simply
\* return its cache URL" (test_kicker.py), and "downloaded file despite cached
\* file" (download_util_test.py) if it is not: a call that did not find the file
\* in the cache returns nothing older than what it found at the source.
OutdatedFileIsDownloaded ==
  [][\A c \in Callers : Returns(c) /\ caller[c].pc # "check" =>
       \/ swept
       \/ \A i \in 1 .. Len(file.chunks) :
            caller[c].wanted <= file.chunks[i]]_vars
=============================================================================
