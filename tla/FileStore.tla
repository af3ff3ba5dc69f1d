------------------------------ MODULE FileStore ------------------------------
(***************************************************************************)
(* The local files (shared/local_file_store.ts): the list of a directory   *)
(* of the file server, a file selected in it, and the upload of a file, a  *)
(* chunk after another (services/file_service.ts), into a file that the    *)
(* server moves to its place with the last (file_server/file_server.py).   *)
(* The server has several threads and locks nothing: what it does for a    *)
(* chunk are steps between which it does those for another.                *)
(***************************************************************************)
EXTENDS UiPage

CONSTANTS
  Directories, Root,   \* the directories, and the one of the uploads
  Files,               \* what the user has to upload
  NameOf(_), Size(_),  \* the name and the length of each
  FirstFiles,          \* the paths that are there at first
  MinChunk, MaxChunk, InitialChunk

\* What the constants have to be.
FileStoreAssumption ==
  /\ \A f \in Files : Size(f) \in Nat
  /\ MinChunk \in Nat /\ MaxChunk \in Nat /\ InitialChunk \in Nat

NoPath == <<>>
Path(directory, name) == <<directory, name>>
Paths == {Path(d, NameOf(f)) : d \in Directories, f \in Files} \cup FirstFiles

\* A byte is known by its place in the file it is of.
Bytes(from, to) == [k \in 1 .. to - from |-> from + k]

-----------------------------------------------------------------------------
(* The list.                                                               *)

LoadFiles(s) ==
  Send([s EXCEPT !.page.isLoading = TRUE], "list", [directory |-> s.page.directory])

ChangeDirectoryTo(s, directory) == LoadFiles([s EXCEPT !.page.directory = directory])

\* The URL of what is selected is the parent's, and stays when the list is closed.
Select(s, path) == [s EXCEPT !.page.selected = path, !.browser.url = path]

Closed ==
  [isOpen |-> FALSE, directory |-> Root, files |-> {}, selected |-> NoPath,
   isLoading |-> FALSE, isUploading |-> FALSE, progress |-> 0, asks |-> NoPath]

Open(s) ==
  ChangeDirectoryTo([s EXCEPT !.page = [Closed EXCEPT !.isOpen = TRUE]],
    IF s.browser.url # NoPath THEN s.browser.url[1] ELSE Root)

Init ==
  LET s == Open([page |-> Closed, requests |-> <<>>,
                 browser |-> [url |-> NoPath, chunkSize |-> InitialChunk]])
  IN /\ page = s.page /\ browser = s.browser /\ requests = s.requests
     /\ api = [store |-> [p \in FirstFiles |-> <<>>], temporary |-> <<>>,
               overlapped |-> {}]  \* the paths that had two chunks under way at once
     /\ spent = 0

\* What is listed is shown, of whatever directory.  The file selected before stays
\* selected if it is listed.
FilesArrive(i) ==
  LET s == [Heard(i) EXCEPT !.page.isLoading = FALSE]
      path == IF page.selected # NoPath THEN page.selected ELSE browser.url
  IN \/ /\ Hears(i, "list", "ok")
        /\ Becomes(Select([s EXCEPT !.page.files = requests[i].answer],
                          IF path \in requests[i].answer THEN path ELSE NoPath))
     \/ Hears(i, "list", "error") /\ Becomes(s)
     \/ /\ \E kind \in {"unheard", "dropped"}, status \in {"ok", "error"} :
             Hears(i, kind, status)
        /\ Becomes(Heard(i))

ChangeDirectory(d) ==
  /\ page.isOpen /\ page.asks = NoPath /\ Calling
  /\ Becomes(ChangeDirectoryTo(State, d)) /\ UNCHANGED api

SelectFile(path) ==
  /\ page.isOpen /\ page.asks = NoPath /\ page.selected # path /\ Spend
  /\ Becomes(Select(State, path)) /\ UNCHANGED api

DeleteFile(path) ==
  /\ page.isOpen /\ page.asks = NoPath /\ Spend /\ Shows([page EXCEPT !.asks = path])

Confirm(isConfirmed) ==
  /\ page.asks # NoPath /\ Calling
  /\ LET s == [State EXCEPT !.page.asks = NoPath]
     IN Becomes(IF isConfirmed THEN Send(s, "delete", [path |-> page.asks]) ELSE s)
  /\ UNCHANGED api

Deleted(i) ==
  \/ /\ Hears(i, "delete", "ok")
     /\ Becomes(IF page.isOpen THEN LoadFiles(Heard(i)) ELSE Heard(i))
  \/ Hears(i, "delete", "error") /\ Becomes(Heard(i))

-----------------------------------------------------------------------------
(* The upload.  A chunk that is on its way when the upload is canceled is  *)
(* not taken back.                                                         *)

ReadChunk(s, path, file, from) ==
  Send(s, "chunk", [path |-> path, file |-> file, from |-> from,
                    to |-> IF from + s.browser.chunkSize < Size(file)
                           THEN from + s.browser.chunkSize ELSE Size(file)])

UploadFile(file) ==
  /\ page.isOpen /\ ~ page.isUploading /\ page.asks = NoPath /\ Calling
  /\ Becomes(ReadChunk([State EXCEPT !.page.isUploading = TRUE],
                       Path(page.directory, NameOf(file)), file, 0))
  /\ UNCHANGED api

Turn(s, kind, new) ==
  [s EXCEPT !.requests = [i \in DOMAIN @ |->
     IF @[i].kind = kind THEN [@[i] EXCEPT !.kind = new] ELSE @[i]]]

Abandon(s) == Turn(s, "chunk", "abandoned")

Ends(s) == [s EXCEPT !.page.isUploading = FALSE, !.page.progress = 0]

Cancel ==
  /\ page.isOpen /\ page.isUploading /\ Spend
  /\ Becomes(Ends(Abandon(State))) /\ UNCHANGED api

\* A fast chunk doubles the size of the next, a slow one halves it.
AdjustChunkSize(size) ==
  {size, IF 2 * size < MaxChunk THEN 2 * size ELSE MaxChunk,
         IF size \div 2 > MinChunk THEN size \div 2 ELSE MinChunk}

ChunkUploaded(i) ==
  LET arg == requests[i].arg
      isLast == arg.to = Size(arg.file)
  IN \/ /\ Hears(i, "chunk", "ok") /\ isLast
        /\ Becomes(LoadFiles(Ends(Heard(i))))
     \/ /\ Hears(i, "chunk", "ok") /\ ~ isLast
        /\ \E size \in AdjustChunkSize(browser.chunkSize) :
             Becomes(ReadChunk([Heard(i) EXCEPT !.page.progress = arg.to,
                                                !.browser.chunkSize = size],
                               arg.path, arg.file, arg.to))
     \/ Hears(i, "chunk", "error") /\ Becomes(Ends(Heard(i)))
     \/ /\ Hears(i, "abandoned", "ok")
        /\ \E size \in IF isLast THEN {browser.chunkSize}
                       ELSE AdjustChunkSize(browser.chunkSize) :
             Becomes([Heard(i) EXCEPT !.browser.chunkSize = size])
     \/ Hears(i, "abandoned", "error") /\ Becomes(Heard(i))

\* The tab of the local files is left, and shown again.
Leave ==
  /\ page.isOpen /\ page.asks = NoPath /\ Spend
  /\ Becomes([Turn(Abandon(State), "list", "unheard") EXCEPT !.page = Closed])
  /\ UNCHANGED api

Reopen == ~ page.isOpen /\ Calling /\ Becomes(Open(State)) /\ UNCHANGED api

-----------------------------------------------------------------------------
(* The file server.                                                        *)

ListDirectory(d) == {p \in DOMAIN api.store : p[1] = d}

With(files, path, content) ==
  [p \in DOMAIN files \cup {path} |-> IF p = path THEN content ELSE files[p]]
Without(files, path) == [p \in DOMAIN files \ {path} |-> files[p]]

MutIsRefused(arg) == arg.from # 0 /\ arg.path \notin DOMAIN api.temporary

\* A chunk that is not the first is appended, where the file that is there ends.
IsRefused(arg) ==
  /\ arg.from # 0
  /\ arg.from # IF arg.path \in DOMAIN api.temporary THEN Len(api.temporary[arg.path])
                ELSE 0

\* What the server has begun to do for a chunk.  A thread whose file was moved by
\* another goes astray: it writes to what has become of the file.
IsUnderWay(r) == r.status \in {"checked", "open", "astray", "written"}
IsPut(i) == requests[i].kind \in {"chunk", "abandoned", "dropped"}

Overlapped(path) ==
  IF \E i \in DOMAIN requests : IsUnderWay(requests[i]) /\ requests[i].arg.path = path
  THEN api.overlapped \cup {path} ELSE api.overlapped

Stays == UNCHANGED <<page, browser, spent>>

CheckOffset(i) ==
  /\ IsSent(i) /\ IsPut(i) /\ requests[i].arg.from # 0
  /\ \/ /\ IsRefused(requests[i].arg) /\ UNCHANGED api
        /\ requests' = [requests EXCEPT ![i].status = "error"]
     \/ /\ ~ IsRefused(requests[i].arg)
        /\ requests' = [requests EXCEPT ![i].status = "checked"]
        /\ api' = [api EXCEPT !.overlapped = Overlapped(requests[i].arg.path)]
  /\ Stays

\* The first chunk makes the file empty, another makes one only if there is none.
OpenTemporary(i) ==
  LET path == requests[i].arg.path
  IN /\ \/ /\ IsSent(i) /\ IsPut(i) /\ requests[i].arg.from = 0
           /\ api' = [api EXCEPT !.temporary = With(@, path, <<>>),
                                 !.overlapped = Overlapped(path)]
        \/ /\ requests[i].status = "checked"
           /\ api' = IF path \in DOMAIN api.temporary THEN api
                     ELSE [api EXCEPT !.temporary = With(@, path, <<>>)]
     /\ requests' = [requests EXCEPT ![i].status = "open"] /\ Stays

\* The first chunk is written from the start, the others to the end, of what is there.
Written(content, arg, to) ==
  IF arg.from = 0
  THEN Bytes(0, to) \o SubSeq(content, to + 1, Len(content))
  ELSE content \o Bytes(arg.from, to)

\* All of the chunk, or what of it has come when the connection breaks.  A file that
\* was moved away is in its place, or there is none any more.
WriteChunk(i, to) ==
  LET arg == requests[i].arg
  IN /\ requests[i].status \in {"open", "astray"} /\ to \in arg.from .. arg.to
     /\ IF to < arg.to THEN Spend ELSE UNCHANGED spent
     /\ requests' = [requests EXCEPT ![i].status =
          IF to < arg.to THEN "error" ELSE IF to = Size(arg.file) THEN "written" ELSE "ok"]
     /\ \/ /\ requests[i].status = "open"
           /\ api' = [api EXCEPT !.temporary[arg.path] = Written(@, arg, to)]
        \/ /\ requests[i].status = "astray" /\ arg.path \in DOMAIN api.store
           /\ api' = [api EXCEPT !.store[arg.path] = Written(@, arg, to)]
        \/ requests[i].status = "astray" /\ UNCHANGED api
     /\ UNCHANGED <<page, browser>>

\* After the last chunk the file that there is now is moved.
MoveToPlace(i) ==
  LET path == requests[i].arg.path
      Astray(r) == IF r.status = "open" /\ r.arg.path = path
                   THEN [r EXCEPT !.status = "astray"] ELSE r
  IN /\ requests[i].status = "written"
     /\ \/ /\ path \in DOMAIN api.temporary
           /\ api' = [api EXCEPT !.store = With(@, path, api.temporary[path]),
                                 !.temporary = Without(@, path)]
           /\ requests' = [[j \in DOMAIN requests |-> Astray(requests[j])]
                            EXCEPT ![i].status = "ok"]
        \/ /\ path \notin DOMAIN api.temporary /\ UNCHANGED api
           /\ requests' = [requests EXCEPT ![i].status = "error"]
     /\ Stays

Serve(i) ==
  /\ IsSent(i)
  /\ LET r == requests[i]
     IN \/ /\ r.kind \in {"list", "unheard"}
           /\ Answer(i, ListDirectory(r.arg.directory)) /\ UNCHANGED api
        \/ /\ r.kind = "delete" /\ Answer(i, {})
           /\ api' = [api EXCEPT !.store = Without(@, r.arg.path)]
  /\ Stays

\* The page hears that the upload failed, and the server goes on with the chunk.
ConnectionLost(i) ==
  /\ requests[i].kind = "chunk" /\ requests[i].status # "error" /\ Spend
  /\ Becomes(Ends(Turn(State, "chunk", "dropped"))) /\ UNCHANGED api

Next ==
  \/ \E i \in DOMAIN requests : FilesArrive(i)
  \/ \E d \in Directories : ChangeDirectory(d)
  \/ \E path \in page.files : SelectFile(path)
  \/ \E path \in page.files : DeleteFile(path)
  \/ \E b \in BOOLEAN : Confirm(b)
  \/ \E i \in DOMAIN requests : Deleted(i)
  \/ \E file \in Files : UploadFile(file)
  \/ Cancel
  \/ \E i \in DOMAIN requests :
       requests[i].kind \in {"chunk", "abandoned"} /\ ChunkUploaded(i)
  \/ Leave
  \/ Reopen
  \/ \E i \in DOMAIN requests : Serve(i)
  \/ \E i \in DOMAIN requests : CheckOffset(i)
  \/ \E i \in DOMAIN requests : OpenTemporary(i)
  \/ \E i \in DOMAIN requests :
       IsPut(i) /\ \E to \in 0 .. requests[i].arg.to : WriteChunk(i, to)
  \/ \E i \in DOMAIN requests : MoveToPlace(i)
  \/ \E i \in DOMAIN requests : Fail(i)
  \/ \E i \in DOMAIN requests : ConnectionLost(i)

-----------------------------------------------------------------------------
(* What must hold.                                                         *)

\* However uploads to a path are canceled, fail, start again and come late: unless two
\* chunks were under way for the path at once, a file in its place is as long as one
\* that was uploaded there and has every byte where that upload had it, none missing
\* and none twice.  (Two at once can leave a gap: a chunk is checked, a new upload makes
\* the file empty, and the chunk is appended.)
FileHasNoGap ==
  \A p \in DOMAIN api.store \ (FirstFiles \cup api.overlapped) : \E f \in Files :
    /\ NameOf(f) = p[2] /\ Len(api.store[p]) = Size(f)
    /\ \A k \in DOMAIN api.store[p] : api.store[p][k] = k
=============================================================================
