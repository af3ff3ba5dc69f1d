----------------------------- MODULE BuildPicker -----------------------------
(***************************************************************************)
(* The dialog that picks a file of a build channel                         *)
(* (build_channels/build_picker.ts): its tabs, its search bar, the list of *)
(* a directory with more of it when it is scrolled, and the authorization  *)
(* of a channel.  A path is a sequence of names; a resource is the channel *)
(* and the names of its URL, or a URL of no channel.                       *)
(***************************************************************************)
EXTENDS UiPage

CONSTANTS
  Channels,       \* the build channels, in the order the service lists them
  IsLocal(_),     \* of the local file provider
  IsUrl(_),       \* BuildItemPathType.URL
  Pages(_, _),    \* what a directory of a channel holds, in parts
  TypedPaths,     \* what is typed in the search bar
  TypedNames,     \* what is typed for the name of a file
  FileUrls,       \* the URLs of the local files
  IsGlob(_),      \* isFnmatchPattern of a path, or a name
  Authorized,     \* the channels available at first
  Opened          \* the resources the dialog is opened with

NoChannel == "no channel"
NoItem == [name |-> "", path |-> <<>>, isFile |-> FALSE]
NoToken == 0
NumStaticTabs == 2   \* by URL, and the local files
LocalFiles == 1

IsDirectory(c) == c # NoChannel /\ ~ IsUrl(c)

-----------------------------------------------------------------------------
(* The list.                                                               *)

Loadable(p) ==
  /\ IsDirectory(p.channel) /\ p.channel \in p.available /\ ~ IsGlob(p.url)

Others(calls) == Kept(calls, {i \in DOMAIN calls : calls[i].kind # "list"})

\* What is under way for the list is not heard of any more.
Unsubscribe(s) ==
  [s EXCEPT !.requests = Others(@),
            !.page.isLoading = FALSE]

MutLoadBuildList(s, token) ==
  LET p == s.page
      cleared == [s EXCEPT !.page.items = IF token = NoToken THEN <<>> ELSE @]
  IN IF ~ Loadable(p) THEN s
     ELSE Send([cleared EXCEPT !.page.isLoading = TRUE], "list",
               [channel |-> p.channel, path |-> p.url, token |-> token])

\* For the channel and the path there are by now; without a token the list starts
\* again.
LoadBuildList(s, token) ==
  LET p == s.page
      stopped == Unsubscribe(s)
      cleared == [stopped EXCEPT !.page.items = IF token = NoToken THEN <<>> ELSE @]
  IN IF ~ Loadable(p) THEN s
     ELSE Send([cleared EXCEPT !.page.isLoading = TRUE], "list",
               [channel |-> p.channel, path |-> p.url, token |-> token])

\* A failed call, of whatever part, leaves nothing.
ListArrives(i) ==
  LET s == [Heard(i) EXCEPT !.page.isLoading = FALSE]
  IN \/ /\ Hears(i, "list", "ok")
        /\ Becomes([s EXCEPT !.page.items = @ \o requests[i].answer.items,
                             !.page.token = requests[i].answer.token])
     \/ Hears(i, "list", "error") /\ Becomes([s EXCEPT !.page.items = <<>>])

-----------------------------------------------------------------------------
(* Opening and closing.                                                    *)

ChannelOfTab(channels, tab) ==
  IF tab - NumStaticTabs + 1 \in DOMAIN channels THEN channels[tab - NumStaticTabs + 1]
  ELSE NoChannel

Closed ==
  [isOpen |-> FALSE, channels |-> <<>>, available |-> {},
   tab |-> 0, tabs |-> <<>>, channel |-> NoChannel, url |-> <<>>, filename |-> <<>>,
   items |-> <<>>, token |-> NoToken, isLoading |-> FALSE, selection |-> NoItem,
   isTyping |-> FALSE]

\* The last name of a resource of a directory is the name of the file.  For a channel
\* that is not listed the tab of the local files gets the path.
DecodeResourceUrl(p, resource) ==
  LET parts == resource.parts
      inside == IF parts = <<>> THEN 0 ELSE Len(parts) - 1
      channel == IF resource.channel \in Range(p.channels) THEN resource.channel
                 ELSE NoChannel
      index == IF channel = NoChannel THEN -1
               ELSE (CHOOSE k \in DOMAIN p.channels : p.channels[k] = channel) - 1
  IN IF resource.channel = NoChannel
     THEN [p EXCEPT !.url = parts, !.tab = IF parts \in FileUrls THEN LocalFiles ELSE 0]
     ELSE IF channel # NoChannel /\ IsUrl(channel)
     THEN [p EXCEPT !.channel = channel, !.url = parts, !.tab = index + NumStaticTabs]
     ELSE [p EXCEPT !.channel = channel, !.tab = index + NumStaticTabs,
                    !.url = SubSeq(parts, 1, inside),
                    !.filename = SubSeq(parts, inside + 1, Len(parts))]

\* The parent gives the channels it has, the dialog leaves out the local files.
OpenPage(channels, available, resource) ==
  LET listed == Kept(channels, {k \in DOMAIN channels : ~ IsLocal(channels[k])})
      p == [Closed EXCEPT !.isOpen = TRUE, !.channels = listed,
                                  !.available = available]
  IN IF resource = {} THEN p ELSE DecodeResourceUrl(p, CHOOSE r \in resource : TRUE)

EncodeResourceUrl(p) == [channel |-> p.channel, parts |-> p.url \o p.filename]

Init ==
  /\ \E resource \in {{}} \cup {{r} : r \in Opened} :
       LET s == LoadBuildList(
             [page |-> OpenPage(Channels, Authorized, resource), requests |-> <<>>,
              browser |-> [channels |-> Channels, available |-> Authorized,
                           resource |-> resource]], NoToken)
       IN page = s.page /\ browser = s.browser /\ requests = s.requests
  /\ api = [authorized |-> Authorized] /\ spent = 0

AtList == page.isOpen /\ IsDirectory(page.channel) /\ page.channel \in page.available

\* The button to select is never disabled, it is only described as such.
Close ==
  /\ page.isOpen /\ Spend /\ page' = Closed
  /\ \/ UNCHANGED browser
     \/ /\ IsDirectory(page.channel) => AtList
        /\ browser' = [browser EXCEPT !.resource = {EncodeResourceUrl(page)}]
  /\ requests' = Others(requests)
  /\ UNCHANGED api

Reopen ==
  /\ ~ page.isOpen /\ Calling
  /\ Becomes(LoadBuildList([State EXCEPT !.page =
       OpenPage(browser.channels, browser.available, browser.resource)], NoToken))
  /\ UNCHANGED api

-----------------------------------------------------------------------------
(* The handlers.                                                           *)

\* Each tab has its own search bar, by the number of the tab.
OnSelectedTabChange(tab) ==
  /\ page.isOpen /\ Calling
  /\ tab # page.tab /\ tab < NumStaticTabs + Len(page.channels)
  /\ LET shown == [url |-> page.url, filename |-> page.filename]
         saved == [t \in DOMAIN page.tabs \cup {page.tab} |->
                     IF t = page.tab THEN shown ELSE page.tabs[t]]
         bar == IF tab \in DOMAIN saved THEN saved[tab]
                ELSE [url |-> <<>>, filename |-> <<>>]
     IN Becomes(LoadBuildList([Unsubscribe(State) EXCEPT
          !.page.tabs = saved, !.page.tab = tab, !.page.url = bar.url,
          !.page.filename = bar.filename, !.page.token = NoToken,
          !.page.selection = NoItem,
          !.page.channel = ChannelOfTab(page.channels, tab)], NoToken))
  /\ UNCHANGED api

\* A list is loaded when nothing was typed for 200 ms.
OnSearchBarValueChange(path) ==
  /\ AtList /\ page.url # path /\ Spend
  /\ Shows([page EXCEPT !.url = path, !.isTyping = TRUE, !.selection = NoItem])

TypeUrl(path) ==
  /\ page.isOpen /\ page.tab # LocalFiles /\ ~ IsDirectory(page.channel)
  /\ page.url # path /\ Spend /\ Shows([page EXCEPT !.url = path])

\* The component of the local files gives the URL of the file that is selected there.
UrlChange(url) ==
  /\ page.isOpen /\ page.tab = LocalFiles
  /\ page.url # url /\ Spend /\ Shows([page EXCEPT !.url = url])

TypeFilename(name) ==
  /\ AtList /\ page.filename # name /\ Spend /\ Shows([page EXCEPT !.filename = name])

SearchUpdated ==
  /\ page.isOpen /\ page.isTyping /\ Len(requests) < MaxRequests
  /\ Becomes(LoadBuildList([State EXCEPT !.page.isTyping = FALSE], NoToken))
  /\ UNCHANGED <<api, spent>>

\* The table is shown when it has rows, and the name of the file is no pattern.
AtTable == AtList /\ page.items # <<>> /\ ~ IsGlob(page.filename)

SelectFile(k) ==
  /\ AtTable /\ page.items[k].isFile /\ page.selection # page.items[k]
  /\ Spend
  /\ Shows([page EXCEPT !.selection = page.items[k],
                        !.filename = <<page.items[k].name>>])

PathChange(s, path) ==
  LET moved == [s EXCEPT !.page.url = path, !.page.filename = <<>>]
      loaded == LoadBuildList(moved, NoToken)
  IN [loaded EXCEPT !.page.selection = NoItem]

OpenFolder(k) ==
  /\ AtTable /\ ~ page.items[k].isFile /\ Calling
  /\ Becomes(PathChange(State, page.items[k].path)) /\ UNCHANGED api

\* The breadcrumb of the path that is in the search bar.
OnPathClick(n) ==
  /\ AtList /\ Calling
  /\ Becomes(PathChange(State, SubSeq(page.url, 1, n))) /\ UNCHANGED api

\* The table asks for more as long as there is a token.
HasMoreContent == page.token # NoToken

OnScrollLoad ==
  /\ AtTable /\ HasMoreContent /\ Calling
  /\ Becomes(IF page.isLoading THEN State ELSE LoadBuildList(State, page.token))
  /\ UNCHANGED api

-----------------------------------------------------------------------------
(* Authorization, by the user's account or with the key of another.  The   *)
(* dialog goes on while it is under way.                                   *)

Authorize ==
  /\ page.isOpen /\ IsDirectory(page.channel) /\ page.channel \notin page.available
  /\ Calling /\ Becomes(Send(State, "authorize", [channel |-> page.channel]))
  /\ UNCHANGED api

AuthorizationDone(i) ==
  \/ /\ Hears(i, "authorize", "ok")
     /\ Becomes(Send(Heard(i), "channels", [all |-> TRUE]))
  \/ Hears(i, "authorize", "error") /\ Becomes(Heard(i))

\* Here the local files are not left out: a tab may be that of another channel now.
ChannelsArrive(i) ==
  \/ /\ Hears(i, "channels", "ok")
     /\ LET available == requests[i].answer
            s == [Heard(i) EXCEPT !.browser.channels = Channels,
                                  !.browser.available = available]
        IN Becomes(IF ~ page.isOpen THEN s
                   ELSE LoadBuildList([s EXCEPT
                     !.page.channels = Channels, !.page.available = available,
                     !.page.channel = ChannelOfTab(Channels, page.tab)], NoToken))
  \/ Hears(i, "channels", "error") /\ Becomes(Heard(i))

-----------------------------------------------------------------------------
(* The service.                                                            *)

Exists(arg) ==
  /\ arg.channel \in api.authorized
  /\ IF arg.token = NoToken THEN Pages(arg.channel, arg.path) # <<>>
     ELSE arg.token \in DOMAIN Pages(arg.channel, arg.path)

ServeList(arg) ==
  LET pages == Pages(arg.channel, arg.path)
      n == IF arg.token = NoToken THEN 1 ELSE arg.token
  IN [items |-> pages[n], token |-> IF n = Len(pages) THEN NoToken ELSE n + 1]

Serve(i) ==
  /\ IsSent(i) /\ LET r == requests[i]
     IN \/ /\ r.kind = "list" /\ Exists(r.arg)
           /\ Answer(i, ServeList(r.arg)) /\ UNCHANGED api
        \/ r.kind = "channels" /\ Answer(i, api.authorized) /\ UNCHANGED api
        \/ /\ r.kind = "authorize" /\ Answer(i, {})
           /\ api' = [api EXCEPT !.authorized = @ \cup {r.arg.channel}]
  /\ UNCHANGED <<page, browser, spent>>

NotFound(i) ==
  /\ IsSent(i) /\ requests[i].kind = "list" /\ ~ Exists(requests[i].arg)
  /\ requests' = [requests EXCEPT ![i].status = "error"]
  /\ UNCHANGED <<page, browser, api, spent>>

Next ==
  \/ Close
  \/ Reopen
  \/ \E tab \in 0 .. 1 + Len(Channels) : OnSelectedTabChange(tab)
  \/ \E path \in TypedPaths : OnSearchBarValueChange(path)
  \/ \E path \in TypedPaths \cup FileUrls : TypeUrl(path)
  \/ \E url \in {<<>>} \cup FileUrls : UrlChange(url)
  \/ \E name \in TypedNames : TypeFilename(name)
  \/ SearchUpdated
  \/ \E k \in DOMAIN page.items : SelectFile(k)
  \/ \E k \in DOMAIN page.items : OpenFolder(k)
  \/ \E n \in 0 .. Len(page.url) : OnPathClick(n)
  \/ OnScrollLoad
  \/ Authorize
  \/ \E i \in DOMAIN requests : ListArrives(i)
  \/ \E i \in DOMAIN requests : AuthorizationDone(i)
  \/ \E i \in DOMAIN requests : ChannelsArrive(i)
  \/ \E i \in DOMAIN requests : Serve(i)
  \/ \E i \in DOMAIN requests : NotFound(i)
  \/ \E i \in DOMAIN requests : Fail(i)

-----------------------------------------------------------------------------
(* What must hold.                                                         *)

IsSettled == page.isOpen /\ Loadable(page) /\ ~ page.isLoading /\ ~ page.isTyping

\* Whatever was typed, scrolled, switched, authorized or failed while calls were under
\* way: when nothing is, the list is the first parts of the directory in the search
\* bar, each once, and it is known where it goes on.
ListIsOfTheSearchBar ==
  IsSettled /\ page.items # <<>> =>
    LET pages == Pages(page.channel, page.url)
    IN \E n \in DOMAIN pages :
         /\ page.items = Joined(SubSeq(pages, 1, n))
         /\ page.token = IF n = Len(pages) THEN NoToken ELSE n + 1
=============================================================================
