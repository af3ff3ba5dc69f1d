----------------------------- MODULE MC_WebPages -----------------------------
(***************************************************************************)
(* The pages of the web interface for TLC: small labs and test runs, at    *)
(* the addresses and with the stored criteria that a page allows.          *)
(***************************************************************************)
EXTENDS WebPages, TLC

\* Two hosts in two pools with the same typed attribute.
MCHostListPage ==
  [N |-> 2, Columns |-> {"Pool"}, UrlColumns |-> {"Pool"}, InputColumns |-> {"Extra Info"},
   AttributeOf |-> [c \in {"Pool", "Extra Info"} |-> [d \in 1 .. 2 |->
     IF c = "Extra Info" THEN "k=v" ELSE IF d = 2 THEN "q" ELSE "p"]],
   MaxDisplayOptions |-> 1, PageSizes |-> {1, 2}, DefaultPageSize |-> 1]

\* Hosts that differ in all that is filtered by; the third is of another lab.
MCOfflineHostsPage ==
  [Hosts |-> 1 .. 3, Me |-> "me", Others |-> {"you"},
   Info |-> [h \in 1 .. 3 |->
     [lab |-> IF h = 3 THEN "B" ELSE "A", group |-> IF h = 1 THEN "g" ELSE "k",
      targets |-> IF h = 2 THEN {"t", "u"} ELSE {"t"},
      offline |-> CASE h = 1 -> {"t"} [] h = 2 -> {"u"} [] OTHER -> {},
      harness |-> IF h = 1 THEN "TF" ELSE "MH", recent |-> h = 1]]]

MCRecoveryPage ==
  [Hosts |-> {"a", "b"}, Devices |-> 1 .. 3,
   HostOf |-> [d \in 1 .. 3 |-> IF d < 3 THEN "a" ELSE "b"],
   Info |-> [h \in {"a", "b"} |->
     [lab |-> "A", group |-> IF h = "a" THEN "g" ELSE "k",
      targets |-> IF h = "b" THEN {"t", "u"} ELSE {"t"},
      offline |-> IF h = "b" THEN {"u"} ELSE {"t"}, harness |-> "TF", recent |-> TRUE]]]

\* A host with two devices, each with a note.
MCNotesPage ==
  [Subjects |-> {"h", "d", "e"}, Hosts |-> {"h"}, HostOf |-> [s \in {"d", "e"} |-> "h"],
   FirstNote |-> [s \in {"h", "d", "e"} |->
     CASE s = "h" -> 9 [] s = "d" -> 8 [] OTHER -> 7],
   Texts |-> {"new", "known"}, DefaultPageSize |-> 1, PageSizes |-> {1, 2}]

\* Two hosts and a device; a record of the first and of the device names a note.
MCHistoryPage ==
  [Subjects |-> {"h", "d", "k"}, Hosts |-> {"h", "k"},
   FirstNote |-> [s \in {"h", "d", "k"} |->
     CASE s = "h" -> 9 [] s = "d" -> 8 [] OTHER -> 7],
   Records |-> [s \in {"h", "d", "k"} |->
     CASE s = "h" -> 1 .. 3 [] s = "d" -> 5 .. 6 [] OTHER -> 8 .. 10],
   RecordsWithNote |-> {1, 6}, Texts |-> {"new", "known"},
   DefaultPageSize |-> 1, PageSizes |-> {1, 2}]

MCDetailsPage ==
  [Subjects |-> {"h", "d", "k"}, Hosts |-> {"h", "k"}, Panels |-> <<"summary">>, Me |-> "me"]

MCMessagesPage ==
  [Labs |-> {"A", "B"}, Categories |-> {"host", "device"}, Types |-> {"reason"},
   DefaultLab |-> "A", DefaultCategory |-> "host", DefaultType |-> "reason"]

MCDevicesPage ==
  [Devices |-> 1 .. 3, Hosts |-> {"h", "k"}, FirstHost |-> "h", MaxNote |-> 1,
   HostOf |-> [d \in 1 .. 3 |-> IF d < 3 THEN "h" ELSE "k"]]

-----------------------------------------------------------------------------
(* The pages of test runs.                                                 *)

\* Two tests and two device actions that need resources, one by the device it is for.
Needed == [x \in {"cts", "vts", "flash", "auto"} |->
  CASE x = "cts" -> {"img"} [] x = "flash" -> {"img", "tool"}
    [] x = "auto" -> {"tool"} [] OTHER -> {}]
Matching == [a \in {"flash", "auto"} |-> IF a = "auto" THEN {"d1"} ELSE {}]
Config(test) ==
  [test |-> test, specs |-> {"d1"}, deviceActions |-> {}, runActions |-> {},
   resources |-> <<>>]
Entered(config) == [config EXCEPT !.resources = [r \in {"img"} |-> "typed"]]

\* A rerun of a run whose config names an action that is not there any more.
MCNewRunPage ==
  [Tests |-> {"cts", "vts"}, DeviceActions |-> {"flash", "auto"}, RunActions |-> {"mail"},
   Devices |-> {"d1"}, NeededBy |-> Needed, AutoFor |-> Matching, NodeUrls |-> {"tool"},
   PreviousConfig |-> [Entered(Config("cts"))
     EXCEPT !.deviceActions = {"flash", "gone"}, !.runActions = {"mail"}]]

\* A plan of one sequence, of two configs.
MCPlanPage ==
  [Tests |-> {"cts", "vts"}, DeviceActions |-> {"flash", "auto"}, RunActions |-> {"mail"},
   Devices |-> {"d1"}, NeededBy |-> Needed, AutoFor |-> Matching,
   StoredSequences |-> <<<<Entered(Config("cts")), Config("vts")>>>>]

MCRunPage == [Commands |-> {1, 2}, CommandPage |-> 1]

\* A log is read in two parts or three, and is longer than the console.
MCConsolePage ==
  [LastAttempt |-> 2, LogTypes |-> {"host", "test"}, MaxBytes |-> 7, ReadLength |-> 5,
   MaxLines |-> 3]

\* Two channels of directories, one of URLs and the local one.
Item(name, path, isFile) == [name |-> name, path |-> Append(path, name), isFile |-> isFile]
MCPickerPage ==
  [Channels |-> <<"L", "A", "U", "B">>, Local |-> {"L"}, ByUrl |-> {"U"},
   Pages |-> [cp \in {"A", "B"} \X {<<>>, <<"d">>} |->
     IF cp[2] = <<>> THEN <<<<Item("d", cp[2], FALSE)>>, <<Item("f", cp[2], TRUE)>>>>
     ELSE <<<<Item("g", cp[2], TRUE)>>>>],
   TypedPaths |-> {<<"d">>, <<"*">>}, TypedNames |-> {<<"*">>},
   FileUrls |-> {<<"file">>}, Patterns |-> {<<"*">>}, Authorized |-> {"A", "L"},
   Opened |-> {[channel |-> "A", parts |-> <<"d", "g">>], [channel |-> "U", parts |-> <<"d">>],
               [channel |-> "L", parts |-> <<"x">>],
               [channel |-> "no channel", parts |-> <<"file">>]}]

\* Two files of one name, of several chunks.
MCLocalFilesPage ==
  [Directories |-> {"root", "sub"}, Root |-> "root", Files |-> {"a", "b"},
   NameOf |-> [f \in {"a", "b"} |-> "x"],
   Size |-> [f \in {"a", "b"} |-> IF f = "a" THEN 3 ELSE 2],
   FirstFiles |-> {<<"sub", "y">>}, MinChunk |-> 1, MaxChunk |-> 2, InitialChunk |-> 1]
=============================================================================
