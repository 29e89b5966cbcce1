------------------------ MODULE MCEditorialPipeline ------------------------
(* Small instances of EditorialPipeline for TLC.                           *)
EXTENDS EditorialPipeline, TLC


Story(hash, url, title, words, at, label, keywords) ==
  [hash |-> hash, url |-> url, title |-> title, words |-> words, at |-> at,
   today |-> TRUE, future |-> FALSE, section |-> "", label |-> label,
   terms |-> <<"News", "Cloud">>, keywords |-> keywords]

Release == Story(1, "u1", "release", {"llm", "release", "open"}, 1, "AI", <<"LLM">>)
Again == Story(2, "u2", "again", {"llm", "release", "again"}, 2, "AI", <<"LLM", "agents">>)
Breach == Story(3, "u3", "breach", {"breach", "cloud"}, 1, "Cloud", <<"Security", "Cloud">>)
Launch == Story(8, "u8", "launch", {"launch", "chip"}, 2, "News", <<"Hardware">>)
Old == [Story(4, "u4", "old", {"old"}, 0, "", <<>>) EXCEPT !.today = FALSE]
\* Another text at the address of Release; entries that are no articles.
Edited == Story(5, "u1", "release", {"llm", "release"}, 2, "AI", <<"LLM">>)
Early == [Story(6, "u6", "early", {"early"}, 3, "AI", <<>>) EXCEPT !.future = TRUE]
Untitled == Story(7, "", "", {}, 0, "", <<>>)
AllItems == {Release, Again, Breach, Launch, Old, Edited, Early, Untitled}

Base == [sources |-> {"feed"}, processes |-> {"w1", "w2"},
         provider |-> [n \in {"feed", "mail"} |-> IF n = "feed" THEN "rss" ELSE "gmail"],
         limit |-> [n \in {"feed", "mail"} |-> 3],
         feeds |-> [n \in {"feed", "mail"} |-> <<<<Release>>>>],
         stored |-> <<>>, byHand |-> {}, daily |-> {}, operations |-> {},
         faults |-> {}, requestLimit |-> 0, faultLimit |-> 0]

\* The daily import, with feeds that change and whatever can go wrong.
Importing ==
  [Base EXCEPT !.sources = {"feed", "mail"}, !.daily = {"import"},
     !.feeds = ("feed" :> <<<<Untitled, Release, Early, Breach, Old>>, <<Edited, Release>>>>
                @@ "mail" :> <<<<Again, Early>>>>),
     !.operations = {"change", "toggle"}, !.faults = {"feed", "save", "crash"},
     !.requestLimit = 2, !.faultLimit = 1, !.limit["feed"] = 3]
\* Imports side by side and articles entered by hand.
SideBySide ==
  [Base EXCEPT !.processes = {"w1", "w2", "o1"}, !.byHand = {Edited},
     !.feeds["feed"] = <<<<Release>>, <<Edited>>>>,
     !.operations = {"import", "enter", "post", "change"}, !.requestLimit = 4]
\* Sources deleted and created while an import is at work.
Sourcing ==
  [Base EXCEPT !.feeds["feed"] = <<<<Release, Breach>>>>, !.provider["mail"] = "rss",
     !.operations = {"import", "delete", "create", "rename"}, !.requestLimit = 4]
\* Plans and single steps of analysis on the same articles.
Planning ==
  [Base EXCEPT !.stored = <<Release, Again, Old>>,
     !.operations = {"plan", "summarize", "classify", "rescore", "add"},
     !.faults = {"llm", "crash"}, !.requestLimit = 2, !.faultLimit = 1]
Replanning ==
  [Base EXCEPT !.stored = <<Release, Again, Breach, Launch>>, !.operations = {"plan", "rescore", "add"},
     !.processes = {"w1"}, !.requestLimit = 5]

CheckedSites == {Importing, SideBySide, Sourcing, Planning, Replanning}

=============================================================================
