--------------------------- MODULE MCListenerShelf ---------------------------
(***************************************************************************)
(* Instances of ListenerShelf for TLC: the surroundings of each run.       *)
(***************************************************************************)
EXTENDS ListenerShelf

CONSTANTS w1, w2, p1

Briefing(e) == [episode |-> e, lines |-> <<1, 2>>]
Manual(e) == [episode |-> e, lines |-> <<NoArticle>>]

\* The daily jobs alone, and everything that can fail.
Daily == [scripts |-> <<Briefing(1), Manual(2)>>, workers |-> {w1},
          faults |-> FaultKinds, faultLimit |-> 2, requests |-> 0]
\* A second version of the script, about the same articles the other way
\* round, and people who ask for audio.
Rewritten == [scripts |-> <<Briefing(1), [episode |-> 1, lines |-> <<2, 1>>]>>,
              workers |-> {w1}, faults |-> {"outage", "tts"}, faultLimit |-> 1,
              requests |-> 2]
\* Two workers on one episode.
Crowded == [scripts |-> <<[episode |-> 1, lines |-> <<1>>]>>, workers |-> {w1, w2},
            faults |-> {"outage"}, faultLimit |-> 1, requests |-> 1]
CheckedSites == {Daily, Rewritten, Crowded}

=============================================================================
