-------------------------- MODULE MCPublishEpisode --------------------------
(***************************************************************************)
(* Instances of PublishEpisode for TLC: the surroundings of each run.      *)
(***************************************************************************)
EXTENDS PublishEpisode, TLC

CONSTANTS w1, w2, o1

BothPlatforms == <<"rss", "youtube">>
AllReady == [e \in Episodes |-> "ready"]

\* One worker whose platforms refuse, and an operator.
Calm == [workers |-> {w1}, operators |-> {o1}, faults |-> {"refuse", "upload"},
         audio |-> AllReady, targets |-> {<<"youtube">>}, requests |-> 1,
         republish |-> FALSE]
\* One worker whose platforms come and go, and more requests.
Asking == [workers |-> {w1}, operators |-> {}, faults |-> {"down"},
           audio |-> AllReady, targets |-> {<<>>, <<"youtube">>},
           requests |-> 2, republish |-> FALSE]
\* A feed that cannot be generated.
Mute == [workers |-> {w1}, operators |-> {}, faults |-> {"feed"},
         audio |-> AllReady, targets |-> {<<>>}, requests |-> 2,
         republish |-> FALSE]
\* Two workers.
Busy == [workers |-> {w1, w2}, operators |-> {}, faults |-> {},
         audio |-> AllReady, targets |-> {<<"rss">>}, requests |-> 1,
         republish |-> FALSE]
\* One worker that dies, a full disk, the newest episode without audio.
Broken == [workers |-> {w1}, operators |-> {o1}, faults |-> {"crash", "disk"},
           audio |-> [AllReady EXCEPT ![1] = "none"], targets |-> {<<>>},
           requests |-> 1, republish |-> TRUE]
CheckedSites == {Calm, Asking, Mute, Busy, Broken}

\* The newest episode has lost its audio file.
UnfitSites == {[workers |-> {w1}, operators |-> {}, faults |-> {}, targets |-> {<<>>},
                audio |-> [AllReady EXCEPT ![1] = "unfit"],
                republish |-> FALSE, requests |-> 0]}

=============================================================================
