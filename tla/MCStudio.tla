------------------------------- MODULE MCStudio -------------------------------
(***************************************************************************)
(* The studio for TLC: the voices of the personas, the operators' pages,   *)
(* the health reports and the telemetry.  They share no state that another *)
(* changes, so in each of the surroundings below one is at work and the    *)
(* others are still.                                                       *)
(***************************************************************************)
EXTENDS VoiceCasting, OperationsDesk, HealthReports, Telemetry

-----------------------------------------------------------------------------
(* Surroundings of the voices.                                             *)

Voice(id, hints) == [id |-> id, hints |-> hints]
Named == <<Voice("v1", {"intro"}), Voice("v2", {"expert"}), Voice("v3", {"beginner"})>>
Renamed == <<Voice("v3", {"expert"}), Voice("v4", {}), Voice("v1", {"beginner"})>>
Another == <<Voice("v1", {"intro"}), Voice("v4", {"expert"}), Voice("v3", {"beginner"})>>
Two == <<Voice("v1", {"expert"}), Voice("v2", {})>>
Voices ==
  [configured |-> [p \in ToSet(Primary) |-> ""], default |-> "", language |-> "en",
   languages |-> {"en"}, offers |-> <<Named>>, profiles |-> <<>>, mappings |-> <<>>,
   order |-> <<"own", "house", "beginner", "default", "expert", "intro">>,
   workers |-> {"w1"}, script |-> <<"intro", "expert", "beginner", "expert">>,
   handmade |-> {"own", "house"}, troubles |-> {}, troubleLimit |-> 0, edits |-> {}]
NoVoices == [Voices EXCEPT !.workers = {}]

\* The server goes down and changes its voices at any moment.
Changing ==
  [Voices EXCEPT !.offers = <<Named, Renamed, Two>>, !.troubles = {"outage", "voices"},
                 !.troubleLimit = 2]
\* One voice is configured for a persona and one as the default.
Configured == [Changing EXCEPT !.configured["expert"] = "v1", !.default = "v2", !.troubleLimit = 1]
\* Two episodes are spoken at a time, and nothing is cast yet.
Together ==
  [Voices EXCEPT !.workers = {"w1", "w2"}, !.script = <<"expert", "narration", "beginner">>,
                 !.offers = <<Renamed>>]
\* Everything is cast, and the voices change under two episodes.
Disturbed ==
  [Together EXCEPT
    !.profiles = [p \in ToSet(Primary) |->
      Profile(CASE p = "intro" -> "v1" [] p = "expert" -> "v2" [] OTHER -> "v3", "en")],
    !.mappings = [p \in Personas |-> Mapping(ProfileOf(p))],
    !.offers = <<Named, Another>>, !.troubles = {"voices"}, !.troubleLimit = 1,
    !.script = <<"expert">>]
\* Profiles and mappings made by hand, and changed meanwhile.
Manual ==
  [Voices EXCEPT
    !.profiles = [own |-> Profile("v2", "en"), house |-> Profile("v3", "de"),
                  default |-> Profile("v1", "en")],
    !.mappings = [intro |-> Mapping("own"), expert |-> Mapping("default")],
    !.troubles = {"edit", "outage"}, !.troubleLimit = 2,
    !.edits = {[persona |-> "expert", mapping |-> Mapping("own")],
               [persona |-> "intro", mapping |-> [Mapping("own") EXCEPT !.enabled = FALSE]]}]
\* The script's language is not that of the profiles.
German == [Manual EXCEPT !.language = "de", !.languages = {"en", "de"}, !.troubles = {"outage"}]

CheckedCasts == {NoVoices, Changing, Configured, Together, Disturbed, Manual, German}

-----------------------------------------------------------------------------
(* Surroundings of the operators' pages.                                   *)

Art(type, has) == [type |-> type, has |-> has]
Analyses == {"summary", "category", "score"}
Pages ==
  [articles |-> [a1 |-> Art("rss", Analyses), a2 |-> Art("manual", Analyses)],
   analysis |-> <<>>, selected |-> {"a1"}, episodes |-> <<>>, episodeLimit |-> 2,
   people |-> {"o1"}, hands |-> {"h1"}, operations |-> {"generate"}, faults |-> {},
   filters |-> {"all"}, patient |-> FALSE, requests |-> 0, faultLimit |-> 0]
NoPages == [Pages EXCEPT !.people = {}, !.hands = {}]

\* One operator who asks again until there is a script.
Patient ==
  [Pages EXCEPT !.patient = TRUE, !.faults = DeskFaults, !.faultLimit = 2,
                !.operations = {"generate", "abort", "save"}, !.requests = 1, !.episodeLimit = 3]
\* Two operators who save selections and ask for scripts.
Clicks == [Pages EXCEPT !.people = {"o1", "o2"}, !.operations = {"generate", "save"}, !.requests = 1]
\* The planner makes an episode of its own meanwhile.
Planned ==
  [Pages EXCEPT !.operations = {"generate", "save", "plan"}, !.requests = 2, !.episodeLimit = 3]
\* Two operators who save from pages of different age and filter.
Saving ==
  [Pages EXCEPT !.people = {"o1", "o2"}, !.operations = {"save"}, !.requests = 2,
                !.selected = {"a2"}, !.filters = {"all", "rss"}, !.episodes = <<Episode("draft", {})>>]
\* Everything that can be asked for, deletions too, while a worker may be lost.
Deleting ==
  [Pages EXCEPT !.people = {"o1", "o2"}, !.requests = 1, !.faults = {"crash", "refuse", "commit"},
                !.operations = {"generate", "delete", "clear", "studio", "again", "abort"},
                !.faultLimit = 1, !.episodes = <<Episode("draft", {"a1"})>>]
\* Two operators, of whom one asks for another script while the articles of
\* the first are being linked.
Hasty ==
  [Pages EXCEPT !.people = {"o1", "o2"}, !.selected = {"a1", "a2"}, !.requests = 1,
                !.operations = {"generate", "again"}, !.episodeLimit = 1]
\* An episode of two articles, one not analysed yet.
Panels ==
  [Pages EXCEPT !.operations = {"generate", "again", "save"}, !.selected = {"a1", "a2"},
                !.requests = 2, !.faults = {"refuse", "commit"}, !.faultLimit = 1,
                !.analysis = <<[article |-> "a1", type |-> "summarize_article", status |-> "failed"],
                               [article |-> "a1", type |-> "summarize_article", status |-> "succeeded"],
                               [article |-> "a2", type |-> "classify_article", status |-> "running"]>>,
                !.articles["a2"] = Art("manual", {"summary"})]
\* Scripts and audio of one episode, by two workers, some of which fail.
Sharing ==
  [Pages EXCEPT !.hands = {"h1", "h2"}, !.operations = {"again", "studio"}, !.requests = 3,
                !.faults = DeskFaults, !.faultLimit = 2, !.episodes = <<Episode("draft", {"a1"})>>]

CheckedDesks == {NoPages, Patient, Clicks, Planned, Saving, Deleting, Hasty, Panels, Sharing}

-----------------------------------------------------------------------------
(* Surroundings of the health reports.                                     *)

Requests(a, b) == [r1 |-> a, r2 |-> b]
Probes ==
  [up |-> Services, swinging |-> {}, requests |-> Requests("none", "none"),
   supabase |-> TRUE, rss |-> TRUE, scheduled |-> TRUE, swings |-> 2]
NoProbes == Probes

\* One report of each kind, while services go and come.
OneUnified ==
  [Probes EXCEPT !.requests = Requests("unified", "none"), !.swinging = {"postgresql", "ollama", "redis"}]
OneReady ==
  [Probes EXCEPT !.requests = Requests("ready", "none"), !.scheduled = FALSE,
                 !.swinging = {"postgresql", "workers", "redis", "tasks"}]
OneMonitor ==
  [Probes EXCEPT !.requests = Requests("monitor", "none"), !.supabase = FALSE,
                 !.swinging = {"postgresql", "supabase", "chatterbox", "models"}]
OneApi ==
  [Probes EXCEPT !.requests = Requests("api", "none"), !.swinging = {"supabase", "folder", "ollama"}]
\* Two reports at a time, with the same test file and with different ones.
TwoReady ==
  [Probes EXCEPT !.requests = Requests("ready", "ready"), !.swinging = {"media"}, !.swings = 1]
TwoMonitors == [TwoReady EXCEPT !.requests = Requests("monitor", "monitor")]
Mixed == [TwoReady EXCEPT !.requests = Requests("ready", "monitor"), !.rss = FALSE]

CheckedProbes == {NoProbes, OneUnified, OneReady, OneMonitor, OneApi, TwoReady, TwoMonitors, Mixed}

-----------------------------------------------------------------------------
(* Surroundings of the telemetry.                                          *)

Machines ==
  [serves |-> [t1 |-> "requests", t2 |-> "requests", t3 |-> "tasks", t4 |-> "schedule"],
   process |-> [t1 |-> "web", t2 |-> "web", t3 |-> "worker", t4 |-> "beat"],
   eager |-> FALSE, headers |-> {}, activities |-> 3, notes |-> 0, losses |-> 0]
NoMachines == [Machines EXCEPT !.activities = 0]

\* Requests whose clients send an id, on the two threads of one process.
Shared == [Machines EXCEPT !.headers = {100}, !.activities = 3, !.notes = 1]
\* A worker that runs task after task, and is lost.
Lost ==
  [Machines EXCEPT !.serves["t1"] = "nothing", !.serves["t2"] = "nothing", !.notes = 2, !.losses = 1]
\* Tasks inside requests.
Eager ==
  [Machines EXCEPT !.serves["t3"] = "nothing", !.serves["t4"] = "nothing", !.eager = TRUE, !.notes = 2]

CheckedTelemetry == {NoMachines, Machines, Shared, Lost, Eager}

-----------------------------------------------------------------------------
(* One at work, the others still.                                          *)

studioVars == <<castVars, deskVars, probeVars, telemetryVars>>

StudioInit ==
  /\ CastInit /\ DeskInit /\ ProbeInit /\ TelemetryInit
  /\ Cardinality({i \in 1..4 : <<castSite # NoVoices, deskSite # NoPages, probeSite # NoProbes,
                                telemetrySite # NoMachines>>[i]}) <= 1

StudioNext ==
  \/ CastNext /\ UNCHANGED <<deskVars, probeVars, telemetryVars>>
  \/ DeskNext /\ UNCHANGED <<castVars, probeVars, telemetryVars>>
  \/ ProbeNext /\ UNCHANGED <<castVars, deskVars, telemetryVars>>
  \/ TelemetryNext /\ UNCHANGED <<castVars, deskVars, probeVars>>

FairSpec == StudioInit /\ [][StudioNext]_studioVars /\ CastFairness /\ DeskFairness

=============================================================================
