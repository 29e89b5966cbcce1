---------------------------- MODULE VoiceCasting ----------------------------
(***************************************************************************)
(* Which voice speaks which persona.  Every generation of audio begins     *)
(* with VoiceSetupService, which asks the TTS server for its voices and    *)
(* writes a profile and a mapping per persona, in one transaction; then    *)
(* every line looks up the mapping of its speaker and is checked against   *)
(* the voices and the health that the cache of the TTS server remembers.   *)
(*                                                                         *)
(* Statements of a transaction are steps of their own: it sees what others *)
(* have committed, and waits for a row that another one has written.       *)
(***************************************************************************)
EXTENDS Naturals, Sequences, FiniteSets, Functions, SequencesExt

CONSTANTS
  Casters,    \* processes that generate audio
  CastSites   \* the surroundings to consider

Primary == <<"intro", "expert", "beginner">>
\* Personas that speak with the voice of another one.
Secondary == [narration |-> "expert", outro |-> "beginner"]
Personas == ToSet(Primary) \cup DOMAIN Secondary

\* Profiles are named; those named after a primary persona, and the one of
\* earlier versions, belong to the setup.  All others are made by hand.
SetupNames == ToSet(Primary) \cup {"default"}
Anybody(name) == TRUE   \* mutant of AutoManaged
AutoManaged(name) == name \in SetupNames
ProfileOf(p) == IF p \in DOMAIN Secondary THEN Secondary[p] ELSE p

Profile(voice, language) == [voice |-> voice, language |-> language, enabled |-> TRUE]
Mapping(profile) == [profile |-> profile, enabled |-> TRUE]

\* A voice of the server, and the personas its name hints at.
VoiceInfo == [id : STRING, hints : SUBSET Personas]
VoiceProfile == [voice : STRING, language : STRING, enabled : BOOLEAN]
PersonaVoiceMapping(s) == [profile : DOMAIN s.profiles \cup SetupNames, enabled : BOOLEAN]

\* Scripts are spoken by personas, and what is made by hand has other names
\* than what the setup makes.
ASSUME CastSitesAssumption ==
  \A s \in CastSites :
    /\ s.workers \subseteq Casters /\ s.script \in Seq(Personas) \ {<<>>}
    /\ s.offers \in Seq(Seq(VoiceInfo)) \ {<<>>}
    /\ s.profiles \in [DOMAIN s.profiles -> VoiceProfile]
    /\ s.mappings \in [DOMAIN s.mappings -> PersonaVoiceMapping(s)]
    /\ \A e \in s.edits : e.mapping \in PersonaVoiceMapping(s)
    /\ s.handmade \cap SetupNames = {}

VARIABLES
  castSite,  \* the surroundings, chosen at the start
  server,    \* the TTS server: whether it answers, and the voices it has
  profiles,  \* name -> row of table audio_voiceprofile
  mappings,  \* persona -> row of table audio_personavoicemapping
  voiceIds,  \* the cached identifiers of voices; {""}: nothing cached
  health,    \* the cached health: "none", "up" or "down"
  casting,   \* process -> its generation
  spoken,    \* the script has been spoken from beginning to end
  troubles   \* outages, changes and edits so far                   (bound)

castVars == <<castSite, server, profiles, mappings, voiceIds, health, casting, spoken, troubles>>

-----------------------------------------------------------------------------
(* _resolve_distinct_voice_ids.                                            *)

\* f with the value v at x, and f where it has a value and else g.
With(f, x, v) == [y \in DOMAIN f \cup {x} |-> IF y = x THEN v ELSE f[y]]
Over(f, g) == [x \in DOMAIN f \cup DOMAIN g |-> IF x \in DOMAIN f THEN f[x] ELSE g[x]]

Ids(voices) == {voices[i].id : i \in DOMAIN voices}
Settings(p) == castSite.configured[p]   \* "": not configured

\* The voices that nobody has been given.
Unused(voices, given) == {i \in DOMAIN voices : voices[i].id \notin Range(given)}

\* The first unused voice whose name hints at p, or the first unused one, or
\* one after the other again.
VoiceFor(voices, given, p) ==
  LET unused == Unused(voices, given)
      hinted == {i \in unused : p \in voices[i].hints}
  IN IF hinted # {} THEN voices[Min(hinted)].id
     ELSE IF unused # {} THEN voices[Min(unused)].id
     ELSE voices[(Cardinality(DOMAIN given) % Len(voices)) + 1].id

ConfiguredVoices ==
  [p \in {q \in ToSet(Primary) : Settings(q) # ""} |-> Settings(p)]

Give(voices, fallback, given, p) ==
  IF p \in DOMAIN given THEN given
  ELSE With(given, p, IF voices = <<>> THEN fallback ELSE VoiceFor(voices, given, p))

\* One persona after the other.
DistinctVoices(voices, fallback) ==
  LET To(given, p) == Give(voices, fallback, given, p)
  IN To(To(To(ConfiguredVoices, Primary[1]), Primary[2]), Primary[3])

\* _fallback_voice_id, once the server has been asked a second time.
FallbackVoice(voices) ==
  IF castSite.default # "" THEN castSite.default
  ELSE IF voices # <<>> THEN voices[1].id ELSE "default"

-----------------------------------------------------------------------------
(* PersonaVoiceResolver.                                                   *)

Suits(profile) == profile.enabled /\ profile.language \in {castSite.language, ""}
Fallbacks(profileRows) ==
  {i \in DOMAIN castSite.order :
     /\ castSite.order[i] \in DOMAIN profileRows
     /\ Suits(profileRows[castSite.order[i]])}

\* The name of the profile for p; "": VoiceNotFoundException.
ResolvedProfile(profileRows, mappingRows, p) ==
  IF /\ p \in DOMAIN mappingRows
     /\ mappingRows[p].enabled
     /\ Suits(profileRows[mappingRows[p].profile])
  THEN mappingRows[p].profile
  ELSE IF Fallbacks(profileRows) = {} THEN "" ELSE castSite.order[Min(Fallbacks(profileRows))]

-----------------------------------------------------------------------------
(* One generation.  wanted: the voices of the setup.  heard: the voices it *)
(* was told of.  row: the row at hand.  fields: what it will write to it,  *)
(* as a new row or not.  own: what its transaction has written.  allowed:  *)
(* the voices validation lets pass; {}: all.  languages: those the server  *)
(* speaks; {}: not asked yet.  take: who has said what with which voice.   *)
(* given: profiles made by hand that personas had when it began.  alone:   *)
(* nobody else has changed a profile or mapping since (observation only).  *)

NoRows == [profiles |-> <<>>, mappings |-> <<>>]
NoCasting ==
  [pc |-> "idle", heard |-> <<>>, wanted |-> <<>>, row |-> 1, fields |-> <<>>, new |-> FALSE,
   own |-> NoRows, allowed |-> {}, languages |-> {}, voice |-> "", take |-> <<>>,
   given |-> <<>>, alone |-> TRUE]

CastTo(w, c) == casting' = [casting EXCEPT ![w] = c]
Stop(w) == CastTo(w, NoCasting)
Doing(w, pc) == w \in castSite.workers /\ casting[w].pc = pc
Heard == IF server.up THEN server.voices ELSE <<>>

Trouble(kind) ==
  /\ kind \in castSite.troubles /\ troubles < castSite.troubleLimit
  /\ troubles' = troubles + 1

CastInit ==
  /\ castSite \in CastSites
  /\ server = [up |-> TRUE, voices |-> castSite.offers[1]]
  /\ profiles = castSite.profiles /\ mappings = castSite.mappings
  /\ voiceIds = {""} /\ health = "none"
  /\ casting = [w \in Casters |-> NoCasting]
  /\ spoken = FALSE
  /\ troubles = 0

\* generate_for_script begins.
Cast(w) ==
  /\ Doing(w, "idle") /\ ~spoken
  /\ CastTo(w, [NoCasting EXCEPT !.pc = "list",
                  !.given = [p \in {q \in DOMAIN mappings : mappings[q].profile \in castSite.handmade}
                               |-> mappings[p].profile]])
  /\ UNCHANGED <<castSite, server, profiles, mappings, voiceIds, health, spoken, troubles>>

\* A list that cannot be had is an empty one.  Without a default voice the
\* server is asked again.
ListVoices(w) ==
  /\ Doing(w, "list")
  /\ CastTo(w, [casting[w] EXCEPT !.pc = "fallback", !.heard = Heard])
  /\ UNCHANGED <<castSite, server, profiles, mappings, voiceIds, health, spoken, troubles>>

Resolve(w) ==
  /\ Doing(w, "fallback")
  /\ CastTo(w, [casting[w] EXCEPT !.pc = "look",
                  !.wanted = DistinctVoices(casting[w].heard, FallbackVoice(Heard))])
  /\ UNCHANGED <<castSite, server, profiles, mappings, voiceIds, health, spoken, troubles>>

-----------------------------------------------------------------------------
(* The rows of the setup: _ensure_voice_profile and _ensure_mapping.       *)

Row(table, p) == [table |-> table, persona |-> p]
SetupRows == <<Row("profiles", "intro"), Row("mappings", "intro"),
               Row("profiles", "expert"), Row("mappings", "expert"),
               Row("profiles", "beginner"), Row("mappings", "beginner"),
               Row("mappings", "narration"), Row("mappings", "outro")>>

\* What the setup writes to a row of the table; <<>>: it is as it should be.
Correction(row, rows, wanted) ==
  LET p == row.persona
      new == IF row.table = "profiles" THEN Profile(wanted[p], "en") ELSE Mapping(ProfileOf(p))
  IN IF p \notin DOMAIN rows THEN new
     ELSE IF row.table = "profiles"
     THEN IF rows[p].voice = wanted[p] THEN <<>> ELSE [voice |-> wanted[p]]
     ELSE IF rows[p].profile # ProfileOf(p) /\ AutoManaged(rows[p].profile) THEN new
     ELSE IF rows[p].enabled THEN <<>> ELSE [enabled |-> TRUE]

Committed == [profiles |-> profiles, mappings |-> mappings]
Seen(w, table) == Over(casting[w].own[table], Committed[table])
Locked(w, row) ==
  \E x \in Casters \ {w} : row.persona \in DOMAIN casting[x].own[row.table]

Look(w) ==
  /\ Doing(w, "look") /\ casting[w].row <= Len(SetupRows)
  /\ LET c == casting[w]
         row == SetupRows[c.row]
         fields == Correction(row, Seen(w, row.table), c.wanted)
     IN CastTo(w, IF fields = <<>> THEN [c EXCEPT !.row = @ + 1]
                  ELSE [c EXCEPT !.pc = "write", !.fields = fields,
                                 !.new = row.persona \notin DOMAIN Seen(w, row.table)])
  /\ UNCHANGED <<castSite, server, profiles, mappings, voiceIds, health, spoken, troubles>>

\* An update writes its fields only; an insert that comes second is a get.
Write(w) ==
  /\ Doing(w, "write")
  /\ LET c == casting[w]
         row == SetupRows[c.row]
         rows == Seen(w, row.table)
     IN /\ ~Locked(w, row)
        /\ CastTo(w, IF c.new /\ row.persona \in DOMAIN rows THEN [c EXCEPT !.pc = "look"]
                     ELSE [c EXCEPT !.pc = "look", !.row = @ + 1,
                             !.own[row.table] =
                               With(@, row.persona, IF c.new THEN c.fields
                                                    ELSE Over(c.fields, rows[row.persona]))])
  /\ UNCHANGED <<castSite, server, profiles, mappings, voiceIds, health, spoken, troubles>>

\* What w does next as casting[w] = c, while others learn that rows changed.
Disturbing(w, c) ==
  casting' = [x \in Casters |-> IF x = w THEN c ELSE [casting[x] EXCEPT !.alone = FALSE]]

Commit(w) ==
  /\ Doing(w, "look") /\ casting[w].row > Len(SetupRows)
  /\ profiles' = Seen(w, "profiles") /\ mappings' = Seen(w, "mappings")
  /\ Disturbing(w, [casting[w] EXCEPT !.pc = "health", !.own = NoRows])
  /\ UNCHANGED <<castSite, server, voiceIds, health, spoken, troubles>>

-----------------------------------------------------------------------------
(* VoiceCacheService, and the lines.                                       *)

\* A cached answer is taken as it is.  ProviderUnavailableException ends the
\* generation.
CheckHealth(w) ==
  /\ Doing(w, "health")
  /\ LET answer == IF health # "none" THEN health ELSE IF server.up THEN "up" ELSE "down"
     IN /\ health' = answer
        /\ IF answer = "up" THEN CastTo(w, [casting[w] EXCEPT !.pc = "voices"]) ELSE Stop(w)
  /\ UNCHANGED <<castSite, server, profiles, mappings, voiceIds, spoken, troubles>>

Known == voiceIds # {""}
GetVoices(w) ==
  /\ Doing(w, "voices")
  /\ IF Known \/ server.up
     THEN LET ids == IF Known THEN voiceIds ELSE Ids(server.voices)
          IN /\ voiceIds' = ids
             /\ CastTo(w, [casting[w] EXCEPT !.pc = "line", !.allowed = ids])
     ELSE /\ Stop(w)
          /\ UNCHANGED voiceIds
  /\ UNCHANGED <<castSite, server, profiles, mappings, health, spoken, troubles>>

Speaker(w) == castSite.script[Len(casting[w].take) + 1]

\* The languages are asked for once; a server that does not answer speaks
\* English.
Languages(w) ==
  IF casting[w].languages # {} THEN casting[w].languages
  ELSE IF server.up THEN castSite.languages ELSE {"en"}

\* resolve and validate: the line goes to the server, or the generation ends.
Prepare(w) ==
  /\ Doing(w, "line")
  /\ LET c == casting[w]
         name == ResolvedProfile(profiles, mappings, Speaker(w))
         valid == /\ name # ""
                  /\ castSite.language \in Languages(w)
                  /\ c.allowed # {} => profiles[name].voice \in c.allowed
     IN IF valid THEN CastTo(w, [c EXCEPT !.pc = "speak", !.languages = Languages(w),
                                          !.voice = profiles[name].voice])
        ELSE Stop(w)
  /\ UNCHANGED <<castSite, server, profiles, mappings, voiceIds, health, spoken, troubles>>

\* The server speaks the line, does not know the voice, or does not answer.
SpeakLine(w) ==
  /\ Doing(w, "speak")
  /\ LET c == casting[w]
         take == Append(c.take, [speaker |-> Speaker(w), voice |-> c.voice])
     IN IF ~server.up \/ c.voice \notin Ids(server.voices)
        THEN Stop(w) /\ UNCHANGED spoken
        ELSE IF Len(take) < Len(castSite.script)
        THEN CastTo(w, [c EXCEPT !.pc = "line", !.take = take]) /\ UNCHANGED spoken
        ELSE Stop(w) /\ spoken' = TRUE
  /\ UNCHANGED <<castSite, server, profiles, mappings, voiceIds, health, troubles>>

-----------------------------------------------------------------------------
(* The server, the cache, and the people at the admin pages.               *)

GoDown ==
  /\ server.up /\ Trouble("outage") /\ server' = [server EXCEPT !.up = FALSE]
  /\ UNCHANGED <<castSite, profiles, mappings, voiceIds, health, casting, spoken>>

ComeUp ==
  /\ ~server.up /\ server' = [server EXCEPT !.up = TRUE]
  /\ UNCHANGED <<castSite, profiles, mappings, voiceIds, health, casting, spoken, troubles>>

\* Voice files are added, removed and renamed.
ChangeVoices ==
  /\ Trouble("voices")
  /\ \E i \in DOMAIN castSite.offers :
       /\ castSite.offers[i] # server.voices
       /\ server' = [server EXCEPT !.voices = castSite.offers[i]]
  /\ UNCHANGED <<castSite, profiles, mappings, voiceIds, health, casting, spoken>>

\* Mutant of ExpireVoices: voices are remembered while the server is down.
ExpireUnlessUp ==
  /\ Known /\ ~server.up /\ voiceIds' = {""}
  /\ UNCHANGED <<castSite, server, profiles, mappings, health, casting, spoken, troubles>>

\* VOICE_CACHE_TTL_SECONDS and HEALTH_CACHE_TTL_SECONDS have passed.
ExpireVoices ==
  /\ Known /\ voiceIds' = {""}
  /\ UNCHANGED <<castSite, server, profiles, mappings, health, casting, spoken, troubles>>
ExpireHealth ==
  /\ health # "none" /\ health' = "none"
  /\ UNCHANGED <<castSite, server, profiles, mappings, voiceIds, casting, spoken, troubles>>

\* An admin gives a persona another profile, or switches a mapping off.
Edit(p, m) ==
  /\ p \in DOMAIN mappings /\ mappings[p] # m
  /\ ~\E w \in Casters : p \in DOMAIN casting[w].own.mappings
  /\ m.profile \in DOMAIN profiles
  /\ Trouble("edit")
  /\ mappings' = [mappings EXCEPT ![p] = m]
  /\ casting' = [x \in Casters |-> [casting[x] EXCEPT !.alone = FALSE]]
  /\ UNCHANGED <<castSite, server, profiles, voiceIds, health, spoken>>

CastStep(w) ==
  \/ Cast(w) \/ ListVoices(w) \/ Resolve(w) \/ Look(w) \/ Write(w) \/ Commit(w)
  \/ CheckHealth(w) \/ GetVoices(w) \/ Prepare(w) \/ SpeakLine(w)

CastNext ==
  \/ \E w \in Casters : CastStep(w)
  \/ GoDown \/ ComeUp \/ ChangeVoices \/ ExpireVoices \/ ExpireHealth
  \/ \E e \in castSite.edits : Edit(e.persona, e.mapping)

\* Jobs are run, a job that failed is asked for again, the server is mended,
\* and what is cached expires.
CastFairness ==
  /\ \A w \in Casters : WF_castVars(CastStep(w))
  /\ WF_castVars(ComeUp) /\ WF_castVars(ExpireVoices) /\ WF_castVars(ExpireHealth)

-----------------------------------------------------------------------------
(* Properties.                                                             *)

\* The setup has heard of a voice for every persona, and nobody has chosen
\* voices for it or made its profiles unfit for the language.
FreeChoice(c) ==
  /\ Cardinality(Ids(c.heard)) >= Len(Primary)
  /\ \A p, q \in ToSet(Primary) : p # q => Settings(p) = "" \/ Settings(p) # Settings(q)
  /\ DOMAIN mappings = Personas
  /\ \A p \in Personas : mappings[p].profile = ProfileOf(p) /\ mappings[p].enabled
  /\ \A p \in ToSet(Primary) : p \in DOMAIN profiles /\ Suits(profiles[p])

\* A cast is kept: while an episode is spoken each persona has one voice, two
\* personas are told apart if the server has voices for them, and a persona
\* that had a profile made by hand speaks with that.  This is so whatever the
\* server does, unless somebody else writes the voices meanwhile; and also
\* with several first generations at once, as long as nothing changes.
CastIsKept ==
  \A w \in Casters :
    LET c == casting[w]
        Voice(i) == c.take[i].voice
        Who(i) == ProfileOf(c.take[i].speaker)
    IN c.alone \/ troubles = 0 =>
         /\ \A i, j \in DOMAIN c.take :
              c.take[i].speaker = c.take[j].speaker => Voice(i) = Voice(j)
         /\ FreeChoice(c) => \A i, j \in DOMAIN c.take : Voice(i) = Voice(j) => Who(i) = Who(j)
         /\ \A i \in DOMAIN c.take :
              c.take[i].speaker \in DOMAIN c.given /\ Suits(profiles[c.given[c.take[i].speaker]])
                => Voice(i) = profiles[c.given[c.take[i].speaker]].voice

\* The rows that a setup by itself would leave.
AfterSetup ==
  LET wanted == DistinctVoices(server.voices, FallbackVoice(server.voices))
      Fixed(table) ==
        LET rows == Committed[table]
            written == {i \in DOMAIN SetupRows : SetupRows[i].table = table}
            Of(p) == LET row == Row(table, p)
                         fields == Correction(row, rows, wanted)
                     IN IF fields = <<>> THEN rows[p]
                        ELSE IF p \in DOMAIN rows THEN Over(fields, rows[p]) ELSE fields
        IN Over([p \in {SetupRows[i].persona : i \in written} |-> Of(p)], rows)
  IN [profiles |-> Fixed("profiles"), mappings |-> Fixed("mappings")]

\* Somebody speaks; the server answers and has a voice for everybody in the script.
Castable ==
  /\ castSite.workers # {} /\ server.up /\ castSite.language \in castSite.languages
  /\ LET rows == AfterSetup IN
     \A p \in ToSet(castSite.script) :
       LET name == ResolvedProfile(rows.profiles, rows.mappings, p)
       IN name # "" /\ rows.profiles[name].voice \in Ids(server.voices)

\* Whatever was cached and written while the server was down or had other
\* voices, a script that can be spoken is spoken in the end.
SpeechComesBack == (<>[]Castable) => <>spoken

=============================================================================
