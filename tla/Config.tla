-------------------------------- MODULE Config --------------------------------
(***************************************************************************)
(* What the API accepts as configuration: packages/api/src/config/schemas.ts *)
(* and index.ts, the rules that relate one entry to another.  A registry is  *)
(* a sequence of records, as the YAML files are.                             *)
(***************************************************************************)
EXTENDS Sequences, SequencesExt

CONSTANTS Null

\* duplicates: no value appears twice.
NoDuplicates(values) == \A i, j \in DOMAIN values : i # j => values[i] # values[j]

Column(entries, field) == [i \in DOMAIN entries |-> entries[i][field]]

\* zoneSchema: an authority has an interconnection, and nothing else is drawn.
AcceptsZone(zone) ==
  IF zone.type = "balancing_authority" THEN zone.interconnection # Null ELSE ~zone.in_map

\* zoneRegistrySchema.
AcceptsZones(zones) ==
  /\ zones # <<>>
  /\ \A i \in DOMAIN zones : AcceptsZone(zones[i])
  /\ NoDuplicates(Column(zones, "key"))
  /\ NoDuplicates(Column(zones, "eia_respondent"))
  /\ \A i \in DOMAIN zones :
       zones[i].parent # Null => /\ zones[i].parent \in ToSet(Column(zones, "key"))
                                 /\ zones[i].parent # zones[i].key

\* excludedRespondentsSchema.
AcceptsExcluded(entries) == NoDuplicates(Column(entries, "code"))

\* Variant: nothing keeps a renewable mode from being excluded.
AcceptsAnyExclusion(modes) ==
  LET canonical == ToSet(modes.canonical_modes)
  IN  /\ \A field \in {"renewable", "low_carbon", "excluded_from_mix_percent"} :
            NoDuplicates(modes[field]) /\ ToSet(modes[field]) \subseteq canonical
      /\ ToSet(modes.renewable) \subseteq ToSet(modes.low_carbon)

\* modesConfigSchema: sources[s] maps the codes of a source to modes.
AcceptsModes(modes) ==
  LET canonical == ToSet(modes.canonical_modes)
      lists     == {"renewable", "low_carbon", "excluded_from_mix_percent"}
  IN  /\ modes.canonical_modes # <<>>
      /\ NoDuplicates(modes.canonical_modes)
      /\ \A field \in lists : NoDuplicates(modes[field]) /\ ToSet(modes[field]) \subseteq canonical
      /\ \A s \in DOMAIN modes.sources : \A code \in DOMAIN modes.sources[s] :
            modes.sources[s][code] \in canonical
      /\ ToSet(modes.renewable) \cap ToSet(modes.excluded_from_mix_percent) = {}
      /\ ToSet(modes.renewable) \subseteq ToSet(modes.low_carbon)

\* sourcesConfigSchema.
AcceptsSources(sources) ==
  NoDuplicates(Column(sources, "id")) /\ "eia" \in ToSet(Column(sources, "id"))

\* loadConfig: every file, and no respondent that is both a zone and excluded.
AcceptsConfig(config) ==
  /\ AcceptsZones(config.zones)
  /\ AcceptsExcluded(config.excludedRespondents)
  /\ AcceptsModes(config.modes)
  /\ AcceptsSources(config.sources)
  /\ ToSet(Column(config.zones, "eia_respondent"))
       \cap ToSet(Column(config.excludedRespondents, "code")) = {}
  /\ "eia" \in DOMAIN config.modes.sources
=============================================================================
