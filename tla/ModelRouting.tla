------------------------------ MODULE ModelRouting ------------------------------
(***************************************************************************)
(* Which model and which protocol a request is for: the settings of        *)
(* config.py that decide it, map_model, select_messages_backend            *)
(* (backends.py), and the list of models a client may choose from          *)
(* (models.py).                                                            *)
(*                                                                         *)
(* A glob pattern is the set of names it matches, the reversible encoding  *)
(* of automatic_model_alias a one-to-one function.                         *)
(***************************************************************************)
EXTENDS Integers, Sequences, FiniteSets, SequencesExt

CONSTANTS Model,           \* ids of upstream models
          Alias,           \* the other names clients use
          AutomaticAlias,  \* automatic_model_alias, from Model to Alias
          Null

Name == Model \cup Alias

ASSUME RoutingAssumption ==
    /\ Model \cap Alias = {} /\ Null \notin Name
    /\ AutomaticAlias \in [Model -> Alias]
    /\ \A m, n \in Model : AutomaticAlias[m] = AutomaticAlias[n] => m = n

Glob == [names : SUBSET Name, model : Model]

\* The settings of one process.  `exact` and `globs` are the two readings of
\* MODEL_MAP, `static` the keys of MODEL_DISCOVERY; `listed` are the models that
\* pass MODEL_DISCOVERY_INCLUDE and _EXCLUDE, `native` those that match
\* ANTHROPIC_MODEL_PATTERNS; `extra` is a "model" in EXTRA_OPENAI_BODY.
Deployment ==
    [override : Model \cup {Null}, exact : UNION {[names -> Model] : names \in SUBSET Name},
     globs : Seq(Glob), static : {list \in Seq(Alias) : IsInjective(list)},
     discovery : {"auto", "passthrough"}, listed : SUBSET Model,
     protocol : {"openai", "anthropic", "auto"}, native : SUBSET Model,
     api : {"chat_completions", "responses"}, extra : Model \cup {Null}]

\* automatic_upstream_model.
AutomaticModels(name) == {m \in Model : AutomaticAlias[m] = name}

Globbed(d, name) == {g \in DOMAIN d.globs : name \in d.globs[g].names}

\* Settings.__post_init__: discovery needs a translating protocol, and every
\* published alias a model.
Valid(d) ==
    /\ d.discovery = "auto" => d.protocol # "anthropic"
    /\ d.protocol = "auto" => d.native # {}
    /\ \A i \in DOMAIN d.static :
          \/ d.override # Null
          \/ d.static[i] \in DOMAIN d.exact \/ Globbed(d, d.static[i]) # {}
          \/ d.discovery = "auto" /\ AutomaticModels(d.static[i]) # {}

\* Mutant: only MODEL_MAP is looked at, automatic aliases are sent as they are.
MapConfigured(d, name) ==
    IF d.override # Null THEN d.override
    ELSE IF name \in DOMAIN d.exact THEN d.exact[name]
    ELSE IF Globbed(d, name) # {}
         THEN d.globs[CHOOSE g \in Globbed(d, name) : \A h \in Globbed(d, name) : g <= h].model
    ELSE name

\* Settings.map_model: override, exact, first glob, automatic, pass-through.
MapModel(d, name) ==
    CASE d.override # Null -> d.override
      [] d.override = Null /\ name \in DOMAIN d.exact -> d.exact[name]
      [] d.override = Null /\ name \notin DOMAIN d.exact /\ Globbed(d, name) # {} ->
            d.globs[CHOOSE g \in Globbed(d, name) : \A h \in Globbed(d, name) : g <= h].model
      [] OTHER ->
            IF d.discovery = "auto" /\ AutomaticModels(name) # {}
            THEN CHOOSE m \in AutomaticModels(name) : TRUE
            ELSE name

\* select_messages_backend: "anthropic" is the relay, anything else a translation.
Backend(d, name) ==
    IF d.protocol = "anthropic" \/ (d.protocol = "auto" /\ MapModel(d, name) \in d.native)
    THEN "anthropic" ELSE d.api

\* The relay of a fixed protocol sends the client's body as it is; EXTRA_OPENAI_BODY
\* is merged last into a translated one.
UpstreamModel(d, name) ==
    CASE d.protocol = "anthropic" -> name
      [] d.protocol # "anthropic" /\ Backend(d, name) = "anthropic" -> MapModel(d, name)
      [] OTHER -> IF d.extra # Null THEN d.extra ELSE MapModel(d, name)

-----------------------------------------------------------------------------
(* The model list.                                                         *)

\* A dict built with setdefault: the first of equal entries stays.
FirstOfEach(seq) ==
    FlattenSeq([i \in DOMAIN seq |->
                  IF \E j \in 1..(i - 1) : seq[j] = seq[i] THEN <<>> ELSE <<seq[i]>>])

\* _automatic_discovered_models: the static aliases, then one for each listed
\* model of the upstream's catalog.
ModelList(d, catalog) ==
    LET aliases == [i \in DOMAIN catalog |->
                       IF catalog[i] \in d.listed THEN <<AutomaticAlias[catalog[i]]>> ELSE <<>>]
    IN  FirstOfEach(d.static \o FlattenSeq(aliases))

IndexOf(ids, cursor) == CHOOSE i \in DOMAIN ids : ids[i] = cursor

\* model_page after or before a cursor; Null stands for the rejection of an
\* unknown one.
PageAfter(ids, cursor, limit) ==
    IF cursor # Null /\ cursor \notin Range(ids) THEN Null
    ELSE LET start == IF cursor = Null THEN 0 ELSE IndexOf(ids, cursor)
             end   == Min({Len(ids), start + limit})
         IN  [data |-> SubSeq(ids, start + 1, end), hasMore |-> end < Len(ids)]

\* Mutant: the entry at the cursor is part of the page before it.
PageUpTo(ids, cursor, limit) ==
    IF cursor \notin Range(ids) THEN Null
    ELSE LET end   == IndexOf(ids, cursor)
             start == Max({0, end - limit})
         IN  [data |-> SubSeq(ids, start + 1, end), hasMore |-> start > 0]

PageBefore(ids, cursor, limit) ==
    IF cursor \notin Range(ids) THEN Null
    ELSE LET end   == IndexOf(ids, cursor) - 1
             start == Max({0, end - limit})
         IN  [data |-> SubSeq(ids, start + 1, end), hasMore |-> start > 0]
=================================================================================
