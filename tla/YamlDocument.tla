---------------------------- MODULE YamlDocument ----------------------------
(***************************************************************************)
(* Values of YAML and the events that libyaml makes of them: the stream of *)
(* user data has one document, or none.                                    *)
(***************************************************************************)
EXTENDS Integers, SequencesExt

CONSTANTS
    Yaml,   \* the values there are
    Level   \* Level[v]: how deep sequences and mappings are nested in the value v

Scalar(text) == [kind |-> "scalar", text |-> text]
Sequence(items) == [kind |-> "seq", items |-> items]
Mapping(keys, items) == [kind |-> "map", keys |-> keys, items |-> items]
Alias == [kind |-> "alias"]

(* A value is built of others in finitely many steps; keys are texts. *)
ASSUME YamlAssumption ==
    /\ Level \in [Yaml -> Nat]
    /\ \A v \in Yaml :
          /\ v.kind \in {"scalar", "seq", "map", "alias"}
          /\ v.kind = "scalar" => v.text \in STRING
          /\ v.kind \in {"seq", "map"} =>
                /\ v.items \in Seq(Yaml)
                /\ \A i \in DOMAIN v.items : Level[v.items[i]] < Level[v]
          /\ v.kind = "map" => v.keys \in Seq(STRING) /\ Len(v.keys) = Len(v.items)

Event(type, text) == [type |-> type, text |-> text]
Enclosed(start, inner) == <<Event(start, "")>> \o inner \o <<Event("end", "")>>

(* The events of a value, with those that f gives for its items. *)
KeyedEvents(f, v) == [i \in DOMAIN v.items |-> <<Event("scalar", v.keys[i])>> \o f[v.items[i]]]
EventsFrom(f, v) ==
    CASE v.kind = "scalar" -> <<Event("scalar", v.text)>>
      [] v.kind = "alias" -> <<Event("ignored", "")>>
      [] v.kind = "seq" ->
            Enclosed("sequence_start", FlattenSeq([i \in DOMAIN v.items |-> f[v.items[i]]]))
      [] v.kind = "map" -> Enclosed("mapping_start", FlattenSeq(KeyedEvents(f, v)))

ValueEvents[v \in Yaml] == EventsFrom(ValueEvents, v)

Stream(doc) ==
    Append(FlattenSeq([i \in DOMAIN doc |-> ValueEvents[doc[i]]]), Event("stream_end", ""))
=============================================================================
