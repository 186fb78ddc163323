---------------------------- MODULE MetadataTree ----------------------------
(***************************************************************************)
(* From the metadata of OpenStack to what is done about them: json_parse   *)
(* of src/json.c, which makes a tree of GLib nodes of a JSON document, and *)
(* the handlers of src/datasources/openstack.c that read keys and files    *)
(* out of this tree.                                                       *)
(*                                                                         *)
(* A text is a sequence of tokens, a node its data and its children.  The  *)
(* children of a node carry no mark of the objects and lists they come     *)
(* from, but for the nodes without data that precede an object.            *)
(***************************************************************************)
EXTENDS SequencesExt

CONSTANTS
    NULL,   \* the data of a node without any
    Json,   \* the JSON values there are
    Depth   \* Depth[v]: how deep objects and lists are nested in the value v

-----------------------------------------------------------------------------
(* JSON.  Values are strings: no handler modelled here reads another one.  *)

Value(text) == [kind |-> "value", text |-> text]
Array(items) == [kind |-> "array", items |-> items]
Object(names, items) == [kind |-> "object", names |-> names, items |-> items]

Name(token) == <<token>>
Has(object, name) == Name(name) \in ToSet(object.names)
Member(object, name) ==
    object.items[CHOOSE i \in DOMAIN object.names : object.names[i] = Name(name)]

(* A text is not NULL, the empty one included, nor is a name that a handler
   looks for; an object has each member once; a value is built of others in
   finitely many steps. *)
ASSUME JsonAssumption ==
    /\ NULL # <<>>
    /\ \A name \in {"public_keys", "keys", "data", "files", "content_path", "path"} :
          Name(name) # NULL
    /\ Depth \in [Json -> Nat]
    /\ \A v \in Json :
          /\ v.kind \in {"value", "array", "object"}
          /\ v.kind = "value" => v.text # NULL
          /\ v.kind # "value" =>
                /\ v.items \in Seq(Json)
                /\ \A i \in DOMAIN v.items : Depth[v.items[i]] < Depth[v]
          /\ v.kind = "object" =>
                /\ DOMAIN v.names = DOMAIN v.items
                /\ \A i, j \in DOMAIN v.names :
                      v.names[i] # NULL /\ (v.names[i] = v.names[j] => i = j)

Node(data, kids) == [data |-> data, kids |-> kids]

(* Fault: the members are appended without the node that sets them apart. *)
ObjectNodesTogether(names, kids) == [i \in DOMAIN names |-> Node(names[i], kids[i])]

(* The members of an object follow an empty node. *)
ObjectNodes(names, kids) ==
    <<Node(NULL, <<>>)>> \o [i \in DOMAIN names |-> Node(names[i], kids[i])]

(* The nodes that are appended to the given one for a value, if that stands in
   a list and if not: those of all the objects of a list follow each other. *)
json_parse[v \in Json] ==
    [parsing_array \in BOOLEAN |->
        CASE v.kind = "object" ->
                ObjectNodes(v.names, [i \in DOMAIN v.items |-> json_parse[v.items[i]][FALSE]])
          [] v.kind = "array" ->
                FlattenSeq([i \in DOMAIN v.items |-> json_parse[v.items[i]][TRUE]])
          [] v.kind = "value" ->
                <<Node(v.text, IF parsing_array THEN <<Node(NULL, <<>>)>> ELSE <<>>)>>]

-----------------------------------------------------------------------------
(* The handlers, each of which is given the first child of the node with   *)
(* its name, and goes from there to the last.                              *)

(* openstack_run_handler looks at the nodes of the first level only. *)
Named(metadata, name) == {node \in ToSet(json_parse[metadata][FALSE]) : node.data = Name(name)}
Given(metadata, name) == (CHOOSE node \in Named(metadata, name) : TRUE).kids

(* g_string_new of the data of a node's first child. *)
FirstText(node) == IF node.kids[1].data = NULL THEN <<>> ELSE node.kids[1].data

(* What write_ssh_keys is called with, in order: the text of each node that a
   handler takes for a key. *)
openstack_metadata_public_keys(nodes) ==
    FlattenSeq([i \in DOMAIN nodes |->
                   IF nodes[i].data = NULL THEN <<>> ELSE <<FirstText(nodes[i])>>])
openstack_metadata_keys(nodes) ==
    FlattenSeq([i \in DOMAIN nodes |->
                   IF nodes[i].data = Name("data") THEN <<FirstText(nodes[i])>> ELSE <<>>])

(* The handler of "files": what it has seen of a file, and the calls of
   copy_file it has made, each whenever content_path and path have both been
   seen, and nothing else since the first of them. *)
NoFile == [content_path |-> <<>>, path |-> <<>>, copies |-> <<>>]

Seen(seen, node) ==
    CASE node.data = Name("content_path") ->
            IF node.kids = <<>> THEN seen ELSE [seen EXCEPT !.content_path = node.kids[1].data]
      [] node.data = Name("path") ->
            IF node.kids = <<>> THEN seen ELSE [seen EXCEPT !.path = node.kids[1].data]
      [] OTHER -> [seen EXCEPT !.content_path = <<>>, !.path = <<>>]

Copied(seen) ==
    IF seen.content_path # <<>> /\ seen.path # <<>>
    THEN [seen EXCEPT !.copies = Append(@, <<seen.content_path, seen.path>>)]
    ELSE seen

openstack_metadata_files(nodes) ==
    LET after[n \in 0..Len(nodes)] ==
            IF n = 0 THEN NoFile ELSE Copied(Seen(after[n - 1], nodes[n]))
    IN  after[Len(nodes)].copies
=============================================================================
