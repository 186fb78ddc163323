-------------------------- MODULE CloudConfigTree --------------------------
(***************************************************************************)
(* How src/interpreters/cloud_config.c makes a tree of a cloud-config      *)
(* document: cloud_config_parse, which takes the events of libyaml one by  *)
(* one and calls itself for each sequence and mapping, and                 *)
(* cloud_config_simplify, which moves nodes while g_node_traverse walks    *)
(* over them, one step of the walk or of the loop over a node's children   *)
(* at a time.                                                              *)
(*                                                                         *)
(* A sequence or mapping becomes a node without data.  Nodes are numbered  *)
(* in the order in which they are made; node 1 is the root, whose data is  *)
(* the name of the file.  A node that is moved is a copy in the code, and  *)
(* keeps its number here.  An ill-formed document gives the events before  *)
(* the error, then yaml_parser_parse fails.                                *)
(***************************************************************************)
EXTENDS Integers, SequencesExt

CONSTANTS
    Documents,      \* what the user data may be
    EventsOf(_),    \* the events that libyaml makes of a document
    FileName,       \* the name of the file with the user data
    NULL            \* the data of a sequence or a mapping

Starts == {"sequence_start", "mapping_start"}
EventTypes == Starts \cup {"scalar", "end", "ignored", "stream_end"}

(* How many of the first i events of s have a type in this set. *)
Number(s, i, types) == Cardinality({j \in 1..i : s[j].type \in types})

(* What libyaml promises: the end of the stream comes last, and every other
   end belongs to a start before it. *)
ASSUME EventsAssumption ==
    \A d \in Documents :
        LET s == EventsOf(d) IN
        /\ s \in Seq([type : EventTypes, text : STRING])
        /\ Len(s) > 0
        /\ \A i \in 1..Len(s) : (s[i].type = "stream_end") = (i = Len(s))
        /\ \A i \in 1..Len(s) : Number(s, i, {"end"}) <= Number(s, i, Starts)
        /\ Number(s, Len(s), {"end"}) = Number(s, Len(s), Starts)

ASSUME DataAssumption == FileName \in STRING /\ NULL \notin STRING

VARIABLES
    document,   \* the user data
    events,     \* what libyaml makes of it
    read,       \* how many events yaml_parser_parse has returned
    frames,     \* the calls of cloud_config_parse, the innermost last
    tree,       \* [data, kids]: the data of each node, and its children
    walk,       \* the calls of g_node_traverse, the innermost last
    stage,      \* "parse", "simplify" or "process"
    broken      \* history: the document was ill-formed

treeVars == <<document, events, read, frames, tree, walk, stage, broken>>

Nodes == DOMAIN tree.data
New == Len(tree.data) + 1

States == {{}, {"SEQ"}, {"MAP"}, {"VAL"}, {"MAP", "VAL"}}

TreeTypeOK ==
    /\ document \in Documents /\ events = EventsOf(document)
    /\ read \in 0..Len(events)
    /\ tree.data \in Seq(STRING \cup {NULL}) /\ tree.kids \in Seq(Seq(Nodes \ {1}))
    /\ Len(tree.kids) = Len(tree.data)
    /\ frames \in Seq([node : Nodes, last_leaf : Nodes, state : States])
    /\ walk \in Seq([node : Nodes, next : Nodes \cup {0}])
    /\ stage \in {"parse", "simplify", "process"} /\ broken \in BOOLEAN
    /\ (stage = "parse") = (frames # <<>>) /\ (stage = "simplify") = (walk # <<>>)

TreeInit ==
    /\ document \in Documents
    /\ events = EventsOf(document)
    /\ read = 0
    /\ frames = <<[node |-> 1, last_leaf |-> 1, state |-> {}]>>
    /\ tree = [data |-> <<FileName>>, kids |-> <<(<<>>)>>]
    /\ walk = <<>>
    /\ stage = "parse"
    /\ broken = FALSE

-----------------------------------------------------------------------------
(* Nodes of GLib. *)

(* g_node_append of a new node. *)
Grow(text, parent) ==
    tree' = [data |-> Append(tree.data, text),
             kids |-> Append([tree.kids EXCEPT ![parent] = Append(@, New)], <<>>)]

Parent(n) == CHOOSE p \in Nodes : Contains(tree.kids[p], n)

First(n) == IF tree.kids[n] = <<>> THEN 0 ELSE tree.kids[n][1]

(* The sibling behind the i-th child of p. *)
NextSibling(p, i) == IF i = Len(tree.kids[p]) THEN 0 ELSE tree.kids[p][i + 1]

-----------------------------------------------------------------------------
(* cloud_config_parse. *)

(* yaml_parser_parse returns an event of this type. *)
Text == events[read + 1].text
Parse(type) ==
    /\ stage = "parse"
    /\ events[read + 1].type = type
    /\ read' = read + 1
    /\ UNCHANGED <<document, events, broken>>

Frame == Last(frames)
SetFrame(f) == frames' = Append(Front(frames), f)
Call(f, state) ==
    frames' = Append(Append(Front(frames), f),
                     [node |-> f.last_leaf, last_leaf |-> f.last_leaf, state |-> state])

(* 184-194: an item of a sequence, the value of a key, or a key. *)
parse_scalar ==
    /\ Parse("scalar")
    /\ \/ /\ "SEQ" \in Frame.state
          /\ Grow(Text, Frame.node)
          /\ SetFrame([Frame EXCEPT !.last_leaf = New])
       \/ /\ "SEQ" \notin Frame.state /\ "VAL" \in Frame.state
          /\ Grow(Text, Frame.last_leaf)
          /\ SetFrame([Frame EXCEPT !.state = @ \cap {"MAP", "SEQ"}])
       \/ /\ Frame.state \cap {"SEQ", "VAL"} = {}
          /\ Grow(Text, Frame.node)
          /\ SetFrame([Frame EXCEPT !.last_leaf = New, !.state = @ \cup {"VAL"}])
    /\ UNCHANGED <<walk, stage>>

(* Fault: the VAL bit is not removed. *)
parse_sequence_start_val ==
    /\ Parse("sequence_start")
    /\ Grow(NULL, IF "SEQ" \in Frame.state THEN Frame.node ELSE Frame.last_leaf)
    /\ Call([Frame EXCEPT !.last_leaf = New], {"SEQ"})
    /\ UNCHANGED <<walk, stage>>

(* 196-205: below the sequence it is an item of, or below its key. *)
parse_sequence_start ==
    /\ Parse("sequence_start")
    /\ Grow(NULL, IF "SEQ" \in Frame.state THEN Frame.node ELSE Frame.last_leaf)
    /\ Call([Frame EXCEPT !.last_leaf = New,
                          !.state = IF "MAP" \in @ THEN {"MAP"} ELSE @], {"SEQ"})
    /\ UNCHANGED <<walk, stage>>

(* Fault: the inner call gets the caller's state with it, and takes the keys of
   a mapping in a sequence for items. *)
parse_mapping_start_inherits ==
    /\ Parse("mapping_start")
    /\ Grow(NULL, Frame.node)
    /\ Call([Frame EXCEPT !.last_leaf = New], Frame.state \cup {"MAP"})
    /\ UNCHANGED <<walk, stage>>

(* 215-217: below the sequence it is an item of.  A mapping that is the value
   of a key goes there too, beside its key, and the VAL bit stays. *)
parse_mapping_start ==
    /\ Parse("mapping_start")
    /\ Grow(NULL, Frame.node)
    /\ Call([Frame EXCEPT !.last_leaf = New], {"MAP"})
    /\ UNCHANGED <<walk, stage>>

(* 211-213, 223-226: the inner call returns true, its caller goes on at 208
   or 220. *)
parse_end ==
    /\ Parse("end")
    /\ LET caller == Last(Front(frames))
       IN  frames' = Append(Front(Front(frames)),
                            [caller EXCEPT !.last_leaf = Parent(caller.last_leaf)])
    /\ UNCHANGED <<tree, walk, stage>>

(* 237-239. *)
parse_ignored ==
    /\ Parse("ignored")
    /\ UNCHANGED <<frames, tree, walk, stage>>

(* The outermost call has returned, and cloud_config_main goes on. *)
Enter(n) == [node |-> n, next |-> First(n)]
ParseReturns ==
    /\ frames' = <<>>
    /\ stage' = "simplify"
    /\ walk' = <<Enter(1)>>
    /\ UNCHANGED tree

(* 228-230. *)
parse_stream_end == Parse("stream_end") /\ ParseReturns

(* 177-180, and every caller returns false in turn; cloud_config_main does
   not look at it, and works with the tree there is. *)
parse_error ==
    /\ stage = "parse"
    /\ ParseReturns
    /\ broken' = TRUE
    /\ UNCHANGED <<document, events, read>>

cloud_config_parse ==
    \/ parse_scalar \/ parse_sequence_start \/ parse_mapping_start \/ parse_end
    \/ parse_ignored \/ parse_stream_end \/ parse_error

-----------------------------------------------------------------------------
(* g_node_traverse in post-order, with cloud_config_simplify for each node. *)

Top == Last(walk)
Node == Last(walk).node

(* The next sibling is looked up before a node is visited, so a node moved
   behind the last sibling is not visited again, one moved behind an earlier
   sibling is. *)
g_node_traverse ==
    /\ stage = "simplify"
    /\ Top.next # 0
    /\ \E i \in DOMAIN tree.kids[Node] :
          /\ tree.kids[Node][i] = Top.next
          /\ walk' = Append(Append(Front(walk), [Top EXCEPT !.next = NextSibling(Node, i)]),
                            Enter(Top.next))
    /\ UNCHANGED <<document, events, read, frames, tree, stage, broken>>

(* cloud_config_simplify is called for this node. *)
Visiting ==
    /\ stage = "simplify"
    /\ Top.next = 0

(* The last child of the node that has no data, if the node has none itself. *)
LastToMove(i) ==
    /\ tree.data[Node] = NULL
    /\ i \in DOMAIN tree.kids[Node]
    /\ tree.data[tree.kids[Node][i]] = NULL
    /\ \A j \in (i + 1)..Len(tree.kids[Node]) : tree.data[tree.kids[Node][j]] # NULL

(* Fault: the child is unlinked and destroyed, but not copied. *)
simplify_child_uncopied ==
    /\ Visiting
    /\ \E i \in DOMAIN tree.kids[Node] :
          /\ LastToMove(i)
          /\ tree' = [tree EXCEPT !.kids[Node] = RemoveAt(@, i)]
    /\ UNCHANGED <<document, events, read, frames, walk, stage, broken>>

(* Fault: the first one is moved. *)
simplify_child_forward ==
    /\ Visiting
    /\ \E i \in DOMAIN tree.kids[Node] :
          /\ tree.data[Node] = NULL /\ tree.data[tree.kids[Node][i]] = NULL
          /\ \A j \in 1..(i - 1) : tree.data[tree.kids[Node][j]] # NULL
          /\ tree' = [tree EXCEPT !.kids[Parent(Node)] = Append(@, tree.kids[Node][i]),
                                  !.kids[Node] = RemoveAt(@, i)]
    /\ UNCHANGED <<document, events, read, frames, walk, stage, broken>>

(* 281-292: it is moved behind the node's own siblings. *)
simplify_child ==
    /\ Visiting
    /\ \E i \in DOMAIN tree.kids[Node] :
          /\ LastToMove(i)
          /\ tree' = [tree EXCEPT !.kids[Parent(Node)] = Append(@, tree.kids[Node][i]),
                                  !.kids[Node] = RemoveAt(@, i)]
    /\ UNCHANGED <<document, events, read, frames, walk, stage, broken>>

(* The call for a node returns. *)
Return ==
    /\ walk' = Front(walk)
    /\ stage' = IF Len(walk) = 1 THEN "process" ELSE "simplify"

(* Fault: a node that has lost all its children stays. *)
simplify_node_empty ==
    /\ Visiting
    /\ ~\E i \in DOMAIN tree.kids[Node] : LastToMove(i)
    /\ Return
    /\ UNCHANGED <<document, events, read, frames, tree, broken>>

(* 277-279 and 294-299: nothing is left to move; a node without data that has
   no child left goes. *)
simplify_node ==
    /\ Visiting
    /\ ~\E i \in DOMAIN tree.kids[Node] : LastToMove(i)
    /\ IF tree.data[Node] = NULL /\ tree.kids[Node] = <<>>
       THEN \E i \in DOMAIN tree.kids[Parent(Node)] :
               /\ tree.kids[Parent(Node)][i] = Node
               /\ tree' = [tree EXCEPT !.kids[Parent(Node)] = RemoveAt(@, i)]
       ELSE UNCHANGED tree
    /\ Return
    /\ UNCHANGED <<document, events, read, frames, broken>>

cloud_config_simplify == g_node_traverse \/ simplify_child \/ simplify_node

TreeNext == cloud_config_parse \/ cloud_config_simplify

TreeSpec == TreeInit /\ [][TreeNext]_treeVars

-----------------------------------------------------------------------------
(* The number of the node that is made for the i-th event, or of the last one
   that was made before. *)
NodeOf(i) == 1 + Number(events, i, Starts \cup {"scalar"})

(* A node is below an older one, and nowhere else.  What holds of every node
   that has children puts the node below the root. *)
InTree(n) ==
    \E p \in 1..(n - 1) : \E i \in DOMAIN tree.kids[p] :
        /\ tree.kids[p][i] = n
        /\ \A q \in Nodes : \A j \in DOMAIN tree.kids[q] :
              tree.kids[q][j] = n => q = p /\ j = i

(* Each scalar that has been read is the data of exactly one node, and no
   other node has data; this node is in the tree, and all that is above it,
   while the tree is built and while nodes are moved and destroyed, in
   whatever way the document ends. *)
ScalarsKept ==
    /\ \A i \in 1..read :
          events[i].type = "scalar" => NodeOf(i) \in Nodes /\ tree.data[NodeOf(i)] = events[i].text
    /\ \A n \in Nodes \ {1} :
          tree.data[n] # NULL => \E i \in 1..read : events[i].type = "scalar" /\ NodeOf(i) = n
    /\ \A n \in Nodes \ {1} : tree.data[n] # NULL \/ tree.kids[n] # <<>> => InTree(n)

(* What the handlers take for granted ("node->children" of a node without
   data is not NULL, and has data): a node without data has children, and all
   of them have data. *)
SimplifiedTree ==
    stage = "process" =>
        \A p \in Nodes : \A n \in ToSet(tree.kids[p]) :
            tree.data[n] = NULL =>
                /\ tree.kids[n] # <<>>
                /\ \A c \in ToSet(tree.kids[n]) : tree.data[c] # NULL
=============================================================================
