-------------------------- MODULE MCAuthorizedKeys --------------------------
(***************************************************************************)
(* AuthorizedKeys with metadata like those of test-metadata-openstack.json *)
(* (a key named by both blocks, a name that only a nested object has), one *)
(* key without a newline at its end, empty blocks and no blocks at all; a  *)
(* user of the cloud-config and a list of ssh_authorized_keys.             *)
(***************************************************************************)
EXTENDS AuthorizedKeys

Text(token) == Value(<<token>>)
Line(token) == Value(<<token, NL>>)
KeyObject(v) == Object(<<Name("data"), Name("type"), Name("name")>>, <<v, Text("ssh"), Text("demo")>>)
KeyObjectLast(v) == Object(<<Name("name"), Name("type"), Name("data")>>, <<Text("demo"), Text("ssh"), v>>)
FileObject(content, path) ==
    Object(<<Name("content_path"), Name("path")>>, <<Text(content), Text(path)>>)
FileObjectTurned(content, path) ==
    Object(<<Name("path"), Name("content_path")>>, <<Text(path), Text(content)>>)

MCTest ==
    Object(<<Name("uuid"), Name("files"), Name("meta"), Name("keys"), Name("public_keys")>>,
           <<Text("d3de2c67"),
             Array(<<FileObject("content0", "interfaces"), FileObject("content1", "known_hosts")>>),
             Object(<<Name("public_keys")>>, <<Object(<<Name("other")>>, <<Line("k9")>>)>>),
             Array(<<KeyObject(Line("k1")), KeyObjectLast(Line("k6"))>>),
             Object(<<Name("demo")>>, <<Line("k1")>>)>>)

MCTurned ==
    Object(<<Name("public_keys"), Name("files")>>,
           <<Object(<<Name("a"), Name("b")>>, <<Text("k1"), Line("k2")>>),
             Array(<<FileObjectTurned("content1", "known_hosts"),
                     FileObject("content0", "interfaces"),
                     FileObject("content1", "interfaces")>>)>>)

MCEmptyBlocks ==
    Object(<<Name("public_keys"), Name("keys"), Name("files")>>,
           <<Object(<<>>, <<>>), Array(<<>>), Array(<<>>)>>)

MCNothing == Object(<<>>, <<>>)

(* Not as OpenStack writes them: a member comes between the two of a file. *)
MCFileOfThree ==
    Object(<<Name("files")>>,
           <<Array(<<Object(<<Name("content_path"), Name("mode"), Name("path")>>,
                            <<Text("content0"), Text("0644"), Text("interfaces")>>)>>)>>)

MCDocuments == {MCTest, MCTurned, MCEmptyBlocks, MCNothing, MCFileOfThree}

(* A document and all it is built of. *)
RECURSIVE Values(_)
Values(v) ==
    {v} \cup (IF v.kind = "value" THEN {} ELSE UNION {Values(item) : item \in ToSet(v.items)})
RECURSIVE Levels(_)
Levels(v) ==
    IF v.kind = "value" \/ v.items = <<>> THEN 0
    ELSE 1 + Max({Levels(item) : item \in ToSet(v.items)})
MCJson == UNION {Values(doc) : doc \in MCDocuments}
MCDepth == [v \in MCJson |-> Levels(v)]

MCUserCalls == << <<"k3", NL, "k4", NL>>, <<"k1", NL, "k5", NL>> >>

MCKeys == {"k0", "k1", "k2", "k3", "k4", "k5", "k6", "k9"}
MCDemands == {CallsOf(doc) : doc \in MCDocuments}

(* The last one lacks the end of its last line. *)
MCStarts == {Absent, <<>>, <<"k0", NL>>, <<"k0", NL, "k3", NL>>, <<"k0">>}

(* Metadata as OpenStack writes them, one key that ends its line. *)
MCDocumentsOneKey == {Object(<<Name("public_keys")>>, <<Object(<<Name("demo")>>, <<Line("k1")>>)>>)}
MCJsonOneKey == UNION {Values(doc) : doc \in MCDocumentsOneKey}
MCDepthOneKey == [v \in MCJsonOneKey |-> Levels(v)]
MCUserCallsOne == << <<"k3", NL>> >>
MCDemandsOneKey == {CallsOf(doc) : doc \in MCDocumentsOneKey}
MCStartsAbsent == {Absent}
=============================================================================
