--------------------------- MODULE MCCloudConfig ---------------------------
(***************************************************************************)
(* CloudConfig with documents of one or two blocks in the forms of the     *)
(* examples directory and of the manuals, and some that nobody should      *)
(* write.                                                                  *)
(***************************************************************************)
EXTENDS CloudConfigDocument

S(text) == Scalar(text)
L(items) == Sequence(items)
M(pairs) == Mapping([i \in DOMAIN pairs |-> pairs[i][1]], [i \in DOMAIN pairs |-> pairs[i][2]])
User(name) == M(<< <<"name", S(name)>> >>)

KeyedUser ==
    M(<< <<"name", S("eve")>>, <<"lock-passwd", S("maybe")>>, <<"inactive", S("true")>>,
         <<"ssh-authorized-keys", L(<<S("k1"), L(<<S("k2")>>)>>)>>, <<"sudo", L(<<S("ALL")>>)>> >>)
File(path) ==
    M(<< <<"content", S("text")>>, <<"path", S(path)>> >>)
OwnedFile ==
    M(<< <<"path", S("/b")>>, <<"owner", S("root")>>, <<"content", S("text")>> >>)

MCBlocks ==
    { <<"users", L(<<User("ann"), User("bob")>>)>>,
      <<"users", L(<<KeyedUser, User("ann")>>)>>,
      <<"users", L(<<M(<< <<"gecos", S("x")>> >>), User("ann")>>)>>,
      <<"users", L(<<M(<< <<"name", L(<<S("ann")>>)>> >>)>>)>>,
      <<"users", L(<<>>)>>,
      <<"users", L(<<S("ann"), S("bob")>>)>>,
      <<"ssh_authorized_keys", L(<<S("k3"), S("k4")>>)>>,
      <<"wait_for_network", S("false")>>,
      <<"wait_for_network", S("true")>>,
      <<"wait_for_network", S("maybe")>>,
      <<"package_upgrade", S("true")>>,
      <<"package_upgrade", S("maybe")>>,
      <<"package_upgrade", L(<<S("false")>>)>>,
      <<"packages", L(<<S("p"), L(<<S("q"), S("r")>>)>>)>>,
      <<"runcmd", L(<<L(<<S("ls"), S("-l")>>), S("pwd"), L(<<S("ls")>>)>>)>>,
      <<"runcmd", L(<<S("ls"), S("pwd")>>)>>,
      <<"fbootcmd", L(<<L(<<S("ls")>>), L(<<L(<<S("a")>>), S("b")>>)>>)>>,
      <<"service", L(<<M(<< <<"start", S("u")>> >>), M(<< <<"stop", L(<<S("u"), L(<<S("v")>>)>>)>> >>)>>)>>,
      <<"service", M(<< <<"restart", S("u")>> >>)>>,
      <<"write_files", L(<<File("/a"), OwnedFile>>)>>,
      <<"write_files", L(<<M(<< <<"path", S("/c")>> >>)>>)>>,
      <<"write_files", L(<<M(<< <<"path", L(<<S("/d")>>)>>, <<"content", S("text")>> >>), File("/e")>>)>>,
      <<"write_files", L(<<File("/f"), M(<< <<"path", S("/g")>>, <<"content", S("text")>>,
                                            <<"permissions", L(<<S("0644")>>)>> >>)>>)>>,
      <<"groups", L(<<M(<< <<"g", L(<<S("ann"), S("bob")>>)>> >>), S("h")>>)>>,
      <<"envar", L(<<M(<< <<"a", S("1")>>, <<"b", S("2")>> >>)>>)>>,
      <<"hostname", S("box")>>,
      <<"other", Alias>> }

(* Blocks that depend on what the one before has done. *)
MCSecond ==
    {b \in MCBlocks : b[1] \in {"users", "ssh_authorized_keys", "wait_for_network", "packages"}}

MCDocuments ==
    {<<>>, <<S("ls")>>, <<L(<<S("hostname"), M(<< <<"hostname", S("box")>> >>)>>)>>}
    \cup {<<M(<<a>>)>> : a \in MCBlocks}
    \cup {<<M(<<a, b>>)>> : a \in MCBlocks, b \in MCSecond}

(* All the values that documents are built of. *)
RECURSIVE Values(_)
Values(v) ==
    {v} \cup (IF v.kind \in {"seq", "map"} THEN UNION {Values(item) : item \in ToSet(v.items)} ELSE {})
RECURSIVE Levels(_)
Levels(v) ==
    IF v.kind \notin {"seq", "map"} \/ v.items = <<>> THEN 0
    ELSE 1 + Max({Levels(item) : item \in ToSet(v.items)})
MCYaml == UNION {Values(v) : v \in UNION {ToSet(doc) : doc \in MCDocuments}}
MCLevel == [v \in MCYaml |-> Levels(v)]

(* docs/network-config.md:59-75. *)
MCNetworkExample ==
    {<<M(<< <<"write_files", L(<<File("/a"), File("/b")>>)>>,
            <<"service", M(<< <<"restart", S("u")>> >>)>> >>)>>}
MCNetworkYaml == UNION {Values(v) : v \in UNION {ToSet(doc) : doc \in MCNetworkExample}}
MCNetworkLevel == [v \in MCNetworkYaml |-> Levels(v)]
=============================================================================
