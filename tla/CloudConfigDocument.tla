------------------------ MODULE CloudConfigDocument ------------------------
(***************************************************************************)
(* What CloudConfig makes of a document as its writer reads it: the        *)
(* properties compare the effects with the document itself, and not with   *)
(* the tree that has been made of it.                                      *)
(***************************************************************************)
EXTENDS CloudConfig, YamlDocument

(* The user data are a document or none, and libyaml makes its events of it. *)
ASSUME StreamAssumption ==
    \A d \in Documents : d \in Seq(Yaml) /\ Len(d) <= 1 /\ EventsOf(d) = Stream(d)

Count(x, s) == Cardinality({i \in DOMAIN s : s[i] = x})

(* What a document asks for, read off the document and not off the tree. *)

TextsFrom(f, v) ==
    CASE v.kind = "scalar" -> <<v.text>>
      [] v.kind = "seq" -> FlattenSeq([i \in DOMAIN v.items |-> f[v.items[i]]])
      [] OTHER -> <<>>
Texts[v \in Yaml] == TextsFrom(Texts, v)

Has(v, key) == v.kind = "map" /\ key \in ToSet(v.keys)
Get(v, key) == v.items[CHOOSE i \in DOMAIN v.keys : v.keys[i] = key /\ \A j \in 1..(i - 1) : v.keys[j] # key]

Keyed(doc) == Len(doc) = 1 /\ doc[1].kind = "map"
Keyword(i) == document[1].keys[i]
Value(i) == document[1].items[i]

Plain(v) ==
    v.kind = "scalar" \/ (v.kind = "seq" /\ v.items # <<>> /\ \A i \in DOMAIN v.items : v.items[i].kind = "scalar")

ListsFrom(f, v) == v.kind = "scalar" \/ (v.kind = "seq" /\ \A i \in DOMAIN v.items : f[v.items[i]])
Lists[v \in Yaml] == ListsFrom(Lists, v)

(* The forms in which the examples write a block: no option of a user is given
   twice or as an empty list, which would leave a key alone where a name is
   looked for, packages and units are in lists, and of the commands of runcmd
   at most one is written as a string. *)
AsInExamples(keyword, v) ==
    CASE keyword = "users" ->
            v.kind = "seq" /\ \A i \in DOMAIN v.items :
                /\ Has(v.items[i], "name") /\ IsInjective(v.items[i].keys)
                /\ Get(v.items[i], "name").kind = "scalar" /\ Get(v.items[i], "name").text # ""
                /\ \A j \in DOMAIN v.items[i].items : Plain(v.items[i].items[j])
      [] keyword = "write_files" ->
            v.kind = "seq" /\ \A i \in DOMAIN v.items :
                /\ Has(v.items[i], "path") /\ Has(v.items[i], "content")
                /\ \A j \in DOMAIN v.items[i].items : v.items[i].items[j].kind = "scalar"
      [] keyword = "service" ->
            v.kind = "seq" /\ \A i \in DOMAIN v.items :
                v.items[i].kind = "map" /\ Len(v.items[i].keys) = 1
                /\ v.items[i].keys[1] \in Actions
                /\ Lists[v.items[i].items[1]] /\ Texts[v.items[i].items[1]] # <<>>
      [] keyword = "runcmd" ->
            /\ v.kind = "seq" /\ \A i \in DOMAIN v.items : Plain(v.items[i])
            /\ Cardinality({i \in DOMAIN v.items : v.items[i].kind = "scalar"}) <= 1
      [] keyword = "packages" -> Lists[v] /\ Texts[v] # <<>>
      [] keyword \in {"wait_for_network", "package_upgrade"} -> v.kind = "scalar"
      [] OTHER -> Texts[v] # <<>>

(* A document of one mapping, each key of which has a scalar or a sequence. *)
Listed == Keyed(document) /\ \A i \in DOMAIN document[1].items : Value(i).kind \in {"scalar", "seq"}

(* The blocks that are handled are the keys of such a document, in its order,
   with nothing that stands below them between; a scalar is the only child of
   its key, where handlers look for it. *)
BlocksAsWritten ==
    stage = "process" /\ ~broken /\ Listed =>
        /\ Len(Blocks) = Len(document[1].keys)
        /\ \A i \in DOMAIN document[1].keys :
              /\ Data(Blocks[i]) = Keyword(i)
              /\ Value(i).kind = "scalar" =>
                    Len(Kids(Blocks[i])) = 1 /\ ValueOf(Blocks[i]) = Value(i).text

(* A document that has been handled to its end, in that form. *)
Handled ==
    /\ Ended /\ ~broken /\ Keyed(document)
    /\ \A i \in DOMAIN document[1].keys : AsInExamples(Keyword(i), Value(i))

Wanted(i, do, subject, args) == [block |-> i, do |-> do, subject |-> subject, args |-> args]

Requested(i) ==
    LET v == Value(i)
        item == v.items
    IN  CASE Keyword(i) = "users" ->
                [j \in DOMAIN item |->
                    LET name == Get(item[j], "name").text IN Wanted(i, "useradd", name, <<name>>)]
          [] Keyword(i) = "write_files" ->
                [j \in DOMAIN item |->
                    Wanted(i, "write", Get(item[j], "path").text, <<Get(item[j], "content").text>>)]
          [] Keyword(i) = "service" ->
                FlattenSeq([j \in DOMAIN item |->
                    LET units == Texts[item[j].items[1]]
                    IN  [k \in DOMAIN units |-> Wanted(i, "systemctl", item[j].keys[1], <<units[k]>>)]])
          [] Keyword(i) = "runcmd" ->
                [j \in DOMAIN item |-> Wanted(i, "run", "", Texts[item[j]])]
          [] Keyword(i) = "packages" ->
                [j \in DOMAIN Texts[v] |-> Wanted(i, "install", Texts[v][j], <<>>)]
          [] OTHER -> <<>>

Effects(kinds) == SelectSeq(state.effects, LAMBDA e : e.do \in kinds)

(* Each user, file, command, package and unit of a document that is written
   like the examples is handled, by itself, as often as it is written and not
   more often, however lists are nested; nothing is said of the order. *)
EveryItemHandled ==
    Handled =>
        LET requested == FlattenSeq([i \in DOMAIN document[1].keys |-> Requested(i)])
            done == SelectSeq(Effects({"useradd", "write", "systemctl", "run", "install"}),
                              LAMBDA e : Keyword(e.block) # "fbootcmd")
        IN  /\ Len(requested) = Len(done)
            /\ \A i \in DOMAIN requested : Count(requested[i], requested) = Count(requested[i], done)

(* ssh_authorized_keys go to the first user that the document defines, if its
   only block of users comes before, and to the default user without one:
   although "first_user" is an alias of a buffer that every user overwrites,
   because cloud_config_simplify has turned the list round.
   This is what the code means to do (ssh_authorized_keys.c:60, users.c:85).  The
   manual says something else: docs/cloud-config.5.md:156 has each key "added to
   the default user account's SSH configuration", the account that
   --first-boot-setup creates (docs/ucd.1.md:116), and so in every document with
   a block of users before the keys the code departs from it. *)
KeysGoToFirstUser ==
    Handled =>
        \A e \in ToSet(Effects({"authorize"})) :
            LET users == {j \in 1..(e.block - 1) : Keyword(j) = "users" /\ Value(j).items # <<>>}
            IN  /\ users = {} => e.subject = DefaultUser
                /\ \A j \in users :
                      users = {j} => e.subject = Get(Value(j).items[1], "name").text

(* What the document says of the wait before a block, or in it. *)
Asked(i) == {j \in 1..i : Keyword(j) = "wait_for_network" /\ Texts[Value(j)][1] \in TrueTexts \cup FalseTexts}
Disabled(i) ==
    \E j \in Asked(i) : Texts[Value(j)][1] \in FalseTexts /\ \A k \in Asked(i) : k <= j

(* Packages are installed or upgraded after a wait for the network, unless
   the document has disabled it before; it never waits after it has been told
   not to ("To prevent waiting, ensure that this option is disabled explicitly
   disabled, before other options are used"). *)
NetworkAsTold ==
    Handled =>
        \A i \in DOMAIN state.effects :
            LET e == state.effects[i] IN
            /\ e.do \in {"install", "upgrade"} =>
                  \/ \E j \in 1..(i - 1) : state.effects[j].do = "wait"
                  \/ Disabled(e.block)
            /\ e.do = "wait" => ~Disabled(e.block)

(* An action on a unit, written as the value of "service" itself, is carried
   out: the form of docs/network-config.md. *)
ServicesActedOn ==
    Ended /\ ~broken /\ Keyed(document) =>
        \A i \in DOMAIN document[1].keys :
            Keyword(i) = "service" /\ Value(i).kind = "map" =>
                \A j \in DOMAIN Value(i).keys :
                    \E e \in ToSet(state.effects) : e.do = "systemctl" /\ e.subject = Value(i).keys[j]
=============================================================================
