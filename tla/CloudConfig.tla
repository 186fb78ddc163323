---------------------------- MODULE CloudConfig ----------------------------
(***************************************************************************)
(* cloud_config_process of src/interpreters/cloud_config.c and the modules *)
(* of src/ccmodules: the blocks of a document are handled one after the    *)
(* other, on the tree that CloudConfigTree has made of it.                 *)
(*                                                                         *)
(* Handlers share three things: the name of the user that was added last   *)
(* (a static buffer of users.c, to which the global "first_user" points),  *)
(* whether "first_user" has been set, and do_network_wait.  What a handler *)
(* does to the machine, a command or a file, is an effect; the commands    *)
(* themselves are taken to succeed.                                        *)
(***************************************************************************)
EXTENDS CloudConfigTree

CONSTANTS
    TrueTexts, FalseTexts,  \* texts that begin with a word for true, or for false
    DefaultUser             \* DEFAULT_USER_USERNAME

ASSUME TextsAssumption ==
    /\ TrueTexts \subseteq STRING /\ FalseTexts \subseteq STRING
    /\ TrueTexts \cap FalseTexts = {}
    /\ DefaultUser \in STRING

VARIABLES
    block,      \* how many blocks have been handled
    state       \* [effects, current, first, wait, crashed], see below

vars == <<treeVars, block, state>>

Kinds ==
    {"wait", "upgrade", "install", "useradd", "lock", "deactivate", "user_keys", "sudo", "authorize",
     "run", "systemctl", "write", "chown", "group", "member", "export", "hostname"}

(* What the C library prints for NULL, beside the texts that are read. *)
Strings == STRING \cup {"", "(null)"}

EffectType == [block : Nat, do : Kinds, subject : Strings, args : Seq(Strings)]

(* current is users_current_username, first tells whether "first_user" points
   to it, wait is do_network_wait, crashed that a handler has read through the
   data of a sequence, which are NULL. *)
ModuleState ==
    [effects : Seq(EffectType), current : Strings, first : BOOLEAN, wait : -1..2, crashed : BOOLEAN]

TypeOK == TreeTypeOK /\ block \in Nat /\ state \in ModuleState

NothingDone == [effects |-> <<>>, current |-> "", first |-> FALSE, wait |-> -1, crashed |-> FALSE]

Init == TreeInit /\ block = 0 /\ state = NothingDone

-----------------------------------------------------------------------------
(* Helpers of cloud_config.c and GLib. *)

Data(n) == tree.data[n]
Kids(n) == tree.kids[n]
Leaf(n) == Kids(n) = <<>>

Effect(do, subject, args) == [block |-> block + 1, do |-> do, subject |-> subject, args |-> args]
Do(s, effects) == [s EXCEPT !.effects = @ \o effects]

(* g_node_children_foreach and other loops. *)
ForEach(item(_, _), s, nodes) ==
    LET after[i \in 0..Len(nodes)] == IF i = 0 THEN s ELSE item(after[i - 1], nodes[i])
    IN  after[Len(nodes)]

(* g_node_traverse, G_TRAVERSE_LEAVES: their data; a node without children is
   a leaf itself. *)
Leaves[n \in Nodes] ==
    IF Leaf(n) THEN <<Data(n)>> ELSE FlattenSeq([i \in DOMAIN Kids(n) |-> Leaves[Kids(n)[i]]])

(* The children of a node; one without data stands for its own, which all have
   data, since the tree is simplified (SimplifiedTree). *)
Items(n) ==
    FlattenSeq([i \in DOMAIN Kids(n) |->
        IF Data(Kids(n)[i]) = NULL THEN Kids(Kids(n)[i]) ELSE <<Kids(n)[i]>>])

(* The child whose first child is the value that cloud_config_find gives for
   this key: the first with the key, if it has a value.  One or none. *)
cloud_config_find(n, key) ==
    {Kids(n)[i] : i \in {j \in DOMAIN Kids(n) :
        /\ Data(Kids(n)[j]) = key /\ ~Leaf(Kids(n)[j])
        /\ \A k \in 1..(j - 1) : Data(Kids(n)[k]) # key}}
One(found) == CHOOSE k \in found : TRUE
ValueOf(k) == Data(First(k))

(* The bool that cloud_config_bool stores, or the one there was before.  NULL,
   the data of a sequence, is true: g_ascii_strncasecmp returns 0 for it. *)
True(text) == text \in TrueTexts \cup {NULL}
cloud_config_bool(text, before) == True(text) \/ (text \notin FalseTexts /\ before)

-----------------------------------------------------------------------------
(* wait-for-network.c, package_upgrade.c and packages.c. *)

(* Fault: a wait that has been disabled is done all the same. *)
wait_for_network_always(s) ==
    IF s.wait = 2 THEN s ELSE Do([s EXCEPT !.wait = 2], <<Effect("wait", "", <<>>)>>)

(* Fault: a wait that has been done is done again. *)
wait_for_network_again(s) ==
    IF s.wait = 0 THEN s ELSE Do([s EXCEPT !.wait = 2], <<Effect("wait", "", <<>>)>>)

(* The wait itself ends when a name can be looked up, or after five minutes. *)
wait_for_network(s) ==
    IF s.wait \in {-1, 1} THEN Do([s EXCEPT !.wait = 2], <<Effect("wait", "", <<>>)>>) ELSE s

wait_for_network_handler(n, s) ==
    CASE Leaf(n) \/ ValueOf(n) \notin TrueTexts \cup FalseTexts \cup {NULL} -> s
      [] ~Leaf(n) /\ True(ValueOf(n)) -> wait_for_network([s EXCEPT !.wait = 1])
      [] OTHER -> [s EXCEPT !.wait = 0]

package_upgrade_handler(n, s) ==
    IF Leaf(n) \/ ~True(ValueOf(n)) THEN s
    ELSE Do(wait_for_network(s), <<Effect("upgrade", "", <<>>)>>)

packages_item(s, name) == Do(wait_for_network(s), <<Effect("install", name, <<>>)>>)

packages_handler(n, s) == ForEach(packages_item, s, Leaves[n])

-----------------------------------------------------------------------------
(* users.c and ssh_authorized_keys.c. *)

(* g_strlcpy does not copy NULL. *)
users_add_username(s, name) ==
    [s EXCEPT !.current = IF name = NULL THEN @ ELSE name, !.first = TRUE]

(* The name that a node gives, alone or with its key, if it gives one. *)
Names(k) ==
    CASE Leaf(k) -> <<Data(k)>>
      [] ~Leaf(k) /\ Data(k) = "name" -> <<ValueOf(k)>>
      [] OTHER -> <<>>

Printed(name) == IF name = NULL THEN "(null)" ELSE name

(* The options that only make the command longer are left out. *)
users_option(s, k) == IF Names(k) = <<>> THEN s ELSE users_add_username(s, Names(k)[1])

When(condition, effect) == IF condition THEN <<effect>> ELSE <<>>

(* A definition of a user.  b is one variable without an initial value, which
   both calls of cloud_config_bool may leave as it is. *)
users_definition(s, n, b) ==
    LET named == ForEach(users_option, [s EXCEPT !.current = ""], Kids(n))
        user == named.current
        names == FlattenSeq([i \in DOMAIN Kids(n) |->
                     [j \in DOMAIN Names(Kids(n)[i]) |-> Printed(Names(Kids(n)[i])[j])]])
        lock == cloud_config_find(n, "lock-passwd")
        inactive == cloud_config_find(n, "inactive")
        keys == cloud_config_find(n, "ssh-authorized-keys")
        sudo == cloud_config_find(n, "sudo")
        b1 == IF lock = {} THEN b ELSE cloud_config_bool(ValueOf(One(lock)), b)
    IN  IF user = "" THEN named
        ELSE Do(named,
                <<Effect("useradd", user, names)>>
                \o When(lock # {} /\ b1, Effect("lock", user, <<>>))
                \o When(inactive # {} /\ cloud_config_bool(ValueOf(One(inactive)), b1),
                        Effect("deactivate", user, <<>>))
                \o When(keys # {}, Effect("user_keys", user, Leaves[One(keys)]))
                \o When(sudo # {}, Effect("sudo", user, Leaves[One(sudo)])))

users_item(s, k, b) ==
    IF Data(k) = NULL THEN users_definition(s, k, b) ELSE users_option(s, k)

(* true_at: the definitions for which b happens to be true at first. *)
users_handler(n, s, true_at) ==
    ForEach(LAMBDA t, k : users_item(t, k, k \in true_at), s, Kids(n))

(* "first_user" is the buffer, hence what it holds now; write_ssh_keys finds no
   user with an empty name. *)
ssh_authorized_keys_handler(n, s) ==
    LET user == IF s.first THEN s.current ELSE DefaultUser
    IN  Do(s, When(user # "", Effect("authorize", user, Leaves[n])))

-----------------------------------------------------------------------------
(* runcmd.c (fbootcmd.c is the same behind is_first_boot), service.c,
   write_files.c, groups.c, envar.c and hostname.c. *)

(* The words of a list, behind those that the line holds already. *)
runcmd_item(a, n) ==
    IF Data(n) # NULL THEN [a EXCEPT !.line = Append(@, Data(n))]
    ELSE LET words == a.line \o [i \in DOMAIN Kids(n) |-> Data(Kids(n)[i])]
         IN  [line |-> <<>>, run |-> Append(a.run, Effect("run", "", words))]

runcmd_handler(n, s) == Do(s, ForEach(runcmd_item, [line |-> <<>>, run |-> <<>>], Kids(n)).run)

Actions == {"enable", "disable", "start", "stop", "restart", "reload", "isolate", "mask", "unmask"}

(* Only the first child of a node without data is looked at. *)
service_item(k) ==
    LET n == IF Data(k) = NULL THEN First(k) ELSE k
    IN  IF Leaf(n) \/ Data(n) \notin Actions THEN <<>>
        ELSE [i \in DOMAIN Leaves[n] |-> Effect("systemctl", Data(n), <<Leaves[n][i]>>)]

service_handler(n, s) == Do(s, FlattenSeq([i \in DOMAIN Kids(n) |-> service_item(Kids(n)[i])]))

(* strdup of a path, strlen of a content and strtol of permissions that are
   NULL do not return; an owner that is NULL is ignored. *)
write_files_item(s, n) ==
    LET content == cloud_config_find(n, "content")
        path == cloud_config_find(n, "path")
        permissions == cloud_config_find(n, "permissions")
        owner == cloud_config_find(n, "owner")
        to == ValueOf(One(path))
        text == ValueOf(One(content))
        unreadable == text = NULL \/ (permissions # {} /\ ValueOf(One(permissions)) = NULL)
    IN  CASE s.crashed \/ content = {} \/ path = {} -> s
          [] ~s.crashed /\ content # {} /\ path # {} /\ to = NULL -> [s EXCEPT !.crashed = TRUE]
          [] ~s.crashed /\ content # {} /\ path # {} /\ to # NULL ->
                Do([s EXCEPT !.crashed = unreadable],
                   <<Effect("write", to, IF text = NULL THEN <<>> ELSE <<text>>)>>
                   \o When(~unreadable /\ owner # {} /\ ValueOf(One(owner)) # NULL,
                           Effect("chown", to, <<ValueOf(One(owner))>>)))

write_files_handler(n, s) == ForEach(write_files_item, s, Kids(n))

(* A group and its members, a variable and its values. *)
groups_item(n) ==
    <<Effect("group", Data(n), <<>>)>>
    \o [j \in DOMAIN Items(n) |-> Effect("member", Data(n), <<Data(Items(n)[j])>>)]

groups_handler(n, s) == Do(s, FlattenSeq([i \in DOMAIN Items(n) |-> groups_item(Items(n)[i])]))

envar_item(n) == [j \in DOMAIN Items(n) |-> Effect("export", Data(n), <<Data(Items(n)[j])>>)]

envar_handler(n, s) == Do(s, FlattenSeq([i \in DOMAIN Items(n) |-> envar_item(Items(n)[i])]))

(* The traversal stops at the first leaf. *)
hostname_handler(n, s) == Do(s, <<Effect("hostname", Leaves[n][1], <<>>)>>)

-----------------------------------------------------------------------------
(* cc_module_structs and the search for a name in it. *)
handler(n, s, true_at, first_boot) ==
    CASE Data(n) = "wait_for_network" -> wait_for_network_handler(n, s)
      [] Data(n) = "package_upgrade" -> package_upgrade_handler(n, s)
      [] Data(n) = "packages" -> packages_handler(n, s)
      [] Data(n) = "users" -> users_handler(n, s, true_at)
      [] Data(n) = "ssh_authorized_keys" -> ssh_authorized_keys_handler(n, s)
      [] Data(n) = "runcmd" -> runcmd_handler(n, s)
      [] Data(n) = "fbootcmd" -> IF first_boot THEN runcmd_handler(n, s) ELSE s
      [] Data(n) = "service" -> service_handler(n, s)
      [] Data(n) = "write_files" -> write_files_handler(n, s)
      [] Data(n) = "groups" -> groups_handler(n, s)
      [] Data(n) = "envar" -> envar_handler(n, s)
      [] Data(n) = "hostname" -> hostname_handler(n, s)
      [] OTHER -> s

(* The first child of the root, if any: the mapping or sequence at the top. *)
Blocks == IF Leaf(1) THEN <<>> ELSE Kids(First(1))

cloud_config_process ==
    /\ stage = "process"
    /\ block < Len(Blocks) /\ ~state.crashed
    /\ block' = block + 1
    /\ \E true_at \in SUBSET ToSet(Kids(Blocks[block + 1])), first_boot \in BOOLEAN :
          state' = handler(Blocks[block + 1], state, true_at, first_boot)
    /\ UNCHANGED treeVars

(* All blocks have been handled. *)
Ended == stage = "process" /\ block = Len(Blocks)

Done == (Ended \/ state.crashed) /\ UNCHANGED vars

Next ==
    \/ TreeNext /\ UNCHANGED <<block, state>>
    \/ cloud_config_process
    \/ Done

Spec == Init /\ [][Next]_vars

-----------------------------------------------------------------------------
(* What the tree says of the wait before a block, or in it.  A word that is
   neither true nor false says nothing: cloud_config_bool announces that it
   counts as "false", but its handler then leaves the wait as it is. *)
Told(i) ==
    /\ Data(Blocks[i]) = "wait_for_network" /\ ~Leaf(Blocks[i])
    /\ ValueOf(Blocks[i]) \in TrueTexts \cup FalseTexts \cup {NULL}
Off(i) ==
    \E j \in 1..i : Told(j) /\ ~True(ValueOf(Blocks[j])) /\ \A k \in (j + 1)..i : ~Told(k)

(* Packages are installed or upgraded after a wait for the network, unless
   that is off; it never waits while it is off ("To prevent waiting, ensure
   that this option is disabled explicitly disabled, before other options are
   used"), and not again unless a later block tells it to ("don't re-enter"). *)
WaitsAsTold ==
    \A i \in DOMAIN state.effects :
        LET e == state.effects[i] IN
        /\ e.do \in {"install", "upgrade"} =>
              (\E j \in 1..(i - 1) : state.effects[j].do = "wait") \/ Off(e.block)
        /\ e.do = "wait" =>
              /\ ~Off(e.block)
              /\ \A j \in 1..(i - 1) : state.effects[j].do = "wait" =>
                    state.effects[j].block < e.block /\ Told(e.block)
=============================================================================
