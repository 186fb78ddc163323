--------------------------- MODULE AuthorizedKeys ---------------------------
(***************************************************************************)
(* What becomes of the keys and files of OpenStack's metadata: what the    *)
(* handlers of "public_keys" and "keys" read out of the tree is written    *)
(* with write_ssh_keys (SshKeys), what the handler of "files" reads is     *)
(* copied.                                                                 *)
(***************************************************************************)
EXTENDS MetadataTree, SshKeys

CONSTANTS
    Documents,  \* the metadata there may be
    UserCalls   \* the data of the calls that the main thread makes, in order

(* The root of the metadata is an object. *)
ASSUME DocumentsAssumption == \A doc \in Documents : doc \in Json /\ doc.kind = "object"

VARIABLES
    metadata,   \* the metadata
    copied      \* the files copied, or NULL until the handler of "files" is done

vars == <<writing, metadata, copied>>

(* openstack_process_metadata_file has given the nodes to the handlers. *)
CallsOf(doc) ==
    LET nodes(name) == IF Named(doc, name) = {} THEN <<>> ELSE Given(doc, name)
    IN  [public_keys |-> openstack_metadata_public_keys(nodes("public_keys")),
         keys        |-> openstack_metadata_keys(nodes("keys")),
         userdata    |-> UserCalls]

Init ==
    /\ WriteInit
    /\ metadata \in Documents
    /\ calls = CallsOf(metadata)
    /\ active \in {{t \in KeyHandlers : Named(metadata, t) # {}} \cup others :
                       others \in SUBSET {"userdata"}}
    /\ copied = IF Named(metadata, "files") = {} THEN <<>> ELSE NULL

write_ssh_keys(t) == WriteStep(t) /\ UNCHANGED <<metadata, copied>>

(* The handler of "files": nobody else reads or writes the files it copies. *)
metadata_files ==
    /\ copied = NULL
    /\ copied' = openstack_metadata_files(Given(metadata, "files"))
    /\ UNCHANGED <<writing, metadata>>

Finished == AllMade /\ copied # NULL /\ UNCHANGED vars

Next ==
    \/ \E t \in Threads : write_ssh_keys(t)
    \/ metadata_files
    \/ Finished

Spec == Init /\ [][Next]_vars

-----------------------------------------------------------------------------
(* The keys and the files that the metadata name, where a reader of the
   document finds them. *)
KeysOf(doc) ==
    (UNION {ToSet(v.text) : v \in
               (IF Has(doc, "public_keys") THEN ToSet(Member(doc, "public_keys").items) ELSE {})
               \cup (IF Has(doc, "keys")
                     THEN {Member(key, "data") : key \in ToSet(Member(doc, "keys").items)} ELSE {})})
    \ {NL}

FilesOf(doc) ==
    IF ~Has(doc, "files") THEN <<>>
    ELSE LET files == Member(doc, "files").items
         IN  [i \in DOMAIN files |-> <<Member(files[i], "content_path").text,
                                      Member(files[i], "path").text>>]

(* Metadata as OpenStack writes them: the members of public_keys are keys, so
   is the data member of each of the keys, and a file has no other member than
   content_path and path, neither of them empty. *)
AsOpenStackWrites(doc) ==
    /\ Has(doc, "public_keys") =>
          LET public_keys == Member(doc, "public_keys")
          IN  /\ public_keys.kind = "object"
              /\ \A key \in ToSet(public_keys.items) : key.kind = "value"
    /\ Has(doc, "keys") =>
          LET keys == Member(doc, "keys")
          IN  /\ keys.kind = "array"
              /\ \A key \in ToSet(keys.items) :
                    key.kind = "object" /\ Has(key, "data") /\ Member(key, "data").kind = "value"
    /\ Has(doc, "files") =>
          LET files == Member(doc, "files")
          IN  /\ files.kind = "array"
              /\ \A f \in ToSet(files.items) :
                    /\ f.kind = "object" /\ ToSet(f.names) = {Name("content_path"), Name("path")}
                    /\ \A v \in ToSet(f.items) : v.kind = "value" /\ v.text # <<>>

(* Such metadata are carried out in the end: the keys they name are authorized
   beside those of the user data and those that were, and no other; the files
   they name are copied, each to its own path.  There has to be an
   authorized_keys before, with its last line ended. *)
MetadataCarriedOut ==
    AsOpenStackWrites(metadata) /\ AllMade /\ copied # NULL /\ Existed =>
        /\ Authorized(file) =
              Authorized(start) \cup KeysOf(metadata)
              \cup (IF "userdata" \in active THEN KeysGiven("userdata") ELSE {})
        /\ copied = FilesOf(metadata)
=============================================================================
