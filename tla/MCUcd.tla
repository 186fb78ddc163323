------------------------------- MODULE MCUcd -------------------------------
(***************************************************************************)
(* Ucd with every combination of its options.  The disk, which has to do   *)
(* with no other option, is repaired by the command line of the service    *)
(* and by --fix-disk alone.                                                *)
(***************************************************************************)
EXTENDS Ucd

Service == {"fix_disk", "first_boot_setup", "metadata", "user_data_once"}

MCCommandLines ==
    {o \in SUBSET (OptionNames \ {"fix_disk"}) :
        /\ ~({"config_drive", "config_image"} \subseteq o)
        /\ ~({"user_data", "user_data_once"} \subseteq o)}
    \cup {Service, {"fix_disk"}}

ConfigDriveOnly == {{"config_drive"}}

P(first, last) == [first |-> first, last |-> last]
Disk(length, known, partitions, root) ==
    [length |-> length, known |-> known, table |-> partitions, root |-> root]

(* The root partition before free space, before another partition, last, not
   on a partition; partitions whose numbers are not in the order of their
   sectors; a disk longer than its table says, by little and by much. *)
MCTables == {<<P(1, 2), P(3, 5)>>, <<P(4, 5), P(1, 2)>>, <<P(1, 3), P(6, 8)>>}
MCDisks ==
    {Disk(12, known, t, root) : known \in {10, 11, 12}, t \in MCTables, root \in {1, 2, Other}}
=============================================================================
