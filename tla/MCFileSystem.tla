---------------------------- MODULE MCFileSystem ----------------------------
(* FileSystem with two objects of each kind, files of a few bytes, a name  *)
(* that is cut to that of a file and one that is cut to a directory's.     *)
EXTENDS FileSystem, TLC

MCCut == [n \in {"long", "path"} |-> IF n = "long" THEN "a" ELSE "d"]

MCModes == {{"Read"}, {"Create"}, {"Read", "Write", "Create"},
            {"Write", "Append", "Create"}}

Symmetry == Permutations(Systems) \cup Permutations(Files)

\* No property is about which error was thrown last, and no action depends on it.
ExceptThrown == <<objects, disk, answer, stuck, lost, told, acked, kept>>
=============================================================================
