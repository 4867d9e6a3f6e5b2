------------------------------ MODULE MCFileSys ------------------------------
(* Instances of FileSys for TLC: a root directory and one level below it. *)
EXTENDS FileSys, TLC

Op(op, path) == [op |-> op, path |-> path, new |-> <<>>]
LinkTo(path, new) == [op |-> "link", path |-> path, new |-> new]

TreeCalls ==
  { Op("mkdir", <<"/", "a">>), Op("unlink", <<"/", "a">>), Op("chdir", <<"/", "a">>),
    Op("chdir", <<"/">>), Op("create", <<"x">>), Op("unlink", <<"x">>),
    Op("open", <<"/", "a", "x">>),
    LinkTo(<<"/", "a", "x">>, <<"/", "x">>) }

Symmetry == Permutations(Procs)
=============================================================================
