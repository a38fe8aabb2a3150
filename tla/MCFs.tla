-------------------------------- MODULE MCFs --------------------------------
(* Small instances of Fs for TLC.                                          *)
EXTENDS Fs, TLC

Path(elems) == [root |-> TRUE, elems |-> elems]
Here(elems) == [root |-> FALSE, elems |-> elems]
Call(op, path) == [op |-> op, path |-> path]
Link2(path, new) == [op |-> "link", path |-> path, new |-> new]

\* Two files made by mkfs: "c" fills its direct block, "a" has more.
ImageFiles == <<[name |-> "a", size |-> EPB + 1], [name |-> "c", size |-> EPB]>>

CallsMade ==
  { Call("close", Path(<<>>)), Call("write", Path(<<>>)),
    Call("mkdir", Path(<<"d">>)), Call("mkdir", Path(<<"d", "b">>)), Call("create", Path(<<"d", "b">>)), Call("chdir", Path(<<"d">>)),
    Call("unlink", Path(<<"a">>)), Call("mknod", Path(<<"d", "b">>)), Call("unlink", Path(<<"d">>)), Call("unlink", Path(<<"d", "b">>)),
    Link2(Path(<<"a">>), Path(<<"d", "b">>)), Call("chdir", Here(<<"..">>)), Call("chdir", Path(<<"d", "b", "..">>)),
    [op |-> "open", path |-> Path(<<"c">>), write |-> TRUE] }

Symmetry == Permutations(Procs)
=============================================================================
