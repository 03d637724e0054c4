---------------------------- MODULE MCFsService ----------------------------
(***************************************************************************)
(* An instance of FsService for TLC: two requesters, names that climb,     *)
(* stay and fall out of the root, a tree without the root and one with a   *)
(* file in a directory and another outside.                                *)
(***************************************************************************)
EXTENDS FsService, TLC

At(from, segs) == [from |-> from, segs |-> segs]

MCRoot == <<"s", "r">>
MCHome == <<"a">>
MCCwds == {<<>>, <<"a">>}
MCTyped == {At("/", <<"a">>), At(".", <<"f">>), At("/", <<"b", "..", "a", ".", "f">>),
            At("~", <<"..", "..", "b">>), At(".", <<"..", "r", "b">>),
            At("/", <<"..", "b">>)}
MCTrees == {<<>> :> Dir,
            <<>> :> Dir @@ <<"s">> :> Dir @@ <<"s", "b">> :> 2 @@ <<"s", "r">> :> Dir
              @@ <<"s", "r", "a">> :> Dir @@ <<"s", "r", "a", "f">> :> 1}
MCContents == {<<"t">>, <<"n", "t">>, <<"t", "n", "t">>}
=============================================================================
