------------------------------ MODULE MCShelf -------------------------------
(***************************************************************************)
(* Bodies for TLC: rows of each kind, a repeated key, a gap, a line that   *)
(* is no field, an error.                                                  *)
(***************************************************************************)
EXTENDS Shelf

MCArtists == {<<"a1">>, <<"a2">>}   \* the values of their fields

Line(prefix, n, v) == <<<<prefix, n>>, v>>
Error == <<<<<<"error">>, "upstream">>>>

MCSearchReplies(q) ==
  IF q = "q1"
  THEN {Error,
        <<Line("item", 0, "t1"), Line("artist", 0, "a2"), Line("artist", 0, "a1"),
          Line("album", 0, "b1"), Line("album", 1, "b2"), Line("album", 3, "b3"),
          <<<<"artist", 1>>>>>>}
  ELSE {<<Line("item", 0, "t1"), <<<<"item", 1>>>>, Line("item", 1, "t2"),
          Line("artist", 0, "a1"), Line("artist", 1, "a2"), <<<<>>, "x">>>>}

MCAlbumReplies(a) ==
  IF a = <<"a1">> THEN {Error, <<Line("item", 0, "b1"), Line("item", 1, "b3")>>}
  ELSE {<<Line("item", 1, "b2"), Line("item", 0, "b4"), Line("item", 2, "b1")>>}
=============================================================================
