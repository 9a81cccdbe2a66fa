------------------------------ MODULE MCNames ------------------------------
(* Small instances of Names for TLC.                                        *)
EXTENDS Names, TLC

CONSTANTS p1, p2

C(ps, op, path, new, type) ==
  {[p |-> p, op |-> op, path |-> path, new |-> new, type |-> type] : p \in ps}

A == <<"/", "a">>
B == <<"b">>
Root == <<"/">>
Both == {p1, p2}

(* One process makes and removes a directory and tries to link and unlink   *)
(* the root, the other moves between them, makes, links and opens a file;   *)
(* both remove the file.                                                    *)
MCCalls ==
  C({p1}, "create", A, <<>>, "dir") \cup C({p2}, "create", B, <<>>, "file")
  \cup C({p1}, "unlink", A, <<>>, "") \cup C(Both, "unlink", B, <<>>, "")
  \cup C({p1}, "unlink", Root, <<>>, "")
  \cup C({p1}, "link1", Root, B, "") \cup C({p2}, "link1", B, A, "")
  \cup C({p2}, "open", B, <<>>, "rdwr")
  \cup C({p2}, "chdir", A, <<>>, "") \cup C({p2}, "chdir", Root, <<>>, "")
=============================================================================
