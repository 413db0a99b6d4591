------------------------ MODULE MCOperationalStore ------------------------
(* Small instances of the operational store.                               *)
EXTENDS OperationalStore, TLC

Ours == [NoDb EXCEPT !.kind = "ours", !.version = 1, !.id = 1, !.privacy = 1, !.wal = TRUE]
TornRow == [event |-> 1, ident |-> 9, prod |-> 1, at |-> 1, flaw |-> "none", conflict |-> FALSE, torn |-> TRUE]
At(d, f) == [db |-> d, files |-> f]
Sidecar(i) == [NoFiles EXCEPT !.sidecar = i]

Usual == {At(NoDb, NoFiles), At([Ours EXCEPT !.rows = <<TornRow>>], Sidecar(1))}
AllDirectories == Usual \cup
  {At([NoDb EXCEPT !.kind = "ours"], NoFiles),
   At([NoDb EXCEPT !.kind = "foreign"], NoFiles),
   At([NoDb EXCEPT !.kind = "corrupt"], NoFiles),
   At([Ours EXCEPT !.version = 2], Sidecar(1)),
   At([Ours EXCEPT !.privacy = 2], Sidecar(1)),
   At(Ours, Sidecar(7)), At(Ours, Sidecar(-1)),
   At(Ours, [NoFiles EXCEPT !.mode = "symlink"]),
   At(Ours, [NoFiles EXCEPT !.mode = "denied"]),
   At(Ours, [NoFiles EXCEPT !.mode = "unreadable"])}

Rec(v, e, i, p, t, f) == [verdict |-> v, event |-> e, ident |-> i, prod |-> p, at |-> t, flaw |-> f]
Named == {Rec("ok", 1, 1, 1, 1, "none"), Rec("ok", 1, 2, 1, 1, "none"), Rec("ok", 2, 3, 1, 2, "lifecycle"),
          Rec("reject", 1, 1, 1, 1, "none")}
Unnamed == {Rec("ok", 1, 1, 0, 1, "none"), Rec("ok", 2, 2, 0, 1, "none")}
Ask1(d) == [keys |-> {}, limit |-> 1, scoped |-> TRUE, desc |-> d]
OneByOne == {Ask1(FALSE)}
BothSorts == {Ask1(FALSE), Ask1(TRUE)}
Symmetry == Permutations(Procs)
=============================================================================
