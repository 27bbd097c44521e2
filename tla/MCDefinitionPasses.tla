------------------------- MODULE MCDefinitionPasses -------------------------
(* A file "app" for DefinitionPasses, with a function that uses a member of a *)
(* module and the module's export by name; the module "mod" with two exports  *)
(* of one name, one of them a method; a module "bin" without a text; and the  *)
(* file "sub/bin", which the map enumerates after "bin".  The server may also *)
(* name a "bin" that is not in the workspace.                                  *)
EXTENDS DefinitionPasses

W   == <<"/w", "/">>
App == <<"app">>
Mod == <<"mod">>
Bin == <<"bin">>
Sub == <<"sub", "/", "bin">>

Entity(f, s, e, n, m) == [file |-> f, start |-> s, end |-> e, name |-> n, method |-> m]

SmallEntities == <<
  Entity(App, 1, 2, "main", FALSE), Entity(Mod, 0, 9, "mod", FALSE), Entity(Mod, 1, 1, "Router", TRUE),
  Entity(Mod, 2, 2, "Router", FALSE), Entity(Bin, 0, 1, "Router", FALSE),
  Entity(Sub, 1, 1, "serve", FALSE) >>

SmallOrder == <<App, Bin, Mod, Sub>>

Identifier_(l, c, m, n) == [line |-> l, col |-> c, member |-> m, name |-> n]

\* Line 0 is outside every entity; "express.Router" and "Router" follow.
SmallPositions == <<
  Identifier_(0, 1, 0, "x"), Identifier_(1, 1, 9, "Router"), Identifier_(2, 1, 0, "Router")>>

SmallProvisions == {{}, {App}, {App, Mod}}

At(path, line) == [path |-> path, line |-> line, col |-> 0]

SmallLocations == {
  At(W \o App, 1), At(W \o Mod, 1), At(W \o Mod, 2), At(W \o Sub, 1), At(<<"/dep", "/", "bin">>, 1),
  At(<<"/dep", "/", "r">>, 5), At(NoPath, 1)}
=============================================================================
