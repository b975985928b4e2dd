----------------------------- MODULE MCPkgBuild -----------------------------
(* Instances of PkgBuild for TLC: lib is a package with patches that app, a *)
(* package with an overridden source, depends on.                           *)
EXTENDS PkgBuild, TLC

CONSTANTS app, lib

NoNeeds == [s \in Prepared |-> {}]
AppNeedsLib == app :> [NoNeeds EXCEPT !["configured"] = {lib}] @@ lib :> NoNeeds
TargetOnly == [p \in Pkg |-> {"target"}]
LibForApp == app :> {"target"} @@ lib :> {"staging", "images"}
Sorted == <<app, lib>>

Do(kind, p) == [kind |-> kind, pkg |-> p]
All == Do("all", app)
Serially ==
    {<<All>>, <<Do("reinstall", lib)>>,
     <<Do("rebuild", app), All>>, <<Do("reconfigure", app)>>,
     <<Do("rebuild", app), Do("rebuild", lib)>>,
     <<Do("dirclean", app)>>}
InParallel == {<<All>>, <<All, Do("rebuild", lib)>>, <<Do("rebuild", app), Do("reinstall", lib)>>}
RebuildAll == {<<All>>, <<Do("rebuild", app), All>>}
=============================================================================
