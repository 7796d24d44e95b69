------------------------------ MODULE SmallHooks ------------------------------
\* Graphs of two packages, app on top of lib, and documents for their hooks.
EXTENDS Naturals

SmallHookDigests == {1, 2}

HookGraph(scripts, lib) ==
  [packages |-> {"app", "lib"}, keys |-> <<"app", "lib">>,
   deps |-> [app |-> {"lib"}, lib |-> {}],
   name |-> [app |-> "app", lib |-> "lib"], version |-> [app |-> 1, lib |-> lib],
   archive |-> [app |-> 1, lib |-> lib], scripts |-> scripts,
   gyp |-> [app |-> FALSE, lib |-> FALSE],
   readable |-> [app |-> TRUE, lib |-> TRUE],
   declared |-> [app |-> TRUE, lib |-> TRUE], workspace |-> FALSE]

BothBuild(lib) ==
  HookGraph([app |-> {"install"}, lib |-> {"preinstall", "postinstall"}], lib)

SmallHookGraphs ==
  {BothBuild(1), BothBuild(2),
   [BothBuild(1) EXCEPT !.deps.lib = {"app"}],
   [BothBuild(1) EXCEPT !.readable.lib = FALSE],
   [BothBuild(1) EXCEPT !.declared.lib = FALSE],
   [HookGraph([app |-> {"prepare"}, lib |-> {"postinstall"}], 1) EXCEPT
      !.gyp.lib = TRUE, !.workspace = TRUE]}

Approval(name, version, hook, dependencies) ==
  [package |-> name, version |-> version, archive |-> version, hook |-> hook,
   script |-> "exact", dependencies |-> dependencies, tool |-> 1]

SmallPolicies ==
  LET app == Approval("app", 1, "install", TRUE)
      pre(n) == Approval("lib", n, "preinstall", FALSE)
      post(n) == Approval("lib", n, "postinstall", FALSE)
  IN {{}, {app}, {app, post(1)}, {app, pre(1), post(1)}, {app, post(2)},
      {Approval("lib", 1, "install", FALSE)}}
=============================================================================
