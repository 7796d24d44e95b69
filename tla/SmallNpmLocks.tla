--------------------------- MODULE SmallNpmLocks ---------------------------
(***************************************************************************)
(* npm locks over a few packages: x is placed below a and below b, with c   *)
(* beside it or at the root, in every choice of versions; peers, optional   *)
(* packages of one platform, a second registry and workspace members.       *)
(***************************************************************************)
EXTENDS Naturals, Sequences, FiniteSets

None == [x \in {} |-> x]
Ask(name) == [name |-> name, versions |-> {1, 2}]
Exactly(name, v) == [name |-> name, versions |-> {v}]
Asks(S) == [n \in S |-> Ask(n)]

Pkg(name, v, deps) ==
  [name |-> name, version |-> v, registry |-> 1, integrity |-> <<name, v>>,
   deps |-> Asks(deps), opts |-> None, peers |-> None, optpeers |-> {},
   platforms |-> {"linux", "darwin"}]
WithPeers(p, S, optional) == [p EXCEPT !.peers = Asks(S), !.optpeers = optional]
WithOpts(p, S) == [p EXCEPT !.opts = Asks(S)]
Project(name, deps) ==
  [name |-> name, version |-> 1, deps |-> Asks(deps), devs |-> None, opts |-> None,
   peers |-> None, optpeers |-> {}]

R(names) == <<"", names>>
Single(root, packages) ==
  [root |-> root, members |-> None, links |-> None, packages |-> packages]
Put(path, p) == [q \in {path} |-> p]
Join(f, g) == [x \in DOMAIN f \cup DOMAIN g |-> IF x \in DOMAIN g THEN g[x] ELSE f[x]]

\* a and b both use x; x uses c, found at the root or below b.
X(v, kind) ==
  LET x == Pkg("x", v, IF kind = "dependency" THEN {"c"} ELSE {})
  IN IF kind = "dependency" THEN x
     ELSE WithPeers(x, {"c"}, IF kind = "optional" THEN {"c"} ELSE {})

Diamond(v, kind, below) ==
  Single(Project("app", {"a", "b", "c"}),
    Join(Join(Join(Put(R(<<"a">>), Pkg("a", 1, {"x"})),
                   Put(R(<<"b">>), Pkg("b", 1, {"x"} \cup (IF below = None THEN {} ELSE {"c"})))),
              Join(Put(R(<<"c">>), Pkg("c", 1, {})), below)),
         Join(Put(R(<<"a", "x">>), X(1, kind)), Put(R(<<"b", "x">>), X(v, kind)))))

\* An optional package of one platform, needed by a; in one of them b requires it.
Native(required) ==
  Single([Project("app", {"a"}) EXCEPT !.opts = Asks({"b"})],
    Join(Join(Put(R(<<"a">>), WithOpts(Pkg("a", 1, {}), {"c"})),
              Put(R(<<"b">>), Pkg("b", 1, IF required THEN {"c"} ELSE {}))),
         Put(R(<<"c">>), [Pkg("c", 1, {}) EXCEPT !.platforms = {"darwin"}])))

\* c comes from another registry than the packages beside it.
Foreign ==
  Single(Project("app", {"a", "c"}),
    Join(Put(R(<<"a">>), Pkg("a", 1, {"c"})),
         Put(R(<<"c">>), [Pkg("c", 1, {}) EXCEPT !.registry = 2])))

\* Members p and q share a; q keeps its own c and uses p.
Workspace(v) ==
  [root |-> Project("app", {"c"}),
   members |-> [m \in {"p", "q"} |->
                  IF m = "p" THEN Project("p", {"a", "c"})
                  ELSE [Project("q", {"a", "p"}) EXCEPT !.opts = [n \in {"c"} |-> Exactly("c", v)]]],
   links |-> [l \in {R(<<"p">>), R(<<"q">>)} |-> l[2][1]],
   packages |-> Join(Join(Put(R(<<"a">>), Pkg("a", 1, {"c"})), Put(R(<<"c">>), Pkg("c", 1, {}))),
                     IF v = 1 THEN None ELSE Put(<<"q", <<"c">>>>, Pkg("c", v, {})))]

\* By shape: a kind, a version of x or c, how x uses c, the version of c below b.
Shapes ==
  {<<"diamond", 1, kind, below>> : kind \in {"dependency", "peer", "optional"}, below \in 0..2}
  \cup {<<"diamond", 2, "dependency", 2>>}
  \cup {<<"native", 1, kind, 0>> : kind \in {"required", "optional"}}
  \cup {<<"foreign", 1, "dependency", 0>>}
  \cup {<<"workspace", v, "dependency", 0>> : v \in {1, 2}}

LockOf(shape) ==
  CASE shape[1] = "diamond" ->
         Diamond(shape[2], shape[3],
                 IF shape[4] = 0 THEN None ELSE Put(R(<<"b", "c">>), Pkg("c", shape[4], {})))
    [] shape[1] = "native" -> Native(shape[3] = "required")
    [] shape[1] = "foreign" -> Foreign
    [] OTHER -> Workspace(shape[2])

SmallNpmLocks == [shape \in Shapes |-> LockOf(shape)]
=============================================================================
