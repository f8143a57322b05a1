------------------------------ MODULE Collections ------------------------------
(***************************************************************************)
(* What the generator reads and which of it ships (gen/build.go's Build,   *)
(* gen/tier.go, gen/collisions.go): the collections of the discovery       *)
(* documents, the magic-modules resource each is matched with, the tier,   *)
(* and the collections of one service that share a name.                   *)
(*                                                                         *)
(* A corpus is a record                                                    *)
(*   cols       the collections in the order they are walked, each         *)
(*              [service, path, posts, src]: posts is the last literal of  *)
(*              the create method's path, src what buildType reads         *)
(*   decls      for each service the magic-modules resources it is matched *)
(*              among, each [product, name, endings, created, based,       *)
(*              literals, parented, axes, served, hooks, urls]             *)
(*   rulings    the overlay's rulings by <<service, resource>>             *)
(* Names are compared without their case, so a name stands for both.       *)
(***************************************************************************)
EXTENDS UpdatePath

None == [name |-> ""]

-----------------------------------------------------------------------------
(* The magic-modules resource of a collection *)

Leaf(col) == Singular[Last(col.path)]

\* matchResource: the one of that name, or, where that one is created in
\* another collection, the only one that is created in this.
MatchedByName(decls, col) ==
  LET named == SelectSeq(decls, LAMBDA d : d.name = Leaf(col))
      here  == SelectSeq(decls, LAMBDA d : d.based = col.posts)
      first == Head(named)
  IN CASE named = <<>> -> None
       [] named # <<>> /\ "" \in {first.created, col.posts} -> first
       [] OTHER -> IF first.created = col.posts \/ Len(here) # 1 THEN first ELSE here[1]

\* preferExactCollection: one whose base_url has exactly these literals.
Declaration(decls, col) ==
  LET matched == MatchedByName(decls, col)
      exact   == SelectSeq(decls, LAMBDA d : Leaf(col) \in d.endings /\ d.literals = col.path)
  IN IF matched = None THEN None
     ELSE IF matched.literals = col.path \/ matched.parented \/ Len(exact) # 1 THEN matched
     ELSE exact[1]

-----------------------------------------------------------------------------
(* Classify *)

NoOverlay == [hooks |-> {}, readVia |-> "", given |-> FALSE]

RulingOf(corpus, col, decl) ==
  IF decl # None /\ <<col.service, decl.name>> \in DOMAIN corpus.rulings
  THEN corpus.rulings[<<col.service, decl.name>>] ELSE NoOverlay

Excluded(col, decl) ==
  \/ decl # None /\ ~decl.served
  \/ CreateMethod(col.src) = NoMethod
  \/ "delete" \notin DOMAIN col.src.methods

\* Hooks of magic-modules that nobody has ruled on, or no way to read it.
Hooked(col, decl, ruling) ==
  \/ "get" \notin DOMAIN col.src.methods /\ ruling.readVia = ""
  \/ decl # None /\ ~(decl.hooks \subseteq ruling.hooks)

-----------------------------------------------------------------------------
(* Candidates for a name *)

\* scopeSegment: the root a collection hangs off, where it is no project.
ScopeOf == [organizations |-> "organization", folders |-> "folder",
            billingAccounts |-> "billingaccount"]

Scope(path) == IF path[1] \in DOMAIN ScopeOf THEN ScopeOf[path[1]] ELSE ""

Candidate(col) ==
  [service |-> col.service, scope |-> Scope(col.path), resource |-> <<Leaf(col)>>,
   qualified |-> FALSE, path |-> col.path]

\* The collections that ship, in order: [col, decl, cand] each.
Shipping(corpus) ==
  LET pending(i) ==
        LET col  == corpus.cols[i]
            decl == Declaration(corpus.decls[col.service], col)
        IN [col |-> col, decl |-> decl, cand |-> Candidate(col), ruling |-> RulingOf(corpus, col, decl)]
  IN SelectSeq([i \in DOMAIN corpus.cols |-> pending(i)],
       LAMBDA p : ~Excluded(p.col, p.decl) /\ ~Hooked(p.col, p.decl, p.ruling))

-----------------------------------------------------------------------------
(* Two collections of one service that share a name (collisions.go) *)

\* canonicalPath: the same resource through another root or another axis.
CanonicalPath(path) ==
  LET rooted == IF path[1] = "projects" THEN Tail(path) ELSE path
  IN IF rooted # <<>> /\ rooted[1] \in {"zones", "regions"} THEN <<"locations">> \o Tail(rooted) ELSE rooted

AxisWord(path) ==
  CASE Len(path) > 2 /\ path[1] = "projects" -> path[2]
    [] Len(path) > 1 /\ path[1] # "projects" -> path[1]
    [] OTHER                                 -> ""

\* preferred: the projects root, the locations axis, what magic-modules says
\* of the other's, and last the order of their names, which is the corpus's.
Preferred(p, i, best) ==
  LET a     == p[i].col.path
      b     == p[best].col.path
      root(path) == path[1] = "projects"
      axes  == IF p[best].decl = None THEN {} ELSE p[best].decl.axes
      in(path) == AxisWord(path) \in axes
  IN CASE root(a) # root(b) -> root(a)
       [] root(a) = root(b) /\ AxisWord(a) # AxisWord(b)
          /\ "locations" \in {AxisWord(a), AxisWord(b)} -> AxisWord(a) = "locations"
       [] OTHER -> in(a) /\ ~in(b)

\* The unscoped candidates that share i's service and resource.
Group(p, i) ==
  {j \in DOMAIN p : /\ p[j].cand.scope = "" /\ p[i].cand.scope = ""
                    /\ p[j].cand.service = p[i].cand.service
                    /\ p[j].cand.resource = p[i].cand.resource}

\* namedApartByMagicModules: each has a name of its own there, one of them
\* the collection's.
NamedApart(p, group) ==
  /\ \A j \in group : p[j].decl # None
  /\ \A j, k \in group : j # k => p[j].decl.name # p[k].decl.name
  /\ \E j \in group : <<p[j].decl.name>> = p[j].cand.resource

\* The members of a group that are the same resource as i, and the one kept.
Cluster(p, i) ==
  {j \in Group(p, i) : CanonicalPath(p[j].col.path) = CanonicalPath(p[i].col.path)}

Winner(p, i) ==
  FoldLeft(LAMBDA best, j : IF j # best /\ Preferred(p, j, best) THEN j ELSE best,
           Min(Cluster(p, i)), SetToSortSeq(Cluster(p, i), <))

\* pathWalker: a path's words from before its leaf to the left, without the
\* words that only say where.
Walk(path) ==
  Reverse(SelectSeq(Front(path), LAMBDA word :
    word \notin {"projects", "organizations", "folders", "billingAccounts",
                 "locations", "zones", "regions"}))

\* disambiguateByPath: in rounds, everyone who still shares its resource
\* takes one more word of its path.
TakeWord(q, survivors) ==
  LET colliding == {i \in survivors : \E j \in survivors : j # i /\ q[j].cand.resource = q[i].cand.resource}
  IN [i \in DOMAIN q |->
        IF i \in colliding /\ q[i].walk # <<>>
        THEN [q[i] EXCEPT !.cand.resource = <<Singular[Head(q[i].walk)]>> \o @,
                          !.cand.qualified = TRUE, !.walk = Tail(@)]
        ELSE q[i]]

Disambiguated(p, survivors) ==
  LET start  == [i \in DOMAIN p |-> p[i] @@ [walk |-> Walk(p[i].col.path)]]
      rounds == Max({Len(p[i].col.path) : i \in survivors})
  IN FoldLeft(LAMBDA q, round : TakeWord(q, survivors), start, [r \in 1 .. rounds |-> r])

\* The candidate of p[i] once its collisions are resolved.
ResolvedCandidate(p, i) ==
  LET group     == Group(p, i)
      survivors == {Winner(p, j) : j \in group}
  IN CASE Cardinality(group) < 2 -> p[i].cand
       [] Cardinality(group) > 1 /\ NamedApart(p, group) ->
            [p[i].cand EXCEPT !.resource = <<p[i].decl.name>>]
       [] OTHER ->
            IF Cardinality(survivors) < 2 THEN p[i].cand ELSE Disambiguated(p, survivors)[i].cand

\* A legacy alias: another collection is the same resource, and is kept.
IsAlias(p, i) ==
  /\ Cardinality(Group(p, i)) > 1
  /\ ~NamedApart(p, Group(p, i))
  /\ Winner(p, i) # i

Survivors(corpus) ==
  LET resolved(p) == {[p[i] EXCEPT !.cand = ResolvedCandidate(p, i)] : i \in {j \in DOMAIN p : ~IsAlias(p, j)}}
  IN resolved(Shipping(corpus))
=============================================================================
