------------------------------ MODULE Addresses ------------------------------
(***************************************************************************)
(* The address half of the generator's buildType (gen/build.go,            *)
(* gen/createid.go): from the methods an API publishes and the templates   *)
(* magic-modules declares to the templates, bindings and attributes of a   *)
(* type.  Every step is an operator from type to type, in the code's order.*)
(*                                                                         *)
(* A source is a record:                                                   *)
(*   methods    the collection's published methods by name                 *)
(*   mm         the declaration of magic-modules, or NoMM                  *)
(*   attrs      the resource's attributes, nested those below the top      *)
(*   request    what a create's body is: the resource, an envelope with    *)
(*              the resource and the parameters in beside, or something    *)
(*              else                                                       *)
(*   basePath   the path of the API's base url                             *)
(***************************************************************************)
EXTENDS Identity

CONSTANTS
  Singular,     \* a collection's name to one member's
  IdParameter,  \* a collection's name to the query parameter that names a new member
  CamelCase,    \* a name in snake case to the same in camel case
  Versions      \* the path segments that are API versions

ASSUME AddressesAssumption == Versions \subseteq STRING

NoMethod == [path |-> <<>>, flat |-> <<>>, verb |-> "", params |-> <<>>,
             body |-> "none", props |-> <<>>, await |-> "none"]
NoPattern == <<>>

\* What magic-modules says of a collection it does not know.
NoMM == [base |-> NoTemplate, create |-> NoTemplate, self |-> NoTemplate, delete |-> NoTemplate,
         update |-> NoTemplate, imports |-> <<>>, deleteVerb |-> "", regional |-> FALSE,
         updateVerb |-> "", updateMask |-> FALSE, immutable |-> FALSE, fields |-> <<>>, outputs |-> {}]

Camel(name) == IF name \in DOMAIN CamelCase THEN CamelCase[name] ELSE name
SameWord(a, b) == Camel(a) = Camel(b)

Method(src, name) == IF name \in DOMAIN src.methods THEN src.methods[name] ELSE NoMethod

\* insert, else create.
CreateMethod(src) ==
  IF "insert" \in DOMAIN src.methods THEN src.methods["insert"] ELSE Method(src, "create")

InQuery(method, param) ==
  param \in DOMAIN method.params /\ method.params[param].in = "query"

Declared(createOnly, required) ==
  [wire |-> "", output |-> FALSE, createOnly |-> createOnly, forceNew |-> TRUE,
   required |-> required, also |-> {}]

Declare(ty, name, attr) == [ty EXCEPT !.attrs = (name :> [attr EXCEPT !.wire = name]) @@ @]

-----------------------------------------------------------------------------
(* Shapes of paths *)

IsVersion(seg) == seg.kind = "lit" /\ seg.name \in Versions

\* pathPrefixOf: everything up to the first version segment.
VersionAt(path) ==
  LET at == {i \in DOMAIN path : IsVersion(path[i])}
  IN IF at = {} THEN 0 ELSE CHOOSE i \in at : \A j \in at : i <= j

PathPrefix(path) == SubSeq(path, 1, VersionAt(path))
WithoutPrefix(path, prefix) ==
  IF prefix # <<>> /\ IsPrefix(prefix, path) THEN SubSeq(path, Len(prefix) + 1, Len(path)) ELSE path

\* The generator's normalizeTemplateShape: every placeholder looks alike.
AnyShape(path) == [i \in DOMAIN path |-> IF IsPlaceholder(path[i]) THEN One("*") ELSE path[i]]

\* prefixMethodPath
PrefixOf(src) ==
  LET having == SelectSeq(<<"get", "list", "insert", "create">>,
                          LAMBDA m : Method(src, m).path # <<>>)
  IN IF having = <<>> THEN <<>> ELSE PathPrefix(src.methods[Head(having)].path)

\* flatShape: where a method acts, all placeholders alike.
FlatShape(method) ==
  AnyShape(WithoutPrefix(method.flat, PathPrefix(method.flat)))

-----------------------------------------------------------------------------
(* The resource's own fields and the create's envelope (resourceSchema) *)

Wrapped(src) == src.request = "envelope" /\ "get" \in DOMAIN src.methods

TypeAttrs(src) ==
  IF Wrapped(src)
  THEN src.attrs @@ [n \in src.beside |-> [Declared(TRUE, FALSE) EXCEPT !.wire = n]]
  ELSE src.attrs

-----------------------------------------------------------------------------
(* One address for one resource *)

BareMMPlaceholder(path) ==
  LET bare == IF path # <<>> /\ IsVersion(path[1]) THEN Tail(path) ELSE path
  IN Len(bare) = 1 /\ bare[1].kind = "mm"

\* magic-modules' self_link, the get's path where there is none, and also
\* where magic-modules writes a full name as one escaped placeholder.
ReadAddress(src) ==
  LET get  == Method(src, "get").path
      self == IF src.mm.self = NoTemplate THEN Path(get) ELSE src.mm.self
  IN IF BareMMPlaceholder(self.path) /\ IsBareCapture(WithoutPrefix(get, PathPrefix(get)))
     THEN Path(get) ELSE self

\* idTemplateFromDelete: the collection a delete's pattern is anchored in.
AddressOfDelete(src) ==
  LET del    == Method(src, "delete")
      path   == WithoutPrefix(del.path, PathPrefix(del.path))
      anchor == IF IsBareCapture(path) /\ path[1].name \in DOMAIN del.params
                THEN del.params[path[1].name].pattern ELSE NoPattern
  IN IF Len(anchor) = 2 /\ anchor[1].kind = "lit" /\ anchor[2] = Rest("*")
     THEN <<anchor[1]>> \o path ELSE path

\* A self_link without its query; a listing's url gives way to the delete's
\* address, or to the first import format.
ItemShaped(src, ty) ==
  LET listing == ty.self.path = <<>> \/ Last(ty.self.path) = Lit("")
      del     == AddressOfDelete(src)
  IN CASE ~listing -> [ty EXCEPT !.self = Path(@.path)]
       [] listing /\ del # <<>> ->
            [ty EXCEPT !.self = Path(del), !.delete = Path(del), !.imports = <<del>> \o @]
       [] OTHER -> [ty EXCEPT !.self = Path(Head(ty.imports))]

\* The collection, or for a PUT the address, a create is sent to.
CreateAddress(src, ty) ==
  LET create == CreateMethod(src)
  IN [ty EXCEPT !.base = IF @ = NoTemplate THEN Path(create.path) ELSE @,
                !.create = IF create.verb = "PUT" THEN Path(create.path) ELSE @,
                !.createVerb = create.verb]

\* discoveredDeleteURL: a delete that is not sent to the get's address.
DeleteAddress(src, ty) ==
  LET del  == Method(src, "delete")
      get  == Method(src, "get")
      ds   == FlatShape(del)
      gs   == FlatShape(get)
      self == ty.self.path
      tail == SubSeq(ds, Len(gs) + 1, Len(ds))
      holes == SelectSeq(get.flat, IsPlaceholder)
  IN CASE ty.delete # NoTemplate \/ del = NoMethod \/ get = NoMethod \/ del.verb # "DELETE" -> ty
       [] /\ ty.delete = NoTemplate /\ del # NoMethod /\ get # NoMethod /\ del.verb = "DELETE"
          /\ IsStrictPrefix(gs, ds) /\ ~\E i \in DOMAIN tail : IsPlaceholder(tail[i]) ->
            [ty EXCEPT !.delete = Path(self \o tail)]
       [] /\ ty.delete = NoTemplate /\ del # NoMethod /\ get # NoMethod /\ del.verb = "DELETE"
          /\ Len(gs) > 1 /\ ds = Front(gs) /\ holes # <<>>
          /\ InQuery(del, Last(holes).name) ->
            [ty EXCEPT !.delete = [path |-> Front(self),
                                   query |-> <<[key |-> Last(holes).name, value |-> Last(self)]>>]]
       [] OTHER -> ty

\* withoutItemTail: a POST goes to the collection, not to an item in it.
WithoutItemTail(tmpl, published) ==
  LET path == WithoutTrailingSlash(tmpl.path)
  IN IF /\ Len(path) > 1 /\ IsPlaceholder(Last(path))
        /\ ~IsPlaceholder(Last(WithoutTrailingSlash(published)))
     THEN [tmpl EXCEPT !.path = Front(path)] ELSE tmpl

PostToCollection(src, ty) ==
  LET published == CreateMethod(src).path
  IN CASE ty.createVerb # "POST"   -> ty
       [] ty.createVerb = "POST" /\ ty.create # NoTemplate ->
            [ty EXCEPT !.create = WithoutItemTail(@, published)]
       [] OTHER -> [ty EXCEPT !.base = WithoutItemTail(@, published)]

-----------------------------------------------------------------------------
(* What a create's placeholders stand for *)

\* parentShapes: the patterns that pin a parent completely.
ParentShapes ==
  LET star == One("*") IN
  << [pattern |-> <<Lit("projects"), star>>,
      shape   |-> <<Lit("projects"), MM("project")>>],
     [pattern |-> <<Lit("projects"), star, Lit("locations"), star>>,
      shape   |-> <<Lit("projects"), MM("project"), Lit("locations"), MM("location")>>],
     [pattern |-> <<Lit("projects"), star, Lit("regions"), star>>,
      shape   |-> <<Lit("projects"), MM("project"), Lit("regions"), MM("region")>>],
     [pattern |-> <<Lit("projects"), star, Lit("locations"), Lit("global")>>,
      shape   |-> <<Lit("projects"), MM("project"), Lit("locations"), Lit("global")>>] >>

PatternOf(method, param) ==
  IF param \in DOMAIN method.params /\ method.params[param].in = "path"
  THEN method.params[param].pattern ELSE NoPattern

\* bindParentPlaceholders: a reserved capture that is a whole parent.
BindParents(src, tmpl) ==
  LET create == CreateMethod(src)
      shapes(seg) == SelectSeq(ParentShapes, LAMBDA s : s.pattern = PatternOf(create, seg.name))
  IN [tmpl EXCEPT !.path = FlattenSeq([i \in DOMAIN @ |->
        IF @[i].kind = "rest" /\ shapes(@[i]) # <<>> THEN Head(shapes(@[i])).shape ELSE <<@[i]>>])]

WithParentsBound(src, ty) ==
  [ty EXCEPT !.base = BindParents(src, @), !.create = BindParents(src, @)]

\* The version lives in the prefix and nowhere else.
WithVersionInPrefix(src, ty) ==
  LET prefix == PrefixOf(src)
      strip(tmpl) == [tmpl EXCEPT !.path = WithoutPrefix(@, prefix)]
  IN [ty EXCEPT !.prefix = src.basePath \o FlattenSeq([i \in DOMAIN prefix |-> <<prefix[i].name, "/">>]),
                !.base = strip(@), !.create = strip(@), !.self = strip(@),
                !.delete = strip(@), !.update = strip(@),
                !.imports = IF @ = <<>> THEN @ ELSE <<WithoutPrefix(Head(@), prefix)>> \o Tail(@)]

\* templateFromPattern: every wildcard named after the literal before it.
Nameable(pattern) ==
  /\ pattern # <<>>
  /\ \A i \in DOMAIN pattern :
       /\ pattern[i].kind # "rest"
       /\ IsPlaceholder(pattern[i]) => i > 1 /\ ~IsPlaceholder(pattern[i - 1])

FromPattern(pattern) ==
  [i \in DOMAIN pattern |->
     IF IsPlaceholder(pattern[i]) THEN One(Singular[pattern[i - 1].name]) ELSE pattern[i]]

\* structuredIDTemplate: what an id looks like, where self_link does not say.
ShownImports(src, ty) ==
  LET having == SelectSeq(<<"get", "delete">>,
        LAMBDA m : Method(src, m).path # <<>> /\ Last(Method(src, m).path) = Last(ty.self.path))
      pattern == PatternOf(src.methods[Head(having)], ty.self.path[1].name)
      shown   == FromPattern(pattern)
  IN IF /\ IsBareCapture(ty.self.path) /\ ty.imports = <<ty.self.path>>
        /\ having # <<>> /\ Nameable(pattern)
        /\ \A i \in DOMAIN pattern : IsPlaceholder(pattern[i]) <=> i % 2 = 0
        /\ \A i, j \in DOMAIN shown : i # j /\ IsPlaceholder(shown[i]) => shown[i] # shown[j]
     THEN [ty EXCEPT !.imports = <<shown>>] ELSE ty

\* withoutRepeatedTail: what the url says after the placeholder, said once.
WithoutRepeatedTail(bound, path, name) ==
  LET at    == {i \in DOMAIN path : IsPlaceholder(path[i]) /\ path[i].name = name}
      after == SubSeq(path, Max(at) + 1, Len(path))
      tails == {k \in 1 .. Len(bound) - 1 :
                  IsPrefix(AnyShape(SubSeq(bound, Len(bound) - k + 1, Len(bound))), AnyShape(after))}
  IN IF at = {} \/ tails = {} THEN bound ELSE SubSeq(bound, 1, Len(bound) - Max(tails))

\* findAttrPath: the one settable attribute of that name nearest the top.
FindAttrPath(src, ty, name) ==
  LET top   == {[path |-> n, depth |-> 1] : n \in {m \in DOMAIN ty.attrs :
                  /\ ~ty.attrs[m].output
                  /\ \/ SameWord(name, m) \/ SameWord(name, ty.attrs[m].wire)
                     \/ name \in ty.attrs[m].also}}
      below == {[path |-> n.path, depth |-> n.depth] : n \in {m \in src.nested : SameWord(name, m.name)}}
      all   == top \cup below
      least == {a \in all : \A b \in all : a.depth <= b.depth}
  IN IF Cardinality(least) = 1 THEN (CHOOSE a \in least : TRUE).path ELSE ""

\* createBindings
CreateBindings(src, ty) ==
  LET create == CreateMethod(src)
      tmpl   == CreateTemplate(ty)
      open   == {seg \in SegmentsOf(tmpl) : /\ IsPlaceholder(seg)
                                            /\ seg.name \notin ScopeSettings
                                            /\ ~SettableAs(ty, seg.name)}
      toPath == {seg.name : seg \in {s \in open : Nameable(PatternOf(create, s.name))}}
      toAttr == {seg.name : seg \in {s \in open : s.kind # "rest"
                                                  /\ FindAttrPath(src, ty, s.name) # ""}}
  IN [ty EXCEPT !.bindings = [n \in toPath \cup toAttr |->
        IF n \in toPath
        THEN [attr |-> "", path |-> WithoutRepeatedTail(FromPattern(PatternOf(create, n)), tmpl.path, n)]
        ELSE [attr |-> FindAttrPath(src, ty, n), path |-> <<>>]]]

\* spellOutBoundParents: a bound {{x}} of the create url is written out in
\* every template, and needs no binding any more.
SpellOutBoundParents(ty) ==
  LET spelled == {n \in BoundToPath(ty) : MM(n) \in SegmentsOf(CreateTemplate(ty))}
      out(path) == FlattenSeq([i \in DOMAIN path |->
                     IF path[i].kind = "mm" /\ path[i].name \in spelled
                     THEN ty.bindings[path[i].name].path ELSE <<path[i]>>])
      in(tmpl) == [tmpl EXCEPT !.path = out(@)]
  IN [ty EXCEPT !.base = in(@), !.create = in(@), !.self = in(@), !.update = in(@), !.delete = in(@),
                !.imports = [i \in DOMAIN @ |-> out(@[i])],
                !.bindings = Restrict(@, DOMAIN @ \ spelled)]

\* declareCreateURLParameters: what nothing else supplies and self_link
\* gives back is an attribute.
DeclareCreateURLParameters(ty) ==
  LET new == {n \in UnresolvedCreatePlaceholders(ty) \cap PlaceholderNames(ty.self) :
                AttrsNamed(ty, n) = {}}
  IN [ty EXCEPT !.attrs = @ @@ [n \in new |-> [Declared(FALSE, TRUE) EXCEPT !.wire = n]]]

-----------------------------------------------------------------------------
(* The id a create carries in its query (createid.go) *)

\* bindCreateQueryID: the id gets an attribute of its own, under the query
\* parameter's name, where Google's own attribute sits on the placeholder.
BindCreateQueryID(src, ty) ==
  LET create == CreateMethod(src)
      tmpl   == CreateTemplate(ty)
      bound  == {i \in DOMAIN tmpl.query :
                   /\ tmpl.query[i].value.kind = "mm"
                   /\ ~SettableAs(ty, tmpl.query[i].value.name)
                   /\ tmpl.query[i].key # tmpl.query[i].value.name
                   /\ InQuery(create, tmpl.query[i].key)
                   /\ tmpl.query[i].key \notin DOMAIN ty.attrs}
      keys   == {tmpl.query[i].key : i \in bound}
  IN IF bound = {} THEN ty
     ELSE [ty EXCEPT !.attrs = @ @@ [n \in keys |-> [Declared(TRUE, FALSE) EXCEPT !.wire = n]],
                     !.create = [tmpl EXCEPT !.query = [i \in DOMAIN @ |->
                        IF i \in bound THEN [@[i] EXCEPT !.value = MM(tmpl.query[i].key)] ELSE @[i]]]]

SelfEndsInName(ty) ==
  Len(ty.self.path) > 1 /\ Last(ty.self.path) \in {MM("name"), One("name")}

\* addCreateIDParameter: the API takes an id the url does not carry.
AddCreateIDParameter(src, ty) ==
  LET create == CreateMethod(src)
      tmpl   == CreateTemplate(ty)
      lits   == SelectSeq(tmpl.path, LAMBDA seg : seg.kind = "lit" /\ seg.name # "")
      param  == IF lits # <<>> /\ Last(lits).name \in DOMAIN IdParameter
                THEN IdParameter[Last(lits).name] ELSE ""
      named  == "name" \in DOMAIN ty.attrs /\ ~ty.attrs["name"].output
      with(attr) == [tmpl EXCEPT !.query = Append(@, [key |-> param, value |-> MM(attr)])]
      own    == Declare([ty EXCEPT !.create = with(param)], param,
                        Declared(TRUE, create.params[param].required))
  IN CASE \/ ty.createVerb = "PUT" \/ ~InQuery(create, param)
          \/ \E i \in DOMAIN tmpl.query : SameWord(tmpl.query[i].key, param) -> ty
       [] /\ ty.createVerb # "PUT" /\ InQuery(create, param)
          /\ ~\E i \in DOMAIN tmpl.query : SameWord(tmpl.query[i].key, param)
          /\ named /\ SelfEndsInName(ty) -> [ty EXCEPT !.create = with("name")]
       [] OTHER ->
            IF param \in DOMAIN ty.attrs THEN ty
            ELSE IF named
            THEN [own EXCEPT !.attrs["name"].output = TRUE, !.attrs["name"].required = FALSE,
                             !.attrs["name"].forceNew = FALSE]
            ELSE own

PreCreateToken == Lit("PRE_CREATE_REPLACE_ME")

\* fillPreCreateTokens: a parameter of the API's for the token of a hook.
FillPreCreateTokens(src, ty) ==
  LET create == CreateMethod(src)
      query  == ty.create.query
      filled == {i \in DOMAIN query :
                   /\ query[i].value = PreCreateToken
                   /\ InQuery(create, query[i].key)
                   /\ query[i].key \in DOMAIN ty.attrs => ~ty.attrs[query[i].key].output}
      keys   == {query[i].key : i \in filled}
  IN [ty EXCEPT !.attrs = @ @@ [n \in keys |->
                    [Declared(TRUE, create.params[n].required) EXCEPT !.wire = n]],
                !.create.query = [i \in DOMAIN query |->
                    IF i \in filled THEN [query[i] EXCEPT !.value = MM(query[i].key)] ELSE query[i]]]

\* dropUnpublishedCreateQuery: the API refuses a parameter it does not know.
DropUnpublishedCreateQuery(src, ty) ==
  [ty EXCEPT !.create.query = SelectSeq(@, LAMBDA kv :
     \E p \in DOMAIN CreateMethod(src).params : SameWord(p, kv.key))]

\* dropUnfillableQuery: a value that no id and no attribute supplies.
DropUnfillableQuery(ty, tmpl) ==
  LET known == ScopeSettings \cup PlaceholderNames(ty.self)
               \cup UNION {{n, ty.attrs[n].wire} \cup ty.attrs[n].also : n \in DOMAIN ty.attrs}
  IN [tmpl EXCEPT !.query = SelectSeq(@, LAMBDA kv :
        IsPlaceholder(kv.value) => \E n \in known : SameWord(n, kv.value.name))]

-----------------------------------------------------------------------------
(* Refusals, and the whole *)

\* checkSelfLinkIsInsideTheCreateCollection
SelfLinkIsInsideTheCreateCollection(ty) ==
  LET coll == CollectionPath(ty)
  IN \/ coll = <<>> \/ ty.self.path = <<>>
     \/ \E i \in DOMAIN coll : coll[i].kind = "rest"
     \/ \E i \in DOMAIN ty.self.path : ty.self.path[i].kind = "rest"
     \/ IsPrefix(AnyShape(coll), AnyShape(ty.self.path))

AddressShips(src, ty) ==
  /\ SelfLinkIsInsideTheCreateCollection(ty)
  /\ src.mm.deleteVerb \in {"", "DELETE"}
  /\ "delete" \in DOMAIN src.methods => src.methods["delete"].verb = "DELETE"
  /\ \A i \in DOMAIN ty.create.query : ty.create.query[i].value # PreCreateToken

\* endpointTemplate: the declared host is the one of every location.
Regional(src, ty) ==
  src.mm.regional /\ \E i \in DOMAIN ty.self.path : ty.self.path[i] = Lit("locations")

FromSources(src) ==
  LET self == ReadAddress(src)
  IN [attrs |-> TypeAttrs(src), base |-> src.mm.base, create |-> src.mm.create, self |-> self,
      delete |-> src.mm.delete, update |-> src.mm.update,
      imports |-> IF src.mm.imports = <<>> THEN <<self.path>> ELSE src.mm.imports,
      prefix |-> <<>>, bindings |-> NoAttrs, createVerb |-> "POST", wrapper |-> Wrapped(src),
      readVia |-> src.readVia, regional |-> FALSE, service |-> src.service,
      updateVerb |-> "", updateMask |-> FALSE, updateWrapper |-> "", oneField |-> FALSE,
      setters |-> <<>>, clear |-> {}]

\* Once the templates are where they act: parents, versions, bindings and create ids.
Filled(src, ty) ==
  LET versioned == WithVersionInPrefix(src, WithParentsBound(src, ty))
      bound     == SpellOutBoundParents(CreateBindings(src, ShownImports(src, versioned)))
      declared  == DeclareCreateURLParameters(bound)
      asked     == AddCreateIDParameter(src, BindCreateQueryID(src, declared))
  IN DropUnpublishedCreateQuery(src, FillPreCreateTokens(src, asked))

Finished(src, ty) ==
  [ty EXCEPT !.regional = Regional(src, ty),
             !.update = DropUnfillableQuery(ty, @), !.delete = DropUnfillableQuery(ty, @)]
=============================================================================
