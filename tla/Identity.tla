------------------------------- MODULE Identity -------------------------------
(***************************************************************************)
(* What a resource is called and where it is addressed (ids.go, names.go,  *)
(* and the urls and bodies of crud.go, discover.go and listread.go).       *)
(*                                                                         *)
(* A type is a record:                                                     *)
(*   attrs      the attributes by schema name, each with its wire name     *)
(*   base, create, self, delete, update   url templates; create, delete    *)
(*              and update may be NoTemplate                               *)
(*   imports    the paths an import accepts besides self                   *)
(*   prefix     the text between the host and every relative name          *)
(*   bindings   what a create placeholder that is no attribute stands for: *)
(*              another attribute, or a path                               *)
(*   createVerb, wrapper, readVia, regional   further facts of the type    *)
(*                                                                         *)
(* Attributes and bodies are functions from names to texts.                *)
(***************************************************************************)
EXTENDS Templates

NoId == <<>>
NoAttrs == <<>>

ScopeSettings == {"project", "region", "zone", "location"}

CreateTemplate(ty) == IF ty.create = NoTemplate THEN ty.base ELSE ty.create

CollectionPath(ty) == WithoutTrailingSlash(CreateTemplate(ty).path)

-----------------------------------------------------------------------------
(* Names (names.go): configuration and state use schema names, GCP wire    *)
(* names.                                                                  *)

ToWire(ty, name) == IF name \in DOMAIN ty.attrs THEN ty.attrs[name].wire ELSE name

Spellings(ty, wire) == {name \in DOMAIN ty.attrs : ty.attrs[name].wire = wire}

ToSchema(ty, wire) ==
  IF wire \in Spellings(ty, wire) \/ Spellings(ty, wire) = {} THEN wire
  ELSE CHOOSE name \in Spellings(ty, wire) : TRUE

\* TopLevelAttr: an attribute of this name in either spelling.
AttrsNamed(ty, name) ==
  IF name \in DOMAIN ty.attrs THEN {name} ELSE Spellings(ty, name)

SettableAs(ty, name) == \E a \in AttrsNamed(ty, name) : ~ty.attrs[a].output

SchemaAttrs(ty, body) ==
  [name \in {ToSchema(ty, wire) : wire \in DOMAIN body} |->
     body[CHOOSE wire \in DOMAIN body : ToSchema(ty, wire) = name]]

\* Every renamed attribute under its wire name as well.
WireAliases(ty, attrs) ==
  Extend(attrs, [wire \in {ToWire(ty, name) : name \in DOMAIN attrs} |->
                   attrs[CHOOSE name \in DOMAIN attrs : ToWire(ty, name) = wire]])

DeclaredIDAttrs(ty, spelt) == Restrict(spelt, DOMAIN ty.attrs \cap DOMAIN spelt)

-----------------------------------------------------------------------------
(* What fills a create url *)

\* withScope: the instance's settings under what the resource itself says.
WithScope(settings, attrs) == Extend(attrs, settings)

BoundToPath(ty) == {n \in DOMAIN ty.bindings : ty.bindings[n].attr = ""}

\* One pass of withCreateBindings; a value that is there already wins.
BindOnce(ty, attrs) ==
  LET resolves(n) == IF n \in BoundToPath(ty) THEN Fillable(Path(ty.bindings[n].path), attrs)
                     ELSE ty.bindings[n].attr \in DOMAIN attrs
  IN Extend(attrs, [n \in {m \in DOMAIN ty.bindings : resolves(m)} |->
                      IF n \in BoundToPath(ty) THEN ExpandPath(ty.bindings[n].path, attrs)
                      ELSE attrs[ty.bindings[n].attr]])

\* Twice, because a binding's path may name another binding.
WithCreateBindings(ty, attrs) == BindOnce(ty, BindOnce(ty, attrs))

\* What nothing fills.  A binding's path may ask for the very name it is to
\* resolve, and is no answer to that.
UnresolvedCreatePlaceholders(ty) ==
  LET inner(n) == IF n \in BoundToPath(ty) \ ScopeSettings
                  THEN PlaceholderNames(Path(ty.bindings[n].path)) ELSE {}
      asked(names) == names \cup UNION {inner(n) : n \in names}
  IN {n \in asked(asked(PlaceholderNames(CreateTemplate(ty)))) :
        /\ n \notin ScopeSettings /\ ~SettableAs(ty, n)
        /\ n \in DOMAIN ty.bindings => n \in inner(n)}

-----------------------------------------------------------------------------
(* The id of a resource (ProviderID) *)

\* The first occurrence of prefix at a segment boundary, 0 if there is none.
FirstAnchored(text, prefix) ==
  LET at == {i \in 1 .. Len(text) - Len(prefix) + 1 :
               /\ i = 1 \/ text[i - 1] = "/"
               /\ SubSeq(text, i, i + Len(prefix) - 1) = prefix}
  IN IF at = {} THEN 0 ELSE CHOOSE i \in at : \A j \in at : i <= j

\* reduceSelfLink: by the API's own prefix, whatever the host.
ReduceSelfLink(ty, link) ==
  IF ty.prefix = <<>> \/ FirstAnchored(link, ty.prefix) = 0 THEN NoId
  ELSE SubSeq(link, FirstAnchored(link, ty.prefix) + Len(ty.prefix), Len(link))

NameIsAlreadyTheID(ty, body) ==
  /\ "name" \in DOMAIN body
  /\ Matches(ty.self.path, body["name"])
  /\ IsBareCapture(ty.self.path) => HasSlash(body["name"])

\* bareCaptureID: the collection a short name was made in, and the name.
BareCaptureID(ty, coll, attrs) ==
  LET ph   == ty.self.path[1].name
      from == IF ph \in DOMAIN attrs THEN ph ELSE "name"
  IN IF /\ IsBareCapture(ty.self.path)
        /\ from \in DOMAIN attrs
        /\ ~HasSlash(attrs[from])
        /\ ~IsBareCapture(coll)
        /\ Shape(coll) # Shape(ty.self.path)
        /\ Fillable(Path(coll), attrs)
     THEN ExpandPath(coll, attrs) \o <<"/">> \o attrs[from]
     ELSE NoId

DirectlyIn(text, head) ==
  IsStrictPrefix(head, text) /\ ~HasSlash(SubSeq(text, Len(head) + 1, Len(text)))

\* nameInOwnCollection: a full name directly inside the create collection.
NameInOwnCollection(coll, body, attrs) ==
  /\ "name" \in DOMAIN body
  /\ HasSlash(body["name"])
  /\ Fillable(Path(coll), attrs)
  /\ DirectlyIn(body["name"], Unescape(ExpandPath(coll, attrs)) \o <<"/">>)

\* The resource's name for a last placeholder that nothing else fills.
FillLastFromName(path, attrs) ==
  IF /\ IsPlaceholder(Last(path))
     /\ "name" \notin PlaceholderNames(Path(path))
     /\ "name" \in DOMAIN attrs
  THEN Extend(attrs, [n \in {Last(path).name} |-> LastPathSegment(attrs["name"])])
  ELSE attrs

FilledID(path, attrs) == IF Fillable(Path(path), attrs) THEN ExpandPath(path, attrs) ELSE NoId

(* Mutant: nothing but the attribute itself fills a placeholder. *)
ComputedID_Unfilled(ty, coll, body, known) ==
  LET bare == BareCaptureID(ty, coll, known) IN
  IF bare # NoId THEN bare
  ELSE IF NameInOwnCollection(coll, body, known) THEN body["name"]
  ELSE FilledID(ty.self.path, known)

ComputedID(ty, coll, body, known) ==
  LET bare == BareCaptureID(ty, coll, known) IN
  IF bare # NoId THEN bare
  ELSE IF NameInOwnCollection(coll, body, known) THEN body["name"]
  ELSE FilledID(ty.self.path, FillLastFromName(ty.self.path, known))

\* What GCP answered wins over what the caller knows.  NoId is an error.
ProviderID(ty, body, attrs) ==
  IF "selfLink" \in DOMAIN body THEN ReduceSelfLink(ty, body["selfLink"])
  ELSE IF NameIsAlreadyTheID(ty, body) THEN body["name"]
  ELSE ComputedID(ty, CollectionPath(ty), body, WireAliases(ty, Extend(body, attrs)))

-----------------------------------------------------------------------------
(* An id parses back (ParseProviderID) *)

\* A path with every placeholder that is bound to a path spelled out.
SpelledOut(ty, path) ==
  FlattenSeq([i \in DOMAIN path |->
    IF path[i].kind \in {"mm", "one"} /\ path[i].name \in BoundToPath(ty)
    THEN ty.bindings[path[i].name].path
    ELSE <<path[i]>>])

\* Where self is shown again, it has had its turn.
ImportTemplates(ty) == <<ty.self.path>> \o ty.imports

MatchesBound(ty, path, id) == SpelledOut(ty, path) # path /\ Matches(SpelledOut(ty, path), id)

Accepting(ty, id) ==
  {i \in DOMAIN ImportTemplates(ty) :
     LET path == ImportTemplates(ty)[i] IN Matches(path, id) \/ MatchesBound(ty, path, id)}

Parses(ty, id) == Accepting(ty, id) # {}

FirstAccepting(ty, id) ==
  ImportTemplates(ty)[CHOOSE i \in Accepting(ty, id) : \A j \in Accepting(ty, id) : i <= j]

\* What is bound to a path is what the path says of it.
WithBound(ty, found) ==
  Extend([n \in {m \in BoundToPath(ty) : Fillable(Path(ty.bindings[m].path), found)} |->
            Unescape(ExpandPath(ty.bindings[n].path, found))], found)

ParsedBy(ty, path, id) ==
  IF Matches(path, id) THEN Captures(path, id) ELSE WithBound(ty, Captures(SpelledOut(ty, path), id))

ParseProviderID(ty, id) == ParsedBy(ty, FirstAccepting(ty, id), id)

-----------------------------------------------------------------------------
(* The identity of what was just created (createdID) *)

\* collectionMatchesSelfLink: self is the collection and one more segment.
CollectionMatches(path, self) ==
  /\ Len(self) > 1
  /\ Last(self).kind # "rest"
  /\ Shape(path) = Shape(Front(self))

(* Mutant: whatever the operation names is believed. *)
OutsideCreatedCollection_Never(ty, tmpl, id, attrs) == FALSE

OutsideCreatedCollection(ty, tmpl, id, attrs) ==
  LET coll == ExpandPath(WithoutTrailingSlash(tmpl), attrs)
      head == Unescape(coll) \o <<"/">>
  IN /\ Fillable(Path(tmpl), attrs)
     /\ id # coll
     /\ \/ ~IsPrefix(head, id)
        \/ /\ CollectionMatches(tmpl, ty.self.path)
           /\ HasSlash(SubSeq(id, Len(head) + 1, Len(id)))

\* Whatever the operation brought, the resource is in the collection it was
\* created in; the request knows where that is.
TrustedID(ty, awaited, attrs, id) ==
  IF /\ awaited # NoAttrs
     /\ id = NoId \/ OutsideCreatedCollection(ty, CreateTemplate(ty).path, id, attrs)
  THEN ProviderID(ty, NoAttrs, attrs) ELSE id

CreatedID(ty, awaited, attrs) == TrustedID(ty, awaited, attrs, ProviderID(ty, awaited, attrs))

-----------------------------------------------------------------------------
(* Requests *)

\* baseURLFor: a regional type is served by the endpoint of its location.
HostFor(ty, rel) ==
  LET segs == Segments(rel)
      at   == {i \in 1 .. Len(segs) - 1 : segs[i] = <<"locations">>}
  IN IF ty.regional /\ at # {}
     THEN segs[(CHOOSE i \in at : \A j \in at : i <= j) + 1]
     ELSE <<"global">>

AbsURL(ty, rel, query) ==
  [host |-> HostFor(ty, rel), path |-> ty.prefix \o rel, query |-> query]

Expanded(ty, tmpl, attrs) ==
  AbsURL(ty, ExpandPath(tmpl.path, attrs), ExpandQuery(tmpl.query, attrs))

NoUrl == [host |-> <<>>, path |-> <<>>, query |-> {}]

\* itemURL: an explicit template, the collection and the id's last segment
\* where that is self's shape, or self.  NoUrl is an error.  Only an explicit
\* template may ask for the last segment by the word "name".
ItemURL(ty, tmpl, id, attrs) ==
  LET at(template, known) == IF Fillable(template, known) THEN Expanded(ty, template, known) ELSE NoUrl
  IN CASE tmpl # NoTemplate -> at(tmpl, Extend(attrs, [name |-> LastPathSegment(id)]))
       [] /\ tmpl = NoTemplate
          /\ CollectionMatches(ty.base.path, ty.self.path)
          /\ Fillable(ty.base, attrs) ->
            AbsURL(ty, ExpandPath(WithoutTrailingSlash(ty.base.path), attrs)
                       \o <<"/">> \o Escape(LastPathSegment(id)), {})
       [] OTHER -> at(ty.self, attrs)

\* requestBody: what the url says and what GCP computes stay out of it, and
\* create-time parameters stay outside the wrapper.
RequestBody(ty, tmpl, attrs) ==
  LET sent == {n \in DOMAIN attrs : /\ {n, ToWire(ty, n)} \cap PlaceholderNames(tmpl) = {}
                                    /\ n \in DOMAIN ty.attrs => ~ty.attrs[n].output}
      top  == {n \in sent : ty.wrapper /\ n \in DOMAIN ty.attrs /\ ty.attrs[n].createOnly}
      fields(names) == [w \in {ToWire(ty, n) : n \in names} |->
                          attrs[CHOOSE n \in names : ToWire(ty, n) = w]]
  IN [beside |-> fields(top), resource |-> fields(sent \ top)]

-----------------------------------------------------------------------------
(* The state made of an answer (stateFrom) *)

(* Mutant: the name is recorded as it was answered. *)
ShortNameFromOwnID_AsAnswered(ty, id, attrs, reference) == attrs

\* shortNameFromOwnID: name as this type's schema means it, when the answer
\* is the full name of the resource at id.
ShortNameFromOwnID(ty, id, attrs, reference) ==
  LET got   == Segments(attrs["name"])
      want  == Segments(id)
      short == /\ IsPlaceholder(Last(ty.self.path)) /\ Last(ty.self.path).name = "name"
               /\ Last(ty.self.path).kind # "rest" /\ Len(ty.self.path) > 1
      wroteShort == /\ IsBareCapture(ty.self.path)
                    /\ "name" \in DOMAIN reference /\ ~HasSlash(reference["name"])
  IN IF /\ "name" \in DOMAIN ty.attrs /\ ~ty.attrs["name"].output
        /\ "name" \in DOMAIN attrs
        /\ short \/ wroteShort
        /\ Len(got) > 1 /\ Len(want) > 1
        /\ SubSeq(got, Len(got) - 1, Len(got)) = SubSeq(want, Len(want) - 1, Len(want))
     THEN [attrs EXCEPT !["name"] = Last(got)]
     ELSE attrs

StateOf(ty, id, whole, reference) ==
  LET named == ShortNameFromOwnID(ty, id, whole, reference)
  IN [id |-> id, attrs |-> Restrict(named, DOMAIN named \cap DOMAIN ty.attrs)]

(* Mutant: the id that was asked for is kept. *)
StateFrom_KeepsTheID(ty, settings, current, idAttrs, body) ==
  StateOf(ty, current.id, Extend(SchemaAttrs(ty, body), DeclaredIDAttrs(ty, SchemaAttrs(ty, idAttrs))), current.attrs)

\* The scope the id names, under what was answered; what only a create takes
\* is carried over; what the type does not declare is dropped.
StateFrom(ty, settings, current, idAttrs, body) ==
  LET made    == ProviderID(ty, body, WithScope(settings, idAttrs))
      carried == {n \in DOMAIN ty.attrs \cap DOMAIN current.attrs : ty.attrs[n].createOnly}
      said    == Extend(SchemaAttrs(ty, body), DeclaredIDAttrs(ty, SchemaAttrs(ty, idAttrs)))
      whole   == Extend(said, Restrict(current.attrs, carried))
  IN StateOf(ty, IF made = NoId THEN current.id ELSE made, whole, current.attrs)

\* bestEffortState: what Create knows when nothing can be read yet.
BestEffortState(ty, id, desired, awaited) ==
  StateOf(ty, id, Extend(SchemaAttrs(ty, awaited), desired), desired)

-----------------------------------------------------------------------------
(* A type with no get is read by listing its parent (listread.go) *)

IsFullResourceName(text) ==
  /\ Len(text) > 2 /\ text[1] = "/" /\ text[2] = "/"
  /\ Len(SelectSeq(text, LAMBDA token : token = "/")) >= 3

\* listParent: the full resource name the id carries in a segment, else the
\* instance's own project.
ListParent(ty, settings, id) ==
  LET carried == SelectSeq(Segments(id), LAMBDA seg :
                   (\E i \in DOMAIN seg : seg[i] = "%2F") /\ IsFullResourceName(Unescape(seg)))
  IN IF carried # <<>> THEN Unescape(Head(carried))
     ELSE <<"/", "/", ty.service, "/", "projects", "/">> \o settings["project"]

NamesSameResource(item, id) ==
  \E field \in {"name", "selfLink"} \cap DOMAIN item :
    \/ item[field] = id
    \/ LastPathSegment(item[field]) = LastPathSegment(id)
=============================================================================
