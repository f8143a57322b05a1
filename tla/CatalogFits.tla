----------------------------- MODULE CatalogFits -----------------------------
(***************************************************************************)
(* What a type and the API it was derived from agree on, and the resources *)
(* that such a type makes: stated for one type at a time, of what Build    *)
(* made of it.  Under it the properties of Catalog are proved in           *)
(* CatalogProofs, for every history of releases.                           *)
(***************************************************************************)
EXTENDS Catalog

-----------------------------------------------------------------------------
(* Texts and paths *)

(* What a text is made of: words and separators.  (The separators are      *)
(* strings too, but the provers do not know that of a literal.)            *)
Tokens == STRING \cup {"/", "%2F", "%252F"}

Segment == [kind : {"lit", "mm", "one", "rest"}, name : Tokens]

(* A path whose placeholders each take one segment, but for a last one     *)
(* that may take the rest.                                                 *)
IsTemplate(path) ==
  /\ path \in Seq(Segment)
  /\ path # <<>>
  /\ \A i \in 1..Len(path) : /\ path[i].kind = "rest" => i = Len(path)
                             /\ path[i].kind = "lit" => path[i].name # "/"

\* An id, and a path that asks for every value once.
IsId(id) == id \in Seq(Tokens) /\ id # <<>> /\ id[1] # "/"

OnceEach(path) ==
  \A i, j \in 1..Len(path) :
    IsPlaceholder(path[i]) /\ IsPlaceholder(path[j]) /\ path[i].name = path[j].name => i = j

-----------------------------------------------------------------------------
(* A type and its API *)

GetPath(src) == FlatPath(Method(src, "get"))

\* The urls and ids of a type: paths that ask for every value once, none of
\* them for one that a create binds to a path.
UrlsAreTemplates(ty) ==
  /\ ty.self = Path(ty.self.path)
  /\ ty.imports \in Seq(Seq(Segment))
  /\ \A i \in DOMAIN ImportTemplates(ty) :
       LET path == ImportTemplates(ty)[i]
       IN  IsTemplate(path) /\ OnceEach(path) /\ SpelledOut(ty, path) = path

\* A collection that self is in is called by the same names (itemURL).
CollectionFits(ty) ==
  /\ ty.base.path \in Seq(Segment)
  /\ WithoutTrailingSlash(ty.base.path) = ty.base.path
  /\ \A i \in DOMAIN ty.base.path :
       IsPlaceholder(ty.base.path[i]) => ty.base.path[i].name = ty.self.path[i].name

\* A get, published at a path that begins with a word, with nothing in its
\* query that it must have.
GetIsPublished(src) ==
  LET get  == Method(src, "get")
      path == FlatPath(get)
  IN  /\ "get" \in DOMAIN src.methods
      /\ src.api.roles["get"] = {"get"}
      /\ get.verb = "GET"
      /\ \A p \in DOMAIN get.params : ~ (get.params[p].in = "query" /\ get.params[p].required)
      /\ IsTemplate(path)
      /\ path[1].kind = "lit" /\ path[1].name # ""

\* The whole id is the resource's name, or self is the get's path.
SelfIsTheGets(t) ==
  LET self == t.ty.self.path
      path == GetPath(t.src)
  IN  \/ IsBareCapture(self) /\ Len(path) > 1
      \/ Last(self).kind # "rest" /\ Shape(path) = Shape(self)

\* An answer tells the resource's full name, or the link to it.
AnswersTell(t) ==
  LET link   == t.src.api.link
      prefix == t.ty.prefix
  IN  \/ t.src.api.names = "full" /\ link = <<>>
      \/ /\ link \in Seq(Tokens) /\ link # <<>> /\ link[Len(link)] = "/"
         /\ prefix # <<>> /\ \A i \in DOMAIN link : link[i] # prefix[1]

(* A type that is read by its own get, at the API's one host, under urls   *)
(* that fit the API's.                                                     *)
FitsItsApi(t) ==
  /\ t.ty.readVia = "" /\ ~ t.ty.regional /\ ~ t.src.mm.regional
  /\ UrlsAreTemplates(t.ty)
  /\ CollectionMatches(t.ty.base.path, t.ty.self.path) => CollectionFits(t.ty)
  /\ t.ty.prefix = ApiPrefix(t.src) /\ t.ty.prefix \in Seq(Tokens)
  /\ GetIsPublished(t.src)
  /\ SelfIsTheGets(t)
  /\ AnswersTell(t)

\* A resource with an id, and nothing to escape in the last segment of it:
\* itemURL escapes that once more.
IsResource(obj) ==
  /\ IsId(obj.key)
  /\ \A j \in DOMAIN LastPathSegment(obj.key) : LastPathSegment(obj.key)[j] # "%2F"
  /\ "selfLink" \notin DOMAIN obj.fields

-----------------------------------------------------------------------------
(* What is created *)

\* What a create's url is made of, and the request.
ScopeOfNew(t) == WithCreateBindings(t.ty, WithScope(Settings, Configured(t)))
NewRequest(t) == CreateRequest(t, Configured(t), ScopeOfNew(t))

\* Self is the create's collection, called by the same values, and one more
\* segment, which is what the create calls the resource.
FillsSelf(t) ==
  LET self  == t.ty.self.path
      coll  == CollectionPath(t.ty)
      known == FillLastFromName(self, WireAliases(t.ty, ScopeOfNew(t)))
      last  == self[Len(self)]
  IN  /\ CollectionMatches(coll, self)
      /\ \A i \in DOMAIN coll : IsPlaceholder(coll[i]) =>
           self[i].name \in DOMAIN known /\ known[self[i].name] = ScopeOfNew(t)[coll[i].name]
      /\ IsPlaceholder(last) /\ last.name \in DOMAIN known /\ known[last.name] \in Seq(Tokens)
      /\ GivenID(t.src, NewRequest(t)) = Escape(known[last.name])

\* Self is one value, the full name; the create calls the resource by the
\* short one.
FillsCollection(t) ==
  LET self  == t.ty.self.path
      coll  == CollectionPath(t.ty)
      known == WireAliases(t.ty, ScopeOfNew(t))
      from  == IF self[1].name \in DOMAIN known THEN self[1].name ELSE "name"
  IN  /\ IsBareCapture(self) /\ ~ IsBareCapture(coll) /\ Shape(coll) # Shape(self)
      /\ from \in DOMAIN known /\ known[from] \in Seq(Tokens) /\ ~ HasSlash(known[from])
      /\ GivenID(t.src, NewRequest(t)) = known[from]

\* The provider knows the id without an answer.
ComputesTheID(t) ==
  LET coll == CollectionPath(t.ty)
  IN  /\ t.src.api.from \notin {"path", "server"}
      /\ coll = CreateTemplate(t.ty).path /\ coll \in Seq(Segment)
      /\ \A i \in DOMAIN coll : IsPlaceholder(coll[i]) => ScopeOfNew(t)[coll[i].name] \in Seq(Tokens)
      /\ ExpandPath(coll, ScopeOfNew(t)) # <<>>
      /\ FillsSelf(t) \/ FillsCollection(t)

\* The create is answered with the resource or the link to it, and that is
\* inside of the collection it was sent to.
IsToldInside(t) ==
  /\ t.src.api.waits \in {"resource", "link"}
  /\ ~ OutsideCreatedCollection(t.ty, CreateTemplate(t.ty).path, MadeBy(t, NewRequest(t)).key, ScopeOfNew(t))

\* A create that the API answers makes a resource with an id that its get
\* accepts; where it does not tell that id, the provider computes it.
CreateFits(t) ==
  LET obj == MadeBy(t, NewRequest(t))
  IN  /\ Fillable(CreateTemplate(t.ty), ScopeOfNew(t))
      /\ Published(t.src, NewRequest(t)) /\ GivenID(t.src, NewRequest(t)) # NoId
      => /\ IsResource(obj) /\ Matches(GetPath(t.src), obj.key)
         /\ t.src.api.waits \notin {"resource", "any"} => t.src.api.link # <<>>
         /\ ComputesTheID(t) \/ IsToldInside(t)

\* What a person may call the resource by is made of texts.
KnownByTexts(t) ==
  LET says == WithScope(Settings, t.src.api.user)
  IN  \A n \in DOMAIN says : says[n] \in Seq(Tokens)

Fits(t) == FitsItsApi(t) /\ CreateFits(t) /\ KnownByTexts(t)

-----------------------------------------------------------------------------
(* What is sent *)

\* Segments that say the same.
SaidAlike(a, b) ==
  a = b \/ (a.name = b.name /\ a.kind \in {"one", "mm"} /\ b.kind \in {"one", "mm"})

\* A path that takes one segment at a time, as the method's own does.
OneByOne(path, flat) ==
  /\ IsTemplate(path) /\ IsTemplate(flat) /\ Shape(flat) = Shape(path)
  /\ path[1].kind = "lit" /\ path[1].name # ""
  /\ path[Len(path)].kind # "rest"

\* A query of what the method takes, and of everything that it must have.
AsksFor(query) == {query[i].key : i \in DOMAIN query}

QueryFits(method, keys) ==
  /\ \A key \in keys : InQuery(method, key)
  /\ \A p \in DOMAIN method.params :
       method.params[p].in = "query" /\ method.params[p].required => p \in keys

\* Everything in a template is in self, or called by the word for the last segment.
SaysWhatSelfDoes(t, tmpl) == PlaceholderNames(tmpl) \subseteq PlaceholderNames(t.ty.self) \cup {"name"}

\* The resource's own address.
IsOwnAddress(t, tmpl) == tmpl = NoTemplate \/ tmpl.path = t.ty.self.path

\* A method that is published where the template says.
ServedAt(t, tmpl, method) ==
  \/ IsOwnAddress(t, tmpl) /\ FlatPath(method) = GetPath(t.src)
  \/ OneByOne(tmpl.path, FlatPath(method))

HasMethod(t, role, verb, tmpl, keys) ==
  /\ SaysWhatSelfDoes(t, tmpl)
  /\ \E m \in t.src.api.roles[role] :
       LET method == Method(t.src, m)
       IN  method.verb = verb /\ QueryFits(method, keys) /\ ServedAt(t, tmpl, method)

\* An update carries its body as the method takes it, and a mask with it.
UpdateKeys(ty) == AsksFor(ty.update.query) \cup (IF ty.updateMask THEN {"updateMask"} ELSE {})

HasUpdate(t) ==
  /\ SaysWhatSelfDoes(t, t.ty.update)
  /\ \E m \in t.src.api.roles["update"] :
       LET method == Method(t.src, m)
       IN  /\ method.verb = t.ty.updateVerb
           /\ QueryFits(method, UpdateKeys(t.ty)) /\ ServedAt(t, t.ty.update, method)
           /\ t.ty.updateWrapper # "" <=> method.body = "other"

\* A create is sent to its collection, or to the full name that it makes.
HasCreate(t) ==
  LET tmpl  == CreateTemplate(t.ty)
      path  == tmpl.path
      value == ScopeOfNew(t)[path[1].name]
  IN  \E m \in t.src.api.roles["create"] :
        LET method == Method(t.src, m)
        IN  /\ method.verb = t.ty.createVerb
            /\ QueryFits(method, AsksFor(tmpl.query))
            /\ t.ty.wrapper <=> method.body = "other"
            /\ \/ /\ OneByOne(path, FlatPath(method))
                  /\ \A i \in DOMAIN path : IsPlaceholder(path[i]) => ScopeOfNew(t)[path[i].name] \in Seq(Tokens)
               \/ /\ path \in Seq(Segment) /\ IsBareCapture(path)
                  /\ value \in Seq(Tokens) /\ Matches(FlatPath(method), value)

CanBeMade(t) == UnresolvedCreatePlaceholders(t.ty) = {} /\ Fillable(CreateTemplate(t.ty), ScopeOfNew(t))

\* The last segment of self, or the word for it.
SaysTheLast(t, seg) ==
  LET last == Last(t.ty.self.path)
  IN  \/ SaidAlike(seg, last)
      \/ /\ "name" \notin PlaceholderNames(t.ty.self)
         /\ SaidAlike(seg, One("name")) /\ last.kind \in {"one", "mm"}

(* About the resource: at its own address or further down, or at what that *)
(* is in, with the last segment of it in the query.                        *)
AtTheItem(t, tmpl) ==
  LET self == t.ty.self.path
      n    == Len(self)
  IN  \/ IsOwnAddress(t, tmpl)
      \/ /\ ~ IsBareCapture(self) /\ Len(tmpl.path) >= n
         /\ \A i \in 1..n - 1 : SaidAlike(tmpl.path[i], self[i])
         /\ SaysTheLast(t, tmpl.path[n])
      \/ /\ Len(tmpl.path) = n - 1
         /\ \A i \in 1..n - 1 : SaidAlike(tmpl.path[i], self[i])
         /\ LET seg == tmpl.query[1].value IN
            tmpl.query = << [key |-> t.src.api.item, value |-> seg] >> /\ SaysTheLast(t, seg)
         /\ t.src.api.item # "updateMask"

(* Every role of a type has a method of its API: in its own templates, the *)
(* queries that they have and the bodies that its requests carry.  What a  *)
(* create says is enough for an id.                                        *)
RequestsFit(t) ==
  /\ HasMethod(t, "delete", "DELETE", t.ty.delete, AsksFor(t.ty.delete.query)) /\ AtTheItem(t, t.ty.delete)
  /\ t.ty.updateVerb # "" => HasUpdate(t)
  /\ \A s \in Setters(t.ty) : HasMethod(t, "setter", s.verb, Path(s.path), {})
  /\ CanBeMade(t) => HasCreate(t) /\ GivenID(t.src, NewRequest(t)) # NoId

-----------------------------------------------------------------------------
(* What comes back *)

Wires(ty) == {ty.attrs[n].wire : n \in DOMAIN ty.attrs}

\* What an answer tells of the resource itself, and the fields that some type
\* may have it hold.
Labels == {"name", "selfLink"}
EveryWire == UNION {UNION {Wires(r.types[c].ty) : c \in DOMAIN r.types} : r \in Offered}

\* None of these fields is spelt as an attribute that is called otherwise.
SpeltApart(ty, wires) == \A a \in DOMAIN ty.attrs \cap wires : ty.attrs[a].wire = a

\* An attribute is the only one of its field.
OneSpelling(ty) ==
  /\ \A a, b \in DOMAIN ty.attrs : ty.attrs[a].wire = ty.attrs[b].wire => a = b
  /\ \A a \in DOMAIN ty.attrs : ty.attrs[a].wire \in Labels => ty.attrs[a].wire = a
  /\ SpeltApart(ty, Labels)

\* What changes in place is honoured, and no setter sends the whole.
HonoursChanges(t) ==
  \A a \in DOMAIN t.ty.attrs \ t.src.api.fixed : ChangesInPlace(t, a) =>
    /\ t.ty.attrs[a].wire \notin Labels
    /\ \A s \in SetterOf(t.ty, a) : s.verb # "PUT"
    /\ SetterOf(t.ty, a) # {} \/ t.ty.updateVerb = "PUT" \/ t.ty.attrs[a].wire \in t.src.api.honours

ChangesTheItem(t) ==
  /\ t.ty.updateVerb # "" => AtTheItem(t, t.ty.update)
  /\ \A s \in Setters(t.ty) : AtTheItem(t, Path(s.path))

IdSays(t, id) == SchemaAttrs(t.ty, ParseProviderID(t.ty, id))

\* GCP answers the name that was configured: the last segment of the full
\* name; or the full name, which state shows whole or by its last segment.
NameComesBack(t, key, name) ==
  LET self  == t.ty.self.path
      short == IsPlaceholder(Last(self)) /\ Last(self).name = "name" /\ Last(self).kind # "rest" /\ Len(self) > 1
  IN  \/ t.src.api.names = "short" /\ name = Unescape(LastPathSegment(key)) /\ ~ HasSlash(name)
      \/ /\ t.src.api.names = "full"
         /\ \/ name = LastPathSegment(key) /\ Len(Segments(key)) > 1 /\ (short \/ IsBareCapture(self))
            \/ name = key /\ ~ short /\ HasSlash(name)

(* Whatever is configured is sent in the body; or only the id says it, or   *)
(* nothing does and the create alone takes it; or it is the name.           *)
ComesBack(t) ==
  LET new  == Configured(t)
      req  == NewRequest(t)
      key  == MadeBy(t, req).key
      says == IdSays(t, key)
  IN  \A a \in DOMAIN new :
        LET wire == t.ty.attrs[a].wire IN
        \/ a = "name" /\ NameComesBack(t, key, new[a])
        \/ wire \in DOMAIN req.body.resource \ Labels
        \/ /\ wire \notin DOMAIN req.body.resource \cup Labels
           /\ IF a \in DOMAIN says THEN says[a] = new[a] ELSE t.ty.attrs[a].createOnly

(* Another name for the resource says of it what the full name says, or    *)
(* what the create alone takes.                                            *)
OtherNamesAgree(t) ==
  \A i \in DOMAIN t.ty.imports :
    LET known == WithScope(Settings, t.src.api.user)
        id    == ExpandPath(t.ty.imports[i], known)
        key   == ItemKey(t.src, ReadRequest(t, id))
        given == ParseProviderID(t.ty, id)
        short == IdSays(t, id)
        full  == IdSays(t, key)
    IN  Fillable(Path(t.ty.imports[i]), known) =>
          \A a \in DOMAIN t.ty.attrs \ {"name"} :
            /\ ~ t.ty.attrs[a].output
            /\ a \in DOMAIN short \/ (t.ty.attrs[a].createOnly /\ a \in DOMAIN given)
            => IF a \in DOMAIN full THEN full[a] = (IF a \in DOMAIN short THEN short[a] ELSE given[a])
               ELSE t.ty.attrs[a].createOnly

FieldsFit(t) ==
  /\ OneSpelling(t.ty)
  /\ "name" \in DOMAIN t.ty.attrs => t.src.api.names \in {"short", "full"}
  /\ HonoursChanges(t) /\ ChangesTheItem(t)
  /\ CanBeMade(t) => ComesBack(t)
  /\ OtherNamesAgree(t)

-----------------------------------------------------------------------------
(* What is released *)

Named(n, b) == [name |-> n, ty |-> b.ty, src |-> b.src]

\* Every type of every release fits, under whatever name, and from release
\* to release a key's resources keep the form of their full names.
EverythingFits ==
  /\ \A r \in Offered : \A c \in DOMAIN r.types : \A n \in NameWords : Fits(Named(n, r.types[c]))
  /\ \A r, s \in Offered : \A c \in DOMAIN r.types : \A d \in DOMAIN s.types :
       Key(c) = Key(d) => GetPath(r.types[c].src) = GetPath(s.types[d].src)

\* Every request of every type has a method.
EveryRequestFits ==
  \A r \in Offered : \A c \in DOMAIN r.types : \A n \in NameWords : RequestsFit(Named(n, r.types[c]))

(* A type that is released again keeps its own url, spelt as it was and no *)
(* two of its values alike, and its attributes, of which there may be more *)
(* now; the API tells the resource's name and link as it did.              *)
KeepsType(old, new) ==
  /\ new.ty.self = old.ty.self
  /\ \A m, n \in PlaceholderNames(old.ty.self) : ToSchema(new.ty, m) = ToSchema(old.ty, n) <=> m = n
  /\ \A a \in DOMAIN old.ty.attrs :
       LET was == old.ty.attrs[a]
           is  == new.ty.attrs[a]
       IN  /\ a \in DOMAIN new.ty.attrs /\ is.wire = was.wire
           /\ is.output => was.output
           /\ was.createOnly => is.createOnly
  /\ ApiPrefix(new.src) = ApiPrefix(old.src)
  /\ new.src.api.link = old.src.api.link /\ new.src.api.names = old.src.api.names

\* From release to release a key keeps its type, and whatever some type calls
\* a field, no other has an attribute of that name for another field.
TypesAgree ==
  /\ \A h \in Histories : \A i, j \in DOMAIN h : i <= j =>
       \A c \in DOMAIN h[i].types : \A d \in DOMAIN h[j].types :
         Key(c) = Key(d) => KeepsType(h[i].types[c], h[j].types[d])
  /\ \A r, s \in Offered : \A c \in DOMAIN r.types : \A d \in DOMAIN s.types :
       SpeltApart(r.types[c].ty, Wires(s.types[d].ty))

\* What is configured comes back, of every type.
EveryFieldFits ==
  /\ \A r \in Offered : \A c \in DOMAIN r.types : \A n \in NameWords : FieldsFit(Named(n, r.types[c]))
  /\ TypesAgree
=============================================================================
