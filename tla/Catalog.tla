------------------------------- MODULE Catalog -------------------------------
(***************************************************************************)
(* From what an API publishes to a resource in it: Build (gen/build.go)    *)
(* generates a catalog of types, releases follow one another, and under a  *)
(* served type one resource is created, read, imported, changed and        *)
(* deleted (gcprov/crud.go, patch.go, listread.go) through the urls,       *)
(* bodies and ids that the type's templates give.                          *)
(*                                                                         *)
(* Every call is one step here: what happens inside one is in Create.tla,  *)
(* Update.tla, Delete.tla and Refresh.tla.  What is checked is that what   *)
(* was derived from the documents fits the API they describe, so the API   *)
(* itself is here too (api in a source, external).                         *)
(***************************************************************************)
EXTENDS Collections, Naming

CONSTANTS
  Histories,  \* sequences of what Build makes of a corpus, one for a release
  Settings    \* the instance's project, region, zone and location

Offered == UNION {{h[i] : i \in DOMAIN h} : h \in Histories}

ASSUME CatalogAssumption ==
  /\ Histories \subseteq Seq(Offered)
  /\ \A r \in Offered : r.named \in Generations /\ DOMAIN r.types \subseteq r.named

VARIABLES
  releases, \* what is still to be released
  types,    \* the served types by name: [name, ty, src]
  object,   \* the resource in GCP, or NoObject
  record,   \* the resource in state, or NoRecord
  config,   \* what configuration says of it
  sent      \* the last request: [role, verb, type, url, body]

life == <<object, record, config, sent>>
vars == <<naming, releases, types, life>>

NoObject == [key |-> NoId, fields |-> NoAttrs]
NoRecord == [type |-> <<>>, id |-> NoId, attrs |-> NoAttrs]
NoBody == [beside |-> NoAttrs, resource |-> NoAttrs, enveloped |-> FALSE]
NoRequest == [role |-> "none"]

-----------------------------------------------------------------------------
(* The API, as its documents and its answers show it (external) *)

FlatPath(method) == WithoutPrefix(method.flat, PathPrefix(method.flat))

ApiPrefix(src) ==
  src.basePath \o FlattenSeq([i \in DOMAIN PrefixOf(src) |-> <<PrefixOf(src)[i].name, "/">>])

Relative(src, url) == SubSeq(url.path, Len(ApiPrefix(src)) + 1, Len(url.path))

QueryKeys(url) == {q[1] : q \in url.query}
QueryValue(url, key) == (CHOOSE q \in url.query : q[1] = key)[2]

\* The request is one the method answers, at the host that answers it, with
\* the body it takes.
Answers(method, src, req) ==
  /\ req.verb = method.verb
  /\ IsPrefix(ApiPrefix(src), req.url.path)
  /\ Matches(FlatPath(method), Relative(src, req.url))
  /\ req.url.host = <<"global">> <=> ~src.mm.regional
  /\ \A key \in QueryKeys(req.url) : InQuery(method, key)
  /\ \A p \in DOMAIN method.params :
       method.params[p].in = "query" /\ method.params[p].required => p \in QueryKeys(req.url)
  /\ req.role \in {"create", "update"} => (req.body.enveloped <=> method.body = "other")

\* The id a create gives the resource, NoId where the request says none.
GivenID(src, req) ==
  LET key  == src.api.key
      body == req.body.resource
  IN CASE src.api.from = "server" -> src.api.id
       [] src.api.from = "path"   -> LastPathSegment(req.url.path)
       [] src.api.from = "query"  -> IF key \in QueryKeys(req.url) THEN QueryValue(req.url, key) ELSE NoId
       [] src.api.from = "beside" -> IF key \in DOMAIN req.body.beside THEN req.body.beside[key] ELSE NoId
       [] src.api.from = "whole"  -> IF key \in DOMAIN body THEN Escape(body[key]) ELSE NoId
       [] OTHER                   -> IF key \in DOMAIN body THEN LastPathSegment(body[key]) ELSE NoId

CreatedKey(src, req) ==
  IF src.api.from = "path" THEN Relative(src, req.url)
  ELSE IF src.api.from = "server" THEN src.api.id
  ELSE Relative(src, req.url) \o <<"/">> \o GivenID(src, req)

\* Which item a request is about: its path as far as the item's own, or the
\* query of a method whose path stops before it.
ItemKey(src, req) ==
  LET own  == FlatPath(Method(src, IF "get" \in DOMAIN src.methods THEN "get" ELSE "delete"))
      segs == Segments(Relative(src, req.url))
      n    == Len(own)
  IN CASE Last(own).kind = "rest"                        -> Joined(segs)
       [] Last(own).kind # "rest" /\ Len(segs) >= n      -> Joined(SubSeq(segs, 1, n))
       [] OTHER -> IF src.api.item \in QueryKeys(req.url)
                   THEN Joined(segs) \o <<"/">> \o QueryValue(req.url, src.api.item) ELSE NoId

\* What the API answers of the resource: its name as the API spells it.
Answer(src, obj) ==
  LET link == [selfLink |-> src.api.link \o ApiPrefix(src) \o obj.key]
      name == CASE src.api.names = "short" -> [name |-> Unescape(LastPathSegment(obj.key))]
                [] src.api.names = "full"  -> [name |-> obj.key]
                [] OTHER                   -> NoAttrs
  IN Extend(Extend(IF src.api.link = <<>> THEN NoAttrs ELSE link, name), obj.fields)

\* What a create is answered with once it is done: the resource; or what its
\* operation brings, which may be nothing, the link to the resource, or the
\* link to what the resource is in.
Awaited(src, obj) ==
  LET link(key) == [selfLink |-> src.api.link \o ApiPrefix(src) \o key]
      parent    == Joined(Front(Front(Segments(obj.key))))
  IN CASE src.api.waits = "resource" -> {Answer(src, obj)}
       [] src.api.waits = "any"      -> {NoAttrs, Answer(src, obj)}
       [] src.api.waits = "link"     -> {link(obj.key)}
       [] OTHER                      -> {link(parent)}

Published(src, req) ==
  \E m \in src.api.roles[req.role] : Answers(Method(src, m), src, req)

-----------------------------------------------------------------------------
(* Build, and the releases *)

\* What buildType reads of a collection: the matched declaration with it.
SourceOf(p) ==
  [p.col.src EXCEPT !.mm = IF p.decl = None THEN @ ELSE p.decl.urls,
                    !.readVia = p.ruling.readVia, !.patch = PatchMethod(p.col.src)]

Built(p) == [ty |-> BuiltType(SourceOf(p)), src |-> SourceOf(p)]

\* Build, but for the names: whom it names, and the type of every candidate
\* that buildType does not refuse.
Build(corpus) ==
  LET release(ps) ==
        [named |-> {p.cand : p \in ps},
         types |-> [c \in {p.cand : p \in {q \in ps : Ships(SourceOf(q))}} |->
                      Built(CHOOSE p \in ps : p.cand = c)]]
  IN release(Survivors(corpus))

Generate ==
  /\ releases # <<>>
  /\ Load(Head(releases).named)
  /\ UNCHANGED <<releases, types, life>>

NameOne == Assigning /\ UNCHANGED <<releases, types, life>>

SaveLock == (SaveBegins \/ SaveEnds) /\ UNCHANGED <<releases, types, life>>

Release ==
  LET built == Head(releases).types IN
  /\ Publish(DOMAIN built)
  /\ types' = [n \in DOMAIN served' |->
                 [name |-> n, ty |-> built[served'[n]].ty, src |-> built[served'[n]].src]]
  /\ releases' = Tail(releases)
  /\ sent' = NoRequest
  /\ UNCHANGED <<object, record, config>>

GenerationDies == Abandon /\ UNCHANGED <<releases, types, life>>

LockRestored == Restore /\ UNCHANGED <<releases, types, life>>

-----------------------------------------------------------------------------
(* One resource under a served type *)

Request(role, verb, t, url, body) ==
  [role |-> role, verb |-> verb, type |-> t.name, url |-> url, body |-> body]

\* A person sets every settable attribute the API takes.
Configured(t) ==
  Restrict(t.src.api.user, {n \in DOMAIN t.src.api.user : n \in DOMAIN t.ty.attrs /\ ~t.ty.attrs[n].output})

\* How Read asks: at the resource's own address, or for its parent's list.
ReadRequest(t, id) ==
  IF t.ty.readVia = ""
  THEN Request("get", "GET", t, ItemURL(t.ty, NoTemplate, id, ParseProviderID(t.ty, id)), NoBody)
  ELSE Request("list", "GET", t,
         AbsURL(t.ty, ExpandPath(t.ty.base.path, Settings), {<<"parent", ListParent(t.ty, Settings, id)>>}),
         NoBody)

\* What is read: one answer, none where GCP has none at that address, or the
\* first that the listing has for this id.
Answered(t, obj, id, req) ==
  CASE ~Published(t.src, req) -> <<>>
    [] Published(t.src, req) /\ req.role = "get" ->
         IF ItemKey(t.src, req) = obj.key THEN <<Answer(t.src, obj)>> ELSE <<>>
    [] Published(t.src, req) /\ req.role = "list" ->
         IF QueryValue(req.url, "parent") # t.src.api.parent THEN <<>>
         ELSE SelectSeq(t.src.api.others \o <<Answer(t.src, obj)>>,
                        LAMBDA item : NamesSameResource(item, id))

ReadBodies(t, obj, id) == Answered(t, obj, id, ReadRequest(t, id))

Finds(t, obj, id) == Parses(t.ty, id) /\ ReadBodies(t, obj, id) # <<>>

ReadAs(t, obj, current) ==
  LET own(st) == IF t.ty.readVia = "" THEN st ELSE [st EXCEPT !.id = current.id]
  IN own(StateFrom(t.ty, Settings, current, ParseProviderID(t.ty, current.id),
                   Head(ReadBodies(t, obj, current.id))))

Recorded(name, st) == [type |-> name, id |-> st.id, attrs |-> st.attrs]

CreateRequest(t, attrs, scoped) ==
  LET body == RequestBody(t.ty, CreateTemplate(t.ty), attrs)
  IN Request("create", t.ty.createVerb, t, Expanded(t.ty, CreateTemplate(t.ty), scoped),
             [beside |-> body.beside, resource |-> body.resource, enveloped |-> t.ty.wrapper])

MadeBy(t, req) ==
  [key    |-> CreatedKey(t.src, req),
   fields |-> Restrict(req.body.resource, DOMAIN req.body.resource \ {"name"})]

\* What a create records: what it reads back, else what it knows, else nothing.
CreateRecord(t, obj, id, desired, awaited) ==
  CASE id = NoId -> NoRecord
    [] id # NoId /\ Finds(t, obj, id) -> Recorded(t.name, ReadAs(t, obj, [id |-> id, attrs |-> desired]))
    [] OTHER -> Recorded(t.name, BestEffortState(t.ty, id, desired, awaited))

Created(t, req, obj, desired, scoped) ==
  IF Published(t.src, req) /\ GivenID(t.src, req) # NoId
  THEN \E awaited \in Awaited(t.src, obj) :
         /\ object' = obj
         /\ record' = CreateRecord(t, obj, CreatedID(t.ty, awaited, scoped), desired, awaited)
  ELSE UNCHANGED <<object, record>>

\* A type with a placeholder that nothing fills refuses before it sends.
CreateAs(t, desired, scoped) ==
  /\ phase = "idle" /\ record = NoRecord /\ object = NoObject
  /\ UnresolvedCreatePlaceholders(t.ty) = {}
  /\ Fillable(CreateTemplate(t.ty), scoped)
  /\ sent' = CreateRequest(t, desired, scoped)
  /\ config' = desired
  /\ Created(t, sent', MadeBy(t, sent'), desired, scoped)
  /\ UNCHANGED <<naming, releases, types>>

Create(name) ==
  LET desired == Configured(types[name])
  IN CreateAs(types[name], desired, WithCreateBindings(types[name].ty, WithScope(Settings, desired)))

Served == record # NoRecord /\ record.type \in DOMAIN types /\ phase = "idle"

Read ==
  LET t == types[record.type] IN
  /\ Served
  /\ Parses(t.ty, record.id)
  /\ sent' = ReadRequest(t, record.id)
  /\ record' = IF object # NoObject /\ Finds(t, object, record.id)
               THEN Recorded(record.type, ReadAs(t, object, record)) ELSE NoRecord
  /\ UNCHANGED <<naming, releases, types, object, config>>

\* The ids under which a person may know the resource: its full name, and
\* what import_format shows.
KnownIDs(t, obj) ==
  {obj.key} \cup {ExpandPath(t.ty.imports[i], WithScope(Settings, t.src.api.user)) :
     i \in {j \in DOMAIN t.ty.imports : Fillable(Path(t.ty.imports[j]), WithScope(Settings, t.src.api.user))}}

\* Import reads with what the id itself says as the state; the person then
\* writes down what import shows.
Import(name) ==
  LET t == types[name] IN
  /\ phase = "idle" /\ record = NoRecord /\ object # NoObject
  /\ \E id \in KnownIDs(t, object) :
       /\ Finds(t, object, id)
       /\ sent' = ReadRequest(t, id)
       /\ record' = Recorded(name, ReadAs(t, object, [id |-> id, attrs |-> ParseProviderID(t.ty, id)]))
       /\ config' = Restrict(record'.attrs, {n \in DOMAIN record'.attrs : ~t.ty.attrs[n].output})
  /\ UNCHANGED <<naming, releases, types, object>>

\* Forgotten in state, and still in GCP.
Forget ==
  /\ Served
  /\ record' = NoRecord
  /\ UNCHANGED <<naming, releases, types, object, config, sent>>

-----------------------------------------------------------------------------
(* Changing and deleting it *)

SetterOf(ty, a) == {s \in Setters(ty) : ty.attrs[a].wire \in s.fields}

\* A PUT sends the resource as GCP has it with the change in it.
UpdateBody(t, change) ==
  [beside    |-> NoAttrs,
   resource  |-> IF t.ty.updateVerb = "PUT" THEN Extend(change, Answer(t.src, object)) ELSE change,
   enveloped |-> t.ty.updateWrapper # ""]

(* Mutant: a mask that the method requires is not sent. *)
UpdateURL_Unmasked(ty, known, wire) == ItemURL(ty, ty.update, record.id, known)

UpdateURL(ty, known, wire) ==
  LET mask == IF ty.updateMask THEN {<<"updateMask", <<wire>> >>} ELSE {}
  IN [ItemURL(ty, ty.update, record.id, known) EXCEPT !.query = @ \cup mask]

\* Update: the setter that carries the attribute, or the type's own verb.
UpdateRequest(t, a, change, known) ==
  LET s == CHOOSE x \in SetterOf(t.ty, a) : TRUE IN
  IF SetterOf(t.ty, a) # {}
  THEN Request("setter", s.verb, t, ItemURL(t.ty, Path(s.path), record.id, known),
               [UpdateBody(t, change) EXCEPT !.resource = change])
  ELSE Request("update", t.ty.updateVerb, t, UpdateURL(t.ty, known, t.ty.attrs[a].wire), UpdateBody(t, change))

\* Everything else the plan replaces.
ChangesInPlace(t, a) ==
  /\ a \in DOMAIN t.ty.attrs
  /\ ~t.ty.attrs[a].output /\ ~t.ty.attrs[a].forceNew /\ ~t.ty.attrs[a].createOnly
  /\ SetterOf(t.ty, a) # {} \/ t.ty.updateVerb # ""

\* GCP takes the fields a method honours, all of them of a PUT, and leaves the
\* others alone.
Taken(t, req) ==
  LET honoured == IF req.role = "setter" \/ req.verb = "PUT" THEN DOMAIN req.body.resource ELSE t.src.api.honours
  IN Restrict(req.body.resource, (DOMAIN req.body.resource \cap honoured) \ {"name", "selfLink"})

Updated(t, req) ==
  CASE ~Published(t.src, req) \/ ItemKey(t.src, req) # object.key -> object
    [] OTHER -> IF req.verb = "PUT" THEN [object EXCEPT !.fields = Taken(t, req)]
                ELSE [object EXCEPT !.fields = Extend(Taken(t, req), @)]

\* Update reads back what it did.
Change(a) ==
  LET t     == types[record.type]
      value == <<"changed">>
  IN /\ Served
     /\ object # NoObject
     /\ a \in DOMAIN config /\ config[a] # value /\ a \notin t.src.api.fixed
     /\ ChangesInPlace(t, a)
     /\ Parses(t.ty, record.id)
     /\ config' = [config EXCEPT ![a] = value]
     /\ sent' = UpdateRequest(t, a, [wire \in {t.ty.attrs[a].wire} |-> value], ParseProviderID(t.ty, record.id))
     /\ object' = Updated(t, sent')
     /\ record' = IF Finds(t, object', record.id)
                  THEN Recorded(record.type, ReadAs(t, object', record)) ELSE record
     /\ UNCHANGED <<naming, releases, types>>

(* Mutant: every delete is sent to the resource's own address. *)
DeleteRequest_AtTheItem(t) ==
  Request("delete", "DELETE", t,
          ItemURL(t.ty, NoTemplate, record.id, ParseProviderID(t.ty, record.id)), NoBody)

DeleteRequest(t) ==
  Request("delete", "DELETE", t,
          ItemURL(t.ty, t.ty.delete, record.id, ParseProviderID(t.ty, record.id)), NoBody)

Delete ==
  LET t == types[record.type] IN
  /\ Served
  /\ Parses(t.ty, record.id)
  /\ sent' = DeleteRequest(t)
  /\ object' = IF Published(t.src, sent') /\ ItemKey(t.src, sent') = object.key
               THEN NoObject ELSE object
  /\ record' = NoRecord
  /\ UNCHANGED <<naming, releases, types, config>>

-----------------------------------------------------------------------------

Init ==
  /\ NamingInit
  /\ releases \in Histories
  /\ types = NoAttrs
  /\ object = NoObject
  /\ record = NoRecord
  /\ config = NoAttrs
  /\ sent = NoRequest

Next ==
  \/ Generate
  \/ NameOne
  \/ SaveLock
  \/ Release
  \/ GenerationDies
  \/ LockRestored
  \/ \E name \in DOMAIN types : Create(name) \/ Import(name)
  \/ Read
  \/ Forget
  \/ \E a \in DOMAIN config : Change(a)
  \/ Delete

Spec == Init /\ [][Next]_vars

-----------------------------------------------------------------------------
(* Properties *)

\* Every request is one the API publishes for what it is to do: the method,
\* its path, its host, its query and the form of its body.
RequestsArePublished == sent # NoRequest => Published(types[sent.type].src, sent)

\* What state records is what GCP has, and is found there.  An id that
\* addresses something else, or does not parse, would be believed absent:
\* the next plan creates the resource again, and nothing deletes the first.
RecordIsTheObject ==
  record # NoRecord /\ record.type \in DOMAIN types =>
    /\ object # NoObject
    /\ Finds(types[record.type], object, record.id)

\* One id for one resource, whether it was created or imported under any of
\* the names a person may know it by.
OneIdPerResource ==
  record # NoRecord /\ object # NoObject /\ record.type \in DOMAIN types =>
    LET t == types[record.type] IN
    \A id \in KnownIDs(t, object) :
      Finds(t, object, id) =>
        ReadAs(t, object, [id |-> id, attrs |-> ParseProviderID(t.ty, id)]).id = record.id

\* State says what configuration says, whatever was created, changed in place
\* or read since.  A field that the update's method does not honour, or that
\* the answer spells in another way, would be planned again for ever.
NothingDrifts ==
  record # NoRecord /\ record.type \in DOMAIN types =>
    \A a \in DOMAIN config : a \in DOMAIN record.attrs /\ record.attrs[a] = config[a]

\* What a create makes is recorded: GCP learns its id from the request, and
\* the provider computes the same one.
CreatedIsRecorded == [][sent' # sent /\ sent'.role = "create" => record' # NoRecord]_vars

\* A delete deletes.
DeleteDeletes == [][sent' # sent /\ sent'.role = "delete" => object' = NoObject]_vars
=============================================================================
