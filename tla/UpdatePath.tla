------------------------------ MODULE UpdatePath ------------------------------
(***************************************************************************)
(* The update half of the generator's buildType (gen/build.go,             *)
(* gen/patchlimits.go, gen/setters.go) and the whole of it: how a type is  *)
(* changed in place, which of its attributes that covers, and which types  *)
(* are refused.  An attribute nothing covers is replaced (forceNew).       *)
(*                                                                         *)
(* Besides what Addresses.tla reads, a source has                          *)
(*   mm.updateVerb, mm.updateMask, mm.immutable, and mm.outputs, the       *)
(*                attributes magic-modules calls computed                  *)
(*   mm.fields    the attributes magic-modules updates at an url of their  *)
(*                own, by wire name: [verb, path]                          *)
(*   patch        its PatchMethod                                          *)
(*   restricted   the patch's description limits what it changes           *)
(*   patchable    the ruling that says which fields, or NoRuling           *)
(*   ruling       [settable, required, clear, inPlace, allForceNew]: sets  *)
(*                of attributes (of inPlace, the first step of each path)  *)
(*                and whether it makes all of them forceNew                *)
(* and a method has                                                        *)
(*   body         what its request is: "resource", "other" or "none"       *)
(*   props        the request's own properties, by name: "resource",       *)
(*                "mask" or "field"                                        *)
(*   await        the kind of operation it starts, "none" if it does not   *)
(* A ruling's send_with_update is left out: it says how a patch carries an *)
(* option inside a block (overlay.yaml:126), below what attrs tells apart. *)
(***************************************************************************)
EXTENDS Addresses

CONSTANT Fingerprints  \* the properties that are optimistic locks

ASSUME UpdatePathAssumption == Fingerprints \subseteq STRING

NoRuling == [fields |-> {}, oneField |-> FALSE, given |-> FALSE]

-----------------------------------------------------------------------------
(* Where a method acts *)

\* addressOf: a path with every placeholder its parameter's pattern.
AddressOf(method) ==
  LET path == WithoutPrefix(method.path, PathPrefix(method.path)) IN
  [i \in DOMAIN path |->
     [shape   |-> AnyShape(path)[i],
      pattern |-> IF IsPlaceholder(path[i]) THEN PatternOf(method, path[i].name) ELSE NoPattern]]

SameAddress(a, b) == a # NoMethod /\ b # NoMethod /\ AddressOf(a) = AddressOf(b)

\* The shape of an address, patterns spelled out.
AddressShape(address) ==
  FlattenSeq([i \in DOMAIN address |->
    IF address[i].pattern = NoPattern THEN <<address[i].shape>> ELSE AnyShape(address[i].pattern)])

\* templateAddressesMethod
AddressesMethod(tmpl, method) ==
  /\ method # NoMethod
  /\ tmpl.path # <<>>
  /\ AnyShape(WithoutTrailingSlash(tmpl.path)) = AddressShape(AddressOf(method))

\* updateURLMatchesPatch: the same address but for a prefix, and a query the
\* method takes.
UpdateURLMatches(tmpl, patch) ==
  LET a == AnyShape(WithoutTrailingSlash(tmpl.path))
      b == AnyShape(patch.path)
  IN /\ a # <<>>
     /\ IsSuffix(a, b) \/ IsSuffix(b, a)
     /\ \A i \in DOMAIN tmpl.query : InQuery(patch, tmpl.query[i].key)

\* patchMethodOf: the patch, else a PATCH at the resource's own address.
PatchMethod(src) ==
  LET own == {m \in DOMAIN src.methods : /\ src.methods[m].verb = "PATCH"
                                         /\ SameAddress(src.methods[m], Method(src, "get"))}
      oneOf(methods) == IF methods = {} THEN NoMethod ELSE src.methods[CHOOSE m \in methods : TRUE]
  IN IF Method(src, "patch").verb = "PATCH" THEN Method(src, "patch") ELSE oneOf(own)

\* restrictedPatch
Restricted(src) == src.restricted /\ src.patch # NoMethod

-----------------------------------------------------------------------------
(* Which update a type ships *)

\* applyPatchAllowlist: everything outside the list is replaced.
OnlyPatches(ty, fields) ==
  [ty EXCEPT !.attrs = [n \in DOMAIN @ |->
     [@[n] EXCEPT !.forceNew = @ \/ ~(ty.attrs[n].output \/ {n, ty.attrs[n].wire} \cap fields # {})]]]

Ruled(src, ty) ==
  IF src.patchable.given
  THEN [OnlyPatches(ty, src.patchable.fields) EXCEPT !.oneField = src.patchable.oneField]
  ELSE ty

NoUpdate(ty) ==
  [ty EXCEPT !.updateVerb = "", !.update = NoTemplate, !.updateMask = FALSE, !.updateWrapper = ""]

\* A declared PATCH is believed; another declared verb is not sent.
DeclaredUpdate(src, ty) ==
  [ty EXCEPT !.updateVerb = IF src.mm.updateVerb = "PATCH" THEN "PATCH" ELSE "",
             !.update = IF src.mm.updateVerb \in {"", "PATCH"} THEN @ ELSE NoTemplate,
             !.updateMask = src.mm.updateMask]

PropsOfKind(method, kind) == {p \in DOMAIN method.props : method.props[p] = kind}

\* discoveredUpdateWrapper: a patch whose body holds the resource and its mask.
PatchTakesEnvelope(src) ==
  /\ SameAddress(src.patch, Method(src, "get"))
  /\ src.patch.body = "other"
  /\ Cardinality(PropsOfKind(src.patch, "resource")) = 1
  /\ Cardinality(PropsOfKind(src.patch, "mask")) = 1

EnvelopePatch(src, ty) ==
  IF /\ ty.update = NoTemplate \/ AddressesMethod(ty.update, src.patch)
     /\ PatchTakesEnvelope(src)
     /\ ~Restricted(src) \/ src.patchable.given
  THEN Ruled(src, [NoUpdate(ty) EXCEPT
                     !.updateVerb = "PATCH",
                     !.updateWrapper = CHOOSE p \in PropsOfKind(src.patch, "resource") : TRUE])
  ELSE ty

\* discoveredUpdate: a patch of the get's own address and body.
PublishedPatch(src, ty) ==
  LET get  == Method(src, "get")
      made == [ty EXCEPT !.updateVerb = "PATCH", !.updateMask = InQuery(src.patch, "updateMask")]
  IN IF /\ ty.updateVerb = ""
        /\ src.patch # NoMethod /\ get # NoMethod
        /\ src.patch.body = "resource"
        /\ IF ty.update = NoTemplate THEN SameAddress(src.patch, get)
           ELSE UpdateURLMatches(ty.update, src.patch)
        /\ ~Restricted(src) \/ src.patchable.given
     THEN IF Restricted(src) THEN Ruled(src, made) ELSE made
     ELSE ty

\* discoveredPut: a whole-resource PUT at the get's address, never the create.
PublishedPut(src, ty) ==
  LET puts == {m \in DOMAIN src.methods :
                 /\ src.methods[m] # CreateMethod(src)
                 /\ src.methods[m].verb = "PUT" /\ src.methods[m].body = "resource"
                 /\ SameAddress(src.methods[m], Method(src, "get"))}
  IN IF ty.updateVerb = "" /\ puts # {} /\ ~Restricted(src)
     THEN [NoUpdate(ty) EXCEPT !.updateVerb = "PUT"] ELSE ty

\* addressesTheResource: the url ends at the resource, not at a method of it.
AtTheResource(path) == path # <<>> /\ Last(path).kind = "mm"

\* An immutable resource takes the fields magic-modules patches, or nothing.
ImmutableButFor(src, ty) ==
  LET fields == {f \in DOMAIN src.mm.fields : /\ src.mm.fields[f].verb = "PATCH"
                                              /\ AtTheResource(src.mm.fields[f].path)}
  IN CASE ~src.mm.immutable \/ ty.updateVerb = "" \/ src.patchable.given -> ty
       [] OTHER -> IF fields # {} THEN OnlyPatches(ty, fields) ELSE NoUpdate(ty)

WithUpdate(src, ty) ==
  ImmutableButFor(src, PublishedPut(src, PublishedPatch(src, EnvelopePatch(src, DeclaredUpdate(src, ty)))))

\* What no published method answers is not sent; an update url that only
\* repeats the resource's own address goes away; a required mask is sent.
AsPublished(src, ty) ==
  LET own   == /\ ty.update.query = <<>> /\ AddressesMethod(ty.update, src.patch)
               /\ SameAddress(src.patch, Method(src, "get"))
      asked == /\ ty.updateWrapper = "" /\ InQuery(src.patch, "updateMask")
               /\ src.patch.params["updateMask"].required
  IN CASE ty.updateVerb # "PATCH" -> ty
       [] ty.updateVerb = "PATCH" /\ src.patch = NoMethod -> NoUpdate(ty)
       [] OTHER -> [ty EXCEPT !.update = IF own THEN NoTemplate ELSE @,
                              !.updateMask = @ \/ asked]

-----------------------------------------------------------------------------
(* Setters: methods of the resource that change one group of its fields *)

Setters(ty) == ToSet(ty.setters)
SetterFields(ty) == UNION {s.fields : s \in Setters(ty)}

\* setterMethod
SetterMethod(src, name, verb) ==
  LET m == Method(src, name) IN
  IF m.verb = verb /\ m.path # <<>> /\ Last(m.path) = Lit(name) THEN m ELSE NoMethod

\* setterPath: self_link's own placeholders where the shapes agree, else
\* only placeholders self_link has.  <<>> is none.
SetterPath(method, ty) ==
  LET path  == WithoutPrefix(method.path, PathPrefix(method.path))
      known == PlaceholderNames(ty.self)
  IN CASE AnyShape(Front(path)) = AnyShape(ty.self.path) -> Append(ty.self.path, Last(path))
       [] OTHER -> IF PlaceholderNames(Path(path)) \subseteq known THEN path ELSE <<>>

\* A setter whose request is exactly its fields and at most one lock.
SetterBy(ty, m, name, path, fields, locks) ==
  IF m # NoMethod /\ m.body # "none" /\ path # <<>> /\ fields # {} /\ DOMAIN m.props = fields \cup locks
  THEN {[method |-> name, verb |-> m.verb, path |-> path, fields |-> fields, locks |-> locks]} ELSE {}

Setter(src, ty, name, verb, members) ==
  LET m == SetterMethod(src, name, verb)
      carried == members \cap {ty.attrs[a].wire : a \in DOMAIN ty.attrs}
  IN SetterBy(ty, m, name, SetterPath(m, ty), carried \ Fingerprints, carried \cap Fingerprints)

\* discoveredSetters: magic-modules' fields by the url they share ...
DeclaredSetters(src, ty) ==
  LET own  == {f \in DOMAIN src.mm.fields : ~AtTheResource(src.mm.fields[f].path)}
      urls == {src.mm.fields[f] : f \in own}
  IN UNION {Setter(src, ty, Last(u.path).name, u.verb, {f \in own : src.mm.fields[f] = u}) :
              u \in {v \in urls : v.verb \in {"POST", "PATCH"} /\ Last(v.path).kind = "lit"}}

\* ... and labelsSetter, which Google publishes alike everywhere.
LabelsSetter(src, ty) ==
  IF "labels" \in DOMAIN ty.attrs /\ ~ty.attrs["labels"].output
  THEN {[s EXCEPT !.locks = {"labelFingerprint"}] :
          s \in {t \in Setter(src, ty, "setLabels", "POST", {"labels", "labelFingerprint"}) :
                   DOMAIN Method(src, "setLabels").props = {"labels", "labelFingerprint"}}}
  ELSE {}

WithSetters(src, ty) ==
  LET all(declared) == IF \E s \in declared : "labels" \in s.fields
                       THEN declared ELSE declared \cup LabelsSetter(src, ty)
  IN [ty EXCEPT !.setters = SetToSeq(all(DeclaredSetters(src, ty)))]

\* applySetters: without a patch only the setters change anything; what a
\* setter carries changes in place, and is settable unless magic-modules too
\* says that it is computed.
ApplySetters(src, ty) ==
  LET limited == IF ty.updateVerb = "" THEN OnlyPatches(ty, SetterFields(ty)) ELSE ty
  IN IF ty.setters = <<>> THEN ty
     ELSE [limited EXCEPT !.attrs = [n \in DOMAIN @ |->
             IF @[n].wire \in SetterFields(ty)
             THEN [@[n] EXCEPT !.forceNew = FALSE, !.output = @ /\ ty.attrs[n].wire \in src.mm.outputs]
             ELSE @[n]]]

-----------------------------------------------------------------------------
(* Rulings, refusals, and the whole of buildType *)

\* forceNewAll
AllReplaced(src, ty) ==
  [ty EXCEPT !.attrs = [n \in DOMAIN @ |->
     [@[n] EXCEPT !.forceNew = @ \/ (src.ruling.allForceNew /\ ~ty.attrs[n].output)]]]

WithRuling(src, ty) ==
  LET named(set) == UNION {AttrsNamed(ty, n) : n \in set}
  IN [ty EXCEPT !.clear = src.ruling.clear,
                !.attrs = [n \in DOMAIN @ |->
                  [@[n] EXCEPT !.output = @ /\ n \notin named(src.ruling.settable),
                               !.forceNew = @ /\ n \notin src.ruling.inPlace,
                               !.required = @ \/ n \in named(src.ruling.required)]]]

\* A ruling that names what the type does not have is an error.
RulingFits(src, ty) ==
  /\ \A n \in src.ruling.settable : AttrsNamed(ty, n) # {}
  /\ src.ruling.inPlace \subseteq DOMAIN ty.attrs
  /\ \A n \in src.ruling.required : SettableAs(ty, n)
  /\ \A n \in src.ruling.clear : n \in DOMAIN ty.attrs /\ ~ty.attrs[n].output

\* The create, delete and update complete as one kind of operation.
Awaits(src, ty) ==
  {CreateMethod(src).await, Method(src, "delete").await} \cup
  (CASE ty.updateVerb = "PATCH" -> {src.patch.await}
     [] ty.updateVerb = "PUT"   -> {src.methods[CHOOSE m \in DOMAIN src.methods :
                                       /\ src.methods[m].verb = "PUT"
                                       /\ src.methods[m] # CreateMethod(src)].await}
     [] OTHER                   -> {})

OneKindOfOperation(src, ty) == Cardinality(Awaits(src, ty) \ {"none"}) <= 1

Prepared(src) ==
  LET changed == WithUpdate(src, AllReplaced(src, FromSources(src)))
      made    == CreateAddress(src, ItemShaped(src, changed))
  IN WithRuling(src, PostToCollection(src, DeleteAddress(src, AsPublished(src, made))))

Completed(src, ty) == ApplySetters(src, WithSetters(src, Finished(src, ty)))

BuiltType(src) == Completed(src, Filled(src, Prepared(src)))

\* Every error buildType returns.
ShipsAs(src, ty) ==
  /\ src.request # "other"
  /\ OneKindOfOperation(src, ty)
  /\ RulingFits(src, ty)
  /\ AddressShips(src, Filled(src, ty))

Ships(src) == ShipsAs(src, Prepared(src))
=============================================================================
