------------------------------ MODULE MCCatalog ------------------------------
(***************************************************************************)
(* Catalog on collections of the shapes that the published APIs have.      *)
(***************************************************************************)
EXTENDS CatalogFits

-----------------------------------------------------------------------------
(* The documents' shorthand *)

MCSingular ==
  [projects |-> "project", organizations |-> "organization", folders |-> "folder", folder |-> "folder", locations |-> "location", regions |-> "region",
   zones |-> "zone", instances |-> "instance", databases |-> "database", addresses |-> "address",
   securityPolicies |-> "securityPolicy", forwardingRules |-> "forwardingRule", targetProxies |-> "targetProxy",
   autoscalers |-> "autoscaler", resourcePolicies |-> "resourcePolicy", b |-> "bucket", buckets |-> "bucket",
   users |-> "user", secrets |-> "secret", keyRings |-> "keyRing", keys |-> "key", aclPolicies |-> "aclPolicy",
   tlsPolicies |-> "tlsPolicy", alertPolicies |-> "alertPolicy", queues |-> "queue", topics |-> "topic",
   serviceAccounts |-> "serviceAccount", scalingPolicies |-> "scalingPolicy",
   backupSchedules |-> "backupSchedule", appProfiles |-> "appProfile", datasets |-> "dataset",
   tagBindings |-> "tagBinding", jobs |-> "job", grants |-> "grant", groups |-> "group",
   counters |-> "counter", metrics |-> "metric", pools |-> "pool", clusters |-> "cluster"]

MCIdParameter ==
  [secrets |-> "secretId", keyRings |-> "keyRingId", aclPolicies |-> "aclPolicyId",
   appProfiles |-> "appProfileId", tlsPolicies |-> "tlsPolicyId"]

MCCamelCase ==
  [dataset_id |-> "datasetId", table_id |-> "tableId", policy_id |-> "policyId",
   secret_id |-> "secretId", key_ring_id |-> "keyRingId", app_profile_id |-> "appProfileId"]

MCVersions == {"v1", "v3"}
MCFingerprints == {"labelFingerprint", "fingerprint"}
MCGenericWords == {"queue", "user"}

MCSettings ==
  [project |-> <<"p">>, region |-> <<"r">>, location |-> <<"r">>, zone |-> <<"z">>]

\* projects/{project}/locations/{location}/..., each member after its collection.
Members(Kind(_), colls) == FlattenSeq([i \in DOMAIN colls |-> <<Lit(colls[i]), Kind(MCSingular[colls[i]])>>])
Members1(colls) == Members(One, colls)
MembersMM(colls) == Members(MM, colls)
Pattern(colls) == FlattenSeq([i \in DOMAIN colls |-> <<Lit(colls[i]), One("*")>>])
In(path, coll) == Append(path, Lit(coll))
V1(path) == <<Lit("v1")>> \o path

PathParam(pattern) == [in |-> "path", required |-> TRUE, pattern |-> pattern]
QueryParam(required) == [in |-> "query", required |-> required, pattern |-> NoPattern]
Field == [wire |-> "", output |-> FALSE, createOnly |-> FALSE, forceNew |-> FALSE, required |-> FALSE, also |-> {}]
Fixed == [Field EXCEPT !.forceNew = TRUE]
Computed == [Field EXCEPT !.output = TRUE]
Fields(f) == [n \in DOMAIN f |-> [f[n] EXCEPT !.wire = n]]

Call(verb, path, flat, params, body) ==
  [NoMethod EXCEPT !.verb = verb, !.path = path, !.flat = flat, !.params = params, !.body = body]

ManyRoles == [create |-> {"create", "insert"}, get |-> {"get"}, list |-> {"list"}, delete |-> {"delete"},
              update |-> {"patch", "update"}, setter |-> {"setLabels", "setUrlMap"}]

NoRulings == [settable |-> {}, required |-> {}, clear |-> {}, inPlace |-> {}, allForceNew |-> FALSE]

\* Every collection below is this with what is its own.
Collection ==
  [methods |-> <<>>, mm |-> NoMM, attrs |-> <<>>, nested |-> {}, request |-> "resource", beside |-> {},
   basePath |-> <<>>, readVia |-> "", service |-> "", restricted |-> FALSE, patch |-> NoMethod, patchable |-> NoRuling,
   ruling |-> NoRulings,
   api |-> [roles |-> ManyRoles, from |-> "body", key |-> "name", id |-> NoId, names |-> "short", link |-> <<>>,
            honours |-> {}, waits |-> "resource", item |-> "name", fixed |-> {}, parent |-> <<>>,
            others |-> <<>>, user |-> NoAttrs]]

-----------------------------------------------------------------------------
(* A flat API: {project} and {x}, and a link in every answer *)

FlatMethods(axis, coll) ==
  LET at   == In(Members1(axis), coll)
      item == Append(at, One(MCSingular[coll]))
      own  == [p \in {MCSingular[axis[i]] : i \in DOMAIN axis} |-> PathParam(NoPattern)]
      all  == own @@ (MCSingular[coll] :> PathParam(NoPattern))
  IN [insert |-> Call("POST", at, at, own, "resource"), list |-> Call("GET", at, at, own, "none"),
      get |-> Call("GET", item, item, all, "none"), delete |-> Call("DELETE", item, item, all, "none"),
      patch |-> Call("PATCH", item, item, all, "resource"),
      setLabels |-> [Call("POST", In(item, "setLabels"), In(item, "setLabels"), all, "other")
                       EXCEPT !.props = [labels |-> "field", labelFingerprint |-> "field"]]]

Region == <<"projects", "regions">>
Zone == <<"projects", "zones">>

Compute(axis, coll) ==
  [Collection EXCEPT !.basePath = <<"compute", "/", "v1", "/">>,
     !.methods = FlatMethods(axis, coll),
     !.mm.base = Path(In(MembersMM(axis), coll)),
     !.attrs = Fields([name |-> Fixed, description |-> Field, labels |-> Field, labelFingerprint |-> Computed,
                       selfLink |-> Computed]),
     !.api.link = <<"www", "/">>, !.api.honours = {"description"}, !.api.waits = "link",
     !.api.user = [name |-> <<"n">>, description |-> <<"d">>, labels |-> <<"l">>]]

Without(src, method) == [src EXCEPT !.methods = Restrict(@, DOMAIN @ \ {method})]

\* Named in self_link as in the attributes; labels change through a setter,
\* and the description in place by a ruling, against magic-modules.
SecurityPolicy ==
  [Compute(Region, "securityPolicies") EXCEPT
     !.mm.self = Path(Append(In(MembersMM(Region), "securityPolicies"), MM("name"))),
     !.methods["patch"].params = @ @@ ("updateMask" :> QueryParam(TRUE)),
     !.attrs["description"].forceNew = TRUE, !.ruling.inPlace = {"description"}]

\* No patch: whatever no setter carries is replaced.  The operation's target
\* names what the resource is in.
Address == [Without(Compute(Region, "addresses"), "patch") EXCEPT !.api.waits = "parent"]

\* A patch that honours one field only, by its description and a ruling.
ForwardingRule ==
  [Compute(Region, "forwardingRules") EXCEPT
     !.restricted = TRUE, !.patchable = [fields |-> {"allowGlobalAccess"}, oneField |-> FALSE, given |-> TRUE],
     !.attrs = @ @@ Fields([allowGlobalAccess |-> Field]),
     !.api.honours = {"allowGlobalAccess"},
     !.api.user = @ @@ [allowGlobalAccess |-> <<"yes">>]]

\* Immutable but for a field that has a method of its own.
TargetProxy ==
  LET item == Append(In(Members1(Region), "targetProxies"), One("targetProxy"))
      set  == [Call("POST", In(item, "setUrlMap"), In(item, "setUrlMap"),
                    FlatMethods(Region, "targetProxies").get.params, "other") EXCEPT !.props = [urlMap |-> "field"]]
  IN [Without(Compute(Region, "targetProxies"), "setLabels") EXCEPT
        !.methods = @ @@ [setUrlMap |-> set],
        !.mm.immutable = TRUE,
        !.mm.fields = [urlMap |-> [verb |-> "POST",
           path |-> In(Append(In(MembersMM(Region), "targetProxies"), MM("name")), "setUrlMap")]],
        !.attrs = @ @@ Fields([urlMap |-> Field]),
        !.api.honours = {},
        !.api.user = @ @@ [urlMap |-> <<"m">>]]

\* Changed at its collection, which the query tells which member.
Autoscaler(axis) ==
  LET at == In(Members1(axis), "autoscalers") IN
  [Without(Compute(axis, "autoscalers"), "setLabels") EXCEPT
     !.methods["patch"].path = at, !.methods["patch"].flat = at,
     !.methods["patch"].params = Restrict(@, DOMAIN @ \ {"autoscaler"}) @@ [autoscaler |-> QueryParam(FALSE)],
     !.mm.update = [path  |-> In(MembersMM(axis), "autoscalers"),
                    query |-> <<[key |-> "autoscaler", value |-> MM("name")]>>],
     !.api.item = "autoscaler", !.api.honours = {"description", "labels"}]

\* Its update url says {{name}} where its self_link says {resourcePolicy}.
ResourcePolicy ==
  [Without(Compute(Region, "resourcePolicies"), "setLabels") EXCEPT
     !.mm.update = Path(Append(In(MembersMM(Region), "resourcePolicies"), MM("name"))),
     !.mm.create = [path |-> In(MembersMM(Region), "resourcePolicies"),
                    query |-> <<[key |-> "validateOnly", value |-> Lit("false")]>>],
     !.attrs["name"].forceNew = FALSE,
     !.api.fixed = {"name"}, !.api.honours = {"description", "labels"}]

\* No version in the base url but in the path, and the project in the query.
Bucket ==
  [Collection EXCEPT !.basePath = <<"storage", "/", "v1", "/">>,
     !.methods = [insert |-> Call("POST", <<Lit("b")>>, <<Lit("b")>>, [project |-> QueryParam(TRUE)], "resource"),
                  get    |-> Call("GET", <<Lit("b"), One("bucket")>>, <<Lit("b"), One("bucket")>>,
                                  [bucket |-> PathParam(NoPattern)], "none"),
                  delete |-> Call("DELETE", <<Lit("b"), One("bucket")>>, <<Lit("b"), One("bucket")>>,
                                  [bucket |-> PathParam(NoPattern)], "none"),
                  patch  |-> Call("PATCH", <<Lit("b"), One("bucket")>>, <<Lit("b"), One("bucket")>>,
                                  [bucket |-> PathParam(NoPattern)], "resource")],
     !.mm.base = [path |-> <<Lit("b")>>, query |-> <<[key |-> "project", value |-> MM("project")]>>],
     !.mm.self = Path(<<Lit("b"), MM("name")>>),
     !.mm.imports = <<<<MM("name")>>>>,
     !.attrs = Fields([name |-> Field, labels |-> Field, selfLink |-> Computed]),
     !.api.link = <<"www", "/">>, !.api.honours = {"labels"}, !.api.fixed = {"name"},
     !.api.user = [name |-> <<"n">>, labels |-> <<"l">>]]

\* Deleted with the name in the query, and made by an operation whose target
\* is the instance it is in.
User ==
  LET at   == In(Members1(<<"projects", "instances">>), "users")
      item == Append(at, One("name"))
      in   == [project |-> PathParam(NoPattern), instance |-> PathParam(NoPattern)]
  IN [Collection EXCEPT
        !.methods = [insert |-> Call("POST", V1(at), V1(at), in, "resource"),
                     get    |-> Call("GET", V1(item), V1(item), in @@ [name |-> PathParam(NoPattern)], "none"),
                     delete |-> Call("DELETE", V1(at), V1(at), in @@ [name |-> QueryParam(FALSE)], "none")],
        !.attrs = Fields([name |-> Field, instance |-> Field, project |-> Field, host |-> Field]),
        !.api.link = <<"www", "/">>, !.api.waits = "parent", !.api.item = "name",
        !.api.user = [name |-> <<"n">>, instance |-> <<"i">>, host |-> <<"h">>]]

-----------------------------------------------------------------------------
(* A resource-oriented API: {+parent} and {+name}, full names in answers *)

ResourceMethods(colls, id) ==
  LET parent == Front(colls)
      coll   == Last(colls)
      item   == V1(<<Rest("name")>>)
      flat   == V1(Members1(colls))
      own    == [name |-> PathParam(Pattern(colls))]
      ids    == IF id = "" THEN NoAttrs ELSE (id :> QueryParam(FALSE))
  IN [create |-> Call("POST", V1(<<Rest("parent"), Lit(coll)>>), V1(In(Members1(parent), coll)),
                      [parent |-> PathParam(Pattern(parent))] @@ ids, "resource"),
      get    |-> Call("GET", item, flat, own, "none"),
      delete |-> Call("DELETE", item, flat, own, "none"),
      patch  |-> Call("PATCH", item, flat, own @@ [updateMask |-> QueryParam(FALSE)], "resource")]

Resource(colls, id) ==
  [Collection EXCEPT
     !.methods = ResourceMethods(colls, id),
     !.attrs = Fields([name |-> Computed, labels |-> Field]),
     !.api.names = "full", !.api.honours = {"labels"},
     !.api.from = IF id = "" THEN "body" ELSE "query", !.api.key = IF id = "" THEN "name" ELSE id,
     !.api.user = [labels |-> <<"l">>]]

Located(coll) == <<"projects", "locations", coll>>
CreatedWith(colls, id, attr) ==
  [path |-> In(MembersMM(Front(colls)), Last(colls)), query |-> <<[key |-> id, value |-> MM(attr)]>>]
MemberMM(colls, attr) == Append(In(MembersMM(Front(colls)), Last(colls)), MM(attr))

\* The id is an attribute of the create url alone.
Declares(src, colls, id, attr) ==
  [src EXCEPT !.mm.base = Path(In(MembersMM(Front(colls)), Last(colls))),
     !.mm.create = CreatedWith(colls, id, attr), !.mm.self = Path(MemberMM(colls, attr)),
     !.mm.updateVerb = "PATCH", !.mm.updateMask = TRUE,
     !.api.user = @ @@ (attr :> <<"n">>)]

Secret == Declares(Resource(<<"projects", "secrets">>, "secretId"), <<"projects", "secrets">>, "secretId", "secret_id")
RegionalSecret ==
  [Declares(Resource(Located("secrets"), "secretId"), Located("secrets"), "secretId", "secret_id") EXCEPT
     !.mm.regional = TRUE]

\* The url asks for the name that the API computes.
KeyRing ==
  [Declares(Resource(Located("keyRings"), "keyRingId"), Located("keyRings"), "keyRingId", "name") EXCEPT
     !.api.user = [keyRingId |-> <<"n">>]]

\* Nothing but the documents: an id of the create's own.
AclPolicy == [Resource(Located("aclPolicies"), "aclPolicyId") EXCEPT
  !.attrs["name"].output = FALSE, !.api.user = @ @@ [aclPolicyId |-> <<"n">>]]

\* The url asks for the name that configuration says short and GCP in full.
TlsPolicy ==
  [Resource(Located("tlsPolicies"), "tlsPolicyId") EXCEPT
     !.mm.base = Path(In(MembersMM(<<"projects", "locations">>), "tlsPolicies")),
     !.mm.create = CreatedWith(Located("tlsPolicies"), "tlsPolicyId", "name"),
     !.mm.imports = <<MemberMM(Located("tlsPolicies"), "name")>>,
     !.attrs["name"] = [Fixed EXCEPT !.wire = "name"], !.api.waits = "any",
     !.api.user = @ @@ [name |-> <<"n">>]]

AlertPolicy ==
  [Resource(<<"projects", "alertPolicies">>, "") EXCEPT
     !.api.from = "server",
     !.api.id = <<"projects", "/", "p", "/", "alertPolicies", "/", "9">>]

\* A full name in the body.
Queue ==
  [Resource(Located("queues"), "") EXCEPT
     !.attrs["name"] = [Fixed EXCEPT !.wire = "name"],
     !.api.user = @ @@ [name |-> <<"projects", "/", "p", "/", "locations", "/", "r", "/", "queues", "/", "n">>]]

\* Made by a PUT to its own full name, changed in an envelope.
Topic ==
  LET item  == V1(<<Rest("topic")>>)
      named == PathParam(Pattern(<<"projects", "topics">>))
      r     == Resource(<<"projects", "topics">>, "")
  IN [r EXCEPT
        !.methods = [create |-> Call("PUT", V1(<<Rest("name")>>), r.methods.get.flat, [name |-> named], "resource"),
                     get    |-> Call("GET", item, r.methods.get.flat, [topic |-> named], "none"),
                     delete |-> Call("DELETE", item, r.methods.get.flat, [topic |-> named], "none"),
                     patch  |-> [Call("PATCH", V1(<<Rest("name")>>), r.methods.get.flat, [name |-> named], "other")
                                   EXCEPT !.props = [topic |-> "resource", updateMask |-> "mask"]]],
        !.mm.base = Path(In(MembersMM(<<"projects">>), "topics")),
        !.attrs["name"] = [Fixed EXCEPT !.wire = "name"],
        !.api.from = "path",
        !.api.user = @ @@ [name |-> <<"projects", "/", "p", "/", "topics", "/", "n">>]]

\* The id beside the resource in the create's envelope.
ServiceAccount ==
  [Resource(<<"projects", "serviceAccounts">>, "") EXCEPT
     !.methods["create"].body = "other", !.methods["patch"].body = "other",
     !.methods["patch"].props = [serviceAccount |-> "resource", updateMask |-> "mask"],
     !.request = "envelope", !.beside = {"accountId"}, !.attrs["name"].output = FALSE,
     !.api.from = "beside", !.api.key = "accountId", !.api.fixed = {"name"},
     !.api.user = @ @@ [accountId |-> <<"n">>]]

\* Changed by a PUT of the whole.
ScalingPolicy ==
  LET r == Resource(Located("scalingPolicies"), "") IN
  [r EXCEPT
     !.methods = Restrict(@, DOMAIN @ \ {"patch"}) @@
        [update |-> [r.methods.patch EXCEPT !.verb = "PUT", !.params = r.methods.get.params]],
     !.attrs = @ @@ Fields([id |-> Fixed, worker |-> Field]),
     !.mm.base = Path(In(MembersMM(<<"projects", "locations">>), "scalingPolicies")),
     !.mm.self = Path(MemberMM(Located("scalingPolicies"), "policy_id")),
     !.api.key = "id",
     !.api.user = @ @@ [id |-> <<"n">>, worker |-> <<"w">>]]

\* In a database that only its urls name; its id is the server's.
BackupSchedule ==
  LET colls == <<"projects", "databases", "backupSchedules">> IN
  [Resource(colls, "") EXCEPT
     !.mm.base = Path(In(MembersMM(Front(colls)), "backupSchedules")),
     !.mm.self = Path(MemberMM(colls, "name")),
     !.mm.imports = <<MemberMM(colls, "name"), <<MM("project"), MM("database"), MM("name")>>>>,
     !.api.from = "server",
     !.api.id = <<"projects", "/", "p", "/", "databases", "/", "d", "/", "backupSchedules", "/", "9">>,
     !.api.user = @ @@ [database |-> <<"d">>, name |-> <<"9">>]]

\* Its parent is an instance that nothing in configuration names.
AppProfile == Resource(<<"projects", "instances", "appProfiles">>, "appProfileId")

\* Attributes nested in its reference, and a url with what no attribute says.
Dataset ==
  LET item == <<Lit("projects"), Rest("projectId"), Lit("datasets"), Rest("datasetId")>>
      in   == [projectId |-> PathParam(<<One("*")>>)]
      both == in @@ [datasetId |-> PathParam(<<One("*")>>)]
      flat == Members1(<<"projects", "datasets">>)
      version == [accessPolicyVersion |-> QueryParam(FALSE)]
      asks == <<[key |-> "accessPolicyVersion", value |-> Lit("3")]>>
      own  == MemberMM(<<"projects", "datasets">>, "dataset_id")
  IN [Collection EXCEPT !.basePath = <<"bigquery", "/", "v2", "/">>,
        !.methods = [insert |-> Call("POST", Front(item), Front(flat), in @@ version, "resource"),
                     get    |-> Call("GET", item, flat, both, "none"),
                     patch  |-> Call("PATCH", item, flat, both @@ version, "resource"),
                     delete |-> Call("DELETE", item, flat, both, "none")],
        !.mm.base = Path(In(MembersMM(<<"projects">>), "datasets")),
        !.mm.create = [path |-> In(MembersMM(<<"projects">>), "datasets"), query |-> asks],
        !.mm.update = [path |-> own, query |-> asks],
        !.mm.delete = [path |-> own, query |-> <<[key |-> "deleteContents", value |-> MM("delete_contents")]>>],
        !.mm.self = Path(own),
        !.attrs = Fields([datasetReference |-> Fixed, labels |-> Field, selfLink |-> Computed]),
        !.api.link = <<"www", "/">>, !.api.key = "datasetReference", !.api.names = "none",
        !.api.honours = {"labels"},
        !.api.user = [datasetReference |-> <<"n">>, labels |-> <<"l">>, dataset_id |-> <<"n">>]]

\* A name with separators in it, which its urls and its id escape.
LogMetric ==
  LET colls == <<"projects", "metrics">>
      r     == Resource(colls, "")
      own   == [metricName |-> PathParam(Pattern(colls))]
      call(verb, body) == Call(verb, V1(<<Rest("metricName")>>), r.methods.get.flat, own, body)
  IN [r EXCEPT
        !.methods = [create |-> r.methods.create, get |-> call("GET", "none"),
                     delete |-> call("DELETE", "none"), update |-> call("PUT", "resource")],
        !.mm.base = Path(In(MembersMM(<<"projects">>), "metrics")),
        !.mm.self = Path(MemberMM(colls, "name")),
        !.mm.imports = <<<<MM("name")>>>>,
        !.attrs = Fields([name |-> Fixed, filter |-> Field]),
        !.api.names = "short", !.api.from = "whole",
        !.api.user = [name |-> <<"team", "/", "errors">>, filter |-> <<"f">>]]

\* No get: read by listing the project it is bound to.
TagBinding ==
  LET parent == <<"/", "/", "crm", "/", "projects", "/", "p">>
      bound(value) == <<"tagBindings", "/">> \o Escape(parent) \o <<"/", "tagValues", "/", value>>
      at     == V1(<<Lit("tagBindings")>>)
  IN [Collection EXCEPT
        !.methods = [create |-> Call("POST", at, at, NoAttrs, "resource"),
                     list   |-> Call("GET", at, at, [parent |-> QueryParam(TRUE)], "none"),
                     delete |-> Call("DELETE", V1(<<Rest("name")>>), Append(at, Rest("name")),
                                     [name |-> PathParam(<<Lit("tagBindings"), Rest("*")>>)], "none")],
        !.mm.base = Path(<<Lit("tagBindings")>>),
        !.mm.self = Path(<<Lit("tagBindings"), Lit("")>>),
        !.mm.imports = <<<<Lit("tagBindings"), MM("name")>>, <<MM("name")>>>>,
        !.attrs = Fields([name |-> Computed, parent |-> Field, tagValue |-> Field]),
        !.ruling.allForceNew = TRUE,
        !.api.names = "full", !.api.from = "server", !.api.id = bound("7"),
        !.api.parent = parent,
        !.api.others = <<("name" :> bound("8")), ("name" :> bound("9"))>>,
        !.api.user = [parent |-> parent, tagValue |-> <<"tagValues", "/", "7">>]]

\* Types that nobody can use: deleted by a POST; read outside of where they
\* are created; made by more than their documents say.
Refused == [Compute(Region, "jobs") EXCEPT !.methods["delete"].verb = "POST"]
Elsewhere == [Compute(Region, "grants") EXCEPT !.mm.self = Path(MemberMM(<<"projects", "zones", "grants">>, "name"))]
Hidden == [Compute(Region, "groups") EXCEPT
  !.mm.create = [path |-> In(MembersMM(Region), "groups"),
                 query |-> <<[key |-> "filter", value |-> PreCreateToken]>>],
  !.methods["insert"].params = @ @@ [filter |-> QueryParam(TRUE)], !.attrs = @ @@ Fields([filter |-> Computed])]
Counted == [Hidden EXCEPT !.attrs = Restrict(@, DOMAIN @ \ {"filter"}), !.api.user = @ @@ [filter |-> <<"3">>]]

-----------------------------------------------------------------------------
(* Collections, and releases of them *)

Col(service, path, posts, src) ==
  [service |-> service, path |-> path, posts |-> posts, src |-> [src EXCEPT !.service = service]]

-----------------------------------------------------------------------------

Corpus(cols) ==
  [cols |-> cols, decls |-> [s \in {cols[i].service : i \in DOMAIN cols} |-> <<>>], rulings |-> <<>>]

Flat ==
  Corpus(<<Col("compute", <<"projects", "regions", "addresses">>, "addresses", Address),
           Col("compute", <<"projects", "regions", "forwardingRules">>, "forwardingRules", ForwardingRule),
           Col("compute", <<"projects", "regions", "resourcePolicies">>, "resourcePolicies", ResourcePolicy),
           Col("compute", <<"projects", "regions", "securityPolicies">>, "securityPolicies", SecurityPolicy),
           Col("compute", <<"projects", "regions", "targetProxies">>, "targetProxies", TargetProxy)>>)

Mixed ==
  Corpus(<<Col("storage", <<"b">>, "b", Bucket),
           Col("sqladmin", <<"projects", "instances", "users">>, "users", User),
           Col("bigquery", <<"projects", "datasets">>, "datasets", Dataset),
           Col("dataproc", <<"projects", "locations", "scalingPolicies">>, "scalingPolicies", ScalingPolicy)>>)

Oriented ==
  Corpus(<<Col("kms", <<"projects", "locations", "keyRings">>, "keyRings", KeyRing),
           Col("redis", <<"projects", "locations", "aclPolicies">>, "aclPolicies", AclPolicy),
           Col("networksecurity", <<"projects", "locations", "tlsPolicies">>, "tlsPolicies", TlsPolicy),
           Col("monitoring", <<"projects", "alertPolicies">>, "alertPolicies", AlertPolicy),
           Col("cloudtasks", <<"projects", "locations", "queues">>, "queues", Queue)>>)

Enveloped ==
  Corpus(<<Col("pubsub", <<"projects", "topics">>, "topics", Topic),
           Col("iam", <<"projects", "serviceAccounts">>, "serviceAccounts", ServiceAccount),
           Col("firestore", <<"projects", "databases", "backupSchedules">>, "backupSchedules", BackupSchedule),
           Col("bigtable", <<"projects", "instances", "appProfiles">>, "appProfiles", AppProfile),
           Col("compute", <<"projects", "regions", "jobs">>, "jobs", Refused),
           Col("compute", <<"projects", "regions", "grants">>, "grants", Elsewhere)>>)

Ruling(service, resource, ruling) == <<service, resource>> :> ruling

\* What magic-modules declares at a path, under a name of its own.
Decl(product, name, path, mm) ==
  [product |-> product, name |-> name, endings |-> {name, MCSingular[Last(path)]},
   created |-> Last(path), based |-> Last(path), literals |-> path, parented |-> FALSE, axes |-> {},
   served |-> TRUE, hooks |-> {}, urls |-> mm]

DeclOf(col, name) == Decl(col.service, name, col.path, col.src.mm)

\* Two roots that singularize alike, and that magic-modules calls by two names.
Secrets == <<Col("secretmanager", <<"projects", "locations", "secrets">>, "secrets", RegionalSecret),
             Col("secretmanager", <<"projects", "secrets">>, "secrets", Secret)>>
Axes == <<Col("compute", <<"projects", "regions", "autoscalers">>, "autoscalers", Autoscaler(Region)),
          Col("compute", <<"projects", "zones", "autoscalers">>, "autoscalers", Autoscaler(Zone))>>

NamedByMagicModules ==
  [Corpus(Secrets \o Axes) EXCEPT
     !.decls["secretmanager"] = <<DeclOf(Secrets[2], "secret"), DeclOf(Secrets[1], "regionalSecret")>>,
     !.decls["compute"] = <<DeclOf(Axes[2], "autoscaler"), DeclOf(Axes[1], "regionAutoscaler")>>]

\* Hooks, ruled on and not; a type without a get, listed by a ruling.
Tags == Col("crm", <<"tagBindings">>, "tagBindings", TagBinding)
Groups == Col("compute", <<"projects", "regions", "groups">>, "groups", Hidden)
Counters == Col("compute", <<"projects", "regions", "counters">>, "counters", Counted)
Jobs == Col("compute", <<"projects", "regions", "jobs">>, "jobs", Address)

WithRulings ==
  LET hooked(col, name) == [DeclOf(col, name) EXCEPT !.hooks = {"pre_create"}]
      ruled == [hooks |-> {"pre_create"}, readVia |-> "", given |-> TRUE]
  IN [cols    |-> <<Tags, Groups, Counters, Jobs>>,
      decls   |-> [crm     |-> <<DeclOf(Tags, "tagBinding")>>,
                   compute |-> <<hooked(Groups, "group"), hooked(Counters, "counter"), hooked(Jobs, "job")>>],
      rulings |-> Ruling("crm", "tagBinding", [hooks |-> {}, readVia |-> "list", given |-> TRUE])
                  @@ Ruling("compute", "counter", ruled) @@ Ruling("compute", "group", ruled)]

\* One name asked for by two services, by two roots and by two axes, over
\* three releases, with a collection withdrawn in between and a type that has
\* more attributes when it comes again.
StorageBucket == Col("storage", <<"b">>, "b", Bucket)
InPlace == [projects |-> "p", locations |-> "r", zones |-> "z"]
Placed(colls) ==
  Joined(FlattenSeq([i \in DOMAIN colls |->
    << <<colls[i]>>, <<IF colls[i] \in DOMAIN InPlace THEN InPlace[colls[i]] ELSE "9">> >>]))
Stored(service, colls) ==
  Col(service, colls, Last(colls),
      [Resource(colls, "") EXCEPT !.api.from = "server", !.api.id = Placed(colls)])
LogBuckets == Stored("logging", Located("buckets"))
GrownBuckets ==
  [LogBuckets EXCEPT !.src.attrs = @ @@ Fields([analytics |-> Field]),
     !.src.api.honours = {"labels", "analytics"}, !.src.api.user = @ @@ [analytics |-> <<"on">>]]
OrgBuckets == Stored("logging", <<"organizations", "locations", "buckets">>)
OldClusters == Stored("container", <<"projects", "zones", "clusters">>)
Clusters == Stored("container", Located("clusters"))
ClusterPools == Stored("container", <<"projects", "locations", "clusters", "pools">>)
LiteTopics == Stored("pubsublite", <<"projects", "topics">>)
HubTopics == Stored("hub", Located("topics"))
QueuePools == Stored("container", <<"projects", "locations", "queues", "pools">>)

Releases ==
  <<Corpus(<<StorageBucket>>),
    Corpus(<<LogBuckets, OrgBuckets, Clusters, OldClusters>>),
    Corpus(<<StorageBucket, GrownBuckets, OrgBuckets, ClusterPools, QueuePools, Clusters, OldClusters,
             LiteTopics, HubTopics>>)>>

\* Two collections that come to one name: under the folder root, and under a
\* collection that is called so.
Folders ==
  Corpus(<<Stored("docs", <<"folders", "topics">>), Stored("docs", <<"projects", "folder", "topics">>),
           Stored("docs", <<"projects", "clusters", "topics">>)>>)

MCCorpora ==
  {Releases, <<Flat>>, <<Mixed>>, <<Oriented>>, <<Enveloped>>, <<NamedByMagicModules>>, <<WithRulings>>, <<Folders>>}

MCHistories == {[i \in DOMAIN corpora |-> Build(corpora[i])] : corpora \in MCCorpora}

MCGenerations == UNION {{h[i].named : i \in DOMAIN h} : h \in MCHistories}
MCCandidates == UNION MCGenerations

\* What no history above has: a value that is escaped in its url.
EscapedHistories == {<<Build(Corpus(<<Col("logging", <<"projects", "metrics">>, "metrics", LogMetric)>>))>>}
EscapedGenerations == UNION {{h[i].named : i \in DOMAIN h} : h \in EscapedHistories}
EscapedCandidates == UNION EscapedGenerations

(* The hypotheses of CatalogProofs, of all these releases: every type fits *)
(* its API, and so do its requests, under every name, but those that are   *)
(* read by listing, at a host of their region's, or named by what is       *)
(* escaped; and from release to release a key keeps its type.              *)
ASSUME MostTypesFit ==
  /\ \A r \in Offered : \A c \in DOMAIN r.types : \A n \in NameWords :
       LET t == Named(n, r.types[c])
       IN  \/ Fits(t) /\ RequestsFit(t) /\ FieldsFit(t)
           \/ t.ty.readVia # "" \/ t.ty.regional \/ t.src.api.from = "whole"
  /\ TypesAgree
=============================================================================
