------------------------------ MODULE Refresh -------------------------------
(***************************************************************************)
(* One resource under the host's plan: created or imported, refreshed,     *)
(* changed by others, edited in configuration and updated, with every      *)
(* answer reconciled (Reconcile.tla) before it becomes state.  That a call *)
(* may fail is left to Create.tla and Update.tla: here every request is    *)
(* answered, in any of the ways GCP may write what it holds.               *)
(***************************************************************************)
EXTENDS Reconcile

CONSTANTS
  Types,        \* by name, [attrs, configs]: a schema, and configurations of it
  Attrs,        \* the attributes of all schemas, at any depth
  Depth,        \* how deep what is inside an attribute goes
  OwnProject,   \* the text of this instance's own project
  Habits,       \* a subset of AllHabits
  MaxTrouble,   \* bound: edits and changes by others, over a run
  \* More recursive calls, as in Reconcile.
  innerFits(_, _, _),
  innerFilled(_, _),
  innerWritten(_, _, _),
  innerMerged(_, _, _),
  innerHolds(_, _, _)

(* What GCP may do beyond answering in its own words:                      *)
(* "respells" answers an element of an unordered list in another spelling  *)
(* "lookup"   fails the lookup of the project's number                     *)
AllHabits == {"respells", "lookup"}

(* What GCP fills in by itself: any text that it can be asked about and    *)
(* that is not asked of the user alone.                                    *)
FilledIn(attr) ==
  /\ attr.kind = "string" /\ DOMAIN attr.fields = {} /\ attr.elem = <<>>
  /\ ~ attr.inputOnly /\ ~ attr.createOnly

(* The attributes directly inside one. *)
Inside(attr) == Range(attr.fields) \cup Range(attr.elem)

(* A schema as the generator writes it.  That every object has a field     *)
(* that GCP fills in (an id, a link, a fingerprint) is so of the API.      *)
WellFormed(attr) ==
  /\ attr.kind \in {"string", "bool", "int", "float", "map", "list"}
  /\ {attr.opaque, attr.unordered, attr.inputOnly, attr.output, attr.createOnly, attr.rule,
      attr.labels} \subseteq BOOLEAN
  /\ attr.elem = <<>> \/ attr.elem = <<attr.elem[1]>>
  /\ DOMAIN attr.fields # {} =>
       /\ attr.kind = "map"
       /\ "etag" \notin DOMAIN attr.fields
       /\ \E n \in DOMAIN attr.fields : FilledIn(attr.fields[n])
  /\ attr.elem # <<>> => attr.kind = "list" /\ DOMAIN attr.fields = {}
  /\ attr.opaque => attr.kind = "map" /\ DOMAIN attr.fields = {}
  /\ attr.labels => attr.opaque
  /\ attr.rule => attr.kind = "string"
  /\ Inside(attr) \subseteq {a \in Attrs : Depth[a] < Depth[attr] /\ ~ a.createOnly}

(* A value of an attribute's type, as the host's check of a configuration  *)
(* against the schema lets it through; own, when it is a configuration's,  *)
(* which sets no output and none of GCP's own labels.                      *)
FitsFields(own, declared, f) ==
  /\ f = [n \in DOMAIN f |-> f[n]]
  /\ DOMAIN f \subseteq DOMAIN declared
  /\ \A n \in DOMAIN f : innerFits(own, declared[n], f[n]) /\ ~ (own /\ declared[n].output)

Fits(own, attr, v) ==
  CASE attr.kind = "map" /\ DOMAIN attr.fields # {} ->
         v = MapOf(v.fields) /\ FitsFields(own, attr.fields, v.fields)
    [] attr.kind = "map" /\ DOMAIN attr.fields = {} ->
         /\ v = MapOf(v.fields) /\ v.fields = [n \in DOMAIN v.fields |-> v.fields[n]]
         /\ ~ (own /\ attr.labels /\ DOMAIN v.fields \cap Reserved # {})
    [] attr.kind = "list" ->
         /\ v = ListOf(v.items)
         /\ v.items = [i \in 1..Len(v.items) |-> v.items[i]] /\ Len(v.items) \in Nat
         /\ attr.elem # <<>> => \A i \in 1..Len(v.items) : innerFits(own, attr.elem[1], v.items[i])
    [] OTHER ->
         /\ v = Leaf(attr.kind, v.text, v.spelling)
         /\ v.text = "zero" => v.spelling = ""      \* there is one zero of a kind

ASSUME RefreshAssumption ==
  /\ Habits \subseteq AllHabits
  /\ MaxTrouble \in Nat
  /\ Depth \in [Attrs -> Nat]
  /\ \A attr \in Attrs : WellFormed(attr)
  /\ \A t \in DOMAIN Types :
       LET declared == Types[t].attrs
       IN  /\ Range(declared) \subseteq Attrs
           /\ "etag" \notin DOMAIN declared
           /\ \A c \in Types[t].configs : FitsFields(TRUE, declared, c)

VARIABLES
  type,       \* the resource's type; never changes
  config,     \* the configuration's attributes
  held,       \* the resource as GCP has it
  state,      \* the attributes on the host's record
  aliases,    \* the project lookup: "unasked", "known" or "unknown"
  phase,      \* "absent" or "tracked"
  fresh,      \* the state was read after held last changed
  untouched,  \* neither config nor held changed since the last apply
  trouble     \* changes left

vars == <<type, config, held, state, aliases, phase, fresh, untouched, trouble>>

Schema  == Types[type].attrs
Configs == Types[type].configs

-----------------------------------------------------------------------------
(* GCP. *)

Chosen == Leaf("string", "server", "plain")     \* a value of GCP's own choice

(* What GCP makes of what it was sent: it fills in what was left out, and  *)
(* a label of its own.                                                     *)
FilledFields(declared, f) ==
  LET own == {n \in DOMAIN declared \ DOMAIN f : FilledIn(declared[n])}
  IN  [n \in DOMAIN f \cup own |->
         IF n \in DOMAIN f THEN innerFilled(declared[n], f[n]) ELSE Chosen]

Filled(attr, v) ==
  CASE attr.labels -> MapOf([n \in DOMAIN v.fields \cup Reserved |->
                               IF n \in DOMAIN v.fields THEN v.fields[n] ELSE Chosen])
    [] v.kind = "map" /\ DOMAIN attr.fields # {} -> MapOf(FilledFields(attr.fields, v.fields))
    [] v.kind = "list" /\ attr.elem # <<>> ->
         ListOf([i \in DOMAIN v.items |-> innerFilled(attr.elem[1], v.items[i])])
    [] OTHER -> v

(* All functions that take of each set of W one element. *)
OneOfEach(W) == {f \in [DOMAIN W -> UNION Range(W)] : \A n \in DOMAIN W : f[n] \in W[n]}

(* The spellings GCP may answer a text in: any for which there is an       *)
(* Equivalence, and those of its own project.  Inside an unordered list    *)
(* (inSet) it keeps the spelling it was sent, unless it "respells".        *)
Spellings(attr, v, inSet) ==
  CASE attr.rule -> IF inSet /\ "respells" \notin Habits THEN {v.spelling}
                                                         ELSE {"plain", "other"}
    [] v.spelling \in {"id", "number"} /\ v.text = OwnProject -> {"id", "number"}
    [] OTHER -> {v.spelling}

(* The ways GCP may write what it holds: in another spelling, a whole      *)
(* number as such, the elements of an unordered list in any order, without *)
(* what it never returns, and without zeros -- and with a key that no      *)
(* schema declares.                                                        *)
WrittenFields(declared, f, inSet) ==
  LET silent == {n \in DOMAIN f : declared[n].inputOnly \/ declared[n].createOnly}
      zeros == {n \in DOMAIN f : isZero(f[n])}
      told == {DOMAIN f \ silent, DOMAIN f \ (silent \cup zeros)}
      Ways(D) == [n \in D |-> innerWritten(declared[n], f[n], inSet)]
      Plus(g) == [n \in DOMAIN g \cup {"etag"} |-> IF n \in DOMAIN g THEN g[n] ELSE Chosen]
  IN  UNION {{Plus(g) : g \in OneOfEach(Ways(D))} : D \in told}

Written(attr, v, inSet) ==
  CASE v.kind = "map" /\ DOMAIN attr.fields # {} ->
         {MapOf(f) : f \in WrittenFields(attr.fields, v.fields, inSet)}
    [] v.kind = "list" /\ attr.elem # <<>> ->
         LET all == OneOfEach([i \in DOMAIN v.items |->
                      innerWritten(attr.elem[1], v.items[i], inSet \/ attr.unordered)])
         IN  IF attr.unordered
               THEN {ListOf([i \in DOMAIN q |-> q[o[i]]]) : q \in all,
                       o \in {p \in [DOMAIN v.items -> DOMAIN v.items] :
                                Range(p) = DOMAIN v.items}}
               ELSE {ListOf(q) : q \in all}
    [] v.kind = "float" /\ v.text # "fraction" -> {Leaf("int", v.text, v.spelling)}
    [] v.kind = "string" -> {Leaf("string", v.text, s) : s \in Spellings(attr, v, inSet)}
    [] OTHER -> {v}

-----------------------------------------------------------------------------
(* The provider. *)

Resolved(a) == IF a = "known" THEN {OwnProject} ELSE {}

(* An answer becomes state.  The project's number is looked up, once, when *)
(* two spellings of a project disagree for the first time.                 *)
Observe(ref) ==
  /\ fresh' = TRUE
  /\ \E answer \in WrittenFields(Schema, held', FALSE) :
       LET As(a) == attrs(Resolved(a), Schema, ref, answer)
       IN  /\ aliases' \in
                IF aliases # "unasked" \/ As("known") = As("unknown") THEN {aliases}
                ELSE {"known"} \cup (IF "lookup" \in Habits THEN {"unknown"} ELSE {})
           /\ state' = As(aliases')

(* The planner compares what configuration names, and only that at the top *)
(* level; inside, it forgives nothing.                                     *)
Planned == {n \in DOMAIN config : Get(state, n) # config[n]}

MergedFields(declared, base, change) ==
  [n \in DOMAIN base \cup DOMAIN change |->
     IF n \notin DOMAIN change THEN base[n]
     ELSE innerMerged(declared[n], Get(base, n), change[n])]

(* GCP writes a patch into what it holds. *)
Merged(attr, base, change) ==
  IF DOMAIN attr.fields # {} /\ base.kind = "map" /\ change.kind = "map"
    THEN MapOf(MergedFields(attr.fields, base.fields, change.fields))
    ELSE change

TypeOK ==
  /\ type \in DOMAIN Types
  /\ config \in Configs
  /\ DOMAIN held \subseteq DOMAIN Schema
  /\ DOMAIN state \subseteq DOMAIN Schema
  /\ aliases \in {"unasked", "known", "unknown"}
  /\ phase \in {"absent", "tracked"}
  /\ fresh \in BOOLEAN
  /\ untouched \in BOOLEAN
  /\ trouble \in 0..MaxTrouble

Init ==
  /\ type \in DOMAIN Types
  /\ config \in Configs
  /\ held = NoFields
  /\ state = NoFields
  /\ aliases = "unasked"
  /\ phase = "absent"
  /\ fresh = FALSE
  /\ untouched = FALSE
  /\ trouble = MaxTrouble

(* The readback of a create is expressed as what was desired. *)
Create ==
  /\ phase = "absent"
  /\ phase' = "tracked"
  /\ held' = FilledFields(Schema, config)
  /\ Observe(config)
  /\ untouched' = TRUE
  /\ UNCHANGED <<type, config, trouble>>

(* A resource that is there already, with nothing to express it like.  One *)
(* with a field that only a create says is replaced by the next plan.      *)
Import(c) ==
  /\ phase = "absent"
  /\ \A n \in DOMAIN Schema : ~ Schema[n].createOnly
  /\ phase' = "tracked"
  /\ held' = FilledFields(Schema, c)
  /\ Observe(NoFields)
  /\ untouched' = FALSE
  /\ UNCHANGED <<type, config, trouble>>

(* A refresh is expressed like the observation before. *)
Refresh ==
  /\ phase = "tracked"
  /\ UNCHANGED held
  /\ Observe(state)
  /\ UNCHANGED <<type, config, phase, untouched, trouble>>

(* Update, for a plan with changes.  It patches what differs from the      *)
(* state, and returns the state it was given if nothing does.              *)
Update ==
  LET change == Changed(Schema, state, config)
  IN  /\ phase = "tracked"
      /\ Planned # {}
      /\ IF DOMAIN change = {}
           THEN UNCHANGED <<held, state, aliases, fresh, untouched>>
           ELSE /\ held' = FilledFields(Schema, MergedFields(Schema, held, change))
                /\ Observe(config)
                /\ untouched' = fresh
      /\ UNCHANGED <<type, config, phase, trouble>>

Edit(c) ==
  /\ phase = "tracked"
  /\ trouble > 0
  /\ config' = c
  /\ untouched' = FALSE
  /\ trouble' = trouble - 1
  /\ UNCHANGED <<type, held, state, aliases, phase, fresh>>

OthersChange(c) ==
  /\ phase = "tracked"
  /\ trouble > 0
  /\ held' = FilledFields(Schema, c)
  /\ fresh' = FALSE
  /\ untouched' = FALSE
  /\ trouble' = trouble - 1
  /\ UNCHANGED <<type, config, state, aliases, phase>>

Next ==
  \/ Create \/ Refresh \/ Update
  \/ \E c \in Configs : Import(c) \/ Edit(c) \/ OthersChange(c)

Spec == Init /\ [][Next]_vars

-----------------------------------------------------------------------------
(* The resource holds what configuration says: nothing about what it does  *)
(* not mention, or what GCP never shows.                                   *)
HoldsFields(declared, want, have) ==
  \A n \in DOMAIN want :
    \/ declared[n].inputOnly \/ declared[n].createOnly
    \/ isZero(want[n]) /\ n \notin DOMAIN have
    \/ n \in DOMAIN have /\ innerHolds(declared[n], want[n], have[n])

Holds(attr, want, have) ==
  CASE DOMAIN attr.fields # {} -> HoldsFields(attr.fields, want.fields, have.fields)
    [] attr.labels -> want.fields = Restrict(have.fields, DOMAIN have.fields \ Reserved)
    [] attr.elem # <<>> ->
         LET n == Len(want.items)
             Matched(o) == \A i \in 1..n : innerHolds(attr.elem[1], want.items[i], have.items[o[i]])
         IN  /\ Len(have.items) = n
             /\ IF attr.unordered
                  THEN \E o \in [1..n -> 1..n] : Matched(o) /\ Range(o) = 1..n
                  ELSE Matched([i \in 1..n |-> i])
    [] OTHER -> want.text = have.text

(* "The result is incoming, expressed the way reference is, so value.Equal *)
(* between them means 'no drift' and nothing else": nothing is planned for *)
(* a resource that has been applied and that nobody has touched, however   *)
(* often it is read and in whichever of the ways of Written GCP answers.   *)
(* That is so with two restrictions.  The project's number has not been    *)
(* looked up in vain (projects.go prefers "a spurious replacement plan a   *)
(* user can see" there).  And GCP does not "respell" the elements of an    *)
(* unordered list, where the code breaks the claim.                        *)
NoPhantomDrift == untouched /\ aliases # "unknown" => Planned = {}

(* Reconciling hides nothing.  When on a state just read Update finds      *)
(* nothing to send ("Nothing changed") -- all the more when nothing is     *)
(* planned -- GCP holds everything configuration says, whatever was        *)
(* carried over, pruned, reordered or respelled to get to that state, and  *)
(* whether a create, an import, a refresh or an update left it.  So a plan *)
(* that comes again although nothing was sent for it is never about        *)
(* anything configuration says.                                            *)
DriftIsSeen ==
  phase = "tracked" /\ fresh /\ DOMAIN Changed(Schema, state, config) = {} =>
    HoldsFields(Schema, config, held)

(* ... and when there is something to send, one patch of it is enough: GCP *)
(* then holds everything configuration says, although the patch was        *)
(* computed from a state that shows less than GCP has.                     *)
UpdateSettles == [][Update /\ fresh => HoldsFields(Schema, config, held')]_vars
=============================================================================
