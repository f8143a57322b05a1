----------------------------- MODULE Reconcile ------------------------------
(***************************************************************************)
(* internal/gcprov/reconcile.go: GCP's answer, expressed the way the       *)
(* reference (configuration, or the last observation) is, so that equality *)
(* means that nothing has drifted; and the diff of patch.go that decides   *)
(* from such a state what a patch sends.                                   *)
(*                                                                         *)
(* A value is a leaf, a map or a list.  A leaf's text stands for what it   *)
(* says and its spelling for how it is written: the string work of the     *)
(* equivalences (self links, port ranges, durations) is abstracted to      *)
(* whether two leaves have the same text.  A resource name of a project    *)
(* is spelled with its "id" or its "number".                               *)
(***************************************************************************)
EXTENDS Naturals, Sequences, FiniteSets, SequencesExt, Functions

CONSTANTS
  \* The recursive calls: each stands for the operator of its name, applied to
  \* what a value holds, and is given that operator as its value (Recursive).
  innerAnswersTo(_, _),
  innerValue(_, _, _, _, _),
  innerWithoutReservedLabels(_, _),
  innerChanged(_, _, _)

NoFields == [n \in {} |-> n]

Leaf(k, t, s) ==
  [kind |-> k, text |-> t, spelling |-> s, fields |-> NoFields, items |-> <<>>]
MapOf(f) ==
  [kind |-> "map", text |-> "", spelling |-> "", fields |-> f, items |-> <<>>]
ListOf(q) ==
  [kind |-> "list", text |-> "", spelling |-> "", fields |-> NoFields, items |-> q]

(* The zero value.Value: absent, and unknown. *)
Nothing == Leaf("none", "", "")

Known(v) == v.kind # "none"

Get(f, n) == IF n \in DOMAIN f THEN f[n] ELSE Nothing

(* catalog.Attr.  elem is empty, or holds the one attribute of the list's  *)
(* elements; rule says whether there is an Equivalence.                    *)
Attr(k) ==
  [kind |-> k, fields |-> NoFields, elem |-> <<>>, opaque |-> FALSE, unordered |-> FALSE,
   inputOnly |-> FALSE, output |-> FALSE, createOnly |-> FALSE, rule |-> FALSE, labels |-> FALSE]

Reserved == {"goog-managed-by"}     \* the labels in GCP's own namespace

Numbers == {"int", "float"}

(* Coerce converts a number only where that is exact. *)
asDeclaredKind(attr, in) ==
  IF {attr.kind, in.kind} \subseteq Numbers /\ in.text # "fraction"
    THEN Leaf(attr.kind, in.text, in.spelling) ELSE in

sameByEquivalence(attr, ref, in) ==
  IF attr.rule /\ ref.kind = "string" /\ in.kind = "string" /\ ref.text = in.text
    THEN ref ELSE in

(* aliases: the projects whose number has been resolved (at most our own). *)
sameProjectSpelling(aliases, ref, in) ==
  IF /\ ref.kind = "string" /\ in.kind = "string"
     /\ {ref.spelling, in.spelling} = {"id", "number"}
     /\ ref.text = in.text /\ in.text \in aliases
    THEN ref ELSE in

isZero(v) ==
  CASE v.kind = "none" -> FALSE
    [] v.kind = "map"  -> DOMAIN v.fields = {}
    [] v.kind = "list" -> v.items = <<>>
    [] OTHER           -> v.text = "zero"

(* A field the API never returns is as the reference has it. *)
carryInputOnly(attr, ref, unmatched) == attr.inputOnly /\ ~ unmatched /\ Known(ref)

(* Mutant: whatever the answer leaves out is as configured. *)
carryOmittedZero_Any(ref, unmatched) == Known(ref) /\ ~ unmatched

(* GCP's JSON leaves a zero value out. *)
carryOmittedZero(ref, unmatched) == isZero(ref) /\ ~ unmatched

(* An element answers to the one wanted when it agrees with everything     *)
(* that one says.                                                          *)
answersTo(want, got) ==
  CASE want.kind = "map" /\ got.kind = "map" ->
         \A n \in DOMAIN want.fields :
           n \in DOMAIN got.fields /\ innerAnswersTo(want.fields[n], got.fields[n])
    [] want.kind = "list" /\ got.kind = "list" ->
         /\ Len(want.items) = Len(got.items)
         /\ \A i \in DOMAIN want.items : innerAnswersTo(want.items[i], got.items[i])
    [] OTHER -> want = got

(* Mutant: a list is left in the order of the answer. *)
inReferenceOrder_Not(ref, items) == items

(* The reference's order for what both sides hold -- each element wanted   *)
(* takes the first one left that answers to it -- then what GCP added.     *)
inReferenceOrder(ref, items) ==
  LET Pair(taken, want) ==
        LET fits == {i \in DOMAIN items \ Range(taken) : answersTo(want, items[i])}
        IN  IF fits = {} THEN taken
            ELSE Append(taken, CHOOSE i \in fits : \A j \in fits : i <= j)
      paired == FoldLeft(Pair, <<>>, ref)
      added == SetToSortSeq(DOMAIN items \ Range(paired), <)
  IN  [k \in DOMAIN items |-> items[(paired \o added)[k]]]


(* Undeclared keys are dropped, and against a real reference the ones it   *)
(* never set; inside an unordered list, whose elements are handed one of   *)
(* their siblings, only the output-only ones.                              *)
object(aliases, unmatched, attr, ref, in) ==
  LET asked(n) ==
        IF unmatched THEN ~ attr.fields[n].output ELSE n \in DOMAIN ref.fields
      answered == {n \in DOMAIN attr.fields \cap DOMAIN in.fields :
                     ref.kind = "map" => asked(n)}
      carried == {n \in DOMAIN attr.fields \ DOMAIN in.fields :
                    \/ carryInputOnly(attr.fields[n], Get(ref.fields, n), unmatched)
                    \/ carryOmittedZero(Get(ref.fields, n), unmatched)}
  IN  MapOf([n \in answered \cup carried |->
        IF n \in answered
          THEN innerValue(aliases, unmatched, attr.fields[n], Get(ref.fields, n), in.fields[n])
          ELSE ref.fields[n]])

(* Every element against the reference's at its position, which for an     *)
(* unordered list may be a sibling.                                        *)
list(aliases, unmatched, attr, ref, in) ==
  LET items == [i \in DOMAIN in.items |->
                  innerValue(aliases, unmatched \/ attr.unordered, attr.elem[1],
                             IF i \in DOMAIN ref.items THEN ref.items[i] ELSE Nothing,
                             in.items[i])]
  IN  ListOf(IF attr.unordered THEN inReferenceOrder(ref.items, items) ELSE items)

value(aliases, unmatched, attr, ref, in) ==
  CASE attr.opaque \/ ~ Known(in) -> in
    [] attr.kind = "map" /\ in.kind = "map" /\ DOMAIN attr.fields # {} ->
         object(aliases, unmatched, attr, ref, in)
    [] attr.kind = "list" /\ in.kind = "list" /\ attr.elem # <<>> ->
         list(aliases, unmatched, attr, ref, in)
    [] OTHER ->
         sameByEquivalence(attr, ref, sameProjectSpelling(aliases, ref, asDeclaredKind(attr, in)))

withoutReservedLabels(attr, v) ==
  CASE attr.labels /\ v.kind = "map" ->
         MapOf([n \in DOMAIN v.fields \ Reserved |-> v.fields[n]])
    [] v.kind = "map" /\ DOMAIN attr.fields # {} ->
         MapOf([n \in DOMAIN v.fields |-> innerWithoutReservedLabels(attr.fields[n], v.fields[n])])
    [] v.kind = "list" /\ attr.elem # <<>> ->
         ListOf([i \in DOMAIN v.items |-> innerWithoutReservedLabels(attr.elem[1], v.items[i])])
    [] OTHER -> v

(* Mutant: what the schema does not declare is kept. *)
attrs_Undeclared(aliases, declared, ref, in) ==
  [n \in DOMAIN in |->
     IF n \in DOMAIN declared THEN value(aliases, FALSE, declared[n], Get(ref, n), in[n]) ELSE in[n]]

(* reconciler.attrs, with what stateFrom does around it: undeclared keys   *)
(* are left out of the state, and what only a create says is carried.      *)
attrs(aliases, declared, ref, in) ==
  LET answered == DOMAIN declared \cap DOMAIN in
      carried == {n \in DOMAIN declared \ DOMAIN in :
                    \/ carryInputOnly(declared[n], Get(ref, n), FALSE)
                    \/ carryOmittedZero(Get(ref, n), FALSE)
                    \/ declared[n].createOnly /\ n \in DOMAIN ref}
  IN  [n \in answered \cup carried |->
         IF n \in answered
           THEN withoutReservedLabels(declared[n],
                  value(aliases, FALSE, declared[n], Get(ref, n), in[n]))
           ELSE ref[n]]

-----------------------------------------------------------------------------
(* Mutant: what the state does not show is not missed. *)
Changed_Shown(declared, have, want) ==
  LET sent == {n \in DOMAIN want \cap DOMAIN declared :
                 /\ ~ declared[n].output
                 /\ n \in DOMAIN have
                 /\ have[n] # want[n]}
      entered == {n \in sent : DOMAIN declared[n].fields # {} /\ have[n].kind = "map"}
  IN  [n \in sent |-> IF n \in entered
                        THEN MapOf(innerChanged(declared[n].fields, have[n].fields, want[n].fields))
                        ELSE want[n]]

(* BuildMask and buildNested: what differs from the state, as the patch    *)
(* has it.  A map with declared fields on both sides is entered; anything  *)
(* else is sent whole.  What configuration does not mention is not sent.   *)
Changed(declared, have, want) ==
  LET differs == {n \in DOMAIN want \cap DOMAIN declared :
                    /\ ~ declared[n].output
                    /\ Known(want[n])
                    /\ Get(have, n) # want[n]}
      entered == {n \in differs :
                    /\ DOMAIN declared[n].fields # {}
                    /\ want[n].kind = "map" /\ Get(have, n).kind = "map"}
      Inner(n) == innerChanged(declared[n].fields, have[n].fields, want[n].fields)
      sent == {n \in differs : n \in entered => DOMAIN Inner(n) # {}}
  IN  [n \in sent |-> IF n \in entered THEN MapOf(Inner(n)) ELSE want[n]]
=============================================================================
