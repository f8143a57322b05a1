--------------------------- MODULE RefreshProofs ----------------------------
(***************************************************************************)
(* What is proved of Refresh for every schema, every configuration and     *)
(* every value: that the state agrees with what was last read, so that a   *)
(* plan is empty exactly when it should be.                                *)
(*                                                                         *)
(* The recursion of reconcile.go runs over the schema, and so does the     *)
(* argument.  A law says of one attribute what a step does to a value of   *)
(* it; ByDepth makes of "it holds if it holds of all that is inside" that  *)
(* it holds of every attribute.  The laws, in the order they build up:     *)
(*   Strips   what configuration says fits, and loses no label             *)
(*   Fills    GCP adds nothing to what it has already filled in            *)
(*   Merges, Changes   a patch fits, and so does what it is merged into    *)
(*   Takes    what is sent whole reads back as sent                        *)
(*   Sees     what an answer shows agrees with what is held                *)
(*   Patches  a patch of what differs reads back as configuration          *)
(* The inductive invariant joins them: Faithful says that the state is     *)
(* what some answer showed of what is held, and, after an apply that       *)
(* nobody has disturbed, that every answer reads as configuration.         *)
(*                                                                         *)
(* Two hypotheses.  Recursive: the constants that stand for the recursive  *)
(* calls are the operators themselves, which is what the configurations    *)
(* give them as values; it speaks of every value, so TLC cannot evaluate   *)
(* it.  Ordered: no attribute is an unordered list.  What inReferenceOrder *)
(* does to those is left to TLC.                                           *)
(***************************************************************************)
EXTENDS Refresh, WellFoundedInduction, TLAPS

(* The recursive calls on what is inside attribute a. *)
Unfolds(a) ==
  /\ \A p, u, r, w : innerValue(p, u, a, r, w) = value(p, u, a, r, w)
  /\ \A v : innerWithoutReservedLabels(a, v) = withoutReservedLabels(a, v)
  /\ \A s, c : innerChanged(a.fields, s, c) = Changed(a.fields, s, c)
  /\ \A o, v : innerFits(o, a, v) = Fits(o, a, v)
  /\ \A v : innerFilled(a, v) = Filled(a, v)
  /\ \A v, s : innerWritten(a, v, s) = Written(a, v, s)
  /\ \A h, c : innerMerged(a, h, c) = Merged(a, h, c)
  /\ \A c, h : innerHolds(a, c, h) = Holds(a, c, h)

(* The constants that stand for the recursive calls are what the           *)
(* configurations bind them to.                                            *)
Recursive == \A a \in Attrs : Unfolds(a)

(* Lists are kept in their order. *)
Ordered == \A attr \in Attrs : ~ attr.unordered

-----------------------------------------------------------------------------
(* Induction over what is inside an attribute. *)

LEMMA LeastDepth ==
  ASSUME NEW T \in SUBSET Nat, T # {}
  PROVE  \E m \in T : \A k \in T : m <= k
<1>. DEFINE Below == {p \in Nat \X Nat : p[1] < p[2]}
<1>1. IsWellFoundedOn(Below, Nat)
  BY NatLessThanWellFounded DEF OpToRel
<1>2. PICK x \in T : \A y \in T : ~ (<<y, x>> \in Below)
  BY <1>1, WFMin
<1>3. ASSUME NEW y \in T
      PROVE  x <= y
  <2>1. y < x => <<y, x>> \in Below
    OBVIOUS
  <2>. QED
    BY <2>1, <1>2
<1>. QED
  BY <1>3

(* What holds of an attribute if it holds of all that is inside it holds   *)
(* of every attribute.                                                     *)
LEMMA ByDepth ==
  ASSUME NEW S, \A a \in Attrs : Inside(a) \subseteq S => a \in S
  PROVE  Attrs \subseteq S
<1>. DEFINE Left == {Depth[a] : a \in Attrs \ S}
<1>1. Depth \in [Attrs -> Nat]
  BY RefreshAssumption
<1>2. SUFFICES ASSUME Attrs \ S # {}
               PROVE  FALSE
  OBVIOUS
<1>3. Left \subseteq Nat /\ Left # {}
  BY <1>1, <1>2
<1>4. PICK m \in Left : \A k \in Left : m <= k
  <2>. HIDE DEF Left
  <2>. QED
    BY <1>3, LeastDepth
<1>5. PICK a \in Attrs \ S : Depth[a] = m
  OBVIOUS
<1>6. ASSUME NEW b \in Inside(a)
      PROVE  b \in S
  <2>1. b \in Attrs /\ Depth[b] < Depth[a]
    BY RefreshAssumption DEF WellFormed
  <2>2. b \notin S => Depth[a] <= Depth[b]
    BY <2>1, <1>4, <1>5
  <2>. QED
    BY <2>1, <2>2, <1>1
<1>. QED
  BY <1>5, <1>6

-----------------------------------------------------------------------------
(* The forms of a value. *)

LEMMA Forms ==
  /\ \A f : /\ MapOf(f).kind = "map" /\ MapOf(f).fields = f
            /\ MapOf(f).text = "" /\ MapOf(f).spelling = ""
  /\ \A q : ListOf(q).kind = "list" /\ ListOf(q).items = q
  /\ \A k, t, s : Leaf(k, t, s).kind = k /\ Leaf(k, t, s).text = t /\ Leaf(k, t, s).spelling = s
                  /\ Leaf(k, t, s).fields = NoFields
  /\ Nothing.kind = "none" /\ Nothing.fields = NoFields
  /\ Nothing.text = "" /\ Nothing.spelling = ""
  /\ DOMAIN NoFields = {}
BY DEF MapOf, ListOf, Leaf, Nothing, NoFields

LEMMA MapForm ==
  ASSUME NEW f
  PROVE  MapOf(f).kind = "map" /\ MapOf(f).fields = f
BY Forms

LEMMA IsMapOf ==
  ASSUME NEW v, NEW f, v = MapOf(f)
  PROVE  v.kind = "map" /\ v.fields = f
BY MapForm

LEMMA IsListOf ==
  ASSUME NEW v, NEW q, v = ListOf(q)
  PROVE  v.kind = "list" /\ v.items = q
<1>1. ListOf(q).kind = "list" /\ ListOf(q).items = q
  BY Forms
<1>. QED
  BY <1>1

LEMMA Kinds ==
  ASSUME NEW v
  PROVE  /\ v = MapOf(v.fields) => v.kind = "map"
         /\ v = ListOf(v.items) => v.kind = "list"
<1>1. MapOf(v.fields).kind = "map" /\ ListOf(v.items).kind = "list"
  BY Forms
<1>. QED
  BY <1>1

(* Attributes are objects with declared fields, lists with a declared      *)
(* element, or taken whole.                                                *)
IsObject(a) == DOMAIN a.fields # {}
IsList(a)   == a.elem # <<>>
IsLabels(a) == a.labels

(* A value, outside any unordered list. *)
Read(p, a, r, w) == value(p, FALSE, a, r, w)

LEMMA Schemas ==
  ASSUME NEW a \in Attrs
  PROVE  /\ a.kind \in {"string", "bool", "int", "float", "map", "list"}
         /\ a.opaque \in BOOLEAN /\ a.inputOnly \in BOOLEAN /\ a.output \in BOOLEAN
         /\ a.createOnly \in BOOLEAN /\ a.rule \in BOOLEAN /\ a.labels \in BOOLEAN
         /\ a.unordered \in BOOLEAN
         /\ IsObject(a) => /\ a.kind = "map" /\ ~ IsList(a) /\ ~ a.opaque /\ ~ a.labels /\ ~ a.rule
                           /\ "etag" \notin DOMAIN a.fields
                           /\ \E n \in DOMAIN a.fields : FilledIn(a.fields[n])
                           /\ \A n \in DOMAIN a.fields : /\ a.fields[n] \in Attrs
                                                         /\ a.fields[n] \in Inside(a)
                                                         /\ ~ a.fields[n].createOnly
         /\ IsList(a) => /\ a.kind = "list" /\ ~ a.opaque /\ ~ a.labels /\ ~ a.rule
                         /\ a.elem[1] \in Attrs /\ a.elem[1] \in Inside(a)
         /\ a.opaque => a.kind = "map"
         /\ a.labels => a.opaque
         /\ a.rule => a.kind = "string"
<1>1. WellFormed(a)
  BY RefreshAssumption
<1>2. \A n \in DOMAIN a.fields : a.fields[n] \in Inside(a)
  BY DEF Inside, Range
<1>3. IsList(a) => a.elem[1] \in Inside(a)
  BY <1>1 DEF Inside, Range, IsList, WellFormed
<1>. QED
  BY <1>1, <1>2, <1>3 DEF WellFormed, IsObject, IsList

-----------------------------------------------------------------------------
(* The operators on an object, on a list, and on what is taken whole, with *)
(* names for the functions they build.                                     *)
StripFields(d, f)   == [n \in DOMAIN f |-> innerWithoutReservedLabels(d[n], f[n])]
StripItems(e, q)    == [i \in DOMAIN q |-> innerWithoutReservedLabels(e, q[i])]
StripLabels(f)      == [n \in DOMAIN f \ Reserved |-> f[n]]
FillItems(e, q)     == [i \in DOMAIN q |-> innerFilled(e, q[i])]
FillLabels(f)       == [n \in DOMAIN f \cup Reserved |-> IF n \in DOMAIN f THEN f[n] ELSE Chosen]
ItemAt(q, i)        == IF i \in DOMAIN q THEN q[i] ELSE Nothing
ValueItems(p, e, r, q) == [i \in DOMAIN q |-> innerValue(p, FALSE, e, ItemAt(r, i), q[i])]

IsMap(f) == f = [n \in DOMAIN f |-> f[n]]
IsSeq(q) == q = [i \in 1..Len(q) |-> q[i]] /\ Len(q) \in Nat

LEMMA ObjectWritten ==
  ASSUME NEW a \in Attrs, IsObject(a), NEW v, v.kind = "map", NEW w \in Written(a, v, FALSE)
  PROVE  \E f \in WrittenFields(a.fields, v.fields, FALSE) : w = MapOf(f)
<1>1. DOMAIN a.fields # {}
  BY DEF IsObject
<1>2. Written(a, v, FALSE) = {MapOf(f) : f \in WrittenFields(a.fields, v.fields, FALSE)}
  BY <1>1 DEF Written
<1>. QED
  BY <1>2

LEMMA ObjectForm ==
  ASSUME NEW a \in Attrs, IsObject(a)
  PROVE  /\ \A o, v : Fits(o, a, v) <=> v = MapOf(v.fields) /\ FitsFields(o, a.fields, v.fields)
         /\ \A v : v.kind = "map" =>
              withoutReservedLabels(a, v) = MapOf(StripFields(a.fields, v.fields))
         /\ \A p, r, w : w.kind = "map" => Read(p, a, r, w) = object(p, FALSE, a, r, w)
         /\ \A v : v.kind = "map" => Filled(a, v) = MapOf(FilledFields(a.fields, v.fields))
         /\ \A v, w : v.kind = "map" /\ w \in Written(a, v, FALSE) =>
              \E f \in WrittenFields(a.fields, v.fields, FALSE) : w = MapOf(f)
         /\ \A h, c : h.kind = "map" /\ c.kind = "map" =>
              Merged(a, h, c) = MapOf(MergedFields(a.fields, h.fields, c.fields))
         /\ \A c, h : Holds(a, c, h) <=> HoldsFields(a.fields, c.fields, h.fields)
<1>1. a.kind = "map" /\ a.elem = <<>> /\ ~ a.opaque /\ ~ a.labels /\ DOMAIN a.fields # {}
  BY Schemas DEF IsObject, IsList
<1>2. \A o, v : Fits(o, a, v) <=> v = MapOf(v.fields) /\ FitsFields(o, a.fields, v.fields)
  BY <1>1 DEF Fits
<1>3. \A v : v.kind = "map" => withoutReservedLabels(a, v) = MapOf(StripFields(a.fields, v.fields))
  BY <1>1 DEF withoutReservedLabels, StripFields
<1>4. \A p, r, w : w.kind = "map" => Read(p, a, r, w) = object(p, FALSE, a, r, w)
  BY <1>1 DEF Read, value, Known
<1>5. \A v : v.kind = "map" => Filled(a, v) = MapOf(FilledFields(a.fields, v.fields))
  BY <1>1 DEF Filled
<1>6. ASSUME NEW v, v.kind = "map", NEW w \in Written(a, v, FALSE)
      PROVE  \E f \in WrittenFields(a.fields, v.fields, FALSE) : w = MapOf(f)
  BY <1>6, ObjectWritten
<1>7. \A h, c : h.kind = "map" /\ c.kind = "map" =>
        Merged(a, h, c) = MapOf(MergedFields(a.fields, h.fields, c.fields))
  BY <1>1 DEF Merged
<1>8. \A c, h : Holds(a, c, h) <=> HoldsFields(a.fields, c.fields, h.fields)
  BY <1>1 DEF Holds
<1>. QED
  BY <1>2, <1>3, <1>4, <1>5, <1>6, <1>7, <1>8

LEMMA ListValue ==
  ASSUME NEW a \in Attrs, IsList(a), Ordered, NEW p, NEW r, NEW w, w.kind = "list"
  PROVE  Read(p, a, r, w) = ListOf(ValueItems(p, a.elem[1], r.items, w.items))
<1>1. a.kind = "list" /\ a.elem # <<>> /\ ~ a.opaque /\ ~ a.labels /\ DOMAIN a.fields = {}
  BY Schemas DEF IsObject, IsList
<1>2. ~ a.unordered /\ a.unordered = FALSE /\ (FALSE \/ a.unordered) = FALSE
  BY Schemas DEF Ordered
<1>3. Read(p, a, r, w) = list(p, FALSE, a, r, w)
  BY <1>1 DEF Read, value, Known
<1>4. [i \in DOMAIN w.items |->
         innerValue(p, FALSE \/ a.unordered, a.elem[1],
                    IF i \in DOMAIN r.items THEN r.items[i] ELSE Nothing, w.items[i])]
      = ValueItems(p, a.elem[1], r.items, w.items)
  BY <1>2 DEF ValueItems, ItemAt
<1>. QED
  BY <1>2, <1>3, <1>4 DEF list

LEMMA ListForm ==
  ASSUME NEW a \in Attrs, IsList(a), Ordered
  PROVE  /\ \A o, v : Fits(o, a, v) <=>
              /\ v = ListOf(v.items) /\ IsSeq(v.items)
              /\ \A i \in 1..Len(v.items) : innerFits(o, a.elem[1], v.items[i])
         /\ \A v : v.kind = "list" =>
              withoutReservedLabels(a, v) = ListOf(StripItems(a.elem[1], v.items))
         /\ \A p, r, w : w.kind = "list" =>
              Read(p, a, r, w) = ListOf(ValueItems(p, a.elem[1], r.items, w.items))
         /\ \A v : v.kind = "list" => Filled(a, v) = ListOf(FillItems(a.elem[1], v.items))
         /\ \A v, w : v.kind = "list" /\ w \in Written(a, v, FALSE) =>
              /\ w = ListOf(w.items) /\ IsMap(w.items) /\ DOMAIN w.items = DOMAIN v.items
              /\ \A i \in DOMAIN v.items : w.items[i] \in innerWritten(a.elem[1], v.items[i], FALSE)
         /\ \A h, c : Merged(a, h, c) = c
         /\ \A c, h : Holds(a, c, h) <=>
              /\ Len(h.items) = Len(c.items)
              /\ \A i \in 1..Len(c.items) : innerHolds(a.elem[1], c.items[i], h.items[i])
<1>1. a.kind = "list" /\ a.elem # <<>> /\ ~ a.opaque /\ ~ a.labels /\ DOMAIN a.fields = {}
  BY Schemas DEF IsObject, IsList
<1>2. ~ a.unordered /\ a.unordered = FALSE /\ (FALSE \/ a.unordered) = FALSE
  BY Schemas DEF Ordered
<1>3. \A o, v : Fits(o, a, v) <=>
        /\ v = ListOf(v.items) /\ IsSeq(v.items)
        /\ \A i \in 1..Len(v.items) : innerFits(o, a.elem[1], v.items[i])
  BY <1>1 DEF Fits, IsSeq
<1>4. \A v : v.kind = "list" => withoutReservedLabels(a, v) = ListOf(StripItems(a.elem[1], v.items))
  BY <1>1 DEF withoutReservedLabels, StripItems
<1>5. ASSUME NEW p, NEW r, NEW w, w.kind = "list"
      PROVE  Read(p, a, r, w) = ListOf(ValueItems(p, a.elem[1], r.items, w.items))
  BY <1>5, ListValue
<1>6. \A v : v.kind = "list" => Filled(a, v) = ListOf(FillItems(a.elem[1], v.items))
  BY <1>1 DEF Filled, FillItems
<1>7. ASSUME NEW v, v.kind = "list", NEW w \in Written(a, v, FALSE)
      PROVE  /\ w = ListOf(w.items) /\ IsMap(w.items) /\ DOMAIN w.items = DOMAIN v.items
             /\ \A i \in DOMAIN v.items : w.items[i] \in innerWritten(a.elem[1], v.items[i], FALSE)
  <2>. DEFINE Ways == [i \in DOMAIN v.items |-> innerWritten(a.elem[1], v.items[i], FALSE)]
  <2>1. [i \in DOMAIN v.items |-> innerWritten(a.elem[1], v.items[i], FALSE \/ a.unordered)] = Ways
    BY <1>2
  <2>2. w \in {ListOf(q) : q \in OneOfEach([i \in DOMAIN v.items |->
                 innerWritten(a.elem[1], v.items[i], FALSE \/ a.unordered)])}
    BY <1>1, <1>2, <1>7 DEF Written
  <2>3. PICK q \in OneOfEach(Ways) : w = ListOf(q)
    BY <2>1, <2>2
  <2>4. /\ IsMap(q) /\ DOMAIN q = DOMAIN v.items
        /\ \A i \in DOMAIN v.items : q[i] \in innerWritten(a.elem[1], v.items[i], FALSE)
    BY DEF OneOfEach, IsMap
  <2>. QED
    BY <2>3, <2>4, Forms
<1>8. \A h, c : Merged(a, h, c) = c
  BY <1>1 DEF Merged
<1>9. \A c, h : Holds(a, c, h) <=>
        /\ Len(h.items) = Len(c.items)
        /\ \A i \in 1..Len(c.items) : innerHolds(a.elem[1], c.items[i], h.items[i])
  BY <1>1, <1>2 DEF Holds
<1>. QED
  BY <1>3, <1>4, <1>5, <1>6, <1>7, <1>8, <1>9

LEMMA ObjectFits ==
  ASSUME NEW a \in Attrs, IsObject(a)
  PROVE  \A o, v : Fits(o, a, v) <=> v = MapOf(v.fields) /\ FitsFields(o, a.fields, v.fields)
BY ObjectForm

LEMMA ObjectFilled ==
  ASSUME NEW a \in Attrs, IsObject(a)
  PROVE  \A v : v.kind = "map" => Filled(a, v) = MapOf(FilledFields(a.fields, v.fields))
BY ObjectForm

LEMMA ListFits ==
  ASSUME NEW a \in Attrs, IsList(a), Ordered
  PROVE  \A o, v : Fits(o, a, v) <=>
           /\ v = ListOf(v.items) /\ IsSeq(v.items)
           /\ \A i \in 1..Len(v.items) : innerFits(o, a.elem[1], v.items[i])
BY ListForm

LEMMA InnerObject ==
  ASSUME Recursive, NEW a \in Attrs, IsObject(a), NEW o, NEW v, innerFits(o, a, v)
  PROVE  v = MapOf(v.fields) /\ FitsFields(o, a.fields, v.fields) /\ v.kind = "map"
<1>1. Fits(o, a, v)
  BY DEF Recursive, Unfolds
<1>2. v = MapOf(v.fields) /\ FitsFields(o, a.fields, v.fields)
  BY <1>1, ObjectFits
<1>. QED
  BY <1>2, Kinds

LEMMA InnerList ==
  ASSUME Recursive, Ordered, NEW a \in Attrs, IsList(a), NEW o, NEW v, innerFits(o, a, v)
  PROVE  /\ v = ListOf(v.items) /\ IsSeq(v.items) /\ v.kind = "list"
         /\ \A i \in 1..Len(v.items) : innerFits(o, a.elem[1], v.items[i])
<1>1. Fits(o, a, v)
  BY DEF Recursive, Unfolds
<1>2. /\ v = ListOf(v.items) /\ IsSeq(v.items)
      /\ \A i \in 1..Len(v.items) : innerFits(o, a.elem[1], v.items[i])
  BY <1>1, ListFits
<1>. QED
  BY <1>2, Kinds

LEMMA WholeForm ==
  ASSUME NEW a \in Attrs, ~ IsObject(a), ~ IsList(a)
  PROVE  /\ \A v : withoutReservedLabels(a, v) =
              IF a.labels /\ v.kind = "map" THEN MapOf(StripLabels(v.fields)) ELSE v
         /\ \A p, r, w : Read(p, a, r, w) =
              IF a.opaque \/ ~ Known(w) THEN w
              ELSE sameByEquivalence(a, r, sameProjectSpelling(p, r, asDeclaredKind(a, w)))
         /\ \A v : Filled(a, v) = IF a.labels THEN MapOf(FillLabels(v.fields)) ELSE v
         /\ \A v, w : w \in Written(a, v, FALSE) =>
              \/ v.kind = "string" /\ \E s \in Spellings(a, v, FALSE) : w = Leaf("string", v.text, s)
              \/ v.kind = "float" /\ v.text # "fraction" /\ w = Leaf("int", v.text, v.spelling)
              \/ v.kind = "float" /\ v.text = "fraction" /\ w = v
              \/ v.kind \notin {"string", "float"} /\ w = v
         /\ \A h, c : Merged(a, h, c) = c
         /\ \A c, h : Holds(a, c, h) <=>
              IF a.labels THEN c.fields = StripLabels(h.fields) ELSE c.text = h.text
<1>1. a.elem = <<>> /\ DOMAIN a.fields = {}
  BY DEF IsObject, IsList
<1>2. \A v : withoutReservedLabels(a, v) =
              IF a.labels /\ v.kind = "map" THEN MapOf(StripLabels(v.fields)) ELSE v
  BY <1>1 DEF withoutReservedLabels, StripLabels
<1>3. \A p, r, w : Read(p, a, r, w) =
        IF a.opaque \/ ~ Known(w) THEN w
        ELSE sameByEquivalence(a, r, sameProjectSpelling(p, r, asDeclaredKind(a, w)))
  BY <1>1 DEF Read, value
<1>4. \A v : Filled(a, v) = IF a.labels THEN MapOf(FillLabels(v.fields)) ELSE v
  BY <1>1 DEF Filled, FillLabels
<1>5. ASSUME NEW v, NEW w \in Written(a, v, FALSE)
      PROVE  \/ v.kind = "string" /\ \E s \in Spellings(a, v, FALSE) : w = Leaf("string", v.text, s)
             \/ v.kind = "float" /\ v.text # "fraction" /\ w = Leaf("int", v.text, v.spelling)
             \/ v.kind = "float" /\ v.text = "fraction" /\ w = v
             \/ v.kind \notin {"string", "float"} /\ w = v
  <2>1. CASE v.kind = "string"
    <3>1. Written(a, v, FALSE) = {Leaf("string", v.text, s) : s \in Spellings(a, v, FALSE)}
      BY <1>1, <2>1 DEF Written
    <3>. QED
      BY <2>1, <3>1
  <2>2. CASE v.kind = "float" /\ v.text # "fraction"
    <3>1. Written(a, v, FALSE) = {Leaf("int", v.text, v.spelling)}
      BY <1>1, <2>2 DEF Written
    <3>. QED
      BY <2>2, <3>1
  <2>3. CASE v.kind # "string" /\ ~ (v.kind = "float" /\ v.text # "fraction")
    <3>1. Written(a, v, FALSE) = {v}
      BY <1>1, <2>3 DEF Written
    <3>. QED
      BY <2>3, <3>1
  <2>. QED
    BY <2>1, <2>2, <2>3
<1>8. \A h, c : Merged(a, h, c) = c
  BY <1>1 DEF Merged
<1>9. \A c, h : Holds(a, c, h) <=>
        IF a.labels THEN c.fields = StripLabels(h.fields) ELSE c.text = h.text
  BY <1>1 DEF Holds, Restrict, StripLabels
<1>. QED
  BY <1>2, <1>3, <1>4, <1>5, <1>8, <1>9

(* What fits an attribute that is taken whole. *)
LEMMA WholeFits ==
  ASSUME NEW a \in Attrs, ~ IsObject(a), ~ IsList(a), NEW o \in BOOLEAN, NEW v
  PROVE  Fits(o, a, v) <=>
           \/ /\ a.kind = "map" /\ v = MapOf(v.fields) /\ IsMap(v.fields)
              /\ ~ (o /\ a.labels /\ DOMAIN v.fields \cap Reserved # {})
           \/ a.kind = "list" /\ v = ListOf(v.items) /\ IsSeq(v.items)
           \/ /\ a.kind \notin {"map", "list"} /\ v = Leaf(a.kind, v.text, v.spelling)
              /\ v.text = "zero" => v.spelling = ""
<1>1. a.elem = <<>> /\ DOMAIN a.fields = {}
  BY DEF IsObject, IsList
<1>2. CASE a.kind = "map"
  BY <1>1, <1>2 DEF Fits, IsMap
<1>3. CASE a.kind = "list"
  BY <1>1, <1>3 DEF Fits, IsSeq
<1>4. CASE a.kind \notin {"map", "list"}
  BY <1>1, <1>4 DEF Fits
<1>. QED
  BY <1>2, <1>3, <1>4
-----------------------------------------------------------------------------
(* What configuration says fits what GCP holds, and has no reserved label. *)
Strips(a) ==
  \A c : innerFits(TRUE, a, c) =>
    innerFits(FALSE, a, c) /\ innerWithoutReservedLabels(a, c) = c

LEMMA AllStrip ==
  ASSUME Recursive, Ordered
  PROVE  \A a \in Attrs : Strips(a)
<1>. DEFINE S == {a \in Attrs : Strips(a)}
<1>1. ASSUME NEW a \in Attrs, Inside(a) \subseteq S, NEW c, Fits(TRUE, a, c)
      PROVE  Fits(FALSE, a, c) /\ withoutReservedLabels(a, c) = c
  <2>1. CASE IsObject(a)
    <3>1. c = MapOf(c.fields) /\ FitsFields(TRUE, a.fields, c.fields)
      BY <1>1, <2>1, ObjectForm
    <3>5. c.kind = "map"
      BY <3>1, Kinds
    <3>2. \A n \in DOMAIN c.fields : Strips(a.fields[n])
      BY <1>1, <2>1, <3>1, Schemas DEF FitsFields
    <3>3. FitsFields(FALSE, a.fields, c.fields)
      BY <3>1, <3>2 DEF FitsFields, Strips
    <3>4. StripFields(a.fields, c.fields) = c.fields
      BY <3>1, <3>2 DEF FitsFields, Strips, StripFields
    <3>6. Fits(FALSE, a, c)
      BY <2>1, <3>1, <3>3, ObjectFits
    <3>7. withoutReservedLabels(a, c) = MapOf(StripFields(a.fields, c.fields))
      BY <2>1, <3>5, ObjectForm
    <3>. QED
      BY <3>1, <3>4, <3>6, <3>7
  <2>2. CASE IsList(a)
    <3>1. /\ c = ListOf(c.items) /\ IsSeq(c.items)
          /\ \A i \in 1..Len(c.items) : innerFits(TRUE, a.elem[1], c.items[i])
      BY <1>1, <2>2, ListForm
    <3>5. c.kind = "list"
      BY <3>1, Kinds
    <3>2. Strips(a.elem[1])
      BY <1>1, <2>2, Schemas
    <3>3. \A i \in 1..Len(c.items) : innerFits(FALSE, a.elem[1], c.items[i])
      BY <3>1, <3>2 DEF Strips
    <3>4. StripItems(a.elem[1], c.items) = c.items
      BY <3>1, <3>2 DEF Strips, StripItems, IsSeq
    <3>. QED
      BY <2>2, <3>1, <3>3, <3>4, <3>5, ListForm
  <2>3. CASE ~ IsObject(a) /\ ~ IsList(a)
    <3>1. Fits(FALSE, a, c)
      BY <1>1, <2>3, WholeFits
    <3>2. CASE a.labels
      <4>1. a.kind = "map"
        BY <3>2, Schemas
      <4>2. c = MapOf(c.fields) /\ IsMap(c.fields) /\ DOMAIN c.fields \cap Reserved = {}
        BY <1>1, <2>3, <3>2, <4>1, WholeFits
      <4>3. StripLabels(c.fields) = c.fields
        BY <4>2 DEF StripLabels, IsMap
      <4>. QED
        BY <2>3, <3>1, <3>2, <4>2, <4>3, WholeForm
    <3>. QED
      BY <2>3, <3>1, <3>2, WholeForm
  <2>. QED
    BY <2>1, <2>2, <2>3
<1>2. ASSUME NEW a \in Attrs, Inside(a) \subseteq S
      PROVE  a \in S
  <2>1. Unfolds(a)
    BY DEF Recursive
  <2>2. ASSUME NEW c, innerFits(TRUE, a, c)
        PROVE  innerFits(FALSE, a, c) /\ innerWithoutReservedLabels(a, c) = c
    <3>1. Fits(TRUE, a, c)
      BY <2>1, <2>2 DEF Unfolds
    <3>2. Fits(FALSE, a, c) /\ withoutReservedLabels(a, c) = c
      BY <1>1, <1>2, <3>1
    <3>. QED
      BY <2>1, <3>2 DEF Unfolds
  <2>. QED
    BY <2>2 DEF Strips
<1>. QED
  <2>. HIDE DEF S
  <2>1. Attrs \subseteq S
    BY <1>2, ByDepth
  <2>. QED
    BY <2>1 DEF S
-----------------------------------------------------------------------------
(* The attributes of a schema or of an object. *)
Declared(d) == "etag" \notin DOMAIN d /\ \A n \in DOMAIN d : d[n] \in Attrs

LEMMA InsideDeclared ==
  ASSUME NEW a \in Attrs, IsObject(a)
  PROVE  Declared(a.fields)
BY Schemas DEF Declared

LEMMA SameLen ==
  ASSUME NEW m \in Nat, NEW k \in Nat, 1..m = 1..k
  PROVE  m = k
<1>1. m < k => k \in 1..k /\ k \notin 1..m
  OBVIOUS
<1>2. k < m => m \in 1..m /\ m \notin 1..k
  OBVIOUS
<1>. QED
  BY <1>1, <1>2

(* What GCP has filled in fits, and it has nothing to add to it. *)
Fills(a) ==
  \A v : innerFits(FALSE, a, v) =>
    /\ innerFits(FALSE, a, innerFilled(a, v))
    /\ innerFilled(a, innerFilled(a, v)) = innerFilled(a, v)

LEMMA ChosenFits ==
  ASSUME Recursive, NEW a \in Attrs, FilledIn(a)
  PROVE  innerFits(FALSE, a, Chosen) /\ innerFilled(a, Chosen) = Chosen
<1>1. a.kind = "string" /\ ~ IsObject(a) /\ ~ IsList(a) /\ ~ a.labels
  BY Schemas DEF FilledIn, IsObject, IsList
<1>2. Chosen.kind = "string" /\ Chosen.text = "server" /\ Chosen.spelling = "plain"
  BY DEF Chosen, Leaf
<1>5. Chosen = Leaf(a.kind, Chosen.text, Chosen.spelling)
  BY <1>1, <1>2 DEF Chosen
<1>3. Fits(FALSE, a, Chosen)
  BY <1>1, <1>2, <1>5, WholeFits
<1>4. Filled(a, Chosen) = Chosen
  BY <1>1, WholeForm
<1>. QED
  BY <1>3, <1>4 DEF Recursive, Unfolds

Added(d, f) == {n \in DOMAIN d \ DOMAIN f : FilledIn(d[n])}

LEMMA FilledFieldsIs ==
  ASSUME NEW d, NEW f
  PROVE  /\ DOMAIN FilledFields(d, f) = DOMAIN f \cup Added(d, f)
         /\ \A n \in DOMAIN f : FilledFields(d, f)[n] = innerFilled(d[n], f[n])
         /\ \A n \in Added(d, f) : FilledFields(d, f)[n] = Chosen
         /\ IsMap(FilledFields(d, f))
BY DEF FilledFields, IsMap, Added

LEMMA FieldsFill ==
  ASSUME Recursive, NEW d, Declared(d), NEW f, FitsFields(FALSE, d, f),
         \A n \in DOMAIN f : Fills(d[n])
  PROVE  /\ FitsFields(FALSE, d, FilledFields(d, f))
         /\ FilledFields(d, FilledFields(d, f)) = FilledFields(d, f)
<1>. DEFINE g == FilledFields(d, f)
<1>1. /\ DOMAIN g = DOMAIN f \cup Added(d, f)
      /\ \A n \in DOMAIN f : g[n] = innerFilled(d[n], f[n])
      /\ \A n \in Added(d, f) : g[n] = Chosen
      /\ IsMap(g)
  BY FilledFieldsIs
<1>2. \A n \in DOMAIN g : innerFits(FALSE, d[n], g[n]) /\ innerFilled(d[n], g[n]) = g[n]
  <2> SUFFICES ASSUME NEW n \in DOMAIN g
               PROVE  innerFits(FALSE, d[n], g[n]) /\ innerFilled(d[n], g[n]) = g[n]
    OBVIOUS
  <2>. HIDE DEF g
  <2>1. CASE n \in DOMAIN f
    <3>1. innerFits(FALSE, d[n], f[n]) /\ Fills(d[n])
      BY <2>1 DEF FitsFields
    <3>. QED
      BY <1>1, <2>1, <3>1 DEF Fills
  <2>2. CASE n \notin DOMAIN f
    BY <1>1, <2>2, ChosenFits DEF Declared, Added
  <2>. QED
    BY <2>1, <2>2
<1>3. FitsFields(FALSE, d, g)
  <2>. HIDE DEF g
  <2>. QED
    BY <1>1, <1>2 DEF FitsFields, IsMap, Added
<1>4. FilledFields(d, g) = g
  <2>. HIDE DEF g
  <2>1. /\ DOMAIN FilledFields(d, g) = DOMAIN g \cup Added(d, g)
        /\ \A n \in DOMAIN g : FilledFields(d, g)[n] = innerFilled(d[n], g[n])
        /\ IsMap(FilledFields(d, g))
    BY FilledFieldsIs
  <2>2. DOMAIN FilledFields(d, g) = DOMAIN g
    BY <1>1, <2>1 DEF Added
  <2>. QED
    BY <1>1, <1>2, <2>1, <2>2 DEF IsMap
<1>. QED
  BY <1>3, <1>4

LEMMA AllFill ==
  ASSUME Recursive, Ordered
  PROVE  \A a \in Attrs : Fills(a)
<1>. DEFINE S == {a \in Attrs : Fills(a)}
<1>1. ASSUME NEW a \in Attrs, Inside(a) \subseteq S, NEW v, Fits(FALSE, a, v)
      PROVE  Fits(FALSE, a, Filled(a, v)) /\ Filled(a, Filled(a, v)) = Filled(a, v)
  <2>1. CASE IsObject(a)
    <3>1. v = MapOf(v.fields) /\ FitsFields(FALSE, a.fields, v.fields)
      BY <1>1, <2>1, ObjectForm
    <3>2. v.kind = "map"
      BY <3>1, Kinds
    <3>3. \A n \in DOMAIN v.fields : Fills(a.fields[n])
      BY <1>1, <2>1, <3>1, Schemas DEF FitsFields
    <3>4. /\ FitsFields(FALSE, a.fields, FilledFields(a.fields, v.fields))
          /\ FilledFields(a.fields, FilledFields(a.fields, v.fields)) = FilledFields(a.fields, v.fields)
      BY <2>1, <3>1, <3>3, FieldsFill, InsideDeclared
    <3>5. Filled(a, v) = MapOf(FilledFields(a.fields, v.fields))
      BY <2>1, <3>2, ObjectFilled
    <3>6. Filled(a, v).kind = "map" /\ Filled(a, v).fields = FilledFields(a.fields, v.fields)
      BY <3>5, IsMapOf
    <3>7. Fits(FALSE, a, Filled(a, v))
      BY <2>1, <3>4, <3>5, <3>6, ObjectFits
    <3>8. Filled(a, Filled(a, v)) = MapOf(FilledFields(a.fields, FilledFields(a.fields, v.fields)))
      BY <2>1, <3>6, ObjectFilled
    <3>. QED
      BY <3>4, <3>5, <3>7, <3>8
  <2>2. CASE IsList(a)
    <3>1. /\ v = ListOf(v.items) /\ IsSeq(v.items)
          /\ \A i \in 1..Len(v.items) : innerFits(FALSE, a.elem[1], v.items[i])
      BY <1>1, <2>2, ListForm
    <3>2. v.kind = "list"
      BY <3>1, Kinds
    <3>3. Fills(a.elem[1])
      BY <1>1, <2>2, Schemas
    <3>. DEFINE q == FillItems(a.elem[1], v.items)
    <3>4. /\ IsSeq(q) /\ Len(q) = Len(v.items)
          /\ \A i \in 1..Len(v.items) : q[i] = innerFilled(a.elem[1], v.items[i])
      BY <3>1 DEF FillItems, IsSeq
    <3>. HIDE DEF q
    <3>5. \A i \in 1..Len(q) : innerFits(FALSE, a.elem[1], q[i]) /\ innerFilled(a.elem[1], q[i]) = q[i]
      BY <3>1, <3>3, <3>4 DEF Fills
    <3>6. FillItems(a.elem[1], q) = q
      BY <3>4, <3>5 DEF FillItems, IsSeq
    <3>7. Filled(a, v) = ListOf(q)
      BY <2>2, <3>2, ListForm DEF q
    <3>8. Filled(a, v).kind = "list" /\ Filled(a, v).items = q
      BY <3>7, IsListOf
    <3>. QED
      BY <2>2, <3>4, <3>5, <3>6, <3>7, <3>8, ListForm
  <2>3. CASE ~ IsObject(a) /\ ~ IsList(a) /\ a.labels
    <3>1. v = MapOf(v.fields) /\ IsMap(v.fields) /\ a.kind = "map"
      BY <1>1, <2>3, WholeFits, Schemas
    <3>2. IsMap(FillLabels(v.fields)) /\ FillLabels(FillLabels(v.fields)) = FillLabels(v.fields)
      BY DEF FillLabels, IsMap
    <3>3. Filled(a, v) = MapOf(FillLabels(v.fields))
      BY <2>3, WholeForm
    <3>4. Filled(a, v).fields = FillLabels(v.fields)
      BY <3>3, Forms
    <3>5. Filled(a, Filled(a, v)) = MapOf(FillLabels(Filled(a, v).fields))
      BY <2>3, WholeForm
    <3>. QED
      BY <2>3, <3>1, <3>2, <3>3, <3>4, <3>5, WholeFits
  <2>4. CASE ~ IsObject(a) /\ ~ IsList(a) /\ ~ a.labels
    BY <1>1, <2>4, WholeForm
  <2>. QED
    BY <2>1, <2>2, <2>3, <2>4
<1>2. ASSUME NEW a \in Attrs, Inside(a) \subseteq S
      PROVE  a \in S
  <2>1. Unfolds(a)
    BY DEF Recursive
  <2>2. ASSUME NEW v, innerFits(FALSE, a, v)
        PROVE  /\ innerFits(FALSE, a, innerFilled(a, v))
               /\ innerFilled(a, innerFilled(a, v)) = innerFilled(a, v)
    <3>1. Fits(FALSE, a, v) /\ innerFilled(a, v) = Filled(a, v)
      BY <2>1, <2>2 DEF Unfolds
    <3>2. Fits(FALSE, a, Filled(a, v)) /\ Filled(a, Filled(a, v)) = Filled(a, v)
      BY <1>1, <1>2, <3>1
    <3>. QED
      BY <2>1, <3>1, <3>2 DEF Unfolds
  <2>. QED
    BY <2>2 DEF Fills
<1>. QED
  <2>. HIDE DEF S
  <2>1. Attrs \subseteq S
    BY <1>2, ByDepth
  <2>. QED
    BY <2>1 DEF S
-----------------------------------------------------------------------------
(* A patch fits, and so does what GCP makes of it. *)
Merges(a) ==
  \A h, c : (h = Nothing \/ innerFits(FALSE, a, h)) /\ innerFits(FALSE, a, c) =>
    innerFits(FALSE, a, innerMerged(a, h, c))

LEMMA MergedNothing ==
  ASSUME Recursive, NEW a \in Attrs, NEW c
  PROVE  innerMerged(a, Nothing, c) = c
<1>1. Merged(a, Nothing, c) = c
  BY Forms DEF Merged
<1>. QED
  BY <1>1 DEF Recursive, Unfolds

LEMMA MergedFieldsIs ==
  ASSUME NEW d, NEW b, NEW c
  PROVE  /\ DOMAIN MergedFields(d, b, c) = DOMAIN b \cup DOMAIN c
         /\ \A n \in DOMAIN c : MergedFields(d, b, c)[n] = innerMerged(d[n], Get(b, n), c[n])
         /\ \A n \in DOMAIN b \ DOMAIN c : MergedFields(d, b, c)[n] = b[n]
         /\ IsMap(MergedFields(d, b, c))
BY DEF MergedFields, IsMap

LEMMA FieldsMerge ==
  ASSUME NEW d, NEW b, FitsFields(FALSE, d, b), NEW c, FitsFields(FALSE, d, c),
         \A n \in DOMAIN c : Merges(d[n])
  PROVE  FitsFields(FALSE, d, MergedFields(d, b, c))
<1>. DEFINE g == MergedFields(d, b, c)
<1>1. /\ DOMAIN g = DOMAIN b \cup DOMAIN c
      /\ \A n \in DOMAIN c : g[n] = innerMerged(d[n], Get(b, n), c[n])
      /\ \A n \in DOMAIN b \ DOMAIN c : g[n] = b[n]
      /\ IsMap(g)
  BY MergedFieldsIs
<1>. HIDE DEF g
<1>2. ASSUME NEW n \in DOMAIN g
      PROVE  innerFits(FALSE, d[n], g[n])
  <2>1. CASE n \in DOMAIN c
    <3>1. Get(b, n) = Nothing \/ innerFits(FALSE, d[n], Get(b, n))
      BY DEF FitsFields, Get
    <3>2. innerFits(FALSE, d[n], c[n]) /\ Merges(d[n])
      BY <2>1 DEF FitsFields
    <3>3. g[n] = innerMerged(d[n], Get(b, n), c[n])
      BY <1>1, <2>1
    <3>. QED
      BY <3>1, <3>2, <3>3 DEF Merges
  <2>2. CASE n \notin DOMAIN c
    BY <1>1, <2>2 DEF FitsFields
  <2>. QED
    BY <2>1, <2>2
<1>3. FitsFields(FALSE, d, g)
  BY <1>1, <1>2 DEF FitsFields, IsMap
<1>. QED
  BY <1>3 DEF g

LEMMA AllMerge ==
  ASSUME Recursive, Ordered
  PROVE  \A a \in Attrs : Merges(a)
<1>. DEFINE S == {a \in Attrs : Merges(a)}
<1>1. ASSUME NEW a \in Attrs, Inside(a) \subseteq S, NEW h, NEW c,
             h = Nothing \/ Fits(FALSE, a, h), Fits(FALSE, a, c)
      PROVE  Fits(FALSE, a, Merged(a, h, c))
  <2>0. Unfolds(a)
    BY DEF Recursive
  <2>1. CASE h = Nothing
    BY <1>1, <2>1, MergedNothing, <2>0 DEF Unfolds
  <2>2. CASE IsObject(a) /\ h # Nothing
    <3>1. /\ h = MapOf(h.fields) /\ FitsFields(FALSE, a.fields, h.fields)
          /\ c = MapOf(c.fields) /\ FitsFields(FALSE, a.fields, c.fields)
      BY <1>1, <2>2, ObjectForm
    <3>2. h.kind = "map" /\ c.kind = "map"
      BY <3>1, Kinds
    <3>3. \A n \in DOMAIN c.fields : Merges(a.fields[n])
      BY <1>1, <2>2, <3>1, Schemas DEF FitsFields
    <3>. DEFINE g == MergedFields(a.fields, h.fields, c.fields)
    <3>4. FitsFields(FALSE, a.fields, g)
      BY <3>1, <3>3, FieldsMerge
    <3>5. Merged(a, h, c) = MapOf(MergedFields(a.fields, h.fields, c.fields))
      BY <2>2, <3>2 DEF IsObject, Merged
    <3>. HIDE DEF g
    <3>6. Merged(a, h, c) = MapOf(g) /\ Merged(a, h, c).fields = g
      BY <3>5, Forms DEF g
    <3>. QED
      BY <2>2, <3>4, <3>6, ObjectForm
  <2>3. CASE ~ IsObject(a)
    <3>1. Merged(a, h, c) = c
      BY <2>3 DEF IsObject, Merged
    <3>. QED
      BY <1>1, <3>1
  <2>. QED
    BY <2>1, <2>2, <2>3
<1>2. ASSUME NEW a \in Attrs, Inside(a) \subseteq S
      PROVE  a \in S
  <2>1. Unfolds(a)
    BY DEF Recursive
  <2>. QED
    BY <1>1, <1>2, <2>1 DEF Unfolds, Merges
<1>. QED
  <2>. HIDE DEF S
  <2>1. Attrs \subseteq S
    BY <1>2, ByDepth
  <2>. QED
    BY <2>1 DEF S

(* What differs, what of it is entered, and what of it is sent. *)
Differs(d, s, c) ==
  {n \in DOMAIN c \cap DOMAIN d : ~ d[n].output /\ Known(c[n]) /\ Get(s, n) # c[n]}
Entered(d, s, c) ==
  {n \in Differs(d, s, c) :
     DOMAIN d[n].fields # {} /\ c[n].kind = "map" /\ Get(s, n).kind = "map"}
Inner(d, s, c, n) == innerChanged(d[n].fields, s[n].fields, c[n].fields)
Sent(d, s, c) ==
  {n \in Differs(d, s, c) : n \in Entered(d, s, c) => DOMAIN Inner(d, s, c, n) # {}}

LEMMA ChangedIs ==
  ASSUME NEW d, NEW s, NEW c
  PROVE  /\ DOMAIN Changed(d, s, c) = Sent(d, s, c)
         /\ \A n \in Sent(d, s, c) :
              Changed(d, s, c)[n] =
                IF n \in Entered(d, s, c) THEN MapOf(Inner(d, s, c, n)) ELSE c[n]
         /\ IsMap(Changed(d, s, c))
BY DEF Changed, Sent, Entered, Differs, Inner, IsMap

Changes(a) ==
  IsObject(a) =>
    \A s, c : innerFits(TRUE, a, c) =>
      innerFits(TRUE, a, MapOf(innerChanged(a.fields, s.fields, c.fields)))

LEMMA FieldsChange ==
  ASSUME NEW d, NEW s, NEW c, FitsFields(TRUE, d, c), \A n \in DOMAIN c : Changes(d[n])
  PROVE  FitsFields(TRUE, d, Changed(d, s, c))
<1>. DEFINE g == Changed(d, s, c)
<1>1. /\ DOMAIN g = Sent(d, s, c)
      /\ \A n \in Sent(d, s, c) :
           g[n] = IF n \in Entered(d, s, c) THEN MapOf(Inner(d, s, c, n)) ELSE c[n]
      /\ IsMap(g)
  BY ChangedIs
<1>. HIDE DEF g
<1>2. DOMAIN g \subseteq DOMAIN c
  BY <1>1 DEF Sent, Differs
<1>3. ASSUME NEW n \in DOMAIN g
      PROVE  innerFits(TRUE, d[n], g[n])
  <2>1. CASE n \in Entered(d, s, c)
    <3>1. g[n] = MapOf(innerChanged(d[n].fields, s[n].fields, c[n].fields))
      BY <1>1, <2>1 DEF Inner
    <3>2. IsObject(d[n]) /\ Changes(d[n]) /\ innerFits(TRUE, d[n], c[n])
      BY <1>2, <2>1 DEF Entered, IsObject, FitsFields
    <3>. QED
      BY <3>1, <3>2 DEF Changes
  <2>2. CASE n \notin Entered(d, s, c)
    BY <1>1, <1>2, <2>2 DEF FitsFields
  <2>. QED
    BY <2>1, <2>2
<1>4. FitsFields(TRUE, d, g)
  BY <1>1, <1>2, <1>3 DEF FitsFields, IsMap
<1>. QED
  BY <1>4 DEF g

LEMMA AllChange ==
  ASSUME Recursive
  PROVE  \A a \in Attrs : Changes(a)
<1>. DEFINE S == {a \in Attrs : Changes(a)}
<1>1. ASSUME NEW a \in Attrs, Inside(a) \subseteq S, IsObject(a), NEW s, NEW c, Fits(TRUE, a, c)
      PROVE  Fits(TRUE, a, MapOf(Changed(a.fields, s.fields, c.fields)))
  <2>1. FitsFields(TRUE, a.fields, c.fields)
    BY <1>1, ObjectForm
  <2>2. \A n \in DOMAIN c.fields : Changes(a.fields[n])
    BY <1>1, <2>1, Schemas DEF FitsFields
  <2>. DEFINE g == Changed(a.fields, s.fields, c.fields)
  <2>3. FitsFields(TRUE, a.fields, g)
    BY <2>1, <2>2, FieldsChange
  <2>. HIDE DEF g
  <2>4. MapOf(g).fields = g
    BY Forms
  <2>5. Fits(TRUE, a, MapOf(g))
    BY <1>1, <2>3, <2>4, ObjectForm
  <2>. QED
    BY <2>5 DEF g
<1>2. ASSUME NEW a \in Attrs, Inside(a) \subseteq S
      PROVE  a \in S
  <2>1. Unfolds(a)
    BY DEF Recursive
  <2>. QED
    BY <1>1, <1>2, <2>1 DEF Unfolds, Changes
<1>. QED
  <2>. HIDE DEF S
  <2>1. Attrs \subseteq S
    BY <1>2, ByDepth
  <2>. QED
    BY <2>1 DEF S
-----------------------------------------------------------------------------
(* How an answer becomes state.  Seen: what is made of the answer w,       *)
(* expressed like r, when the projects p are resolved.                     *)
Seen(p, a, r, w) == innerWithoutReservedLabels(a, innerValue(p, FALSE, a, r, w))

LEMMA SeenIs ==
  ASSUME Recursive, NEW a \in Attrs
  PROVE  \A p, r, w : Seen(p, a, r, w) = withoutReservedLabels(a, Read(p, a, r, w))
BY DEF Recursive, Unfolds, Seen, Read

LEMMA Zeros ==
  /\ ~ isZero(Nothing)
  /\ \A f : isZero(MapOf(f)) <=> DOMAIN f = {}
  /\ \A q : isZero(ListOf(q)) <=> q = <<>>
  /\ \A k, t, s : k \notin {"none", "map", "list"} => (isZero(Leaf(k, t, s)) <=> t = "zero")
<1>1. ~ isZero(Nothing)
  BY Forms DEF isZero
<1>2. \A f : isZero(MapOf(f)) <=> DOMAIN f = {}
  BY DEF isZero, MapOf
<1>3. \A q : isZero(ListOf(q)) <=> q = <<>>
  BY DEF isZero, ListOf
<1>4. \A k, t, s : k \notin {"none", "map", "list"} => (isZero(Leaf(k, t, s)) <=> t = "zero")
  BY DEF isZero, Leaf
<1>. QED
  BY <1>1, <1>2, <1>3, <1>4

LEMMA FitsKind ==
  ASSUME Recursive, NEW a \in Attrs, NEW o \in BOOLEAN, NEW v, innerFits(o, a, v)
  PROVE  v.kind = a.kind /\ Known(v)
<1>1. Fits(o, a, v)
  BY DEF Recursive, Unfolds
<1>2. v.kind = a.kind
  <2>1. CASE a.kind = "map"
    <3>1. v = MapOf(v.fields)
      BY <1>1, <2>1 DEF Fits
    <3>. QED
      BY <2>1, <3>1, Kinds
  <2>2. CASE a.kind = "list"
    <3>1. v = ListOf(v.items)
      BY <1>1, <2>2 DEF Fits
    <3>. QED
      BY <2>2, <3>1, Kinds
  <2>3. CASE a.kind \notin {"map", "list"}
    <3>1. v = Leaf(a.kind, v.text, v.spelling)
      BY <1>1, <2>3 DEF Fits
    <3>. QED
      BY <3>1 DEF Leaf
  <2>. QED
    BY <2>1, <2>2, <2>3
<1>. QED
  BY <1>2, Schemas DEF Known

(* An answer names what is held, but for what is never shown and for what  *)
(* is zero; and one key that is not declared.                              *)
LEMMA WrittenFieldsIs ==
  ASSUME NEW d, Declared(d), NEW f, DOMAIN f \subseteq DOMAIN d, NEW g \in WrittenFields(d, f, FALSE)
  PROVE  /\ \A n \in DOMAIN d \cap DOMAIN g :
              /\ n \in DOMAIN f /\ ~ d[n].inputOnly /\ ~ d[n].createOnly
              /\ g[n] \in innerWritten(d[n], f[n], FALSE)
         /\ \A n \in DOMAIN f : n \in DOMAIN g \/ d[n].inputOnly \/ d[n].createOnly \/ isZero(f[n])
<1>. DEFINE silent == {n \in DOMAIN f : d[n].inputOnly \/ d[n].createOnly}
            zeros == {n \in DOMAIN f : isZero(f[n])}
            Ways(D) == [n \in D |-> innerWritten(d[n], f[n], FALSE)]
            Plus(h) == [n \in DOMAIN h \cup {"etag"} |-> IF n \in DOMAIN h THEN h[n] ELSE Chosen]
<1>1. PICK D \in {DOMAIN f \ silent, DOMAIN f \ (silent \cup zeros)} :
        g \in {Plus(h) : h \in OneOfEach(Ways(D))}
  BY DEF WrittenFields
<1>2. PICK h \in OneOfEach(Ways(D)) : g = Plus(h)
  BY <1>1
<1>3. DOMAIN h = D /\ \A n \in D : h[n] \in innerWritten(d[n], f[n], FALSE)
  BY <1>2 DEF OneOfEach
<1>4. DOMAIN g = D \cup {"etag"} /\ \A n \in D : g[n] = h[n]
  BY <1>2, <1>3
<1>5. D \subseteq DOMAIN f /\ D \cap silent = {} /\ DOMAIN f \subseteq D \cup silent \cup zeros
  BY <1>1
<1>6. \A n \in DOMAIN d \cap DOMAIN g : n \in D
  BY <1>4 DEF Declared
<1>. QED
  BY <1>3, <1>4, <1>5, <1>6

(* reconciler.object, with names for what it keeps of the answer and what  *)
(* it carries from the reference.                                          *)
Answered(d, r, f) ==
  {n \in DOMAIN d \cap DOMAIN f : r.kind = "map" => n \in DOMAIN r.fields}
Carried(d, r, f) ==
  {n \in DOMAIN d \ DOMAIN f :
     isZero(Get(r.fields, n)) \/ (d[n].inputOnly /\ Known(Get(r.fields, n)))}
ObjectFields(p, d, r, f) ==
  [n \in Answered(d, r, f) \cup Carried(d, r, f) |->
     IF n \in Answered(d, r, f) THEN innerValue(p, FALSE, d[n], Get(r.fields, n), f[n])
                                ELSE r.fields[n]]

LEMMA ObjectIs ==
  ASSUME NEW p, NEW a, NEW r, NEW w
  PROVE  object(p, FALSE, a, r, w) = MapOf(ObjectFields(p, a.fields, r, w.fields))
<1>. DEFINE answered == {n \in DOMAIN a.fields \cap DOMAIN w.fields :
                           r.kind = "map" =>
                             IF FALSE THEN ~ a.fields[n].output ELSE n \in DOMAIN r.fields}
            carried == {n \in DOMAIN a.fields \ DOMAIN w.fields :
                          \/ carryInputOnly(a.fields[n], Get(r.fields, n), FALSE)
                          \/ carryOmittedZero(Get(r.fields, n), FALSE)}
<1>1. answered = Answered(a.fields, r, w.fields)
  BY DEF Answered
<1>2. carried = Carried(a.fields, r, w.fields)
  BY DEF Carried, carryInputOnly, carryOmittedZero
<1>3. object(p, FALSE, a, r, w) =
        MapOf([n \in answered \cup carried |->
          IF n \in answered
            THEN innerValue(p, FALSE, a.fields[n], Get(r.fields, n), w.fields[n])
            ELSE r.fields[n]])
  BY DEF object
<1>. HIDE DEF answered, carried
<1>. QED
  BY <1>1, <1>2, <1>3 DEF ObjectFields
(* What an answer makes of an object. *)
SeenFields(p, d, r, f) == StripFields(d, ObjectFields(p, d, r, f))

LEMMA SeenFieldsIs ==
  ASSUME NEW p, NEW d, NEW r, NEW f
  PROVE  /\ DOMAIN SeenFields(p, d, r, f) = Answered(d, r, f) \cup Carried(d, r, f)
         /\ \A n \in Answered(d, r, f) :
              SeenFields(p, d, r, f)[n] = Seen(p, d[n], Get(r.fields, n), f[n])
         /\ \A n \in Carried(d, r, f) :
              SeenFields(p, d, r, f)[n] = innerWithoutReservedLabels(d[n], r.fields[n])
         /\ IsMap(SeenFields(p, d, r, f))
<1>1. Answered(d, r, f) \cap Carried(d, r, f) = {}
  BY DEF Answered, Carried
<1>. QED
  BY <1>1 DEF SeenFields, StripFields, ObjectFields, Seen, IsMap

LEMMA SeenObject ==
  ASSUME Recursive, NEW a \in Attrs, IsObject(a), NEW p, NEW r, NEW w, w.kind = "map"
  PROVE  Seen(p, a, r, w) = MapOf(SeenFields(p, a.fields, r, w.fields))
<1>. DEFINE v == MapOf(ObjectFields(p, a.fields, r, w.fields))
<1>0. Read(p, a, r, w) = object(p, FALSE, a, r, w)
  BY ObjectForm
<1>1. Read(p, a, r, w) = v
  BY <1>0, ObjectIs
<1>2. v.kind = "map" /\ v.fields = ObjectFields(p, a.fields, r, w.fields)
  BY Forms
<1>3. Seen(p, a, r, w) = withoutReservedLabels(a, v)
  BY <1>1 DEF Seen, Recursive, Unfolds, Read
<1>. HIDE DEF v
<1>4. withoutReservedLabels(a, v) = MapOf(StripFields(a.fields, v.fields))
  BY <1>2, ObjectForm
<1>. QED
  BY <1>2, <1>3, <1>4 DEF SeenFields

(* Every answer about h becomes c, expressed like c; and an h that may be  *)
(* left out of an answer is a c that is carried.                           *)
ReadsAs(a, c, h) ==
  /\ \A w \in innerWritten(a, h, FALSE) : Seen({OwnProject}, a, c, w) = c
  /\ isZero(h) => isZero(c)

FieldReads(d, c, h, n) ==
  \/ d[n].inputOnly \/ d[n].createOnly
  \/ n \in DOMAIN h /\ ReadsAs(d[n], c[n], h[n])
  \/ n \notin DOMAIN h /\ isZero(c[n]) /\ ~ FilledIn(d[n])

LEMMA ObjectReads ==
  ASSUME Recursive, Ordered, NEW a \in Attrs, IsObject(a), NEW c, innerFits(TRUE, a, c),
         NEW h, innerFits(FALSE, a, h),
         \A n \in DOMAIN c.fields : FieldReads(a.fields, c.fields, h.fields, n),
         isZero(h) => isZero(c)
  PROVE  ReadsAs(a, c, h)
<1>. DEFINE d == a.fields
<1>0. Unfolds(a)
  BY DEF Recursive
<1>1. /\ c = MapOf(c.fields) /\ FitsFields(TRUE, d, c.fields)
      /\ h = MapOf(h.fields) /\ FitsFields(FALSE, d, h.fields)
  BY InnerObject
<1>2. c.kind = "map" /\ h.kind = "map"
  BY <1>1, Kinds
<1>3. Declared(d) /\ \A n \in DOMAIN d : ~ d[n].createOnly
  BY InsideDeclared, Schemas
<1>4. ASSUME NEW w \in innerWritten(a, h, FALSE)
      PROVE  Seen({OwnProject}, a, c, w) = c
  <2>0. w \in Written(a, h, FALSE)
    BY <1>4 DEF Recursive, Unfolds
  <2>1. PICK f \in WrittenFields(d, h.fields, FALSE) : w = MapOf(f)
    BY <1>2, <2>0, ObjectWritten
  <2>2. w.kind = "map" /\ w.fields = f
    BY <2>1, Forms
  <2>. DEFINE g == SeenFields({OwnProject}, d, c, f)
  <2>3. /\ DOMAIN g = Answered(d, c, f) \cup Carried(d, c, f)
        /\ \A n \in Answered(d, c, f) : g[n] = Seen({OwnProject}, d[n], Get(c.fields, n), f[n])
        /\ \A n \in Carried(d, c, f) : g[n] = innerWithoutReservedLabels(d[n], c.fields[n])
        /\ IsMap(g)
    BY SeenFieldsIs
  <2>4. Seen({OwnProject}, a, c, w) = MapOf(g)
    BY <2>2, SeenObject
  <2>. HIDE DEF g
  <2>5. /\ \A n \in DOMAIN d \cap DOMAIN f :
             /\ n \in DOMAIN h.fields /\ ~ d[n].inputOnly /\ ~ d[n].createOnly
             /\ f[n] \in innerWritten(d[n], h.fields[n], FALSE)
        /\ \A n \in DOMAIN h.fields :
             n \in DOMAIN f \/ d[n].inputOnly \/ d[n].createOnly \/ isZero(h.fields[n])
    BY <1>1, <1>3, WrittenFieldsIs DEF FitsFields
  <2>6. DOMAIN g \subseteq DOMAIN c.fields
    BY <1>2, <2>3, Zeros, Forms DEF Answered, Carried, Get, Known
  <2>7. ASSUME NEW n \in DOMAIN c.fields
        PROVE  n \in DOMAIN g /\ g[n] = c.fields[n]
    <3>1. /\ n \in DOMAIN d /\ d[n] \in Attrs /\ innerFits(TRUE, d[n], c.fields[n])
          /\ Get(c.fields, n) = c.fields[n] /\ ~ d[n].createOnly
      BY <1>1, <1>3 DEF FitsFields, Declared, Get
    <3>2. CASE n \in DOMAIN f
      <4>1. n \in Answered(d, c, f)
        BY <3>1, <3>2 DEF Answered
      <4>2. ReadsAs(d[n], c.fields[n], h.fields[n])
        BY <2>5, <3>1, <3>2 DEF FieldReads
      <4>. QED
        BY <2>3, <2>5, <3>1, <3>2, <4>1, <4>2 DEF ReadsAs
    <3>3. CASE n \notin DOMAIN f
      <4>1. d[n].inputOnly \/ isZero(c.fields[n])
        BY <2>5, <3>1, <3>3 DEF FieldReads, ReadsAs
      <4>2. Known(c.fields[n])
        BY <3>1, FitsKind
      <4>3. n \in Carried(d, c, f)
        BY <3>1, <3>3, <4>1, <4>2 DEF Carried
      <4>. QED
        BY <2>3, <3>1, <4>3, AllStrip DEF Strips
    <3>. QED
      BY <3>2, <3>3
  <2>8. g = c.fields
    BY <1>1, <2>3, <2>6, <2>7 DEF FitsFields, IsMap
  <2>. QED
    BY <1>1, <2>4, <2>8
<1>. QED
  BY <1>4 DEF ReadsAs
LEMMA SeenList ==
  ASSUME Recursive, Ordered, NEW a \in Attrs, IsList(a), NEW p, NEW r, NEW w, w.kind = "list"
  PROVE  Seen(p, a, r, w) = ListOf(StripItems(a.elem[1], ValueItems(p, a.elem[1], r.items, w.items)))
<1>. DEFINE v == ListOf(ValueItems(p, a.elem[1], r.items, w.items))
<1>1. Read(p, a, r, w) = v
  BY ListValue
<1>2. v.kind = "list" /\ v.items = ValueItems(p, a.elem[1], r.items, w.items)
  BY Forms
<1>3. Seen(p, a, r, w) = withoutReservedLabels(a, v)
  BY <1>1 DEF Seen, Recursive, Unfolds, Read
<1>. HIDE DEF v
<1>4. withoutReservedLabels(a, v) = ListOf(StripItems(a.elem[1], v.items))
  BY <1>2, ListForm
<1>. QED
  BY <1>2, <1>3, <1>4

LEMMA SeenItems ==
  ASSUME NEW p, NEW e, NEW r, NEW q
  PROVE  /\ DOMAIN StripItems(e, ValueItems(p, e, r, q)) = DOMAIN q
         /\ \A i \in DOMAIN q : StripItems(e, ValueItems(p, e, r, q))[i] = Seen(p, e, ItemAt(r, i), q[i])
         /\ IsMap(StripItems(e, ValueItems(p, e, r, q)))
BY DEF StripItems, ValueItems, Seen, IsMap

LEMMA ListWritten ==
  ASSUME Ordered, NEW a \in Attrs, IsList(a), NEW v, v.kind = "list", NEW w \in Written(a, v, FALSE)
  PROVE  /\ w = ListOf(w.items) /\ IsMap(w.items) /\ DOMAIN w.items = DOMAIN v.items
         /\ \A i \in DOMAIN v.items : w.items[i] \in innerWritten(a.elem[1], v.items[i], FALSE)
BY ListForm

(* A list reads as another one whose elements its elements read as. *)
LEMMA ListReads ==
  ASSUME Recursive, Ordered, NEW a \in Attrs, IsList(a), NEW c, innerFits(TRUE, a, c),
         NEW h, innerFits(FALSE, a, h), Len(c.items) = Len(h.items),
         \A i \in 1..Len(c.items) : ReadsAs(a.elem[1], c.items[i], h.items[i])
  PROVE  ReadsAs(a, c, h)
<1>. DEFINE e == a.elem[1]
<1>0. Unfolds(a)
  BY DEF Recursive
<1>1. /\ c = ListOf(c.items) /\ IsSeq(c.items)
      /\ h = ListOf(h.items) /\ IsSeq(h.items)
  BY InnerList
<1>2. c.kind = "list" /\ h.kind = "list"
  BY <1>1, Kinds
<1>3. DOMAIN c.items = 1..Len(c.items) /\ DOMAIN h.items = DOMAIN c.items
  BY <1>1 DEF IsSeq
<1>4. ASSUME NEW w \in innerWritten(a, h, FALSE)
      PROVE  Seen({OwnProject}, a, c, w) = c
  <2>1. w \in Written(a, h, FALSE)
    BY <1>4 DEF Recursive, Unfolds
  <2>2. /\ w = ListOf(w.items) /\ IsMap(w.items) /\ DOMAIN w.items = DOMAIN h.items
        /\ \A i \in DOMAIN h.items : w.items[i] \in innerWritten(e, h.items[i], FALSE)
    BY <1>2, <2>1, ListWritten
  <2>3. w.kind = "list"
    BY <2>2, Kinds
  <2>. DEFINE q == StripItems(e, ValueItems({OwnProject}, e, c.items, w.items))
  <2>4. Seen({OwnProject}, a, c, w) = ListOf(q)
    BY <2>3, SeenList
  <2>5. /\ DOMAIN q = DOMAIN w.items /\ IsMap(q)
        /\ \A i \in DOMAIN w.items : q[i] = Seen({OwnProject}, e, ItemAt(c.items, i), w.items[i])
    BY SeenItems
  <2>. HIDE DEF q
  <2>6. ASSUME NEW i \in DOMAIN c.items
        PROVE  q[i] = c.items[i]
    <3>1. ReadsAs(e, c.items[i], h.items[i])
      BY <1>3
    <3>2. ItemAt(c.items, i) = c.items[i]
      BY DEF ItemAt
    <3>. QED
      BY <1>3, <2>2, <2>5, <3>1, <3>2 DEF ReadsAs
  <2>7. q = c.items
    BY <1>1, <1>3, <2>2, <2>5, <2>6 DEF IsSeq, IsMap
  <2>. QED
    BY <1>1, <2>4, <2>7
<1>5. isZero(h) => isZero(c)
  <2>1. h.items = <<>> => c.items = <<>>
    BY <1>1 DEF IsSeq
  <2>. QED
    BY <1>1, <2>1, Zeros
<1>. QED
  BY <1>4, <1>5 DEF ReadsAs

(* What is taken whole and comes back in another spelling is expressed as  *)
(* it was; and whatever it was expressed like, it says the same.           *)
Respelled(a, h, w) ==
  a.kind = "string" /\ h.kind = "string" /\ \E s \in Spellings(a, h, FALSE) : w = Leaf("string", h.text, s)

SpelledAs(a, h, w, p, r, c) ==
  /\ p \in SUBSET {OwnProject} /\ c = Leaf("string", c.text, c.spelling)
  /\ c = sameByEquivalence(a, r, sameProjectSpelling(p, r, w)) \/ c = h

LEMMA StringReads ==
  ASSUME NEW a \in Attrs, NEW h, NEW w, Respelled(a, h, w), NEW x, Respelled(a, h, x),
         NEW p, NEW r, NEW c, SpelledAs(a, h, w, p, r, c)
  PROVE  /\ c.text = h.text
         /\ sameByEquivalence(a, c, sameProjectSpelling({OwnProject}, c, x)) = c
<1>0. PICK s \in Spellings(a, h, FALSE), t \in Spellings(a, h, FALSE) :
        w = Leaf("string", h.text, s) /\ x = Leaf("string", h.text, t)
  BY DEF Respelled
<1>2. h.kind = "string" /\ p \in SUBSET {OwnProject} /\ c = Leaf("string", c.text, c.spelling)
  BY DEF Respelled, SpelledAs
<1>1. /\ w.kind = "string" /\ w.text = h.text /\ w.spelling = s
      /\ x.kind = "string" /\ x.text = h.text /\ x.spelling = t
      /\ c.kind = "string"
  BY <1>0, <1>2 DEF Leaf
<1>3. c = sameByEquivalence(a, r, sameProjectSpelling(p, r, w)) \/ c = h
  BY DEF SpelledAs
<1>4. c.text = h.text
  BY <1>1, <1>3 DEF sameByEquivalence, sameProjectSpelling
<1>5. CASE a.rule
  BY <1>1, <1>4, <1>5 DEF sameByEquivalence, sameProjectSpelling
<1>6. CASE ~ a.rule
  <2>1. c = h \/ c = w \/ (c = r /\ {r.spelling, s} = {"id", "number"} /\ h.text = OwnProject)
    BY <1>1, <1>2, <1>3, <1>6 DEF sameByEquivalence, sameProjectSpelling
  <2>2. CASE h.spelling \in {"id", "number"} /\ h.text = OwnProject
    <3>1. s \in {"id", "number"} /\ t \in {"id", "number"}
      BY <1>6, <2>2 DEF Spellings
    <3>2. c.spelling \in {"id", "number"}
      BY <1>1, <1>2, <2>1, <2>2, <3>1
    <3>3. c.spelling = t => x = c
      BY <1>0, <1>2, <1>4
    <3>4. c.spelling # t => sameProjectSpelling({OwnProject}, c, x) = c
      BY <1>1, <1>4, <2>2, <3>1, <3>2 DEF sameProjectSpelling
    <3>5. sameProjectSpelling({OwnProject}, c, x) = c
      BY <3>3, <3>4 DEF sameProjectSpelling
    <3>6. sameByEquivalence(a, c, c) = c
      BY DEF sameByEquivalence
    <3>. QED
      BY <1>4, <3>5, <3>6
  <2>3. CASE ~ (h.spelling \in {"id", "number"} /\ h.text = OwnProject)
    <3>1. s = h.spelling /\ t = h.spelling
      BY <1>6, <2>3 DEF Spellings
    <3>2. c = h \/ c = w
      BY <2>1, <2>3, <3>1
    <3>3. x = c
      BY <1>0, <1>1, <1>2, <1>4, <3>1, <3>2
    <3>4. sameProjectSpelling({OwnProject}, c, c) = c /\ sameByEquivalence(a, c, c) = c
      BY DEF sameByEquivalence, sameProjectSpelling
    <3>. QED
      BY <1>4, <3>3, <3>4
  <2>. QED
    BY <2>2, <2>3
<1>. QED
  BY <1>4, <1>5, <1>6, Schemas

LEMMA WholeValue ==
  ASSUME NEW a \in Attrs, ~ IsObject(a), ~ IsList(a), NEW p, NEW r, NEW w
  PROVE  Read(p, a, r, w) =
           IF a.opaque \/ ~ Known(w) THEN w
           ELSE sameByEquivalence(a, r, sameProjectSpelling(p, r, asDeclaredKind(a, w)))
BY DEF Read, value, IsObject, IsList

LEMMA OtherReads ==
  ASSUME NEW a \in Attrs, ~ IsObject(a), ~ IsList(a), a.kind # "string",
         NEW h, Fits(FALSE, a, h), NEW w \in Written(a, h, FALSE), NEW p, NEW r
  PROVE  Read(p, a, r, w) = h
<1>1. Read(p, a, r, w) =
        IF a.opaque \/ ~ Known(w) THEN w
        ELSE sameByEquivalence(a, r, sameProjectSpelling(p, r, asDeclaredKind(a, w)))
  BY WholeValue
<1>2. \/ h.kind = "string" /\ \E s \in Spellings(a, h, FALSE) : w = Leaf("string", h.text, s)
      \/ h.kind = "float" /\ h.text # "fraction" /\ w = Leaf("int", h.text, h.spelling)
      \/ h.kind = "float" /\ h.text = "fraction" /\ w = h
      \/ h.kind \notin {"string", "float"} /\ w = h
  BY WholeForm
<1>3. CASE a.kind \in {"map", "list"}
  <2>1. h.kind \in {"map", "list"}
    <3>1. CASE a.kind = "map"
      <4>1. h = MapOf(h.fields)
        BY <3>1, WholeFits
      <4>. QED
        BY <4>1, Kinds
    <3>2. CASE a.kind = "list"
      <4>1. h = ListOf(h.items)
        BY <3>2, WholeFits
      <4>. QED
        BY <4>1, Kinds
    <3>. QED
      BY <1>3, <3>1, <3>2
  <2>2. w = h
    BY <1>2, <2>1
  <2>. QED
    BY <1>1, <2>1, <2>2 DEF asDeclaredKind, Numbers, sameProjectSpelling, sameByEquivalence
<1>4. CASE a.kind \notin {"map", "list"}
  <2>1. h = Leaf(a.kind, h.text, h.spelling)
    BY <1>4, WholeFits
  <2>2. h.kind = a.kind /\ h.kind \in {"bool", "int", "float"} /\ ~ a.opaque
    <3>1. h.kind = a.kind
      BY <2>1 DEF Leaf
    <3>. QED
      BY <1>4, <3>1, Schemas
  <2>3. asDeclaredKind(a, w) = h /\ Known(w)
    <3>1. CASE w = h
      BY <2>1, <2>2, <3>1 DEF asDeclaredKind, Known
    <3>2. CASE h.kind = "float" /\ h.text # "fraction" /\ w = Leaf("int", h.text, h.spelling)
      <4>1. w.kind = "int" /\ w.text = h.text /\ w.spelling = h.spelling
        BY <3>2 DEF Leaf
      <4>. QED
        BY <2>1, <2>2, <3>2, <4>1 DEF asDeclaredKind, Numbers, Known
    <3>. QED
      BY <1>2, <2>2, <3>1, <3>2
  <2>4. sameProjectSpelling(p, r, h) = h /\ sameByEquivalence(a, r, h) = h
    BY <2>2 DEF sameProjectSpelling, sameByEquivalence
  <2>. QED
    BY <1>1, <2>2, <2>3, <2>4
<1>. QED
  BY <1>3, <1>4

(* c is h itself, or what has been made of the answer w. *)
MadeOf(c, h, p, a, r, w) == c = Read(p, a, r, w) \/ c = h

LEMMA WholeSaid ==
  ASSUME NEW a \in Attrs, ~ IsObject(a), ~ IsList(a), ~ IsLabels(a), NEW c, Fits(TRUE, a, c),
         NEW h, Fits(FALSE, a, h), NEW w \in Written(a, h, FALSE), NEW t \in Written(a, h, FALSE),
         NEW p \in SUBSET {OwnProject}, NEW r, MadeOf(c, h, p, a, r, w)
  PROVE  /\ Read({OwnProject}, a, c, t) = c
         /\ isZero(h) => isZero(c)
         /\ Holds(a, c, h)
<1>1. CASE a.kind # "string"
  <2>0. \A x \in Written(a, h, FALSE) : \A q, z : Read(q, a, z, x) = h
    BY <1>1, OtherReads
  <2>1. Read({OwnProject}, a, c, t) = h
    BY <2>0
  <2>2. Read(p, a, r, w) = h
    BY <2>0
  <2>3. c = h
    BY <2>2 DEF MadeOf
  <2>. QED
    BY <2>1, <2>3, WholeForm DEF IsLabels
<1>2. CASE a.kind = "string"
  <2>1. /\ h = Leaf("string", h.text, h.spelling)
        /\ c = Leaf("string", c.text, c.spelling)
        /\ ~ a.opaque
    BY <1>2, WholeFits, Schemas
  <2>2. h.kind = "string"
    BY <2>1 DEF Leaf
  <2>3. Respelled(a, h, w) /\ Respelled(a, h, t)
    BY <1>2, <2>2, WholeForm DEF Respelled
  <2>5. \A x \in {w, t} : Known(x) /\ asDeclaredKind(a, x) = x
    BY <1>2, <2>3 DEF Respelled, Leaf, Known, asDeclaredKind, Numbers
  <2>6. /\ Read(p, a, r, w) = sameByEquivalence(a, r, sameProjectSpelling(p, r, w))
        /\ Read({OwnProject}, a, c, t) =
             sameByEquivalence(a, c, sameProjectSpelling({OwnProject}, c, t))
    BY <2>1, <2>5, WholeValue
  <2>9. SpelledAs(a, h, w, p, r, c)
    BY <2>1, <2>6 DEF MadeOf, SpelledAs
  <2>7. /\ c.text = h.text
        /\ sameByEquivalence(a, c, sameProjectSpelling({OwnProject}, c, t)) = c
    BY <2>3, <2>9, StringReads
  <2>8. isZero(h) => isZero(c)
    BY <2>1, <2>7, Zeros
  <2>. QED
    BY <2>6, <2>7, <2>8, WholeForm DEF IsLabels
<1>. QED
  BY <1>1, <1>2

(* Labels, without the ones that GCP adds. *)
LEMMA LabelsSaid ==
  ASSUME NEW a \in Attrs, a.labels, NEW h, Fits(FALSE, a, h), NEW w \in Written(a, h, FALSE),
         NEW p, NEW r
  PROVE  /\ withoutReservedLabels(a, Read(p, a, r, w)) = MapOf(StripLabels(h.fields))
         /\ ~ IsObject(a) /\ ~ IsList(a) /\ a.kind = "map"
<1>1. ~ IsObject(a) /\ ~ IsList(a) /\ a.opaque /\ a.kind = "map"
  BY Schemas
<1>2. h = MapOf(h.fields)
  BY <1>1, WholeFits
<1>3. h.kind = "map"
  BY <1>2, Kinds
<1>4. w = h
  BY <1>1, <1>3, WholeForm
<1>5. Read(p, a, r, w) = h
  BY <1>1, <1>4, WholeValue
<1>6. withoutReservedLabels(a, h) = MapOf(StripLabels(h.fields))
  BY <1>1, <1>3, WholeForm
<1>. QED
  BY <1>1, <1>5, <1>6
(* What was sent, written into whatever was held and filled in, reads as   *)
(* what was sent.                                                          *)
Base(a, h)  == h = Nothing \/ innerFits(FALSE, a, h)
Became(a, h, c) == innerFilled(a, innerMerged(a, h, c))
Takes(a) ==
  \A h, c : Base(a, h) /\ innerFits(TRUE, a, c) => ReadsAs(a, c, Became(a, h, c))

LEMMA BecameFits ==
  ASSUME Recursive, Ordered, NEW a \in Attrs, NEW h, Base(a, h), NEW c, innerFits(TRUE, a, c)
  PROVE  /\ innerFits(FALSE, a, innerMerged(a, h, c))
         /\ innerFits(FALSE, a, Became(a, h, c))
<1>1. innerFits(FALSE, a, c)
  BY AllStrip DEF Strips
<1>2. innerFits(FALSE, a, innerMerged(a, h, c))
  BY <1>1, AllMerge DEF Merges, Base
<1>. QED
  BY <1>2, AllFill DEF Fills, Became

LEMMA WholeTakes ==
  ASSUME Recursive, Ordered, NEW a \in Attrs, ~ IsObject(a), ~ IsList(a),
         NEW h, NEW c, innerFits(TRUE, a, c)
  PROVE  ReadsAs(a, c, Became(a, h, c))
<1>0. Unfolds(a)
  BY DEF Recursive
<1>1. Merged(a, h, c) = c
  BY WholeForm
<1>2. Became(a, h, c) = Filled(a, c)
  BY <1>1 DEF Became, Recursive, Unfolds
<1>3. Fits(TRUE, a, c) /\ Fits(FALSE, a, c) /\ withoutReservedLabels(a, c) = c
  BY AllStrip, <1>0 DEF Strips, Unfolds
<1>4. CASE IsLabels(a)
  <2>. DEFINE v == Filled(a, c)
  <2>1. a.labels /\ a.kind = "map"
    BY <1>4, Schemas DEF IsLabels
  <2>2. c = MapOf(c.fields) /\ IsMap(c.fields) /\ DOMAIN c.fields \cap Reserved = {}
    BY <1>3, <2>1, WholeFits
  <2>3. v = MapOf(FillLabels(c.fields))
    BY <2>1, WholeForm
  <2>. HIDE DEF v
  <2>4. v.fields = FillLabels(c.fields)
    BY <2>3, Forms
  <2>5. innerFits(FALSE, a, v)
    BY <1>3, AllFill DEF Fills, Recursive, Unfolds, v
  <2>6. StripLabels(FillLabels(c.fields)) = c.fields
    BY <2>2 DEF StripLabels, FillLabels, IsMap
  <2>7. ASSUME NEW w \in innerWritten(a, v, FALSE)
        PROVE  Seen({OwnProject}, a, c, w) = c
    <3>1. Fits(FALSE, a, v) /\ w \in Written(a, v, FALSE)
      BY <2>5 DEF Recursive, Unfolds
    <3>2. withoutReservedLabels(a, Read({OwnProject}, a, c, w)) = MapOf(StripLabels(v.fields))
      BY <2>1, <3>1, LabelsSaid
    <3>. QED
      BY <2>2, <2>4, <2>6, <3>2, <1>0 DEF Seen, Unfolds, Read
  <2>8. ~ isZero(v)
    <3>1. DOMAIN FillLabels(c.fields) # {}
      BY DEF FillLabels, Reserved
    <3>. QED
      BY <2>3, <3>1, Zeros
  <2>. QED
    BY <1>2, <2>7, <2>8 DEF ReadsAs, v
<1>5. CASE ~ IsLabels(a)
  <2>1. Became(a, h, c) = c
    BY <1>2, <1>5, WholeForm DEF IsLabels
  <2>2. ASSUME NEW w \in innerWritten(a, c, FALSE)
        PROVE  Seen({OwnProject}, a, c, w) = c
    <3>1. w \in Written(a, c, FALSE)
      BY DEF Recursive, Unfolds
    <3>2. MadeOf(c, c, {OwnProject}, a, c, w) /\ {OwnProject} \in SUBSET {OwnProject}
      BY DEF MadeOf
    <3>3. Read({OwnProject}, a, c, w) = c
      BY <1>3, <1>5, <3>1, <3>2, WholeSaid
    <3>. QED
      BY <1>3, <3>3, SeenIs
  <2>. QED
    BY <2>1, <2>2 DEF ReadsAs
<1>. QED
  BY <1>4, <1>5

LEMMA FieldsTake ==
  ASSUME NEW d, NEW b, FitsFields(FALSE, d, b), NEW c, FitsFields(TRUE, d, c),
         \A n \in DOMAIN c : Takes(d[n])
  PROVE  /\ \A n \in DOMAIN c : FieldReads(d, c, FilledFields(d, MergedFields(d, b, c)), n)
         /\ DOMAIN c \subseteq DOMAIN FilledFields(d, MergedFields(d, b, c))
<1>. DEFINE m == MergedFields(d, b, c)
            g == FilledFields(d, m)
<1>1. /\ DOMAIN m = DOMAIN b \cup DOMAIN c
      /\ \A n \in DOMAIN c : m[n] = innerMerged(d[n], Get(b, n), c[n])
  BY DEF MergedFields
<1>. HIDE DEF m
<1>2. /\ DOMAIN g = DOMAIN m \cup Added(d, m)
      /\ \A n \in DOMAIN m : g[n] = innerFilled(d[n], m[n])
  BY DEF FilledFields, Added
<1>. HIDE DEF g
<1>3. ASSUME NEW n \in DOMAIN c
      PROVE  FieldReads(d, c, g, n)
  <2>1. Base(d[n], Get(b, n)) /\ innerFits(TRUE, d[n], c[n])
    BY DEF FitsFields, Get, Base
  <2>2. g[n] = Became(d[n], Get(b, n), c[n]) /\ n \in DOMAIN g
    BY <1>1, <1>2 DEF Became
  <2>3. ReadsAs(d[n], c[n], g[n])
    BY <2>1, <2>2 DEF Takes
  <2>. QED
    BY <2>2, <2>3 DEF FieldReads
<1>4. DOMAIN c \subseteq DOMAIN g
  BY <1>1, <1>2
<1>. QED
  BY <1>3, <1>4 DEF g, m

LEMMA NothingMerged ==
  ASSUME Recursive, NEW d, Declared(d), NEW c, DOMAIN c \subseteq DOMAIN d, IsMap(c)
  PROVE  MergedFields(d, NoFields, c) = c
<1>. DEFINE m == MergedFields(d, NoFields, c)
<1>1. /\ DOMAIN m = DOMAIN c
      /\ \A n \in DOMAIN c : m[n] = innerMerged(d[n], Get(NoFields, n), c[n])
      /\ IsMap(m)
  BY Forms DEF MergedFields, IsMap
<1>2. \A n \in DOMAIN c : Get(NoFields, n) = Nothing
  BY Forms DEF Get
<1>3. \A n \in DOMAIN c : m[n] = c[n]
  BY <1>1, <1>2, MergedNothing DEF Declared
<1>. HIDE DEF m
<1>4. m = c
  BY <1>1, <1>3 DEF IsMap
<1>. QED
  BY <1>4 DEF m

LEMMA AllTake ==
  ASSUME Recursive, Ordered
  PROVE  \A a \in Attrs : Takes(a)
<1>. DEFINE S == {a \in Attrs : Takes(a)}
<1>1. ASSUME NEW a \in Attrs, Inside(a) \subseteq S, NEW h, Base(a, h), NEW c, innerFits(TRUE, a, c)
      PROVE  ReadsAs(a, c, Became(a, h, c))
  <2>0. Unfolds(a)
    BY DEF Recursive
  <2>1. CASE IsObject(a)
    <3>. DEFINE d == a.fields
                b == IF h = Nothing THEN NoFields ELSE h.fields
                m == MergedFields(d, b, c.fields)
                g == FilledFields(d, m)
    <3>1. c = MapOf(c.fields) /\ FitsFields(TRUE, d, c.fields)
      BY <1>1, <2>1, InnerObject
    <3>2. FitsFields(FALSE, d, b) /\ (h # Nothing => h = MapOf(h.fields))
      <4>1. CASE h = Nothing
        BY <4>1, Forms DEF FitsFields, NoFields
      <4>2. CASE h # Nothing
        <5>1. Fits(FALSE, a, h)
          BY <1>1, <4>2 DEF Base, Recursive, Unfolds
        <5>. QED
          BY <2>1, <4>2, <5>1, ObjectForm
      <4>. QED
        BY <4>1, <4>2
    <3>3. \A n \in DOMAIN c.fields : Takes(d[n])
      BY <1>1, <2>1, <3>1, Schemas DEF FitsFields
    <3>4. /\ \A n \in DOMAIN c.fields : FieldReads(d, c.fields, g, n)
          /\ DOMAIN c.fields \subseteq DOMAIN g
      <4>. HIDE DEF b, d
      <4>. QED
        BY <3>1, <3>2, <3>3, FieldsTake
    <3>5. Merged(a, h, c) = MapOf(m)
      <4>1. CASE h = Nothing
        <5>1. m = c.fields
          <6>1. Declared(d) /\ b = NoFields
            BY <2>1, <4>1, InsideDeclared
          <6>2. IsMap(c.fields) /\ DOMAIN c.fields \subseteq DOMAIN d
            BY <3>1 DEF FitsFields, IsMap
          <6>. QED
            BY <6>1, <6>2, NothingMerged
        <5>2. Merged(a, h, c) = c
          BY <4>1, MergedNothing DEF Recursive, Unfolds
        <5>. QED
          BY <3>1, <5>1, <5>2
      <4>2. CASE h # Nothing
        <5>1. h.kind = "map" /\ c.kind = "map"
          BY <3>1, <3>2, <4>2, Kinds
        <5>. QED
          BY <2>1, <4>2, <5>1 DEF Merged, IsObject
      <4>. QED
        BY <4>1, <4>2
    <3>. HIDE DEF m
    <3>6. MapOf(m).kind = "map" /\ MapOf(m).fields = m
      BY MapForm
    <3>7. Filled(a, MapOf(m)) = MapOf(g)
      BY <2>1, <3>6, ObjectFilled
    <3>8. Became(a, h, c) = MapOf(g)
      BY <3>5, <3>7 DEF Became, Recursive, Unfolds
    <3>. HIDE DEF g, b
    <3>12. isZero(MapOf(g)) => DOMAIN c.fields = {}
      BY <3>4, Zeros
    <3>13. isZero(MapOf(c.fields)) <=> DOMAIN c.fields = {}
      BY Zeros
    <3>14. MapOf(g).fields = g
      BY Forms
    <3>9. MapOf(g).fields = g /\ (isZero(MapOf(g)) => isZero(c))
      BY <3>1, <3>12, <3>13, <3>14
    <3>10. innerFits(FALSE, a, MapOf(g))
      BY <1>1, <3>8, BecameFits
    <3>11. \A n \in DOMAIN c.fields : FieldReads(a.fields, c.fields, MapOf(g).fields, n)
      BY <3>4, <3>9
    <3>. HIDE DEF d
    <3>. QED
      BY <1>1, <2>1, <3>8, <3>9, <3>10, <3>11, ObjectReads
  <2>2. CASE IsList(a)
    <3>. DEFINE e == a.elem[1]
                q == FillItems(e, c.items)
    <3>1. /\ c = ListOf(c.items) /\ IsSeq(c.items)
          /\ \A i \in 1..Len(c.items) : innerFits(TRUE, e, c.items[i])
      BY <1>1, <2>2, InnerList
    <3>9. Merged(a, h, c) = c
      BY <2>2, ListForm
    <3>2. c.kind = "list" /\ Merged(a, h, c) = c
      BY <3>1, <3>9, Kinds
    <3>3. Became(a, h, c) = ListOf(q)
      <4>1. innerMerged(a, h, c) = c
        BY <3>2, <2>0 DEF Unfolds
      <4>2. innerFilled(a, c) = ListOf(q)
        BY <2>2, <3>2, ListForm, <2>0 DEF Unfolds
      <4>. QED
        BY <4>1, <4>2 DEF Became
    <3>4. /\ IsSeq(q) /\ Len(q) = Len(c.items)
          /\ \A i \in 1..Len(c.items) : q[i] = innerFilled(e, c.items[i])
      BY <3>1 DEF FillItems, IsSeq
    <3>. HIDE DEF q
    <3>5. ListOf(q).items = q
      BY Forms
    <3>6. innerFits(FALSE, a, ListOf(q))
      BY <1>1, <3>3, BecameFits
    <3>7. ASSUME NEW i \in 1..Len(c.items)
          PROVE  ReadsAs(e, c.items[i], q[i])
      <4>1. q[i] = Became(e, Nothing, c.items[i])
        <5>1. e \in Attrs
          BY <2>2, Schemas
        <5>. QED
          BY <3>4, <5>1, MergedNothing DEF Became
      <4>2. Takes(e) /\ Base(e, Nothing) /\ innerFits(TRUE, e, c.items[i])
        BY <1>1, <2>2, <3>1, Schemas DEF Base
      <4>. QED
        BY <4>1, <4>2 DEF Takes
    <3>. HIDE DEF e
    <3>8. /\ Len(c.items) = Len(ListOf(q).items)
          /\ \A i \in 1..Len(c.items) : ReadsAs(a.elem[1], c.items[i], ListOf(q).items[i])
      BY <3>4, <3>5, <3>7 DEF e
    <3>. QED
      BY <1>1, <2>2, <3>3, <3>6, <3>8, ListReads
  <2>3. CASE ~ IsObject(a) /\ ~ IsList(a)
    BY <1>1, <2>3, WholeTakes
  <2>. QED
    BY <2>1, <2>2, <2>3
<1>2. \A a \in Attrs : Inside(a) \subseteq S => a \in S
  BY <1>1 DEF Takes
<1>. QED
  <2>. HIDE DEF S
  <2>1. Attrs \subseteq S
    BY <1>2, ByDepth
  <2>. QED
    BY <2>1 DEF S
-----------------------------------------------------------------------------
(* What an answer shows of what GCP holds.                                 *)
SeenOf(a, h, c) ==
  \E p \in SUBSET {OwnProject} : \E r : \E w \in innerWritten(a, h, FALSE) : c = Seen(p, a, r, w)

SeesField(d, h, c, n) ==
  \/ d[n].inputOnly \/ d[n].createOnly
  \/ n \in DOMAIN h /\ SeenOf(d[n], h[n], c[n])
  \/ isZero(c[n]) /\ (n \in DOMAIN h => isZero(h[n]))

LEMMA StripZero ==
  ASSUME Recursive, NEW a \in Attrs, NEW v, isZero(v)
  PROVE  isZero(innerWithoutReservedLabels(a, v))
<1>1. innerWithoutReservedLabels(a, v) = withoutReservedLabels(a, v)
  BY DEF Recursive, Unfolds
<1>2. CASE v.kind = "map"
  <2>1. DOMAIN v.fields = {}
    BY <1>2 DEF isZero
  <2>5. withoutReservedLabels(a, v) =
          IF a.labels THEN MapOf(StripLabels(v.fields))
          ELSE IF DOMAIN a.fields # {} THEN MapOf(StripFields(a.fields, v.fields)) ELSE v
    BY <1>2, Schemas DEF withoutReservedLabels, StripLabels, StripFields, IsObject
  <2>2. CASE a.labels
    <3>1. withoutReservedLabels(a, v) = MapOf(StripLabels(v.fields))
      BY <2>2, <2>5
    <3>2. DOMAIN StripLabels(v.fields) = {}
      BY <2>1 DEF StripLabels
    <3>. QED
      BY <1>1, <3>1, <3>2, Zeros
  <2>3. CASE ~ a.labels /\ DOMAIN a.fields # {}
    <3>1. withoutReservedLabels(a, v) = MapOf(StripFields(a.fields, v.fields))
      BY <1>2, <2>3 DEF withoutReservedLabels, StripFields
    <3>2. DOMAIN StripFields(a.fields, v.fields) = {}
      BY <2>1 DEF StripFields
    <3>. QED
      BY <1>1, <3>1, <3>2, Zeros
  <2>4. CASE ~ a.labels /\ ~ (DOMAIN a.fields # {})
    <3>1. withoutReservedLabels(a, v) = v
      BY <1>2, <2>4 DEF withoutReservedLabels
    <3>. QED
      BY <1>1, <3>1
  <2>. QED
    BY <2>2, <2>3, <2>4
<1>3. CASE v.kind = "list" /\ a.elem # <<>>
  <2>1. v.items = <<>>
    BY <1>3 DEF isZero
  <2>2. withoutReservedLabels(a, v) = ListOf(StripItems(a.elem[1], v.items))
    BY <1>3 DEF withoutReservedLabels, StripItems
  <2>3. StripItems(a.elem[1], v.items) = <<>>
    BY <2>1 DEF StripItems
  <2>. QED
    BY <1>1, <2>2, <2>3, Zeros
<1>4. CASE v.kind # "map" /\ ~ (v.kind = "list" /\ a.elem # <<>>)
  <2>1. withoutReservedLabels(a, v) = v
    BY <1>4 DEF withoutReservedLabels
  <2>. QED
    BY <1>1, <2>1
<1>. QED
  BY <1>2, <1>3, <1>4

LEMMA FieldsSeen ==
  ASSUME Recursive, NEW d, Declared(d), NEW h, DOMAIN h \subseteq DOMAIN d,
         NEW f \in WrittenFields(d, h, FALSE), NEW p \in SUBSET {OwnProject}, NEW r
  PROVE  \A n \in DOMAIN SeenFields(p, d, r, f) : SeesField(d, h, SeenFields(p, d, r, f), n)
<1>. DEFINE g == SeenFields(p, d, r, f)
<1>0. /\ DOMAIN g = Answered(d, r, f) \cup Carried(d, r, f)
      /\ \A m \in Answered(d, r, f) : g[m] = Seen(p, d[m], Get(r.fields, m), f[m])
      /\ \A m \in Carried(d, r, f) : g[m] = innerWithoutReservedLabels(d[m], r.fields[m])
  <2>1. Answered(d, r, f) \cap Carried(d, r, f) = {}
    BY DEF Answered, Carried
  <2>. QED
    BY <2>1 DEF SeenFields, StripFields, ObjectFields, Seen
<1>. HIDE DEF g
<1>. SUFFICES ASSUME NEW n \in DOMAIN g
              PROVE  SeesField(d, h, g, n)
  BY DEF g
<1>1. n \in Answered(d, r, f) \cup Carried(d, r, f)
  BY <1>0
<1>2. /\ \A m \in DOMAIN d \cap DOMAIN f :
           m \in DOMAIN h /\ ~ d[m].inputOnly /\ ~ d[m].createOnly /\ f[m] \in innerWritten(d[m], h[m], FALSE)
      /\ \A m \in DOMAIN h : m \in DOMAIN f \/ d[m].inputOnly \/ d[m].createOnly \/ isZero(h[m])
  BY WrittenFieldsIs
<1>3. CASE n \in Answered(d, r, f)
  <2>1. g[n] = Seen(p, d[n], Get(r.fields, n), f[n])
    BY <1>0, <1>3
  <2>2. n \in DOMAIN h /\ f[n] \in innerWritten(d[n], h[n], FALSE)
    BY <1>2, <1>3 DEF Answered
  <2>3. SeenOf(d[n], h[n], g[n])
    BY <2>1, <2>2 DEF SeenOf
  <2>. QED
    BY <2>2, <2>3 DEF SeesField
<1>4. CASE n \in Carried(d, r, f) /\ ~ d[n].inputOnly
  <2>1. g[n] = innerWithoutReservedLabels(d[n], r.fields[n])
    BY <1>0, <1>4
  <2>2. isZero(Get(r.fields, n)) /\ n \notin DOMAIN f
    BY <1>4 DEF Carried
  <2>3. isZero(r.fields[n])
    BY <2>2, Zeros DEF Get
  <2>4. isZero(g[n])
    BY <1>4, <2>1, <2>3, StripZero DEF Carried, Declared
  <2>5. d[n].createOnly \/ (n \in DOMAIN h => isZero(h[n]))
    BY <1>2, <1>4, <2>2
  <2>. QED
    BY <2>4, <2>5 DEF SeesField
<1>5. CASE d[n].inputOnly
  BY <1>5 DEF SeesField
<1>. QED
  BY <1>1, <1>3, <1>4, <1>5

(* GCP has nothing to fill in. *)
LEMMA FullFields ==
  ASSUME NEW d, NEW h, FilledFields(d, h) = h
  PROVE  Added(d, h) = {} /\ \A n \in DOMAIN h : innerFilled(d[n], h[n]) = h[n]
<1>1. /\ DOMAIN h = DOMAIN h \cup Added(d, h)
      /\ \A n \in DOMAIN h : h[n] = innerFilled(d[n], h[n])
  BY DEF FilledFields, Added
<1>2. Added(d, h) \cap DOMAIN h = {}
  BY DEF Added
<1>. QED
  BY <1>1, <1>2

Full(a, h) == innerFilled(a, h) = h

LEMMA FullObject ==
  ASSUME Recursive, NEW a \in Attrs, IsObject(a), NEW h, innerFits(FALSE, a, h), Full(a, h)
  PROVE  FilledFields(a.fields, h.fields) = h.fields /\ ~ isZero(h)
<1>0. Unfolds(a)
  BY DEF Recursive
<1>1. h = MapOf(h.fields)
  BY InnerObject
<1>2. h.kind = "map"
  BY <1>1, Kinds
<1>3. Filled(a, h) = MapOf(FilledFields(a.fields, h.fields))
  BY <1>2, ObjectForm
<1>4. MapOf(FilledFields(a.fields, h.fields)).fields = FilledFields(a.fields, h.fields)
  BY Forms
<1>5. h = MapOf(FilledFields(a.fields, h.fields))
  BY <1>3 DEF Full, Recursive, Unfolds
<1>6. FilledFields(a.fields, h.fields) = h.fields
  BY <1>4, <1>5
<1>7. PICK n \in DOMAIN a.fields : FilledIn(a.fields[n])
  BY Schemas
<1>8. n \in DOMAIN h.fields
  BY <1>6, <1>7, FullFields DEF Added
<1>. QED
  BY <1>1, <1>6, <1>8, Zeros

LEMMA FullLabels ==
  ASSUME Recursive, NEW a \in Attrs, a.labels, NEW h, innerFits(FALSE, a, h), Full(a, h)
  PROVE  ~ isZero(h)
<1>1. ~ IsObject(a) /\ ~ IsList(a)
  BY Schemas
<1>2. Filled(a, h) = MapOf(FillLabels(h.fields))
  BY <1>1, WholeForm
<1>3. h = MapOf(FillLabels(h.fields))
  BY <1>2 DEF Full, Recursive, Unfolds
<1>4. DOMAIN FillLabels(h.fields) # {}
  BY DEF FillLabels, Reserved
<1>. QED
  BY <1>3, <1>4, Zeros
(* Held and said agree: every answer is expressed as said, and it is so.   *)
Agrees(a, c, h) == ReadsAs(a, c, h) /\ innerHolds(a, c, h)

LEMMA WholeAgrees ==
  ASSUME Recursive, Ordered, NEW a \in Attrs, ~ IsObject(a), ~ IsList(a), ~ IsLabels(a),
         NEW c, innerFits(TRUE, a, c), NEW h, innerFits(FALSE, a, h), c = h \/ SeenOf(a, h, c)
  PROVE  Agrees(a, c, h)
<1>0. Unfolds(a)
  BY DEF Recursive
<1>1. Fits(TRUE, a, c) /\ Fits(FALSE, a, h) /\ innerWritten(a, h, FALSE) = Written(a, h, FALSE)
  BY DEF Recursive, Unfolds
<1>2. withoutReservedLabels(a, c) = c
  BY AllStrip DEF Strips, Recursive, Unfolds
<1>3. \A x : withoutReservedLabels(a, x) = x
  BY WholeForm DEF IsLabels
<1>4. ASSUME NEW t \in Written(a, h, FALSE)
      PROVE  \E w \in Written(a, h, FALSE), p \in SUBSET {OwnProject} : \E r : MadeOf(c, h, p, a, r, w)
  <2>1. CASE c = h
    BY <2>1 DEF MadeOf
  <2>2. CASE SeenOf(a, h, c)
    <3>1. PICK p \in SUBSET {OwnProject} : \E r : \E w \in Written(a, h, FALSE) : c = Seen(p, a, r, w)
      BY <1>1, <2>2 DEF SeenOf
    <3>2. PICK r : \E w \in Written(a, h, FALSE) : c = Seen(p, a, r, w)
      BY <3>1
    <3>3. PICK w \in Written(a, h, FALSE) : c = Seen(p, a, r, w)
      BY <3>2
    <3>4. MadeOf(c, h, p, a, r, w)
      BY <1>3, <3>3, <1>0 DEF MadeOf, Seen, Unfolds, Read
    <3>. QED
      BY <3>4
  <2>. QED
    BY <2>1, <2>2
<1>5. ASSUME NEW t \in Written(a, h, FALSE)
      PROVE  Seen({OwnProject}, a, c, t) = c /\ (isZero(h) => isZero(c)) /\ Holds(a, c, h)
  <2>1. PICK w \in Written(a, h, FALSE), p \in SUBSET {OwnProject} : \E r : MadeOf(c, h, p, a, r, w)
    BY <1>4
  <2>2. PICK r : MadeOf(c, h, p, a, r, w)
    BY <2>1
  <2>3. /\ Read({OwnProject}, a, c, t) = c
        /\ isZero(h) => isZero(c)
        /\ Holds(a, c, h)
    BY <1>1, <2>2, WholeSaid
  <2>. QED
    BY <1>3, <2>3, SeenIs
<1>6. \E t : t \in Written(a, h, FALSE)
  <2>1. CASE h.kind = "string"
    <3>1. Written(a, h, FALSE) = {Leaf("string", h.text, s) : s \in Spellings(a, h, FALSE)}
      BY <2>1 DEF Written, IsObject, IsList
    <3>2. \E s : s \in Spellings(a, h, FALSE)
      <4>1. CASE a.rule
        BY <4>1 DEF Spellings
      <4>2. CASE ~ a.rule
        BY <4>2 DEF Spellings
      <4>. QED
        BY <4>1, <4>2
    <3>. QED
      BY <3>1, <3>2
  <2>2. CASE h.kind = "float" /\ h.text # "fraction"
    <3>1. Written(a, h, FALSE) = {Leaf("int", h.text, h.spelling)}
      BY <2>2 DEF Written, IsObject, IsList
    <3>. QED
      BY <3>1
  <2>3. CASE h.kind # "string" /\ ~ (h.kind = "float" /\ h.text # "fraction")
    <3>1. Written(a, h, FALSE) = {h}
      BY <2>3 DEF Written, IsObject, IsList
    <3>. QED
      BY <3>1
  <2>. QED
    BY <2>1, <2>2, <2>3
<1>. QED
  BY <1>1, <1>5, <1>6 DEF Agrees, ReadsAs, Recursive, Unfolds

LEMMA LabelsAgree ==
  ASSUME Recursive, Ordered, NEW a \in Attrs, a.labels, NEW c, innerFits(TRUE, a, c),
         NEW h, innerFits(FALSE, a, h), Full(a, h), SeenOf(a, h, c)
  PROVE  Agrees(a, c, h)
<1>1. Fits(FALSE, a, h) /\ innerWritten(a, h, FALSE) = Written(a, h, FALSE)
  BY DEF Recursive, Unfolds
<1>2. ASSUME NEW p, NEW r, NEW w \in Written(a, h, FALSE)
      PROVE  Seen(p, a, r, w) = MapOf(StripLabels(h.fields))
  <2>1. withoutReservedLabels(a, Read(p, a, r, w)) = MapOf(StripLabels(h.fields))
    BY <1>1, LabelsSaid
  <2>. QED
    BY <2>1 DEF Seen, Recursive, Unfolds, Read
<1>3. c = MapOf(StripLabels(h.fields))
  BY <1>1, <1>2 DEF SeenOf
<1>4. c.fields = StripLabels(h.fields)
  BY <1>3, Forms
<1>5. ~ IsObject(a) /\ ~ IsList(a)
  BY Schemas
<1>6. Holds(a, c, h)
  BY <1>4, <1>5, WholeForm
<1>7. ~ isZero(h)
  BY FullLabels
<1>. QED
  BY <1>1, <1>2, <1>3, <1>6, <1>7 DEF Agrees, ReadsAs, Recursive, Unfolds

LEMMA ListAgrees ==
  ASSUME Recursive, Ordered, NEW a \in Attrs, IsList(a), NEW c, innerFits(TRUE, a, c),
         NEW h, innerFits(FALSE, a, h), Len(c.items) = Len(h.items),
         \A i \in 1..Len(c.items) : Agrees(a.elem[1], c.items[i], h.items[i])
  PROVE  Agrees(a, c, h)
<1>1. ReadsAs(a, c, h)
  BY ListReads DEF Agrees
<1>2. Holds(a, c, h)
  BY ListForm DEF Agrees
<1>. QED
  BY <1>1, <1>2 DEF Agrees, Recursive, Unfolds

(* Nothing is said, and nothing is held. *)
LEMMA ZeroAgrees ==
  ASSUME Recursive, Ordered, NEW a \in Attrs, NEW c, innerFits(TRUE, a, c), isZero(c),
         NEW h, innerFits(FALSE, a, h), Full(a, h), isZero(h)
  PROVE  Agrees(a, c, h)
<1>0. Unfolds(a)
  BY DEF Recursive
<1>1. ~ IsObject(a)
  BY FullObject
<1>2. CASE IsList(a)
  <2>1. c = ListOf(c.items) /\ h = ListOf(h.items)
    BY <1>2, InnerList
  <2>2. c.items = <<>> /\ h.items = <<>>
    BY <2>1, Zeros
  <2>3. Len(c.items) = 0 /\ Len(h.items) = 0
    BY <2>2
  <2>4. Len(c.items) = Len(h.items) /\ \A i \in 1..Len(c.items) : Agrees(a.elem[1], c.items[i], h.items[i])
    BY <2>3
  <2>. QED
    BY <1>2, <2>4, ListAgrees
<1>3. CASE ~ IsList(a)
  <2>1. ~ IsLabels(a)
    BY FullLabels DEF IsLabels
  <2>2. Fits(TRUE, a, c) /\ Fits(FALSE, a, h)
    BY DEF Recursive, Unfolds
  <2>3. c = h
    <3>1. CASE a.kind = "map"
      <4>1. c = MapOf(c.fields) /\ h = MapOf(h.fields) /\ IsMap(c.fields) /\ IsMap(h.fields)
        BY <1>1, <1>3, <2>2, <3>1, WholeFits
      <4>2. DOMAIN c.fields = {} /\ DOMAIN h.fields = {}
        BY <4>1, Zeros
      <4>3. c.fields = h.fields
        BY <4>1, <4>2 DEF IsMap
      <4>. QED
        BY <4>1, <4>3
    <3>2. CASE a.kind = "list"
      <4>1. c = ListOf(c.items) /\ h = ListOf(h.items)
        BY <1>1, <1>3, <2>2, <3>2, WholeFits
      <4>2. c.items = <<>> /\ h.items = <<>>
        BY <4>1, Zeros
      <4>. QED
        BY <4>1, <4>2
    <3>3. CASE a.kind \notin {"map", "list"}
      <4>1. /\ c = Leaf(a.kind, c.text, c.spelling) /\ (c.text = "zero" => c.spelling = "")
            /\ h = Leaf(a.kind, h.text, h.spelling) /\ (h.text = "zero" => h.spelling = "")
        BY <1>1, <1>3, <2>2, <3>3, WholeFits
      <4>2. a.kind # "none"
        BY Schemas
      <4>3. c.text = "zero" /\ h.text = "zero"
        <5>1. isZero(Leaf(a.kind, c.text, c.spelling)) <=> c.text = "zero"
          BY <3>3, <4>2, Zeros
        <5>2. isZero(Leaf(a.kind, h.text, h.spelling)) <=> h.text = "zero"
          BY <3>3, <4>2, Zeros
        <5>. QED
          BY <4>1, <5>1, <5>2
      <4>. QED
        BY <4>1, <4>3
    <3>. QED
      BY <3>1, <3>2, <3>3
  <2>. QED
    BY <1>1, <1>3, <2>1, <2>3, WholeAgrees
<1>. QED
  BY <1>2, <1>3

(* The fields of an object that an answer showed.                          *)
LEMMA ObjectSeen ==
  ASSUME Recursive, NEW a \in Attrs, IsObject(a), NEW h, innerFits(FALSE, a, h), NEW s, SeenOf(a, h, s)
  PROVE  /\ s = MapOf(s.fields)
         /\ \A n \in DOMAIN s.fields : SeesField(a.fields, h.fields, s.fields, n)
<1>. DEFINE d == a.fields
<1>0. Unfolds(a)
  BY DEF Recursive
<1>1. PICK p \in SUBSET {OwnProject} : \E r : \E w \in innerWritten(a, h, FALSE) : s = Seen(p, a, r, w)
  BY DEF SeenOf
<1>2. PICK r : \E w \in innerWritten(a, h, FALSE) : s = Seen(p, a, r, w)
  BY <1>1
<1>3. PICK w \in Written(a, h, FALSE) : s = Seen(p, a, r, w)
  BY <1>2 DEF Recursive, Unfolds
<1>4. h = MapOf(h.fields) /\ FitsFields(FALSE, d, h.fields)
  BY InnerObject
<1>5. h.kind = "map"
  BY <1>4, Kinds
<1>6. PICK f \in WrittenFields(d, h.fields, FALSE) : w = MapOf(f)
  BY <1>5, ObjectWritten
<1>7. w.kind = "map" /\ w.fields = f
  BY <1>6, Forms
<1>8. s = MapOf(SeenFields(p, d, r, f))
  BY <1>3, <1>7, SeenObject
<1>9. s.fields = SeenFields(p, d, r, f)
  BY <1>8, Forms
<1>10. Declared(d) /\ DOMAIN h.fields \subseteq DOMAIN d
  BY <1>4, InsideDeclared DEF FitsFields
<1>11. \A n \in DOMAIN s.fields : SeesField(d, h.fields, s.fields, n)
  <2>. HIDE DEF d
  <2>. QED
    BY <1>9, <1>10, FieldsSeen
<1>. QED
  BY <1>8, <1>9, <1>11

Sees(a) ==
  \A h, c : innerFits(TRUE, a, c) /\ innerFits(FALSE, a, h) /\ Full(a, h) /\ SeenOf(a, h, c) =>
    Agrees(a, c, h)

LEMMA FieldSeen ==
  ASSUME Recursive, Ordered, NEW d, Declared(d), NEW c, FitsFields(TRUE, d, c),
         NEW h, FitsFields(FALSE, d, h), FilledFields(d, h) = h,
         NEW n \in DOMAIN c, Sees(d[n]), SeesField(d, h, c, n)
  PROVE  /\ FieldReads(d, c, h, n)
         /\ \/ d[n].inputOnly \/ d[n].createOnly
            \/ isZero(c[n]) /\ n \notin DOMAIN h
            \/ n \in DOMAIN h /\ innerHolds(d[n], c[n], h[n])
<1>1. n \in DOMAIN d /\ d[n] \in Attrs /\ innerFits(TRUE, d[n], c[n])
  BY DEF FitsFields, Declared
<1>0. Added(d, h) = {} /\ \A m \in DOMAIN h : innerFilled(d[m], h[m]) = h[m]
  BY FullFields
<1>2. n \in DOMAIN h => innerFits(FALSE, d[n], h[n]) /\ Full(d[n], h[n])
  BY <1>0 DEF FitsFields, Full
<1>3. CASE d[n].inputOnly \/ d[n].createOnly
  BY <1>3 DEF FieldReads
<1>4. CASE n \in DOMAIN h /\ SeenOf(d[n], h[n], c[n])
  <2>1. Agrees(d[n], c[n], h[n])
    BY <1>1, <1>2, <1>4 DEF Sees
  <2>. QED
    BY <1>4, <2>1 DEF Agrees, FieldReads
<1>5. CASE n \in DOMAIN h /\ isZero(c[n]) /\ isZero(h[n])
  <2>1. Agrees(d[n], c[n], h[n])
    BY <1>1, <1>2, <1>5, ZeroAgrees
  <2>. QED
    BY <1>5, <2>1 DEF Agrees, FieldReads
<1>6. CASE n \notin DOMAIN h /\ isZero(c[n])
  <2>1. ~ FilledIn(d[n])
    BY <1>0, <1>1, <1>6 DEF Added
  <2>. QED
    BY <1>6, <2>1 DEF FieldReads
<1>. QED
  BY <1>3, <1>4, <1>5, <1>6 DEF SeesField

LEMMA AllSee ==
  ASSUME Recursive, Ordered
  PROVE  \A a \in Attrs : Sees(a)
<1>. DEFINE S == {a \in Attrs : Sees(a)}
<1>1. ASSUME NEW a \in Attrs, Inside(a) \subseteq S, NEW h, NEW c, innerFits(TRUE, a, c),
             innerFits(FALSE, a, h), Full(a, h), SeenOf(a, h, c)
      PROVE  Agrees(a, c, h)
  <2>0. Unfolds(a)
    BY DEF Recursive
  <2>1. CASE IsObject(a)
    <3>. DEFINE d == a.fields
    <3>1. /\ c = MapOf(c.fields) /\ FitsFields(TRUE, d, c.fields)
          /\ h = MapOf(h.fields) /\ FitsFields(FALSE, d, h.fields)
      BY <1>1, <2>1, InnerObject
    <3>2. \A n \in DOMAIN c.fields : SeesField(d, h.fields, c.fields, n)
      BY <1>1, <2>1, ObjectSeen
    <3>3. FilledFields(d, h.fields) = h.fields /\ ~ isZero(h)
      BY <1>1, <2>1, FullObject
    <3>4. Declared(d) /\ \A n \in DOMAIN c.fields : Sees(d[n])
      BY <1>1, <2>1, <3>1, Schemas, InsideDeclared DEF FitsFields
    <3>5. ASSUME NEW n \in DOMAIN c.fields
          PROVE  /\ FieldReads(d, c.fields, h.fields, n)
                 /\ \/ d[n].inputOnly \/ d[n].createOnly
                    \/ isZero(c.fields[n]) /\ n \notin DOMAIN h.fields
                    \/ n \in DOMAIN h.fields /\ innerHolds(d[n], c.fields[n], h.fields[n])
      <4>. HIDE DEF d
      <4>. QED
        BY <3>1, <3>2, <3>3, <3>4, FieldSeen
    <3>6. ReadsAs(a, c, h)
      BY <1>1, <2>1, <3>3, <3>5, ObjectReads
    <3>7. HoldsFields(d, c.fields, h.fields)
      BY <3>5 DEF HoldsFields
    <3>8. innerHolds(a, c, h) <=> HoldsFields(d, c.fields, h.fields)
      BY <2>0, <2>1, ObjectForm DEF Unfolds
    <3>. QED
      BY <3>6, <3>7, <3>8 DEF Agrees
  <2>2. CASE IsList(a)
    <3>. DEFINE e == a.elem[1]
    <3>12. PICK p \in SUBSET {OwnProject} : \E r : \E w \in innerWritten(a, h, FALSE) : c = Seen(p, a, r, w)
      BY <1>1 DEF SeenOf
    <3>13. PICK r : \E w \in innerWritten(a, h, FALSE) : c = Seen(p, a, r, w)
      BY <3>12
    <3>14. PICK w \in Written(a, h, FALSE) : c = Seen(p, a, r, w)
      BY <3>13 DEF Recursive, Unfolds
    <3>1. /\ c = ListOf(c.items) /\ IsSeq(c.items) /\ h = ListOf(h.items) /\ IsSeq(h.items)
          /\ \A i \in 1..Len(c.items) : innerFits(TRUE, e, c.items[i])
          /\ \A i \in 1..Len(h.items) : innerFits(FALSE, e, h.items[i])
      BY <1>1, <2>2, InnerList
    <3>2. h.kind = "list"
      BY <3>1, Kinds
    <3>3. /\ w = ListOf(w.items) /\ DOMAIN w.items = DOMAIN h.items
          /\ \A i \in DOMAIN h.items : w.items[i] \in innerWritten(e, h.items[i], FALSE)
      BY <2>2, <3>2, ListWritten
    <3>4. w.kind = "list"
      BY <3>3, Kinds
    <3>5. c = ListOf(StripItems(e, ValueItems(p, e, r.items, w.items)))
      BY <2>2, <3>4, <3>14, SeenList
    <3>6. c.items = StripItems(e, ValueItems(p, e, r.items, w.items))
      BY <3>5, Forms
    <3>7. /\ DOMAIN c.items = DOMAIN w.items
          /\ \A i \in DOMAIN w.items : c.items[i] = Seen(p, e, ItemAt(r.items, i), w.items[i])
      BY <3>6, SeenItems
    <3>8. DOMAIN c.items = 1..Len(c.items) /\ DOMAIN h.items = 1..Len(h.items)
      BY <3>1 DEF IsSeq
    <3>9. Len(c.items) = Len(h.items)
      <4>1. Len(c.items) \in Nat /\ Len(h.items) \in Nat
        BY <3>1 DEF IsSeq
      <4>2. 1..Len(c.items) = 1..Len(h.items)
        BY <3>3, <3>7, <3>8
      <4>. QED
        BY <4>1, <4>2, SameLen
    <3>10. FillItems(e, h.items) = h.items
      <4>1. Filled(a, h) = ListOf(FillItems(e, h.items))
        BY <2>2, <3>2, ListForm
      <4>2. ListOf(FillItems(e, h.items)).items = FillItems(e, h.items)
        BY Forms
      <4>. QED
        BY <1>1, <4>1, <4>2 DEF Full, Recursive, Unfolds
    <3>11. ASSUME NEW i \in 1..Len(c.items)
           PROVE  Agrees(e, c.items[i], h.items[i])
      <4>1. i \in DOMAIN h.items /\ i \in DOMAIN w.items
        BY <3>7, <3>8, <3>9
      <4>2. SeenOf(e, h.items[i], c.items[i])
        BY <3>3, <3>7, <4>1 DEF SeenOf
      <4>3. innerFilled(e, h.items[i]) = h.items[i]
        BY <3>10, <4>1 DEF FillItems
      <4>4. Sees(e)
        BY <1>1, <2>2, Schemas
      <4>. HIDE DEF e
      <4>. QED
        BY <3>1, <3>9, <4>2, <4>3, <4>4 DEF Sees, Full
    <3>. QED
      BY <1>1, <2>2, <3>9, <3>11, ListAgrees
  <2>3. CASE ~ IsObject(a) /\ ~ IsList(a)
    <3>1. CASE IsLabels(a)
      BY <1>1, <3>1, LabelsAgree DEF IsLabels
    <3>2. CASE ~ IsLabels(a)
      BY <1>1, <2>3, <3>2, WholeAgrees
    <3>. QED
      BY <3>1, <3>2
  <2>. QED
    BY <2>1, <2>2, <2>3
<1>2. \A a \in Attrs : Inside(a) \subseteq S => a \in S
  BY <1>1 DEF Sees
<1>. QED
  <2>. HIDE DEF S
  <2>1. Attrs \subseteq S
    BY <1>2, ByDepth
  <2>. QED
    BY <2>1 DEF S
-----------------------------------------------------------------------------
(* What a patch does: a patch of nothing, *)
LEMMA EmptyPatch ==
  ASSUME Recursive, NEW a \in Attrs, IsObject(a), NEW h, innerFits(FALSE, a, h), Full(a, h),
         NEW f, DOMAIN f = {}
  PROVE  Became(a, h, MapOf(f)) = h
<1>0. Unfolds(a)
  BY DEF Recursive
<1>1. h = MapOf(h.fields) /\ FitsFields(FALSE, a.fields, h.fields)
  BY InnerObject
<1>2. h.kind = "map" /\ MapOf(f).kind = "map" /\ MapOf(f).fields = f
  BY <1>1, Kinds, Forms
<1>3. MergedFields(a.fields, h.fields, f) = h.fields
  <2>1. /\ DOMAIN MergedFields(a.fields, h.fields, f) = DOMAIN h.fields
        /\ \A n \in DOMAIN h.fields : MergedFields(a.fields, h.fields, f)[n] = h.fields[n]
        /\ IsMap(MergedFields(a.fields, h.fields, f))
    BY DEF MergedFields, IsMap
  <2>. QED
    BY <1>1, <2>1 DEF FitsFields, IsMap
<1>4. Merged(a, h, MapOf(f)) = MapOf(MergedFields(a.fields, h.fields, f))
  BY <1>2 DEF Merged, IsObject
<1>5. Merged(a, h, MapOf(f)) = h
  BY <1>1, <1>3, <1>4
<1>. QED
  BY <1>5 DEF Became, Full, Recursive, Unfolds

(* Of what is not there, everything differs. *)
LEMMA ChangedFromNothing ==
  ASSUME Recursive, NEW d, Declared(d), NEW s, DOMAIN s = {}, NEW c, FitsFields(TRUE, d, c)
  PROVE  Changed(d, s, c) = c
<1>1. \A n \in DOMAIN c : n \in DOMAIN d /\ Known(c[n]) /\ ~ d[n].output
  BY FitsKind DEF FitsFields, Declared
<1>2. \A n : Get(s, n) = Nothing
  BY DEF Get
<1>9. \A n \in DOMAIN c : c[n] # Nothing
  <2>1. Nothing.kind = "none"
    BY Forms
  <2>. QED
    BY <1>1, <2>1 DEF Known
<1>3. Differs(d, s, c) = DOMAIN c
  BY <1>1, <1>2, <1>9 DEF Differs
<1>4. Entered(d, s, c) = {}
  BY <1>2, Forms DEF Entered
<1>5. Sent(d, s, c) = DOMAIN c
  BY <1>3, <1>4 DEF Sent
<1>. DEFINE g == Changed(d, s, c)
<1>6. /\ DOMAIN g = Sent(d, s, c)
      /\ \A n \in Sent(d, s, c) :
           g[n] = IF n \in Entered(d, s, c) THEN MapOf(Inner(d, s, c, n)) ELSE c[n]
      /\ IsMap(g)
  BY ChangedIs
<1>. HIDE DEF g
<1>7. DOMAIN g = DOMAIN c /\ \A n \in DOMAIN c : g[n] = c[n]
  BY <1>4, <1>5, <1>6
<1>8. g = c
  BY <1>6, <1>7 DEF FitsFields, IsMap
<1>. QED
  BY <1>8 DEF g

(* What differs from what an answer showed, written into what is held and  *)
(* filled in, reads as what was wanted.                                    *)
Patch(a, s, c) == MapOf(innerChanged(a.fields, s.fields, c.fields))
Patches(a) ==
  IsObject(a) =>
    \A h, s, c : innerFits(FALSE, a, h) /\ Full(a, h) /\ SeenOf(a, h, s) /\ innerFits(TRUE, a, c) =>
      ReadsAs(a, c, Became(a, h, Patch(a, s, c)))

LEMMA FieldPatched ==
  ASSUME Recursive, Ordered, NEW d, Declared(d), NEW c, FitsFields(TRUE, d, c),
         NEW h, FitsFields(FALSE, d, h), FilledFields(d, h) = h,
         NEW s, \A n \in DOMAIN s : SeesField(d, h, s, n),
         \A n \in DOMAIN c : Patches(d[n])
  PROVE  \A n \in DOMAIN c :
           FieldReads(d, c, FilledFields(d, MergedFields(d, h, Changed(d, s, c))), n)
<1>. DEFINE x == Changed(d, s, c)
            m == MergedFields(d, h, x)
            g == FilledFields(d, m)
<1>1. /\ DOMAIN x = Sent(d, s, c)
      /\ \A n \in Sent(d, s, c) :
           x[n] = IF n \in Entered(d, s, c) THEN MapOf(Inner(d, s, c, n)) ELSE c[n]
  BY ChangedIs
<1>. HIDE DEF x
<1>2. /\ DOMAIN m = DOMAIN h \cup DOMAIN x
      /\ \A n \in DOMAIN x : m[n] = innerMerged(d[n], Get(h, n), x[n])
      /\ \A n \in DOMAIN h \ DOMAIN x : m[n] = h[n]
  BY DEF MergedFields
<1>. HIDE DEF m
<1>3. /\ DOMAIN g = DOMAIN m \cup Added(d, m)
      /\ \A n \in DOMAIN m : g[n] = innerFilled(d[n], m[n])
  BY DEF FilledFields, Added
<1>. HIDE DEF g
<1>4. Added(d, h) = {} /\ \A n \in DOMAIN h : innerFilled(d[n], h[n]) = h[n]
  BY FullFields
<1>5. Added(d, m) = {}
  BY <1>2, <1>4 DEF Added
<1>6. SUFFICES ASSUME NEW n \in DOMAIN c
               PROVE  FieldReads(d, c, g, n)
  BY DEF g, m, x
<1>7. /\ n \in DOMAIN d /\ d[n] \in Attrs /\ innerFits(TRUE, d[n], c[n]) /\ ~ d[n].output
      /\ Known(c[n]) /\ Base(d[n], Get(h, n))
      /\ n \in DOMAIN h => innerFits(FALSE, d[n], h[n]) /\ Full(d[n], h[n]) /\ Get(h, n) = h[n]
      /\ n \notin DOMAIN h => Get(h, n) = Nothing /\ ~ FilledIn(d[n])
  <2>1. n \in DOMAIN d /\ d[n] \in Attrs /\ innerFits(TRUE, d[n], c[n]) /\ ~ d[n].output
    BY DEF FitsFields, Declared
  <2>2. n \in DOMAIN h => innerFits(FALSE, d[n], h[n]) /\ Full(d[n], h[n]) /\ Get(h, n) = h[n]
    BY <1>4 DEF FitsFields, Full, Get
  <2>3. n \notin DOMAIN h => Get(h, n) = Nothing /\ ~ FilledIn(d[n])
    BY <1>4, <2>1 DEF Get, Added
  <2>. QED
    BY <2>1, <2>2, <2>3, FitsKind DEF Base
<1>8. Takes(d[n]) /\ Sees(d[n]) /\ Patches(d[n])
  BY <1>7, AllTake, AllSee
<1>0. Unfolds(d[n])
  BY <1>7 DEF Recursive
<1>9. ASSUME n \in DOMAIN x
      PROVE  n \in DOMAIN g /\ g[n] = Became(d[n], Get(h, n), x[n])
  BY <1>2, <1>3, <1>9 DEF Became
<1>10. ASSUME n \notin DOMAIN x
       PROVE  /\ n \in DOMAIN h => n \in DOMAIN g /\ g[n] = h[n]
              /\ n \notin DOMAIN h => n \notin DOMAIN g
  BY <1>2, <1>3, <1>4, <1>5, <1>10
<1>11. CASE n \notin Differs(d, s, c)
  <2>1. Get(s, n) = c[n]
    BY <1>7, <1>11 DEF Differs
  <2>2. n \in DOMAIN s /\ s[n] = c[n]
    BY <1>7, <2>1, Forms DEF Get, Known
  <2>3. SeesField(d, h, c, n)
    BY <2>2 DEF SeesField
  <2>4. FieldReads(d, c, h, n)
    BY <1>8, <2>3, FieldSeen
  <2>5. n \notin DOMAIN x
    BY <1>1, <1>11 DEF Sent
  <2>. QED
    BY <1>10, <2>4, <2>5 DEF FieldReads
<1>12. CASE n \in Differs(d, s, c) /\ n \notin Entered(d, s, c)
  <2>1. n \in DOMAIN x /\ x[n] = c[n]
    BY <1>1, <1>12 DEF Sent
  <2>2. ReadsAs(d[n], c[n], Became(d[n], Get(h, n), c[n]))
    BY <1>7, <1>8 DEF Takes
  <2>. QED
    BY <1>9, <2>1, <2>2 DEF FieldReads
<1>13. CASE n \in Entered(d, s, c)
  <2>1. IsObject(d[n]) /\ Get(s, n).kind = "map"
    BY <1>13 DEF Entered, IsObject
  <2>2. n \in DOMAIN s /\ s[n].kind = "map"
    BY <2>1, Forms DEF Get
  <2>. DEFINE y == Inner(d, s, c, n)
  <2>3. MapOf(y) = Patch(d[n], s[n], c[n])
    BY DEF Inner, Patch
  <2>4. n \in DOMAIN x <=> DOMAIN y # {}
    BY <1>1, <1>13 DEF Sent, Entered
  <2>5. n \in DOMAIN x => x[n] = MapOf(y)
    BY <1>1, <1>13
  <2>. HIDE DEF y
  <2>6. CASE d[n].inputOnly \/ d[n].createOnly
    BY <2>6 DEF FieldReads
  <2>7. CASE n \in DOMAIN h /\ SeenOf(d[n], h[n], s[n])
    <3>1. ReadsAs(d[n], c[n], Became(d[n], h[n], MapOf(y)))
      BY <1>7, <1>8, <2>1, <2>3, <2>7 DEF Patches
    <3>2. DOMAIN y = {} => Became(d[n], h[n], MapOf(y)) = h[n]
      BY <1>7, <2>1, <2>7, EmptyPatch
    <3>. QED
      BY <1>7, <1>9, <1>10, <2>4, <2>5, <2>7, <3>1, <3>2 DEF FieldReads
  <2>8. CASE isZero(s[n]) /\ (n \in DOMAIN h => isZero(h[n]))
    <3>1. n \notin DOMAIN h
      BY <1>7, <2>1, <2>8, FullObject
    <3>2. DOMAIN s[n].fields = {}
      BY <2>2, <2>8 DEF isZero
    <3>3. c[n] = MapOf(c[n].fields) /\ FitsFields(TRUE, d[n].fields, c[n].fields)
      BY <1>7, <2>1, InnerObject
    <3>4. Changed(d[n].fields, s[n].fields, c[n].fields) = c[n].fields
      BY <1>7, <2>1, <3>2, <3>3, ChangedFromNothing, InsideDeclared
    <3>5. y = c[n].fields
      BY <3>4, <1>0 DEF y, Inner, Unfolds
    <3>6. CASE n \in DOMAIN x
      <4>1. x[n] = c[n]
        BY <2>5, <3>3, <3>5, <3>6
      <4>2. ReadsAs(d[n], c[n], Became(d[n], Get(h, n), c[n]))
        BY <1>7, <1>8 DEF Takes
      <4>. QED
        BY <1>9, <3>6, <4>1, <4>2 DEF FieldReads
    <3>7. CASE n \notin DOMAIN x
      <4>1. isZero(c[n])
        BY <2>4, <3>3, <3>5, <3>7, Zeros
      <4>. QED
        BY <1>7, <1>10, <3>1, <3>7, <4>1 DEF FieldReads
    <3>. QED
      BY <3>6, <3>7
  <2>. QED
    BY <2>2, <2>6, <2>7, <2>8 DEF SeesField
<1>. QED
  BY <1>11, <1>12, <1>13

LEMMA AllPatch ==
  ASSUME Recursive, Ordered
  PROVE  \A a \in Attrs : Patches(a)
<1>. DEFINE S == {a \in Attrs : Patches(a)}
<1>1. ASSUME NEW a \in Attrs, Inside(a) \subseteq S, IsObject(a), NEW h, NEW s, NEW c,
             innerFits(FALSE, a, h), Full(a, h), SeenOf(a, h, s), innerFits(TRUE, a, c)
      PROVE  ReadsAs(a, c, Became(a, h, Patch(a, s, c)))
  <2>. DEFINE d == a.fields
              x == Changed(d, s.fields, c.fields)
              m == MergedFields(d, h.fields, x)
              g == FilledFields(d, m)
  <2>0. Unfolds(a)
    BY DEF Recursive
  <2>1. /\ FitsFields(TRUE, d, c.fields)
        /\ h = MapOf(h.fields) /\ FitsFields(FALSE, d, h.fields)
    BY <1>1, InnerObject
  <2>2. h.kind = "map" /\ MapOf(x).kind = "map" /\ MapOf(x).fields = x
    BY <2>1, Kinds, Forms
  <2>3. FilledFields(d, h.fields) = h.fields /\ ~ isZero(h)
    BY <1>1, FullObject
  <2>4. \A n \in DOMAIN s.fields : SeesField(d, h.fields, s.fields, n)
    BY <1>1, ObjectSeen
  <2>5. Declared(d) /\ \A n \in DOMAIN c.fields : Patches(d[n])
    BY <1>1, <2>1, Schemas, InsideDeclared DEF FitsFields
  <2>6. \A n \in DOMAIN c.fields : FieldReads(d, c.fields, g, n)
    <3>. HIDE DEF d
    <3>. QED
      BY <2>1, <2>3, <2>4, <2>5, FieldPatched
  <2>7. Patch(a, s, c) = MapOf(x)
    BY DEF Patch, Recursive, Unfolds
  <2>. HIDE DEF x
  <2>8. Merged(a, h, MapOf(x)) = MapOf(m)
    BY <1>1, <2>2 DEF Merged, IsObject
  <2>9. DOMAIN h.fields \subseteq DOMAIN m
    BY DEF MergedFields
  <2>. HIDE DEF m
  <2>10. MapOf(m).kind = "map" /\ MapOf(m).fields = m
    BY MapForm
  <2>11. Filled(a, MapOf(m)) = MapOf(g)
    BY <1>1, <2>10, ObjectFilled
  <2>12. Became(a, h, Patch(a, s, c)) = MapOf(g)
    BY <2>7, <2>8, <2>11 DEF Became, Recursive, Unfolds
  <2>13. DOMAIN m \subseteq DOMAIN g
    BY DEF FilledFields
  <2>. HIDE DEF g
  <2>14. MapOf(g).fields = g
    BY Forms
  <2>15. ~ isZero(MapOf(g))
    <3>1. DOMAIN h.fields # {}
      BY <2>1, <2>3, Zeros
    <3>. QED
      BY <2>9, <2>13, <3>1, Zeros
  <2>16. innerFits(TRUE, a, Patch(a, s, c)) /\ Base(a, h)
    BY <1>1, AllChange DEF Changes, Patch, Base
  <2>17. innerFits(FALSE, a, MapOf(g))
    BY <2>12, <2>16, BecameFits
  <2>18. \A n \in DOMAIN c.fields : FieldReads(a.fields, c.fields, MapOf(g).fields, n)
    BY <2>6, <2>14
  <2>. HIDE DEF d
  <2>. QED
    BY <1>1, <2>12, <2>15, <2>17, <2>18, ObjectReads
<1>2. \A a \in Attrs : Inside(a) \subseteq S => a \in S
  BY <1>1 DEF Patches
<1>. QED
  <2>. HIDE DEF S
  <2>1. Attrs \subseteq S
    BY <1>2, ByDepth
  <2>. QED
    BY <2>1 DEF S
-----------------------------------------------------------------------------
(* The attributes of a resource: what the answer f about h makes of them.  *)
Kept(d, r, f) ==
  {n \in DOMAIN d \ DOMAIN f :
     isZero(Get(r, n)) \/ (d[n].inputOnly /\ Known(Get(r, n))) \/ (d[n].createOnly /\ n \in DOMAIN r)}

Attributes(g, p, d, r, f) ==
  /\ DOMAIN g = (DOMAIN d \cap DOMAIN f) \cup Kept(d, r, f)
  /\ \A n \in DOMAIN d \cap DOMAIN f : g[n] = Seen(p, d[n], Get(r, n), f[n])
  /\ \A n \in Kept(d, r, f) : g[n] = r[n]

LEMMA AttrsAre ==
  ASSUME Recursive, NEW p, NEW d, Declared(d), NEW r, NEW f
  PROVE  Attributes(attrs(p, d, r, f), p, d, r, f)
<1>. DEFINE answered == DOMAIN d \cap DOMAIN f
            carried == {n \in DOMAIN d \ DOMAIN f :
                    \/ carryInputOnly(d[n], Get(r, n), FALSE)
                    \/ carryOmittedZero(Get(r, n), FALSE)
                    \/ d[n].createOnly /\ n \in DOMAIN r}
            g == [n \in answered \cup carried |->
                   IF n \in answered
                     THEN withoutReservedLabels(d[n], value(p, FALSE, d[n], Get(r, n), f[n]))
                     ELSE r[n]]
<1>1. attrs(p, d, r, f) = g
  BY DEF attrs
<1>2. carried = Kept(d, r, f)
  BY DEF Kept, carryInputOnly, carryOmittedZero
<1>3. answered \cap carried = {}
  OBVIOUS
<1>. HIDE DEF carried
<1>4. ASSUME NEW n \in answered
      PROVE  g[n] = Seen(p, d[n], Get(r, n), f[n])
  <2>1. Unfolds(d[n])
    BY DEF Recursive, Declared
  <2>. QED
    BY <2>1 DEF Seen, Unfolds
<1>5. \A n \in carried : g[n] = r[n]
  BY <1>3
<1>6. DOMAIN g = answered \cup carried
  OBVIOUS
<1>. HIDE DEF g
<1>. QED
  BY <1>1, <1>2, <1>4, <1>5, <1>6 DEF Attributes

(* What an answer makes of them is what it shows; *)
LEMMA AttrsSee ==
  ASSUME Recursive, NEW d, Declared(d), NEW h, DOMAIN h \subseteq DOMAIN d,
         NEW f \in WrittenFields(d, h, FALSE), NEW p \in SUBSET {OwnProject}, NEW r
  PROVE  /\ DOMAIN attrs(p, d, r, f) \subseteq DOMAIN d
         /\ \A n \in DOMAIN attrs(p, d, r, f) : SeesField(d, h, attrs(p, d, r, f), n)
<1>. DEFINE g == attrs(p, d, r, f)
<1>1. /\ DOMAIN g = (DOMAIN d \cap DOMAIN f) \cup Kept(d, r, f)
      /\ \A n \in DOMAIN d \cap DOMAIN f : g[n] = Seen(p, d[n], Get(r, n), f[n])
      /\ \A n \in Kept(d, r, f) : g[n] = r[n]
  <2>1. Attributes(g, p, d, r, f)
    BY AttrsAre
  <2>. HIDE DEF g
  <2>. QED
    BY <2>1 DEF Attributes
<1>. HIDE DEF g
<1>2. /\ \A m \in DOMAIN d \cap DOMAIN f :
           m \in DOMAIN h /\ ~ d[m].inputOnly /\ ~ d[m].createOnly /\ f[m] \in innerWritten(d[m], h[m], FALSE)
      /\ \A m \in DOMAIN h : m \in DOMAIN f \/ d[m].inputOnly \/ d[m].createOnly \/ isZero(h[m])
  BY WrittenFieldsIs
<1>3. ASSUME NEW n \in DOMAIN g
      PROVE  SeesField(d, h, g, n)
  <2>1. CASE n \in DOMAIN f
    <3>1. n \in DOMAIN d \cap DOMAIN f
      BY <1>1, <2>1 DEF Kept
    <3>2. n \in DOMAIN h /\ f[n] \in innerWritten(d[n], h[n], FALSE) /\ g[n] = Seen(p, d[n], Get(r, n), f[n])
      BY <1>1, <1>2, <3>1
    <3>3. SeenOf(d[n], h[n], g[n])
      BY <3>2 DEF SeenOf
    <3>. QED
      BY <3>2, <3>3 DEF SeesField
  <2>2. CASE n \notin DOMAIN f /\ ~ d[n].inputOnly /\ ~ d[n].createOnly
    <3>1. n \in Kept(d, r, f)
      BY <1>1, <2>2
    <3>2. isZero(Get(r, n)) /\ g[n] = r[n]
      BY <1>1, <2>2, <3>1 DEF Kept
    <3>3. isZero(g[n])
      BY <3>2, Zeros DEF Get
    <3>. QED
      BY <1>2, <2>2, <3>3 DEF SeesField
  <2>3. CASE d[n].inputOnly \/ d[n].createOnly
    BY <2>3 DEF SeesField
  <2>. QED
    BY <2>1, <2>2, <2>3
<1>4. DOMAIN g \subseteq DOMAIN d
  BY <1>1 DEF Kept
<1>. QED
  BY <1>3, <1>4 DEF g

SaysAll(s, c)       == \A n \in DOMAIN c : Get(s, n) = c[n]
AllRead(d, c, h)    == \A n \in DOMAIN c : FieldReads(d, c, h, n)
Shows(d, h, s)      == WrittenFields(d, h, FALSE) # {} /\ \A n \in DOMAIN s : SeesField(d, h, s, n)

(* ... and expressed as what is held already reads as, it is that.         *)
LEMMA AttrsRead ==
  ASSUME Recursive, Ordered, NEW d, Declared(d), NEW h, DOMAIN h \subseteq DOMAIN d,
         NEW f \in WrittenFields(d, h, FALSE), NEW c, FitsFields(TRUE, d, c),
         NEW r, SaysAll(r, c), AllRead(d, c, h), NEW s, s = attrs({OwnProject}, d, r, f)
  PROVE  SaysAll(s, c)
<1>. DEFINE p == {OwnProject}
            g == attrs(p, d, r, f)
<1>. HIDE DEF p
<1>1. /\ DOMAIN g = (DOMAIN d \cap DOMAIN f) \cup Kept(d, r, f)
      /\ \A n \in DOMAIN d \cap DOMAIN f : g[n] = Seen(p, d[n], Get(r, n), f[n])
      /\ \A n \in Kept(d, r, f) : g[n] = r[n]
  <2>1. Attributes(g, p, d, r, f)
    BY AttrsAre
  <2>. HIDE DEF g
  <2>. QED
    BY <2>1 DEF Attributes
<1>. HIDE DEF g
<1>2. /\ \A m \in DOMAIN d \cap DOMAIN f :
           m \in DOMAIN h /\ ~ d[m].inputOnly /\ ~ d[m].createOnly /\ f[m] \in innerWritten(d[m], h[m], FALSE)
      /\ \A m \in DOMAIN h : m \in DOMAIN f \/ d[m].inputOnly \/ d[m].createOnly \/ isZero(h[m])
  BY WrittenFieldsIs
<1>3. ASSUME NEW n \in DOMAIN c
      PROVE  Get(g, n) = c[n]
  <2>1. n \in DOMAIN d /\ d[n] \in Attrs /\ innerFits(TRUE, d[n], c[n])
    BY DEF FitsFields, Declared
  <2>2. Known(c[n])
    BY <2>1, FitsKind
  <2>3. Get(r, n) = c[n] /\ n \in DOMAIN r /\ r[n] = c[n]
    BY <2>2, Forms DEF Get, Known, SaysAll
  <2>4. CASE n \in DOMAIN f
    <3>1. ReadsAs(d[n], c[n], h[n]) /\ f[n] \in innerWritten(d[n], h[n], FALSE)
      BY <1>2, <2>1, <2>4 DEF AllRead, FieldReads
    <3>2. g[n] = Seen(p, d[n], c[n], f[n]) /\ n \in DOMAIN g
      BY <1>1, <2>1, <2>3, <2>4
    <3>. QED
      BY <3>1, <3>2 DEF ReadsAs, Get, p
  <2>5. CASE n \notin DOMAIN f
    <3>1. d[n].inputOnly \/ d[n].createOnly \/ isZero(c[n])
      BY <1>2, <2>5 DEF AllRead, FieldReads, ReadsAs
    <3>2. n \in Kept(d, r, f)
      BY <2>1, <2>2, <2>3, <2>5, <3>1 DEF Kept
    <3>. QED
      BY <1>1, <2>3, <3>2 DEF Get
  <2>. QED
    BY <2>4, <2>5
<1>. QED
  BY <1>3 DEF g, p, SaysAll
-----------------------------------------------------------------------------
(* The inductive invariant. *)

(* What is held is of the schema's types and lacks nothing; a fresh state  *)
(* shows it; and after an apply it reads as configuration, which is what   *)
(* the state says while the project's number is not a riddle.              *)
Faithful ==
  /\ FitsFields(FALSE, Schema, held)
  /\ phase = "tracked" => FilledFields(Schema, held) = held
  /\ fresh => /\ phase = "tracked"
              /\ Shows(Schema, held, state)
  /\ untouched => /\ phase = "tracked"
                  /\ AllRead(Schema, config, held)
                  /\ aliases # "unknown" => SaysAll(state, config)

RefreshInv == TypeOK /\ Faithful

LEMMA ConfigFits ==
  ASSUME Recursive, Ordered, NEW t \in DOMAIN Types, NEW c \in Types[t].configs
  PROVE  /\ Declared(Types[t].attrs)
         /\ FitsFields(TRUE, Types[t].attrs, c)
         /\ FitsFields(FALSE, Types[t].attrs, c)
         /\ \A n \in DOMAIN c : Known(c[n])
<1>. DEFINE d == Types[t].attrs
<1>1. Range(d) \subseteq Attrs /\ "etag" \notin DOMAIN d /\ FitsFields(TRUE, d, c)
  BY RefreshAssumption
<1>2. Declared(d)
  BY <1>1 DEF Declared, Range
<1>. HIDE DEF d
<1>3. FitsFields(FALSE, d, c)
  BY <1>1, <1>2, AllStrip DEF FitsFields, Declared, Strips
<1>4. \A n \in DOMAIN c : Known(c[n])
  BY <1>1, <1>2, FitsKind DEF FitsFields, Declared
<1>. QED
  BY <1>1, <1>2, <1>3, <1>4 DEF d

(* What GCP makes of a configuration, or of a patch. *)
LEMMA HeldFits ==
  ASSUME Recursive, Ordered, NEW d, Declared(d), NEW f, FitsFields(FALSE, d, f)
  PROVE  /\ FitsFields(FALSE, d, FilledFields(d, f))
         /\ FilledFields(d, FilledFields(d, f)) = FilledFields(d, f)
<1>1. \A n \in DOMAIN f : Fills(d[n])
  BY AllFill DEF FitsFields, Declared
<1>. QED
  BY <1>1, FieldsFill

LEMMA PatchFits ==
  ASSUME Recursive, Ordered, NEW d, Declared(d), NEW h, FitsFields(FALSE, d, h),
         NEW s, NEW c, FitsFields(TRUE, d, c)
  PROVE  FitsFields(FALSE, d, MergedFields(d, h, Changed(d, s, c)))
<1>. DEFINE x == Changed(d, s, c)
<1>1. \A n \in DOMAIN c : Changes(d[n])
  BY AllChange DEF FitsFields, Declared
<1>2. FitsFields(TRUE, d, x)
  BY <1>1, FieldsChange
<1>. HIDE DEF x
<1>3. FitsFields(FALSE, d, x)
  BY <1>2, AllStrip DEF FitsFields, Declared, Strips
<1>4. \A n \in DOMAIN x : Merges(d[n])
  BY <1>2, AllMerge DEF FitsFields, Declared
<1>5. FitsFields(FALSE, d, MergedFields(d, h, x))
  BY <1>3, <1>4, FieldsMerge
<1>. QED
  BY <1>5 DEF x

LEMMA CreatedReads ==
  ASSUME Recursive, Ordered, NEW d, Declared(d), NEW c, FitsFields(TRUE, d, c)
  PROVE  AllRead(d, c, FilledFields(d, c))
<1>1. MergedFields(d, NoFields, c) = c
  BY NothingMerged DEF FitsFields, IsMap
<1>2. FitsFields(FALSE, d, NoFields)
  BY Forms DEF FitsFields, NoFields
<1>3. \A n \in DOMAIN c : Takes(d[n])
  BY AllTake DEF FitsFields, Declared
<1>4. \A n \in DOMAIN c : FieldReads(d, c, FilledFields(d, MergedFields(d, NoFields, c)), n)
  BY <1>2, <1>3, FieldsTake
<1>. QED
  BY <1>1, <1>4 DEF AllRead

(* Observe, of the values it is about: b becomes u, and s the state.       *)
ObservedAs(d, h, r, b, u, s) ==
  \E f \in WrittenFields(d, h, FALSE) :
    /\ u \in IF b # "unasked" \/ attrs(Resolved("known"), d, r, f) = attrs(Resolved("unknown"), d, r, f)
               THEN {b}
               ELSE {"known"} \cup (IF "lookup" \in Habits THEN {"unknown"} ELSE {})
    /\ s = attrs(Resolved(u), d, r, f)

Lookups == {"unasked", "known", "unknown"}
Resolving(d, h, r, s) == \E f \in WrittenFields(d, h, FALSE) : s = attrs({OwnProject}, d, r, f)

LEMMA Observation ==
  ASSUME Recursive, Ordered, NEW d, Declared(d), NEW h, FitsFields(FALSE, d, h), NEW r,
         NEW b \in Lookups, NEW u, NEW s, ObservedAs(d, h, r, b, u, s)
  PROVE  /\ u \in Lookups
         /\ DOMAIN s \subseteq DOMAIN d
         /\ Shows(d, h, s)
         /\ u # "unknown" => b # "unknown" /\ Resolving(d, h, r, s)
<1>1. PICK f \in WrittenFields(d, h, FALSE) :
        /\ u \in IF b # "unasked" \/ attrs(Resolved("known"), d, r, f) = attrs(Resolved("unknown"), d, r, f)
                   THEN {b}
                   ELSE {"known"} \cup (IF "lookup" \in Habits THEN {"unknown"} ELSE {})
        /\ s = attrs(Resolved(u), d, r, f)
  BY DEF ObservedAs
<1>2. /\ Resolved("known") = {OwnProject}
      /\ Resolved("unknown") = {} /\ Resolved("unasked") = {}
  BY DEF Resolved
<1>3. u \in Lookups /\ (u # "unknown" => b # "unknown")
  BY <1>1 DEF Lookups
<1>4. Resolved(u) \in SUBSET {OwnProject} /\ DOMAIN h \subseteq DOMAIN d
  BY <1>2, <1>3 DEF FitsFields, Lookups
<1>5. /\ DOMAIN s \subseteq DOMAIN d
      /\ Shows(d, h, s)
  BY <1>1, <1>4, AttrsSee DEF Shows
<1>6. ASSUME u # "unknown"
      PROVE  s = attrs({OwnProject}, d, r, f)
  <2>1. CASE u = "known"
    BY <1>1, <1>2, <2>1
  <2>2. CASE u = "unasked"
    BY <1>1, <1>2, <2>2
  <2>. QED
    BY <1>3, <1>6, <2>1, <2>2 DEF Lookups
<1>. QED
  BY <1>3, <1>5, <1>6 DEF Resolving

LEMMA ObservationReads ==
  ASSUME Recursive, Ordered, NEW d, Declared(d), NEW h, FitsFields(FALSE, d, h), NEW r,
         NEW b \in Lookups, NEW u, NEW s, ObservedAs(d, h, r, b, u, s),
         NEW c, FitsFields(TRUE, d, c), AllRead(d, c, h), b # "unknown" => SaysAll(r, c)
  PROVE  u # "unknown" => SaysAll(s, c)
<1>0. u # "unknown" => b # "unknown" /\ Resolving(d, h, r, s)
  BY Observation
<1>1. SUFFICES ASSUME u # "unknown"
               PROVE  SaysAll(s, c)
  OBVIOUS
<1>2. b # "unknown" /\ Resolving(d, h, r, s)
  BY <1>0, <1>1
<1>3. PICK f \in WrittenFields(d, h, FALSE) : s = attrs({OwnProject}, d, r, f)
  BY <1>2 DEF Resolving
<1>4. DOMAIN h \subseteq DOMAIN d /\ SaysAll(r, c)
  BY <1>2 DEF FitsFields
<1>. QED
  BY <1>3, <1>4, AttrsRead
LEMMA ObserveIs ==
  ASSUME NEW STATE r, Observe(r)
  PROVE  fresh' = TRUE /\ ObservedAs(Schema, held', r, aliases, aliases', state')
BY DEF Observe, ObservedAs

LEMMA InvInit ==
  Init => RefreshInv
<1>1. SUFFICES ASSUME Init
               PROVE  RefreshInv
  OBVIOUS
<1>2. MaxTrouble \in 0..MaxTrouble
  BY RefreshAssumption
<1>3. DOMAIN NoFields = {} /\ NoFields = [n \in DOMAIN NoFields |-> NoFields[n]]
  BY Forms DEF NoFields
<1>4. TypeOK
  BY <1>1, <1>2, <1>3 DEF Init, TypeOK, Configs
<1>5. FitsFields(FALSE, Schema, NoFields)
  BY <1>3 DEF FitsFields
<1>6. Faithful
  BY <1>1, <1>5 DEF Init, Faithful
<1>. QED
  BY <1>4, <1>6 DEF RefreshInv

LEMMA InvNext ==
  ASSUME Recursive, Ordered, RefreshInv, [Next]_vars
  PROVE  RefreshInv'
<1>. USE DEF RefreshInv
<1>1. /\ type \in DOMAIN Types /\ config \in Types[type].configs
      /\ Declared(Schema) /\ FitsFields(TRUE, Schema, config) /\ FitsFields(FALSE, Schema, config)
      /\ SaysAll(config, config)
      /\ \A c \in Configs : FitsFields(FALSE, Schema, c)
      /\ aliases \in Lookups /\ FitsFields(FALSE, Schema, held)
  <2>1. type \in DOMAIN Types /\ config \in Types[type].configs
    BY DEF TypeOK, Configs
  <2>2. SaysAll(config, config)
    BY DEF SaysAll, Get
  <2>3. \A c \in Configs : FitsFields(FALSE, Schema, c)
    BY <2>1, ConfigFits DEF Configs, Schema
  <2>4. Declared(Schema) /\ FitsFields(TRUE, Schema, config) /\ FitsFields(FALSE, Schema, config)
    BY <2>1, ConfigFits DEF Schema
  <2>. QED
    BY <2>1, <2>2, <2>3, <2>4 DEF TypeOK, Faithful, Lookups
<1>2. ASSUME UNCHANGED type, config' \in Configs, phase' = "tracked", fresh' \in BOOLEAN,
             untouched' \in BOOLEAN, trouble' \in 0..MaxTrouble, aliases' \in Lookups,
             FitsFields(FALSE, Schema, held'), FilledFields(Schema, held') = held',
             DOMAIN state' \subseteq DOMAIN Schema, fresh' => Shows(Schema, held', state'),
             untouched' => /\ AllRead(Schema, config', held')
                           /\ aliases' # "unknown" => SaysAll(state', config')
      PROVE  RefreshInv'
  <2>1. Schema' = Schema /\ Configs' = Configs
    BY <1>2 DEF Schema, Configs
  <2>2. TypeOK'
    BY <1>1, <1>2, <2>1 DEF TypeOK, FitsFields, Lookups
  <2>3. Faithful'
    BY <1>2, <2>1 DEF Faithful
  <2>. QED
    BY <2>2, <2>3
<1>3. ASSUME NEW f, FitsFields(FALSE, Schema, f), held' = FilledFields(Schema, f)
      PROVE  FitsFields(FALSE, Schema, held') /\ FilledFields(Schema, held') = held'
  BY <1>1, <1>3, HeldFits
<1>4. CASE Create
  <2>1. FitsFields(FALSE, Schema, held') /\ FilledFields(Schema, held') = held'
    BY <1>1, <1>3, <1>4 DEF Create
  <2>2. fresh' = TRUE /\ ObservedAs(Schema, held', config, aliases, aliases', state')
    BY <1>4, ObserveIs DEF Create
  <2>3. AllRead(Schema, config, held')
    BY <1>1, <1>4, CreatedReads DEF Create
  <2>4. aliases' \in Lookups /\ DOMAIN state' \subseteq DOMAIN Schema /\ Shows(Schema, held', state')
    BY <1>1, <2>1, <2>2, Observation
  <2>5. aliases' # "unknown" => SaysAll(state', config)
    BY <1>1, <2>1, <2>2, <2>3, ObservationReads
  <2>. QED
    BY <1>1, <1>2, <1>4, <2>1, <2>2, <2>3, <2>4, <2>5 DEF Create, TypeOK
<1>5. CASE \E c \in Configs : Import(c)
  <2>3. PICK c \in Configs : Import(c)
    BY <1>5
  <2>1. FitsFields(FALSE, Schema, held') /\ FilledFields(Schema, held') = held'
    BY <1>1, <1>3, <2>3 DEF Import
  <2>2. fresh' = TRUE /\ ObservedAs(Schema, held', NoFields, aliases, aliases', state')
    BY <2>3, ObserveIs DEF Import
  <2>4. aliases' \in Lookups /\ DOMAIN state' \subseteq DOMAIN Schema /\ Shows(Schema, held', state')
    BY <1>1, <2>1, <2>2, Observation
  <2>. QED
    BY <1>1, <1>2, <2>3, <2>1, <2>2, <2>4 DEF Import, TypeOK
<1>6. CASE Refresh
  <2>1. FitsFields(FALSE, Schema, held') /\ FilledFields(Schema, held') = held'
    BY <1>1, <1>6 DEF Refresh, Faithful
  <2>2. fresh' = TRUE /\ ObservedAs(Schema, held', state, aliases, aliases', state')
    BY <1>6, ObserveIs DEF Refresh
  <2>4. aliases' \in Lookups /\ DOMAIN state' \subseteq DOMAIN Schema /\ Shows(Schema, held', state')
    BY <1>1, <2>1, <2>2, Observation
  <2>5. ASSUME untouched
        PROVE  AllRead(Schema, config, held') /\ (aliases' # "unknown" => SaysAll(state', config))
    <3>1. AllRead(Schema, config, held') /\ (aliases # "unknown" => SaysAll(state, config))
      BY <1>6, <2>5 DEF Refresh, Faithful
    <3>. QED
      BY <1>1, <2>1, <2>2, <3>1, ObservationReads
  <2>. QED
    BY <1>1, <1>2, <1>6, <2>1, <2>2, <2>4, <2>5 DEF Refresh, TypeOK
<1>7. CASE Update
  <2>. DEFINE change == Changed(Schema, state, config)
  <2>1. CASE DOMAIN change = {}
    <3>1. UNCHANGED vars
      BY <1>7, <2>1 DEF Update, vars
    <3>. QED
      BY <3>1 DEF vars, TypeOK, Faithful, Schema, Configs
  <2>2. CASE DOMAIN change # {}
    <3>1. FitsFields(FALSE, Schema, MergedFields(Schema, held, change))
      BY <1>1, PatchFits
    <3>2. held' = FilledFields(Schema, MergedFields(Schema, held, change)) /\ Observe(config) /\ untouched' = fresh
      BY <1>7, <2>2 DEF Update
    <3>3. FitsFields(FALSE, Schema, held') /\ FilledFields(Schema, held') = held'
      BY <1>3, <3>1, <3>2
    <3>4. fresh' = TRUE /\ ObservedAs(Schema, held', config, aliases, aliases', state')
      BY <3>2, ObserveIs
    <3>5. aliases' \in Lookups /\ DOMAIN state' \subseteq DOMAIN Schema /\ Shows(Schema, held', state')
      BY <1>1, <3>3, <3>4, Observation
    <3>6. ASSUME fresh
          PROVE  AllRead(Schema, config, held') /\ (aliases' # "unknown" => SaysAll(state', config))
      <4>1. FilledFields(Schema, held) = held /\ \A n \in DOMAIN state : SeesField(Schema, held, state, n)
        BY <3>6 DEF Faithful, Shows
      <4>2. \A n \in DOMAIN config : Patches(Schema[n])
        BY <1>1, AllPatch DEF FitsFields, Declared
      <4>3. AllRead(Schema, config, held')
        BY <1>1, <3>2, <4>1, <4>2, FieldPatched DEF AllRead
      <4>. QED
        BY <1>1, <3>3, <3>4, <4>3, ObservationReads
    <3>. QED
      BY <1>1, <1>2, <1>7, <3>2, <3>3, <3>4, <3>5, <3>6 DEF Update, TypeOK
  <2>. QED
    BY <2>1, <2>2
<1>8. CASE \E c \in Configs : Edit(c)
  <2>1. PICK c \in Configs : Edit(c)
    BY <1>8
  <2>2. trouble' \in 0..MaxTrouble
    BY <2>1, RefreshAssumption DEF Edit, TypeOK
  <2>3. FitsFields(FALSE, Schema, held') /\ FilledFields(Schema, held') = held' /\ (fresh' => Shows(Schema, held', state'))
    BY <2>1 DEF Edit, Faithful
  <2>. QED
    BY <1>1, <1>2, <2>1, <2>2, <2>3 DEF Edit, TypeOK
<1>9. CASE \E c \in Configs : OthersChange(c)
  <2>1. PICK c \in Configs : OthersChange(c)
    BY <1>9
  <2>2. trouble' \in 0..MaxTrouble
    BY <2>1, RefreshAssumption DEF OthersChange, TypeOK
  <2>3. FitsFields(FALSE, Schema, held') /\ FilledFields(Schema, held') = held'
    BY <1>1, <1>3, <2>1 DEF OthersChange
  <2>. QED
    BY <1>1, <1>2, <2>1, <2>2, <2>3 DEF OthersChange, TypeOK
<1>10. CASE UNCHANGED vars
  BY <1>10 DEF vars, TypeOK, Faithful, Schema, Configs
<1>. QED
  BY <1>4, <1>5, <1>6, <1>7, <1>8, <1>9, <1>10 DEF Next

LEMMA InvAlways ==
  ASSUME Recursive, Ordered
  PROVE  Spec => []RefreshInv
<1>1. Init => RefreshInv
  BY InvInit
<1>2. RefreshInv /\ [Next]_vars => RefreshInv'
  BY InvNext
<1>. QED
  BY <1>1, <1>2, PTL DEF Spec

(* Whatever GCP answers, the state and what GCP holds only ever name what  *)
(* the schema declares, and the configuration stays one of the type's.     *)
THEOREM RefreshTypeCorrect ==
  ASSUME Recursive, Ordered
  PROVE  Spec => []TypeOK
<1>1. RefreshInv => TypeOK
  BY DEF RefreshInv
<1>. QED
  BY <1>1, InvAlways, PTL

(* A resource that was applied and that nobody has touched is never        *)
(* planned for again, however often it is read and in whichever of the     *)
(* ways of Written GCP answers: reconciling loses every difference that is *)
(* GCP's own, short of a project's number that could not be looked up.     *)
(* (Ordered leaves out what GCP may do to an unordered list, and with it   *)
(* the elements it may respell there.)                                     *)
THEOREM NoPhantomDriftHolds ==
  ASSUME Recursive, Ordered
  PROVE  Spec => []NoPhantomDrift
<1>1. RefreshInv => NoPhantomDrift
  BY DEF RefreshInv, Faithful, NoPhantomDrift, Planned, SaysAll
<1>. QED
  BY <1>1, InvAlways, PTL

-----------------------------------------------------------------------------
(* What every answer reads as is what GCP holds: take one of them, and     *)
(* what it would be expressed as.                                          *)
LEMMA ReadIsHeld ==
  ASSUME Recursive, Ordered, NEW d, Declared(d), NEW c, FitsFields(TRUE, d, c),
         NEW h, FitsFields(FALSE, d, h), FilledFields(d, h) = h,
         WrittenFields(d, h, FALSE) # {}, AllRead(d, c, h)
  PROVE  HoldsFields(d, c, h)
<1>1. PICK f \in WrittenFields(d, h, FALSE) : TRUE
  OBVIOUS
<1>. DEFINE s == attrs({OwnProject}, d, c, f)
<1>2. DOMAIN h \subseteq DOMAIN d /\ SaysAll(c, c)
  BY DEF FitsFields, SaysAll, Get
<1>3. \A n \in DOMAIN s : SeesField(d, h, s, n)
  BY <1>2, AttrsSee
<1>4. SaysAll(s, c)
  BY <1>2, AttrsRead
<1>. HIDE DEF s
<1>5. ASSUME NEW n \in DOMAIN c
      PROVE  \/ d[n].inputOnly \/ d[n].createOnly
             \/ isZero(c[n]) /\ n \notin DOMAIN h
             \/ n \in DOMAIN h /\ innerHolds(d[n], c[n], h[n])
  <2>1. d[n] \in Attrs /\ innerFits(TRUE, d[n], c[n])
    BY DEF FitsFields, Declared
  <2>2. Known(c[n]) /\ Sees(d[n])
    BY <2>1, FitsKind, AllSee
  <2>3. n \in DOMAIN s /\ s[n] = c[n]
    BY <1>4, <2>2, Forms DEF SaysAll, Get, Known
  <2>4. SeesField(d, h, c, n)
    BY <1>3, <2>3 DEF SeesField
  <2>. QED
    BY <2>2, <2>4, FieldSeen
<1>. QED
  BY <1>5 DEF HoldsFields

(* A fresh state is as good as what GCP holds to compute a patch from.     *)
LEMMA PatchReads ==
  ASSUME Recursive, Ordered, RefreshInv, fresh
  PROVE  AllRead(Schema, config, FilledFields(Schema, MergedFields(Schema, held, Changed(Schema, state, config))))
<1>1. /\ Declared(Schema) /\ FitsFields(TRUE, Schema, config)
      /\ FitsFields(FALSE, Schema, held) /\ FilledFields(Schema, held) = held
      /\ \A n \in DOMAIN state : SeesField(Schema, held, state, n)
  BY ConfigFits DEF RefreshInv, TypeOK, Configs, Schema, Faithful, Shows
<1>2. \A n \in DOMAIN config : Patches(Schema[n])
  BY <1>1, AllPatch DEF FitsFields, Declared
<1>. QED
  BY <1>1, <1>2, FieldPatched DEF AllRead

(* A patch of nothing leaves what is held. *)
LEMMA NothingToSend ==
  ASSUME NEW d, NEW h, h = [n \in DOMAIN h |-> h[n]], NEW f, DOMAIN f = {}
  PROVE  MergedFields(d, h, f) = h
<1>1. DOMAIN h \cup DOMAIN f = DOMAIN h /\ \A n \in DOMAIN h : n \notin DOMAIN f
  OBVIOUS
<1>2. MergedFields(d, h, f) = [n \in DOMAIN h |-> h[n]]
  BY <1>1 DEF MergedFields
<1>. QED
  BY <1>2

(* Reconciling hides no real difference, of created and of imported        *)
(* resources, and whatever configurations name: if there is nothing to     *)
(* send for a fresh state, GCP holds what configuration says, at every     *)
(* depth, but for what GCP never shows.  The patch of nothing leaves what  *)
(* is held, and what a patch leaves reads as configuration.                *)
THEOREM DriftIsSeenHolds ==
  ASSUME Recursive, Ordered
  PROVE  Spec => []DriftIsSeen
<1>1. ASSUME RefreshInv, phase = "tracked", fresh, DOMAIN Changed(Schema, state, config) = {}
      PROVE  HoldsFields(Schema, config, held)
  <2>1. /\ type \in DOMAIN Types /\ config \in Types[type].configs
        /\ FitsFields(FALSE, Schema, held) /\ FilledFields(Schema, held) = held
        /\ WrittenFields(Schema, held, FALSE) # {}
    BY <1>1 DEF RefreshInv, TypeOK, Configs, Faithful, Shows
  <2>2. Declared(Schema) /\ FitsFields(TRUE, Schema, config)
    BY <2>1, ConfigFits DEF Schema
  <2>3. MergedFields(Schema, held, Changed(Schema, state, config)) = held
    <3>1. held = [n \in DOMAIN held |-> held[n]]
      BY <2>1 DEF FitsFields
    <3>. QED
      BY <1>1, <3>1, NothingToSend
  <2>4. AllRead(Schema, config, held)
    BY <1>1, <2>1, <2>3, PatchReads
  <2>. QED
    BY <2>1, <2>2, <2>4, ReadIsHeld
<1>2. RefreshInv => DriftIsSeen
  BY <1>1 DEF DriftIsSeen
<1>. QED
  BY <1>2, InvAlways, PTL

(* What Update sends for a fresh state is enough: GCP then holds           *)
(* everything that configuration says, although the state it was computed  *)
(* from is pruned, reordered and carried over.                             *)
THEOREM UpdateSettlesHolds ==
  ASSUME Recursive, Ordered
  PROVE  Spec => UpdateSettles
<1>1. ASSUME RefreshInv, RefreshInv', Update, fresh
      PROVE  HoldsFields(Schema, config, held') \/ UNCHANGED vars
  <2>. DEFINE change == Changed(Schema, state, config)
  <2>1. CASE DOMAIN change = {}
    BY <1>1, <2>1 DEF Update, vars
  <2>2. CASE DOMAIN change # {}
    <3>1. /\ held' = FilledFields(Schema, MergedFields(Schema, held, change))
          /\ fresh' /\ UNCHANGED <<type, config>>
      BY <1>1, <2>2 DEF Update, Observe
    <3>2. Schema' = Schema
      BY <3>1 DEF Schema
    <3>3. /\ FitsFields(FALSE, Schema, held') /\ FilledFields(Schema, held') = held'
          /\ WrittenFields(Schema, held', FALSE) # {}
      BY <1>1, <3>1, <3>2 DEF RefreshInv, Faithful, Shows
    <3>4. Declared(Schema) /\ FitsFields(TRUE, Schema, config)
      BY <1>1, ConfigFits DEF RefreshInv, TypeOK, Configs, Schema
    <3>5. AllRead(Schema, config, held')
      BY <1>1, <3>1, PatchReads
    <3>. QED
      BY <3>3, <3>4, <3>5, ReadIsHeld
  <2>. QED
    BY <2>1, <2>2
<1>2. RefreshInv /\ RefreshInv' /\ [Next]_vars => [Update /\ fresh => HoldsFields(Schema, config, held')]_vars
  BY <1>1 DEF vars
<1>3. Spec => []RefreshInv
  BY InvAlways
<1>4. Spec => [][Next]_vars
  BY PTL DEF Spec
<1>. QED
  BY <1>2, <1>3, <1>4, PTL DEF UpdateSettles
=============================================================================
