----------------------------- MODULE MCRefresh ------------------------------
(* Refresh for TLC: a type with an object, of which configurations name    *)
(* more and less, one with lists, one with leaves of every kind at its top *)
(* level.                                                                  *)
EXTENDS Refresh, TLC

(* The recursive calls of Reconcile and Refresh are their operators again. *)
(* The LETs are for TLC's coverage, which follows a plain substitution     *)
(* round for ever.                                                         *)
againAnswersTo(want, got) ==
  LET it == answersTo(want, got) IN it
againValue(known, unmatched, attr, ref, in) ==
  LET it == value(known, unmatched, attr, ref, in) IN it
againWithoutReservedLabels(attr, v) ==
  LET it == withoutReservedLabels(attr, v) IN it
againChanged(declared, have, want) ==
  LET it == Changed(declared, have, want) IN it
againFits(own, attr, v) ==
  LET it == Fits(own, attr, v) IN it
againFilled(attr, v) ==
  LET it == Filled(attr, v) IN it
againWritten(attr, v, inSet) ==
  LET it == Written(attr, v, inSet) IN it
againMerged(attr, base, change) ==
  LET it == Merged(attr, base, change) IN it
againHolds(attr, want, have) ==
  LET it == Holds(attr, want, have) IN it

Str(t)     == Leaf("string", t, "plain")
Project(t) == Leaf("string", t, "id")
Text       == Attr("string")
Said       == [Text EXCEPT !.rule = TRUE]       \* with an Equivalence
Shown      == [Text EXCEPT !.output = TRUE]

Disk ==
  [Attr("map") EXCEPT !.fields =
     "source" :> Said @@ "mode" :> Text @@ "id" :> Shown
     @@ "autoDelete" :> Attr("bool") @@ "initialize" :> [Text EXCEPT !.inputOnly = TRUE]]

WithObject ==
  [attrs |-> "disk" :> Disk,
   configs |->
     {"disk" :> MapOf("source" :> Str(t) @@ "autoDelete" :> Leaf("bool", b, "")
                      @@ "initialize" :> Str("image")) :
        t \in {"a", "b"}, b \in {"zero", "one"}}
     \cup {"disk" :> MapOf("source" :> Str("a"))}]

Backend == [Attr("map") EXCEPT !.fields = "group" :> Said @@ "kind" :> Shown]
Group(t) == MapOf("group" :> Str(t))

WithLists ==
  [attrs |-> "backends" :> [Attr("list") EXCEPT !.elem = <<Backend>>, !.unordered = TRUE]
             @@ "rules" :> [Attr("list") EXCEPT !.elem = <<Said>>],
   configs |->
     {"backends" :> ListOf(<<Group("a"), Group("b")>>) @@ "rules" :> ListOf(<<Str("c"), Str("d")>>),
      "backends" :> ListOf(<<Group("b"), Group("a")>>) @@ "rules" :> ListOf(<<Str("d"), Str("c")>>),
      "backends" :> ListOf(<<Group("b")>>) @@ "rules" :> ListOf(<<>>)}]

WithLeaves ==
  [attrs |-> "parent" :> Text @@ "ratio" :> Attr("float")
             @@ "labels" :> [Attr("map") EXCEPT !.opaque = TRUE, !.labels = TRUE]
             @@ "enable" :> Attr("bool") @@ "accountId" :> [Text EXCEPT !.createOnly = TRUE],
   configs |->
     {"parent" :> Project(p) @@ "ratio" :> Leaf("float", r, "") @@ "enable" :> Leaf("bool", e, "")
      @@ "labels" :> MapOf("team" :> Str("x")) @@ "accountId" :> Str("me") :
        p \in {"ours", "theirs"}, r \in {"fraction", "whole"}, e \in {"zero", "one"}}]

AllTypes    == "instance" :> WithObject @@ "service" :> WithLists @@ "account" :> WithLeaves
ListTypes   == "service" :> WithLists

Tops     == UNION {Range(AllTypes[t].attrs) : t \in DOMAIN AllTypes}
AllAttrs == Tops \cup UNION {Inside(a) : a \in Tops} \cup Inside(Backend)
Depths   == [a \in AllAttrs |-> IF Inside(a) = {} THEN 0 ELSE IF a.elem = <<>> THEN 1 ELSE 2]

Reading    == {"lookup"}
Respelling == {"respells"}
=============================================================================
