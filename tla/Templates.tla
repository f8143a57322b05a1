------------------------------ MODULE Templates ------------------------------
(***************************************************************************)
(* Url templates and the texts they expand to (urls.go, and the parsing    *)
(* half of ids.go).                                                        *)
(*                                                                         *)
(* A text is a sequence of tokens: names, and separators at the depth to   *)
(* which they are escaped.  "/" separates segments; an escaped value shows *)
(* its own separators as "%2F", one escaped twice as "%252F".              *)
(*                                                                         *)
(* A template is a path of segments and a query of keys and segments.  A   *)
(* segment is literal or a placeholder: "mm" is {{x}}, "one" is {x} and    *)
(* "rest" is {+x}, the reserved form that keeps its value's separators.    *)
(***************************************************************************)
EXTENDS Naturals, SequencesExt, Maps

Lit(name) == [kind |-> "lit", name |-> name]
MM(name) == [kind |-> "mm", name |-> name]
One(name) == [kind |-> "one", name |-> name]
Rest(name) == [kind |-> "rest", name |-> name]

NoTemplate == [path |-> <<>>, query |-> <<>>]
Path(segs) == [path |-> segs, query |-> <<>>]

-----------------------------------------------------------------------------
(* Texts *)

Escape(text) ==
  [i \in DOMAIN text |-> CASE text[i] = "/"   -> "%2F"
                           [] text[i] = "%2F" -> "%252F"
                           [] OTHER           -> text[i]]

Unescape(text) ==
  [i \in DOMAIN text |-> CASE text[i] = "%2F"   -> "/"
                           [] text[i] = "%252F" -> "%2F"
                           [] OTHER             -> text[i]]

HasSlash(text) == \E i \in DOMAIN text : text[i] = "/"

\* The segments of a text, and the text of segments.
Segments(text) ==
  FoldLeft(LAMBDA segs, token :
             IF token = "/" THEN Append(segs, <<>>)
             ELSE [segs EXCEPT ![Len(segs)] = Append(@, token)],
           << <<>> >>, text)

Joined(segs) ==
  FoldLeft(LAMBDA text, seg : IF text = << >> THEN seg ELSE text \o <<"/">> \o seg,
           <<>>, segs)

LastPathSegment(text) == Last(Segments(text))

-----------------------------------------------------------------------------
(* Templates *)

IsPlaceholder(seg) == seg.kind # "lit"

SegmentsOf(tmpl) == ToSet(tmpl.path) \cup {tmpl.query[i].value : i \in DOMAIN tmpl.query}

\* placeholderNames: the attributes a template asks for.
PlaceholderNames(tmpl) == {seg.name : seg \in {s \in SegmentsOf(tmpl) : IsPlaceholder(s)}}

\* isBareCapture: the whole id is one value, the resource's full name.
IsBareCapture(path) == Len(path) = 1 /\ path[1].kind = "rest"

WithoutTrailingSlash(path) ==
  IF path # <<>> /\ Last(path) = Lit("") THEN Front(path) ELSE path

\* normalizeTemplateShape: placeholders that capture one segment look alike.
Shape(path) ==
  [i \in DOMAIN path |-> IF path[i].kind \in {"mm", "one"} THEN One("*") ELSE path[i]]

\* ExpandURL's error: an attribute nobody set.
Fillable(tmpl, attrs) == PlaceholderNames(tmpl) \subseteq DOMAIN attrs

ExpandSegment(seg, attrs) ==
  CASE seg.kind = "lit"  -> IF seg.name = "" THEN <<>> ELSE <<seg.name>>
    [] seg.kind = "rest" -> attrs[seg.name]
    [] OTHER             -> Escape(attrs[seg.name])

\* ExpandURL: the text of a path, once it is fillable.
ExpandPath(path, attrs) ==
  Joined([i \in DOMAIN path |-> ExpandSegment(path[i], attrs)])

\* A query is the set of what it says.
ExpandQuery(query, attrs) ==
  {<<query[i].key, ExpandSegment(query[i].value, attrs)>> : i \in DOMAIN query}

-----------------------------------------------------------------------------
(* Parsing an id against a template (parseAgainstTemplate) *)

Matches(path, id) ==
  LET segs == Segments(id)
      n    == Len(path)
  IN /\ n > 0
     /\ \A i \in 1 .. n - 1 : path[i].kind # "rest"
     /\ IF path[n].kind = "rest" THEN Len(segs) >= n ELSE Len(segs) = n
     /\ \A i \in 1 .. n : path[i].kind = "lit" => segs[i] = ExpandSegment(path[i], <<>>)

\* One segment of an id is one escaped value; a reserved placeholder takes
\* the rest of the id as it is.
Captures(path, id) ==
  LET segs  == Segments(id)
      names == {path[i].name : i \in {j \in DOMAIN path : IsPlaceholder(path[j])}}
      at(name) == CHOOSE i \in DOMAIN path :
                    /\ IsPlaceholder(path[i]) /\ path[i].name = name
                    /\ \A j \in DOMAIN path :
                         IsPlaceholder(path[j]) /\ path[j].name = name => j <= i
  IN [name \in names |->
        IF path[at(name)].kind = "rest" THEN Joined(SubSeq(segs, at(name), Len(segs)))
        ELSE Unescape(segs[at(name)])]
=============================================================================
