------------------------------ MODULE Discovery ------------------------------
(***************************************************************************)
(* Provider.Discover (internal/gcprov/discover.go): every project is       *)
(* searched through Cloud Asset Inventory; where that fails, the types     *)
(* that somebody named are listed one after the other.  A scan that fails  *)
(* is left out, and is to hide nothing else.                               *)
(*                                                                         *)
(* What the server answers is a world chosen at the start: the page each   *)
(* resource is listed on, and the token each page ends with.  A token is   *)
(* the number of the page it leads to, and pages are numbered as they are  *)
(* come by; FirstPage stands for no token, so it is both the request of    *)
(* the first page and the end of a listing.                                *)
(* The result is sorted, so the order of projects and types is left open.  *)
(***************************************************************************)
EXTENDS Naturals, FiniteSets

CONSTANTS
  Projects,       \* Settings.DiscoverProjects, or the instance's own
  Asked,          \* the types of the request; none means all of them
  Defaults,       \* the types to list when the request names none
  Listable,       \* the types with a ListField
  Resources,      \* what exists
  ProjectOf,      \* the project of a resource
  TypeOf,         \* its type
  Attributable,   \* those whose name fits exactly one type of their asset type
  Identifiable,   \* those whose listed body yields a provider id
  LastPage        \* bound: a listing has the pages 0..LastPage

Search == "search"      \* the scan of a whole project

ASSUME DiscoveryAssumption ==
  /\ ProjectOf \in [Resources -> Projects]
  /\ Attributable \subseteq Resources
  /\ Identifiable \subseteq Resources
  /\ Search \notin Asked \cup Defaults
  /\ LastPage \in Nat

FirstPage == 0
Pages == FirstPage..LastPage

Many == 2       \* bound: how often a resource is collected is counted up to here

VARIABLES
  next,       \* nextPageToken of every page
  at,         \* the page each resource is on
  pc,         \* "project", "search", "types", "list" or "done"
  projects,   \* projects not scanned yet
  project,    \* the one being scanned
  types,      \* types not listed yet in it
  type,       \* the one being listed
  token,      \* pageToken of the next request
  seen,       \* the tokens listOneType was given
  page,       \* what the current listing has collected
  scan,       \* what discoverViaList has collected
  out,        \* what Discover has collected
  failed      \* the scans that were given up: <<project, Search or type>>

world == <<next, at>>
vars == <<world, pc, projects, project, types, type, token, seen, page, scan, out, failed>>

Counts == [Resources -> 0..Many]

Nothing == [r \in Resources |-> 0]

Capped(n) == IF n > Many THEN Many ELSE n

(* append *)
Plus(c, d) == [r \in Resources |-> Capped(c[r] + d[r])]

Collected(c, found) == Plus(c, [r \in Resources |-> IF r \in found THEN 1 ELSE 0])

(* The pages a listing comes by. *)
OnPath == {p \in Pages : \A q \in 0..(p - 1) : next[q] = q + 1}

TypeOK ==
  /\ next \in [Pages -> Pages]
  /\ at \in [Resources -> Pages]
  /\ pc \in {"project", "search", "types", "list", "done"}
  /\ projects \subseteq Projects
  /\ pc \in {"search", "types", "list"} => project \in Projects
  /\ pc = "list" => type \in Listable
  /\ token \in Pages
  /\ seen \subseteq Pages \ {FirstPage}
  /\ page \in Counts /\ scan \in Counts /\ out \in Counts

(* A token leads to the page after, ends the listing, or comes round: to   *)
(* the page it ends or one before it.                                      *)
Init ==
  /\ next \in [Pages -> Pages]
  /\ \A p \in Pages : IF p \in OnPath THEN next[p] <= p + 1 ELSE next[p] = FirstPage
  /\ at \in [Resources -> OnPath]
  /\ pc = "project"
  /\ projects = Projects
  /\ project = "none" /\ types = {} /\ type = "none"
  /\ token = FirstPage
  /\ seen = {}
  /\ page = Nothing /\ scan = Nothing /\ out = Nothing
  /\ failed = {}

(* The first request of a listing. *)
Open(there) ==
  /\ pc' = there
  /\ token' = FirstPage
  /\ seen' = {}
  /\ page' = Nothing

-----------------------------------------------------------------------------
(* discoverViaCAI *)

NextProject(p) ==
  /\ pc = "project"
  /\ p \in projects
  /\ project' = p
  /\ projects' = projects \ {p}
  /\ Open("search")
  /\ UNCHANGED <<world, types, type, scan, out, failed>>

(* The assets of one page that are of a type asked for, each labelled with *)
(* the one type its name fits (discoveredFromAsset).                       *)
Assets ==
  {r \in Attributable :
     ProjectOf[r] = project /\ at[r] = token /\ (Asked = {} \/ TypeOf[r] \in Asked)}

(* A page of the search.  The last one ends it; a token that is the one    *)
(* just used is an error.                                                  *)
SearchPage ==
  /\ pc = "search"
  /\ next[token] = FirstPage \/ next[token] # token
  /\ page' = Collected(page, Assets)
  /\ IF next[token] = FirstPage
       THEN out' = Plus(out, page') /\ pc' = "project" /\ UNCHANGED token
       ELSE token' = next[token] /\ UNCHANGED <<out, pc>>
  /\ UNCHANGED <<world, projects, project, types, type, seen, scan, failed>>

ListTypes == IF Asked = {} THEN Defaults ELSE Asked

(* Mutant: what the search found before it failed is kept. *)
SearchFails_KeepsPages ==
  /\ pc = "search"
  /\ pc' = "types"
  /\ types' = ListTypes
  /\ scan' = page
  /\ failed' = failed \cup {<<project, Search>>}
  /\ UNCHANGED <<world, projects, project, type, token, seen, page, out>>

(* The search fails -- any request of it may, and a repeated token does:   *)
(* nothing of it is kept, and the types are listed instead.                *)
SearchFails ==
  /\ pc = "search"
  /\ pc' = "types"
  /\ types' = ListTypes
  /\ scan' = Nothing
  /\ failed' = failed \cup {<<project, Search>>}
  /\ UNCHANGED <<world, projects, project, type, token, seen, page, out>>

-----------------------------------------------------------------------------
(* discoverViaList, listOneType *)

(* A type without a list method is passed over. *)
NextType(t) ==
  /\ pc = "types"
  /\ t \in types
  /\ types' = types \ {t}
  /\ IF t \in Listable
       THEN type' = t /\ Open("list")
       ELSE UNCHANGED <<pc, type, token, seen, page>>
  /\ UNCHANGED <<world, projects, project, scan, out, failed>>

TypesDone ==
  /\ pc = "types"
  /\ types = {}
  /\ pc' = "project"
  /\ out' = Plus(out, scan)
  /\ UNCHANGED <<world, projects, project, types, type, token, seen, page, scan, failed>>

Items ==
  {r \in Identifiable : ProjectOf[r] = project /\ TypeOf[r] = type /\ at[r] = token}

(* Mutant: the tokens given are not remembered. *)
ListPage_Unseen ==
  /\ pc = "list"
  /\ page' = Collected(page, Items)
  /\ IF next[token] = FirstPage
       THEN scan' = Plus(scan, page') /\ pc' = "types" /\ UNCHANGED token
       ELSE token' = next[token] /\ UNCHANGED <<scan, pc>>
  /\ UNCHANGED <<world, projects, project, types, type, seen, out, failed>>

(* A page of a listing.  A token given before is an error. *)
ListPage ==
  /\ pc = "list"
  /\ next[token] \notin seen
  /\ page' = Collected(page, Items)
  /\ IF next[token] = FirstPage
       THEN scan' = Plus(scan, page') /\ pc' = "types" /\ UNCHANGED <<token, seen>>
       ELSE token' = next[token] /\ seen' = seen \cup {next[token]} /\ UNCHANGED <<scan, pc>>
  /\ UNCHANGED <<world, projects, project, types, type, out, failed>>

(* Mutant: a type that cannot be listed ends the scan of its project. *)
ListFails_EndsProject ==
  /\ pc = "list"
  /\ pc' = "project"
  /\ failed' = failed \cup {<<project, type>>}
  /\ UNCHANGED <<world, projects, project, types, type, token, seen, page, scan, out>>

(* One type cannot be listed: the others still are. *)
ListFails ==
  /\ pc = "list"
  /\ pc' = "types"
  /\ failed' = failed \cup {<<project, type>>}
  /\ UNCHANGED <<world, projects, project, types, type, token, seen, page, scan, out>>

Finish ==
  /\ pc = "project"
  /\ projects = {}
  /\ pc' = "done"
  /\ UNCHANGED <<world, projects, project, types, type, token, seen, page, scan, out, failed>>

Next ==
  \/ \E p \in Projects : NextProject(p)
  \/ SearchPage \/ SearchFails
  \/ \E t \in ListTypes : NextType(t)
  \/ TypesDone \/ ListPage \/ ListFails \/ Finish

Spec == Init /\ [][Next]_vars

(* The goroutine runs, and every request is answered or fails. *)
FairSpec == Spec /\ WF_vars(Next)

-----------------------------------------------------------------------------
(* Nothing is reported twice: neither by a search that failed half-way and *)
(* the listing after it, nor by a page that comes round again.             *)
EachOnce == \A r \in Resources : out[r] <= 1

(* "IT FAILS OPEN, per project and per type": whatever else failed, a      *)
(* resource is reported if the search of its project was not given up, or  *)
(* else if its type is one that is listed and that listing was not.        *)
FailsOpen ==
  pc = "done" =>
    \A r \in Resources :
      LET p == ProjectOf[r]
          t == TypeOf[r]
      IN  out[r] > 0 <=>
            IF <<p, Search>> \notin failed
              THEN r \in Attributable /\ (Asked = {} \/ t \in Asked)
              ELSE r \in Identifiable /\ t \in ListTypes \cap Listable /\ <<p, t>> \notin failed

(* A token that leads back by two pages or more: the search compares a     *)
(* token only with the one just used, and follows it for ever.             *)
LongCycle == \E p \in OnPath : next[p] # FirstPage /\ next[p] < p

(* "a page that will come round for ever" is noticed: Discover returns, or *)
(* is caught by such a token in a search.                                  *)
DiscoverReturns == <>(pc = "done") \/ (LongCycle /\ <>[](pc = "search"))
=============================================================================
