-------------------------- MODULE DiscoveryProofs --------------------------
(***************************************************************************)
(* What holds of Discover for any projects, types and resources, listings  *)
(* of any length, and tokens that come round in any way.                   *)
(***************************************************************************)
EXTENDS Discovery, TLAPS

(* A scan of a project, or of a type of it, is under way. *)
Scanning == pc \in {"search", "types", "list"}

(* The page asked for next is one that listings come by, and is left for   *)
(* the next page, for one before, or for none.                             *)
OnTheWay ==
  /\ token \in OnPath
  /\ \A p \in OnPath : next[p] <= p + 1

(* What a project's scan adds to the result is of that project, and no     *)
(* project is scanned twice.                                               *)
ProjectsOnce ==
  /\ Scanning => project \notin projects
  /\ \A r \in Resources :
       /\ out[r] <= 1
       /\ ProjectOf[r] \in projects => out[r] = 0
       /\ Scanning /\ ProjectOf[r] = project => out[r] = 0

(* The same of the types listed in a project. *)
TypesOnce ==
  pc \in {"types", "list"} =>
    /\ pc = "list" => type \notin types
    /\ \A r \in Resources :
         /\ scan[r] <= 1
         /\ scan[r] > 0 => /\ ProjectOf[r] = project
                           /\ TypeOf[r] \notin types
                           /\ pc = "list" => TypeOf[r] # type

(* The same of a listing's pages: those before the token. *)
FirstTime == \A r \in Resources : page[r] <= 1 /\ (page[r] > 0 => at[r] < token)

ListedOnce ==
  pc = "list" =>
    /\ seen = 1..token
    /\ FirstTime
    /\ \A r \in Resources : page[r] > 0 => ProjectOf[r] = project /\ TypeOf[r] = type

(* The search's token is on a way that never ends. *)
Looping ==
  \E p \in OnPath : next[p] # FirstPage /\ next[p] <= token /\ token <= p

SearchedOnce ==
  pc = "search" =>
    /\ Looping \/ FirstTime
    /\ \A r \in Resources : page[r] > 0 => ProjectOf[r] = project

DiscoveryInv ==
  TypeOK /\ OnTheWay /\ ProjectsOnce /\ TypesOnce /\ ListedOnce /\ SearchedOnce

-----------------------------------------------------------------------------
(* append adds up, up to Many. *)
LEMMA Appended ==
  ASSUME NEW c \in Counts, NEW d \in Counts
  PROVE  /\ Plus(c, d) \in Counts
         /\ \A r \in Resources : Plus(c, d)[r] = Capped(c[r] + d[r])
BY DEF Plus, Counts, Capped, Many

(* What a page adds to a collection. *)
LEMMA PageCollected ==
  ASSUME NEW c \in Counts, NEW found
  PROVE  /\ Collected(c, found) \in Counts
         /\ \A r \in Resources :
              /\ r \notin found => Collected(c, found)[r] = c[r]
              /\ r \in found /\ c[r] = 0 => Collected(c, found)[r] = 1
<1>. DEFINE d == [r \in Resources |-> IF r \in found THEN 1 ELSE 0]
<1>1. d \in Counts
  BY DEF Counts, Many
<1>2. Collected(c, found) = Plus(c, d)
  BY DEF Collected
<1>. HIDE DEF d
<1>3. \A r \in Resources : d[r] = IF r \in found THEN 1 ELSE 0
  BY DEF d
<1>4. \A r \in Resources : c[r] \in 0..2
  BY DEF Counts, Many
<1>. QED
  BY <1>1, <1>2, <1>3, <1>4, Appended DEF Capped, Many

LEMMA EmptyCollection == Nothing \in Counts /\ \A r \in Resources : Nothing[r] = 0
BY DEF Nothing, Counts, Many

(* A way through the pages is gone on by the page after. *)
LEMMA TheWayGoesOn ==
  ASSUME next \in [Pages -> Pages], NEW p \in OnPath, next[p] = p + 1
  PROVE  p + 1 \in OnPath
<1>1. p \in Pages /\ p + 1 \in Pages /\ \A q \in 0..(p - 1) : next[q] = q + 1
  BY DEF OnPath
<1>2. \A q \in 0..((p + 1) - 1) : q \in 0..(p - 1) \/ q = p
  BY <1>1 DEF Pages, FirstPage
<1>. QED
  BY <1>1, <1>2 DEF OnPath

(* Every token before a page of the way is of the way. *)
LEMMA TheWayBefore ==
  ASSUME next \in [Pages -> Pages], NEW p \in OnPath, NEW q \in 0..p
  PROVE  q \in OnPath
<1>1. p \in Nat /\ p <= LastPage /\ \A k \in 0..(p - 1) : next[k] = k + 1
  BY DiscoveryAssumption DEF OnPath, Pages, FirstPage
<1>2. q \in Pages
  BY <1>1, DiscoveryAssumption DEF Pages, FirstPage
<1>. QED
  BY <1>1, <1>2 DEF OnPath

(* The token after the one of a page that is come by. *)
LEMMA NextOnTheWay ==
  ASSUME TypeOK, OnTheWay
  PROVE  /\ next[token] \in OnPath
         /\ token \in Nat
         /\ next[token] \in 0..(token + 1)
<1>1. token \in Nat /\ next[token] \in Nat /\ next[token] <= token + 1
  BY DiscoveryAssumption DEF TypeOK, OnTheWay, Pages, FirstPage
<1>2. CASE next[token] = token + 1
  BY <1>1, <1>2, TheWayGoesOn DEF TypeOK, OnTheWay
<1>3. CASE next[token] # token + 1
  <2>1. next[token] \in 0..token
    BY <1>1, <1>3
  <2>. QED
    BY <1>1, <2>1, TheWayBefore DEF TypeOK, OnTheWay
<1>. QED
  BY <1>1, <1>2, <1>3

LEMMA FirstPageOnTheWay == FirstPage \in OnPath
BY DiscoveryAssumption DEF OnPath, Pages, FirstPage

-----------------------------------------------------------------------------
(* Discover's counts stay counts, its tokens page tokens, and only types   *)
(* that can be listed are listed.                                          *)
LEMMA TypeInductive ==
  ASSUME TypeOK, [Next]_vars
  PROVE  TypeOK'
<1>. USE DEF TypeOK, world
<1>1. ASSUME NEW p \in Projects, NextProject(p) PROVE TypeOK'
  BY <1>1, FirstPageOnTheWay, EmptyCollection DEF NextProject, Open, OnPath
<1>2. CASE SearchPage
  <2>1. page' \in Counts /\ Plus(out, page') \in Counts /\ next[token] \in Pages
    BY <1>2, PageCollected, Appended DEF SearchPage
  <2>. QED
    BY <1>2, <2>1 DEF SearchPage
<1>3. CASE SearchFails
  BY <1>3, EmptyCollection DEF SearchFails
<1>4. ASSUME NEW t \in ListTypes, NextType(t) PROVE TypeOK'
  BY <1>4, FirstPageOnTheWay, EmptyCollection DEF NextType, Open, OnPath
<1>5. CASE TypesDone
  BY <1>5, Appended DEF TypesDone
<1>6. CASE ListPage
  <2>1. page' \in Counts /\ Plus(scan, page') \in Counts /\ next[token] \in Pages
    BY <1>6, PageCollected, Appended DEF ListPage
  <2>. QED
    BY <1>6, <2>1 DEF ListPage
<1>7. CASE ListFails
  BY <1>7 DEF ListFails
<1>8. CASE Finish
  BY <1>8 DEF Finish
<1>9. CASE UNCHANGED vars
  BY <1>9 DEF vars
<1>. QED
  BY <1>1, <1>2, <1>3, <1>4, <1>5, <1>6, <1>7, <1>8, <1>9 DEF Next

(* A token is followed only to where it leads. *)
LEMMA OnTheWayInductive ==
  ASSUME TypeOK, OnTheWay, [Next]_vars
  PROVE  OnTheWay'
<1>1. OnPath' = OnPath /\ next' = next
  BY DEF Next, vars, world, NextProject, SearchPage, SearchFails, NextType, TypesDone,
         ListPage, ListFails, Finish, OnPath
<1>2. token' \in {token, next[token], FirstPage}
  BY DEF Next, vars, NextProject, SearchPage, SearchFails, NextType, TypesDone,
         ListPage, ListFails, Finish, Open
<1>. QED
  BY <1>1, <1>2, NextOnTheWay, FirstPageOnTheWay DEF OnTheWay

(* A listing that has come to a page for the first time goes on to the     *)
(* next one, or ends, or comes round.                                      *)
LEMMA PageOnce ==
  ASSUME TypeOK, OnTheWay, FirstTime, NEW found,
         \A r \in found : r \in Resources /\ at[r] = token,
         page' = Collected(page, found), at' = at
  PROVE  /\ \A r \in Resources : page'[r] \in 0..1
         /\ \A r \in Resources : page'[r] > 0 => page[r] > 0 \/ r \in found
         /\ token' = token + 1 => FirstTime'
<1>1. token \in Nat /\ at \in [Resources -> Nat]
  BY DiscoveryAssumption DEF TypeOK, Pages, FirstPage
<1>2. page \in Counts /\ \A r \in Resources : page[r] \in 0..1 /\ (page[r] = 1 => at[r] < token)
  BY DEF TypeOK, Counts, FirstTime, Many
<1>3. \A r \in Resources :
        /\ r \notin found => page'[r] = page[r]
        /\ r \in found => page[r] = 0 /\ page'[r] = 1
  BY <1>1, <1>2, PageCollected
<1>. QED
  BY <1>1, <1>2, <1>3 DEF FirstTime

(* The parts that speak of one scan, step by step. *)
Once == ProjectsOnce /\ TypesOnce /\ ListedOnce /\ SearchedOnce

LEMMA ProjectStep ==
  ASSUME DiscoveryInv, NEW p \in Projects, NextProject(p)
  PROVE  Once'
<1>1. ProjectsOnce'
  BY DEF DiscoveryInv, NextProject, Open, ProjectsOnce, Scanning
<1>2. pc' = "search" /\ page' = Nothing
  BY DEF NextProject, Open
<1>3. SearchedOnce'
  BY <1>2, EmptyCollection DEF SearchedOnce, FirstTime
<1>. QED
  BY <1>1, <1>2, <1>3 DEF Once, TypesOnce, ListedOnce

LEMMA SearchFailsStep ==
  ASSUME DiscoveryInv, SearchFails
  PROVE  Once'
<1>1. ProjectsOnce'
  BY DEF DiscoveryInv, SearchFails, ProjectsOnce, Scanning
<1>2. pc' = "types" /\ scan' = Nothing
  BY DEF SearchFails
<1>3. TypesOnce'
  BY <1>2, EmptyCollection DEF TypesOnce
<1>. QED
  BY <1>1, <1>2, <1>3 DEF Once, ListedOnce, SearchedOnce

LEMMA TypeStep ==
  ASSUME DiscoveryInv, NEW t \in ListTypes, NextType(t)
  PROVE  Once'
<1>1. ProjectsOnce'
  BY DEF DiscoveryInv, NextType, ProjectsOnce, Scanning, Open
<1>2. pc = "types" /\ types' = types \ {t} /\ scan' = scan /\ project' = project /\ t \in types
  BY DEF NextType
<1>3. CASE t \in Listable
  <2>1. pc' = "list" /\ type' = t /\ page' = Nothing /\ seen' = {} /\ token' = 0
    BY <1>3 DEF NextType, Open, FirstPage
  <2>2. TypesOnce'
    BY <1>2, <2>1 DEF DiscoveryInv, TypesOnce
  <2>3. ListedOnce'
    BY <2>1, EmptyCollection DEF ListedOnce, FirstTime
  <2>. QED
    BY <1>1, <2>1, <2>2, <2>3 DEF Once, SearchedOnce
<1>4. CASE t \notin Listable
  <2>1. pc' = "types" /\ type' = type
    BY <1>2, <1>4 DEF NextType
  <2>2. TypesOnce'
    BY <1>2, <2>1 DEF DiscoveryInv, TypesOnce
  <2>. QED
    BY <1>1, <2>1, <2>2 DEF Once, SearchedOnce, ListedOnce
<1>. QED
  BY <1>3, <1>4

(* The listings' findings become the result: of a project nothing was      *)
(* reported of yet.                                                        *)
LEMMA TypesDoneStep ==
  ASSUME DiscoveryInv, TypesDone
  PROVE  Once'
<1>1. pc = "types" /\ pc' = "project" /\ out' = Plus(out, scan) /\ projects' = projects
      /\ project' = project
  BY DEF TypesDone
<1>2. \A r \in Resources : out'[r] = Capped(out[r] + scan[r])
  BY <1>1, Appended DEF DiscoveryInv, TypeOK
<1>3. \A r \in Resources : /\ out[r] \in 0..1 /\ scan[r] \in 0..1
                           /\ scan[r] = 1 => ProjectOf[r] = project /\ out[r] = 0
  BY <1>1 DEF DiscoveryInv, TypeOK, Counts, Many, ProjectsOnce, Scanning, TypesOnce
<1>4. project \notin projects
  BY <1>1 DEF DiscoveryInv, ProjectsOnce, Scanning
<1>5. ProjectsOnce'
  BY <1>1, <1>2, <1>3, <1>4 DEF DiscoveryInv, ProjectsOnce, Scanning, Capped, Many
<1>. QED
  BY <1>1, <1>5 DEF Once, TypesOnce, ListedOnce, SearchedOnce

LEMMA ListFailsStep ==
  ASSUME DiscoveryInv, ListFails
  PROVE  Once'
<1>1. ProjectsOnce'
  BY DEF DiscoveryInv, ListFails, ProjectsOnce, Scanning
<1>2. TypesOnce'
  BY DEF DiscoveryInv, ListFails, TypesOnce
<1>. QED
  BY <1>1, <1>2 DEF Once, ListedOnce, SearchedOnce, ListFails

(* A page of a listing: its resources have not been met before. *)
LEMMA ListPageStep ==
  ASSUME DiscoveryInv, ListPage
  PROVE  Once'
<1>1. /\ pc = "list" /\ next[token] \notin seen /\ page' = Collected(page, Items)
      /\ projects' = projects /\ project' = project /\ out' = out
      /\ types' = types /\ type' = type /\ at' = at
  BY DEF ListPage, world
<1>2. \A r \in Items : r \in Resources /\ at[r] = token /\ ProjectOf[r] = project /\ TypeOf[r] = type
  BY DiscoveryAssumption DEF Items
<1>3. /\ seen = 1..token /\ FirstTime /\ type \notin types
      /\ \A r \in Resources : page[r] > 0 => ProjectOf[r] = project /\ TypeOf[r] = type
  BY <1>1 DEF DiscoveryInv, ListedOnce, TypesOnce
<1>4. /\ \A r \in Resources : page'[r] \in 0..1
      /\ \A r \in Resources : page'[r] > 0 => ProjectOf[r] = project /\ TypeOf[r] = type
      /\ token' = token + 1 => FirstTime'
  BY <1>1, <1>2, <1>3, PageOnce DEF DiscoveryInv
<1>5. CASE next[token] = FirstPage
  <2>1. pc' = "types" /\ scan' = Plus(scan, page')
    BY <1>5 DEF ListPage
  <2>2. page' \in Counts
    BY <1>1, PageCollected DEF DiscoveryInv, TypeOK
  <2>3. \A r \in Resources : scan'[r] = Capped(scan[r] + page'[r])
    BY <2>1, <2>2, Appended DEF DiscoveryInv, TypeOK
  <2>4. \A r \in Resources :
          /\ scan[r] \in 0..1
          /\ scan[r] = 1 => ProjectOf[r] = project /\ TypeOf[r] \notin types /\ TypeOf[r] # type
    BY <1>1 DEF DiscoveryInv, TypeOK, Counts, Many, TypesOnce
  <2>5. TypesOnce'
    BY <1>1, <1>3, <1>4, <2>1, <2>3, <2>4 DEF TypesOnce, Capped, Many
  <2>6. ProjectsOnce'
    BY <1>1, <2>1 DEF DiscoveryInv, ProjectsOnce, Scanning
  <2>. QED
    BY <2>1, <2>5, <2>6 DEF Once, ListedOnce, SearchedOnce
<1>6. CASE next[token] # FirstPage
  <2>1. pc' = "list" /\ scan' = scan /\ token' = next[token] /\ seen' = seen \cup {next[token]}
    BY <1>1, <1>6 DEF ListPage
  <2>2. next[token] = token + 1 /\ token \in Nat
    BY <1>1, <1>3, <1>6, NextOnTheWay DEF DiscoveryInv, FirstPage
  <2>3. seen' = 1..token'
    BY <1>3, <2>1, <2>2
  <2>4. ListedOnce'
    BY <1>1, <1>4, <2>1, <2>2, <2>3 DEF ListedOnce
  <2>5. TypesOnce'
    BY <1>1, <2>1 DEF DiscoveryInv, TypesOnce
  <2>6. ProjectsOnce'
    BY <1>1, <2>1 DEF DiscoveryInv, ProjectsOnce, Scanning
  <2>. QED
    BY <2>1, <2>4, <2>5, <2>6 DEF Once, SearchedOnce
<1>. QED
  BY <1>5, <1>6

(* On a way that comes round the search stays on it; otherwise a page of   *)
(* it is one of a first time, as a listing's is.                           *)
LEMMA SearchPageStep ==
  ASSUME DiscoveryInv, SearchPage
  PROVE  Once'
<1>1. /\ pc = "search" /\ page' = Collected(page, Assets)
      /\ projects' = projects /\ project' = project /\ at' = at /\ next' = next
  BY DEF SearchPage, world
<1>2. \A r \in Assets : r \in Resources /\ at[r] = token /\ ProjectOf[r] = project
  BY DiscoveryAssumption DEF Assets
<1>3. \A r \in Resources : page[r] > 0 => ProjectOf[r] = project
  BY <1>1 DEF DiscoveryInv, SearchedOnce
<1>4. page \in Counts /\ page' \in Counts
  BY <1>1, PageCollected DEF DiscoveryInv, TypeOK
<1>5. \A r \in Resources : page'[r] > 0 => ProjectOf[r] = project
  <2>1. \A r \in Resources : r \notin Assets => page'[r] = page[r]
    BY <1>1, <1>4, PageCollected
  <2>. QED
    BY <1>2, <1>3, <2>1
<1>6. CASE next[token] = FirstPage
  <2>1. pc' = "project" /\ out' = Plus(out, page')
    BY <1>6 DEF SearchPage
  <2>2. ~ Looping
    <3>1. SUFFICES ASSUME NEW p \in OnPath, next[p] # FirstPage, next[p] <= token, token <= p
                   PROVE  FALSE
      BY DEF Looping
    <3>2. p \in Nat /\ token \in Nat
      BY <3>1, NextOnTheWay, DiscoveryAssumption DEF DiscoveryInv, OnPath, Pages, FirstPage
    <3>3. CASE token = p
      BY <1>6, <3>1, <3>3
    <3>4. CASE token # p
      <4>1. token \in 0..(p - 1)
        BY <3>1, <3>2, <3>4
      <4>2. next[token] = token + 1
        BY <3>1, <4>1 DEF OnPath
      <4>. QED
        BY <1>6, <3>2, <4>2 DEF FirstPage
    <3>. QED
      BY <3>3, <3>4
  <2>3. FirstTime
    BY <1>1, <2>2 DEF DiscoveryInv, SearchedOnce
  <2>4. \A r \in Resources : page'[r] \in 0..1
    BY <1>1, <1>2, <2>3, PageOnce DEF DiscoveryInv
  <2>5. \A r \in Resources : out'[r] = Capped(out[r] + page'[r])
    BY <1>4, <2>1, Appended DEF DiscoveryInv, TypeOK
  <2>6. \A r \in Resources : out[r] \in 0..1 /\ (ProjectOf[r] = project => out[r] = 0)
    BY <1>1 DEF DiscoveryInv, TypeOK, Counts, Many, ProjectsOnce, Scanning
  <2>7. project \notin projects
    BY <1>1 DEF DiscoveryInv, ProjectsOnce, Scanning
  <2>8. ProjectsOnce'
    BY <1>1, <1>5, <2>1, <2>4, <2>5, <2>6, <2>7
       DEF DiscoveryInv, ProjectsOnce, Scanning, Capped, Many
  <2>. QED
    BY <2>1, <2>8 DEF Once, TypesOnce, ListedOnce, SearchedOnce
<1>7. CASE next[token] # FirstPage
  <2>1. pc' = "search" /\ out' = out /\ token' = next[token]
    BY <1>1, <1>7 DEF SearchPage
  <2>2. token \in Nat /\ next[token] \in 0..(token + 1) /\ token \in OnPath
    BY NextOnTheWay DEF DiscoveryInv, OnTheWay
  <2>3. OnPath' = OnPath
    BY <1>1 DEF OnPath
  <2>4. CASE next[token] <= token
    <3>1. Looping'
      BY <1>1, <1>7, <2>1, <2>2, <2>3, <2>4 DEF Looping, FirstPage
    <3>. QED
      BY <1>1, <1>5, <2>1, <3>1
         DEF Once, DiscoveryInv, ProjectsOnce, Scanning, TypesOnce, ListedOnce, SearchedOnce
  <2>5. CASE next[token] = token + 1 /\ FirstTime
    <3>1. FirstTime'
      BY <1>1, <1>2, <2>1, <2>5, PageOnce DEF DiscoveryInv
    <3>. QED
      BY <1>1, <1>5, <2>1, <3>1
         DEF Once, DiscoveryInv, ProjectsOnce, Scanning, TypesOnce, ListedOnce, SearchedOnce
  <2>6. CASE next[token] = token + 1 /\ Looping
    <3>1. PICK p \in OnPath : next[p] # FirstPage /\ next[p] <= token /\ token <= p
      BY <2>6 DEF Looping
    <3>2. p \in Nat /\ next[p] \in Nat /\ next' = next
      BY <1>1, <3>1, DiscoveryAssumption DEF DiscoveryInv, TypeOK, OnPath, Pages, FirstPage
    <3>3. token # p
      BY <2>2, <2>6, <3>1, <3>2
    <3>4. Looping'
      BY <2>1, <2>2, <2>3, <2>6, <3>1, <3>2, <3>3 DEF Looping
    <3>. QED
      BY <1>1, <1>5, <2>1, <3>4
         DEF Once, DiscoveryInv, ProjectsOnce, Scanning, TypesOnce, ListedOnce, SearchedOnce
  <2>7. Looping \/ FirstTime
    BY <1>1 DEF DiscoveryInv, SearchedOnce
  <2>. QED
    BY <2>2, <2>4, <2>5, <2>6, <2>7
<1>. QED
  BY <1>6, <1>7

-----------------------------------------------------------------------------
LEMMA DiscoveryInductive ==
  ASSUME DiscoveryInv, [Next]_vars
  PROVE  DiscoveryInv'
<1>1. TypeOK' /\ OnTheWay'
  BY TypeInductive, OnTheWayInductive DEF DiscoveryInv
<1>2. ASSUME Finish PROVE Once'
  BY <1>2 DEF Finish, world, Once, DiscoveryInv, ProjectsOnce, Scanning, TypesOnce, ListedOnce,
              SearchedOnce
<1>3. ASSUME UNCHANGED vars PROVE Once'
  BY <1>3 DEF vars, world, Once, DiscoveryInv, ProjectsOnce, Scanning, TypesOnce, ListedOnce,
              SearchedOnce, FirstTime, Looping, OnPath
<1>4. Once'
  BY <1>2, <1>3, ProjectStep, SearchPageStep, SearchFailsStep, TypeStep, TypesDoneStep,
     ListPageStep, ListFailsStep DEF Next
<1>. QED
  BY <1>1, <1>4 DEF DiscoveryInv, Once

(* The invariant holds of every reachable state. *)
LEMMA DiscoveryInvariant == Spec => []DiscoveryInv
<1>1. Init => DiscoveryInv
  <2> SUFFICES ASSUME Init PROVE DiscoveryInv
    OBVIOUS
  <2>1. TypeOK
    BY EmptyCollection, FirstPageOnTheWay DEF Init, TypeOK, OnPath
  <2>2. OnTheWay
    BY FirstPageOnTheWay DEF Init, OnTheWay, OnPath
  <2>. QED
    BY <2>1, <2>2, EmptyCollection
       DEF Init, DiscoveryInv, ProjectsOnce, Scanning, TypesOnce, ListedOnce, SearchedOnce
<1>. QED
  BY <1>1, DiscoveryInductive, PTL DEF Spec

(* Type correctness of Discover.                                           *)
THEOREM DiscoveryTypeCorrect == Spec => []TypeOK
<1>1. DiscoveryInv => TypeOK
  BY DEF DiscoveryInv
<1>. QED
  BY <1>1, DiscoveryInvariant, PTL

(* Nothing is reported twice, whichever requests fail and however the      *)
(* tokens come round: of a search that comes round nothing is kept.        *)
THEOREM DiscoveryReportsOnce == Spec => []EachOnce
<1>1. DiscoveryInv => EachOnce
  BY DEF DiscoveryInv, ProjectsOnce, EachOnce
<1>. QED
  BY <1>1, DiscoveryInvariant, PTL

-----------------------------------------------------------------------------
(* That nothing is missing: what was found so far is exactly what the      *)
(* scans that were not given up came by.                                   *)

(* The scan that tells of a resource in the end was not given up. *)
Told(r) ==
  IF <<ProjectOf[r], Search>> \notin failed
    THEN r \in Attributable /\ (Asked = {} \/ TypeOf[r] \in Asked)
    ELSE /\ r \in Identifiable
         /\ TypeOf[r] \in ListTypes \cap Listable
         /\ <<ProjectOf[r], TypeOf[r]>> \notin failed

Searched == {r \in Attributable : ProjectOf[r] = project /\ (Asked = {} \/ TypeOf[r] \in Asked)}
Listed   == {r \in Identifiable : ProjectOf[r] = project /\ TypeOf[r] = type}

Placed == at \in [Resources -> OnPath]

(* A scan is given up while it is under way. *)
GivenUp ==
  /\ \A p \in projects : \A x \in ListTypes \cup {Search} : <<p, x>> \notin failed
  /\ pc = "search" => \A x \in ListTypes \cup {Search} : <<project, x>> \notin failed
  /\ pc \in {"types", "list"} =>
       /\ <<project, Search>> \in failed
       /\ types \subseteq ListTypes
       /\ \A t \in types : <<project, t>> \notin failed
  /\ pc = "list" => type \in ListTypes /\ <<project, type>> \notin failed

(* The pages before the token are collected. *)
CollectedSoFar(what) ==
  \A r \in Resources : page[r] > 0 <=> r \in what /\ at[r] < token

(* The types no longer to be listed are. *)
ScannedSoFar ==
  pc \in {"types", "list"} =>
    \A r \in Resources :
      scan[r] > 0 <=>
        /\ r \in Identifiable
        /\ ProjectOf[r] = project
        /\ TypeOf[r] \in (ListTypes \cap Listable) \ types
        /\ pc = "list" => TypeOf[r] # type
        /\ <<project, TypeOf[r]>> \notin failed

(* The projects no longer to be scanned are. *)
ToldSoFar ==
  \A r \in Resources :
    ProjectOf[r] \notin projects /\ ~ (Scanning /\ ProjectOf[r] = project) =>
      (out[r] > 0 <=> Told(r))

NothingMissing ==
  /\ Placed
  /\ GivenUp
  /\ pc = "search" => Looping \/ CollectedSoFar(Searched)
  /\ pc = "list" => CollectedSoFar(Listed)
  /\ ScannedSoFar
  /\ ToldSoFar

(* A page collects what is on it. *)
LEMMA PageComplete ==
  ASSUME TypeOK, OnTheWay, Placed, NEW what, what \subseteq Resources, CollectedSoFar(what),
         page' = Collected(page, {r \in what : at[r] = token})
  PROVE  \A r \in Resources : page'[r] > 0 <=> r \in what /\ at[r] <= token
<1>. DEFINE found == {r \in what : at[r] = token}
<1>1. token \in Nat /\ \A r \in Resources : at[r] \in Nat
  BY NextOnTheWay, DiscoveryAssumption DEF TypeOK, Pages, FirstPage
<1>2. page \in Counts /\ \A r \in Resources : page[r] \in Nat
  BY DEF TypeOK, Counts, Many
<1>3. \A r \in Resources : /\ r \notin found => page'[r] = page[r]
                           /\ r \in found /\ page[r] = 0 => page'[r] = 1
  BY <1>2, PageCollected
<1>4. \A r \in Resources : r \in found <=> r \in what /\ at[r] = token
  OBVIOUS
<1>. HIDE DEF found
<1>5. \A r \in Resources : page[r] > 0 <=> r \in what /\ at[r] < token
  BY DEF CollectedSoFar
<1>. QED
  BY <1>1, <1>2, <1>3, <1>4, <1>5

(* A listing without another token has come by every page. *)
LEMMA NoPageLeft ==
  ASSUME TypeOK, OnTheWay, Placed, next[token] = FirstPage
  PROVE  \A r \in Resources : at[r] <= token
<1>1. SUFFICES ASSUME NEW r \in Resources, ~ (at[r] <= token)
               PROVE  FALSE
  OBVIOUS
<1>2. token \in Nat /\ at[r] \in Nat /\ at[r] \in OnPath
  BY <1>1, NextOnTheWay, DiscoveryAssumption DEF TypeOK, Placed, Pages, FirstPage
<1>3. token \in 0..(at[r] - 1)
  BY <1>1, <1>2
<1>4. next[token] = token + 1
  BY <1>2, <1>3 DEF OnPath
<1>. QED
  BY <1>2, <1>4 DEF FirstPage

LEMMA ProjectMissesNothing ==
  ASSUME DiscoveryInv, NothingMissing, NEW p \in Projects, NextProject(p)
  PROVE  NothingMissing'
<1>1. /\ pc = "project" /\ p \in projects /\ project' = p /\ projects' = projects \ {p}
      /\ pc' = "search" /\ token' = 0 /\ page' = Nothing /\ out' = out /\ failed' = failed
      /\ at' = at /\ next' = next
  BY DEF NextProject, Open, FirstPage, world
<1>2. GivenUp'
  BY <1>1 DEF NothingMissing, GivenUp
<1>3. CollectedSoFar(Searched)'
  <2>1. \A r \in Resources : at[r] \in Nat
    BY DiscoveryAssumption DEF DiscoveryInv, TypeOK, Pages, FirstPage
  <2>. QED
    BY <1>1, <2>1, EmptyCollection DEF CollectedSoFar
<1>4. ToldSoFar'
  BY <1>1 DEF NothingMissing, ToldSoFar, Told, Scanning
<1>. QED
  BY <1>1, <1>2, <1>3, <1>4 DEF NothingMissing, Placed, OnPath, ScannedSoFar

LEMMA SearchPageMissesNothing ==
  ASSUME DiscoveryInv, NothingMissing, SearchPage
  PROVE  NothingMissing'
<1>. USE DEF DiscoveryInv
<1>1. /\ pc = "search" /\ page' = Collected(page, Assets) /\ projects' = projects
      /\ project' = project /\ at' = at /\ next' = next /\ failed' = failed
  BY DEF SearchPage, world
<1>2. Assets = {r \in Searched : at[r] = token} /\ Searched \subseteq Resources
  BY DiscoveryAssumption DEF Assets, Searched
<1>3. GivenUp'
  BY <1>1 DEF NothingMissing, GivenUp, SearchPage
<1>4. OnPath' = OnPath /\ Placed'
  BY <1>1 DEF OnPath, NothingMissing, Placed
<1>5. Once'
  BY SearchPageStep
<1>6. CASE next[token] = FirstPage
  <2>1. pc' = "project" /\ out' = Plus(out, page')
    BY <1>6 DEF SearchPage
  <2>2. ~ Looping
    <3>1. SUFFICES ASSUME NEW p \in OnPath, next[p] # FirstPage, next[p] <= token, token <= p
                   PROVE  FALSE
      BY DEF Looping
    <3>2. p \in Nat /\ token \in Nat /\ \A q \in 0..(p - 1) : next[q] = q + 1
      BY <3>1, NextOnTheWay, DiscoveryAssumption DEF OnPath, Pages, FirstPage
    <3>3. token # p /\ token \notin 0..(p - 1)
      BY <1>6, <3>1, <3>2 DEF FirstPage
    <3>. QED
      BY <3>1, <3>2, <3>3
  <2>3. \A r \in Resources : page'[r] > 0 <=> r \in Searched
    BY <1>1, <1>2, <1>6, <2>2, PageComplete, NoPageLeft DEF NothingMissing
  <2>4. \A r \in Resources : out'[r] = Capped(out[r] + page'[r])
                             /\ out[r] \in 0..2 /\ page'[r] \in 0..2
    BY <1>1, <2>1, PageCollected, Appended DEF TypeOK, Counts, Many
  <2>5. \A r \in Resources : out'[r] > 0 <=> out[r] > 0 \/ page'[r] > 0
    BY <2>4 DEF Capped, Many
  <2>6. ToldSoFar'
    <3>1. SUFFICES ASSUME NEW r \in Resources, ProjectOf[r] \notin projects
                   PROVE  out'[r] > 0 <=> Told(r)
      BY <1>1, <2>1 DEF ToldSoFar, Told, Scanning
    <3>2. CASE ProjectOf[r] = project
      <4>1. ~ (out[r] > 0) /\ <<project, Search>> \notin failed
        BY <1>1, <3>2 DEF NothingMissing, GivenUp, ProjectsOnce, Scanning
      <4>. QED
        BY <2>3, <2>5, <3>2, <4>1 DEF Told, Searched
    <3>3. CASE ProjectOf[r] # project
      <4>1. out[r] > 0 <=> Told(r)
        BY <3>1, <3>3 DEF NothingMissing, ToldSoFar
      <4>. QED
        BY <2>3, <2>5, <3>3, <4>1 DEF Searched
    <3>. QED
      BY <3>2, <3>3
  <2>. QED
    BY <1>3, <1>4, <2>1, <2>6 DEF NothingMissing, ScannedSoFar
<1>7. CASE next[token] # FirstPage
  <2>1. pc' = "search" /\ out' = out /\ token' = next[token] /\ Searched' = Searched
    BY <1>1, <1>7 DEF SearchPage, Searched
  <2>2. ToldSoFar'
    BY <1>1, <2>1 DEF NothingMissing, ToldSoFar, Told, Scanning
  <2>3. token \in Nat /\ next[token] \in 0..(token + 1) /\ token \in OnPath
    BY NextOnTheWay DEF OnTheWay
  <2>4. CASE next[token] <= token
    <3>1. Looping'
      BY <1>1, <1>4, <1>7, <2>1, <2>3, <2>4 DEF Looping, FirstPage
    <3>. QED
      BY <1>3, <1>4, <2>1, <2>2, <3>1 DEF NothingMissing, ScannedSoFar
  <2>5. CASE next[token] = token + 1 /\ CollectedSoFar(Searched)
    <3>1. \A r \in Resources : page'[r] > 0 <=> r \in Searched /\ at[r] <= token
      BY <1>1, <1>2, <2>5, PageComplete DEF NothingMissing
    <3>2. \A r \in Resources : at[r] \in Nat
      BY DiscoveryAssumption DEF TypeOK, Pages, FirstPage
    <3>3. CollectedSoFar(Searched)'
      BY <1>1, <2>1, <2>3, <2>5, <3>1, <3>2 DEF CollectedSoFar
    <3>. QED
      BY <1>3, <1>4, <2>1, <2>2, <3>3 DEF NothingMissing, ScannedSoFar
  <2>6. CASE next[token] = token + 1 /\ Looping
    <3>1. PICK p \in OnPath : next[p] # FirstPage /\ next[p] <= token /\ token <= p
      BY <2>6 DEF Looping
    <3>2. p \in Nat /\ next[p] \in Nat
      BY <3>1, DiscoveryAssumption DEF TypeOK, OnPath, Pages, FirstPage
    <3>3. token # p
      BY <2>3, <2>6, <3>1, <3>2
    <3>4. Looping'
      BY <1>1, <1>4, <2>1, <2>3, <2>6, <3>1, <3>2, <3>3 DEF Looping
    <3>. QED
      BY <1>3, <1>4, <2>1, <2>2, <3>4 DEF NothingMissing, ScannedSoFar
  <2>7. Looping \/ CollectedSoFar(Searched)
    BY <1>1 DEF NothingMissing
  <2>. QED
    BY <2>3, <2>4, <2>5, <2>6, <2>7
<1>. QED
  BY <1>6, <1>7

LEMMA SearchIsNoType == Search \notin ListTypes
BY DiscoveryAssumption DEF ListTypes

(* What is told of the other projects is left alone by a scan. *)
LEMMA OthersUntouched ==
  ASSUME NothingMissing, Scanning, Scanning',
         projects' = projects, project' = project, out' = out,
         NEW x, failed' = failed \/ failed' = failed \cup {<<project, x>>}
  PROVE  ToldSoFar'
<1>1. SUFFICES ASSUME NEW r \in Resources, ProjectOf[r] \notin projects, ProjectOf[r] # project
               PROVE  out[r] > 0 <=> Told(r)'
  BY DEF ToldSoFar
<1>2. out[r] > 0 <=> Told(r)
  BY <1>1 DEF NothingMissing, ToldSoFar
<1>3. \A y : <<ProjectOf[r], y>> \in failed' <=> <<ProjectOf[r], y>> \in failed
  BY <1>1
<1>. QED
  BY <1>2, <1>3 DEF Told

LEMMA SearchFailsMissesNothing ==
  ASSUME DiscoveryInv, NothingMissing, SearchFails
  PROVE  NothingMissing'
<1>1. /\ pc = "search" /\ pc' = "types" /\ types' = ListTypes /\ scan' = Nothing
      /\ failed' = failed \cup {<<project, Search>>} /\ projects' = projects
      /\ project' = project /\ out' = out /\ at' = at /\ next' = next
  BY DEF SearchFails, world
<1>2. GivenUp'
  <2>1. project \notin projects
    BY <1>1 DEF DiscoveryInv, ProjectsOnce, Scanning
  <2>. QED
    BY <1>1, <2>1, SearchIsNoType DEF NothingMissing, GivenUp
<1>3. ScannedSoFar'
  BY <1>1, EmptyCollection DEF ScannedSoFar
<1>4. ToldSoFar'
  BY <1>1, OthersUntouched DEF Scanning
<1>. QED
  BY <1>1, <1>2, <1>3, <1>4 DEF NothingMissing, Placed, OnPath

LEMMA TypeMissesNothing ==
  ASSUME DiscoveryInv, NothingMissing, NEW t \in ListTypes, NextType(t)
  PROVE  NothingMissing'
<1>1. /\ pc = "types" /\ t \in types /\ types' = types \ {t} /\ scan' = scan /\ failed' = failed
      /\ projects' = projects /\ project' = project /\ out' = out /\ at' = at /\ next' = next
  BY DEF NextType, world
<1>2. /\ t \in Listable => pc' = "list" /\ type' = t /\ token' = 0 /\ page' = Nothing
      /\ t \notin Listable => pc' = "types"
  BY <1>1 DEF NextType, Open, FirstPage
<1>3. GivenUp'
  BY <1>1, <1>2 DEF NothingMissing, GivenUp
<1>4. ScannedSoFar'
  BY <1>1, <1>2 DEF NothingMissing, ScannedSoFar
<1>5. ToldSoFar'
  BY <1>1, <1>2, OthersUntouched DEF Scanning
<1>6. pc' = "list" => CollectedSoFar(Listed)'
  <2>1. \A r \in Resources : at[r] \in Nat
    BY DiscoveryAssumption DEF DiscoveryInv, TypeOK, Pages, FirstPage
  <2>. QED
    BY <1>1, <1>2, <2>1, EmptyCollection DEF CollectedSoFar
<1>7. Placed' /\ pc' # "search"
  BY <1>1, <1>2 DEF NothingMissing, Placed, OnPath
<1>. QED
  BY <1>3, <1>4, <1>5, <1>6, <1>7 DEF NothingMissing

(* With every type listed, what the listings found is what they tell. *)
LEMMA TypesDoneMissesNothing ==
  ASSUME DiscoveryInv, NothingMissing, TypesDone
  PROVE  NothingMissing'
<1>1. /\ pc = "types" /\ types = {} /\ pc' = "project" /\ out' = Plus(out, scan)
      /\ projects' = projects /\ failed' = failed /\ at' = at /\ next' = next
  BY DEF TypesDone, world
<1>2. \A r \in Resources : /\ out'[r] = Capped(out[r] + scan[r])
                           /\ out[r] \in 0..2 /\ scan[r] \in 0..2
  BY <1>1, Appended DEF DiscoveryInv, TypeOK, Counts, Many
<1>3. \A r \in Resources : out'[r] > 0 <=> out[r] > 0 \/ scan[r] > 0
  BY <1>2 DEF Capped, Many
<1>4. \A r \in Resources :
        scan[r] > 0 <=> /\ r \in Identifiable
                        /\ ProjectOf[r] = project
                        /\ TypeOf[r] \in ListTypes \cap Listable
                        /\ <<project, TypeOf[r]>> \notin failed
  BY <1>1 DEF NothingMissing, ScannedSoFar
<1>5. ToldSoFar'
  <2>1. SUFFICES ASSUME NEW r \in Resources, ProjectOf[r] \notin projects
                 PROVE  out'[r] > 0 <=> Told(r)
    BY <1>1 DEF ToldSoFar, Told
  <2>2. CASE ProjectOf[r] = project
    <3>1. ~ (out[r] > 0) /\ <<project, Search>> \in failed
      BY <1>1, <2>2 DEF DiscoveryInv, NothingMissing, GivenUp, ProjectsOnce, Scanning
    <3>. QED
      BY <1>3, <1>4, <2>2, <3>1 DEF Told
  <2>3. CASE ProjectOf[r] # project
    <3>1. out[r] > 0 <=> Told(r)
      BY <2>1, <2>3 DEF NothingMissing, ToldSoFar
    <3>. QED
      BY <1>3, <1>4, <2>3, <3>1
  <2>. QED
    BY <2>2, <2>3
<1>. QED
  BY <1>1, <1>5 DEF NothingMissing, Placed, OnPath, GivenUp, ScannedSoFar

LEMMA ListPageMissesNothing ==
  ASSUME DiscoveryInv, NothingMissing, ListPage
  PROVE  NothingMissing'
<1>. USE DEF DiscoveryInv
<1>1. /\ pc = "list" /\ page' = Collected(page, Items) /\ projects' = projects
      /\ project' = project /\ types' = types /\ type' = type /\ out' = out
      /\ at' = at /\ next' = next /\ failed' = failed
  BY DEF ListPage, world
<1>2. Items = {r \in Listed : at[r] = token} /\ Listed \subseteq Resources /\ Listed' = Listed
  BY <1>1, DiscoveryAssumption DEF Items, Listed
<1>3. \A r \in Resources : page'[r] > 0 <=> r \in Listed /\ at[r] <= token
  BY <1>1, <1>2, PageComplete DEF NothingMissing
<1>4. Placed' /\ pc' \in {"list", "types"}
  BY <1>1 DEF NothingMissing, Placed, OnPath, ListPage
<1>5. GivenUp'
  BY <1>1, <1>4 DEF NothingMissing, GivenUp
<1>6. ToldSoFar'
  BY <1>1, <1>4, OthersUntouched DEF Scanning
<1>7. CASE next[token] = FirstPage
  <2>1. pc' = "types" /\ scan' = Plus(scan, page')
    BY <1>7 DEF ListPage
  <2>2. \A r \in Resources : page'[r] > 0 <=> r \in Listed
    BY <1>3, <1>7, NoPageLeft DEF NothingMissing
  <2>3. \A r \in Resources : /\ scan'[r] = Capped(scan[r] + page'[r])
                             /\ scan[r] \in 0..2 /\ page'[r] \in 0..2
    BY <1>1, <2>1, PageCollected, Appended DEF TypeOK, Counts, Many
  <2>4. \A r \in Resources : scan'[r] > 0 <=> scan[r] > 0 \/ r \in Listed
    BY <2>2, <2>3 DEF Capped, Many
  <2>5. /\ type \in ListTypes \cap Listable /\ type \notin types
        /\ <<project, type>> \notin failed
    BY <1>1 DEF NothingMissing, GivenUp, TypeOK, TypesOnce
  <2>6. ScannedSoFar'
    BY <1>1, <2>1, <2>4, <2>5 DEF NothingMissing, ScannedSoFar, Listed
  <2>. QED
    BY <1>4, <1>5, <1>6, <2>1, <2>6 DEF NothingMissing
<1>8. CASE next[token] # FirstPage
  <2>1. pc' = "list" /\ scan' = scan /\ token' = next[token]
    BY <1>8 DEF ListPage
  <2>2. seen = 1..token /\ next[token] \notin seen
    BY <1>1 DEF ListedOnce, ListPage
  <2>3. next[token] = token + 1 /\ token \in Nat
    BY <1>8, <2>2, NextOnTheWay DEF FirstPage
  <2>4. \A r \in Resources : at[r] \in Nat
    BY DiscoveryAssumption DEF TypeOK, Pages, FirstPage
  <2>5. CollectedSoFar(Listed)'
    BY <1>1, <1>2, <1>3, <2>1, <2>3, <2>4 DEF CollectedSoFar
  <2>6. ScannedSoFar'
    BY <1>1, <2>1 DEF NothingMissing, ScannedSoFar
  <2>. QED
    BY <1>4, <1>5, <1>6, <2>1, <2>5, <2>6 DEF NothingMissing
<1>. QED
  BY <1>7, <1>8

LEMMA ListFailsMissesNothing ==
  ASSUME DiscoveryInv, NothingMissing, ListFails
  PROVE  NothingMissing'
<1>1. /\ pc = "list" /\ pc' = "types" /\ failed' = failed \cup {<<project, type>>}
      /\ projects' = projects /\ project' = project /\ types' = types /\ type' = type
      /\ scan' = scan /\ out' = out /\ at' = at /\ next' = next
  BY DEF ListFails, world
<1>2. type \notin types /\ type \in ListTypes /\ project \notin projects
  BY <1>1 DEF DiscoveryInv, TypesOnce, ProjectsOnce, Scanning, NothingMissing, GivenUp
<1>3. GivenUp'
  BY <1>1, <1>2 DEF NothingMissing, GivenUp
<1>4. ScannedSoFar'
  <2>1. \A t : <<project, t>> \notin failed' <=> <<project, t>> \notin failed /\ t # type
    BY <1>1
  <2>. QED
    BY <1>1, <2>1 DEF NothingMissing, ScannedSoFar
<1>5. ToldSoFar'
  BY <1>1, OthersUntouched DEF Scanning
<1>. QED
  BY <1>1, <1>3, <1>4, <1>5 DEF NothingMissing, Placed, OnPath

(* Discover returns with every project scanned. *)
AllScanned == pc = "done" => projects = {}

LEMMA NothingMissingInductive ==
  ASSUME DiscoveryInv, NothingMissing, AllScanned, [Next]_vars
  PROVE  NothingMissing' /\ AllScanned'
<1>1. ASSUME Finish PROVE NothingMissing'
  BY <1>1 DEF Finish, world, NothingMissing, Placed, OnPath, GivenUp, ScannedSoFar, ToldSoFar,
              Told, Scanning
<1>2. ASSUME UNCHANGED vars PROVE NothingMissing'
  BY <1>2 DEF vars, world, NothingMissing, Placed, OnPath, GivenUp, Looping, CollectedSoFar,
              Searched, Listed, ScannedSoFar, ToldSoFar, Told, Scanning
<1>3. NothingMissing'
  BY <1>1, <1>2, ProjectMissesNothing, SearchPageMissesNothing, SearchFailsMissesNothing,
     TypeMissesNothing, TypesDoneMissesNothing, ListPageMissesNothing, ListFailsMissesNothing
     DEF Next
<1>4. AllScanned'
  BY DEF AllScanned, Next, vars, NextProject, SearchPage, SearchFails, NextType, TypesDone,
         ListPage, ListFails, Finish, Open
<1>. QED
  BY <1>3, <1>4

(* Discover fails open: a scan that fails hides nothing but what it alone  *)
(* would have told, whatever the other scans meet with.                    *)
THEOREM DiscoveryFailsOpen == Spec => []FailsOpen
<1>1. Init => NothingMissing /\ AllScanned
  BY DiscoveryAssumption DEF Init, NothingMissing, Placed, GivenUp, ScannedSoFar, ToldSoFar, Scanning, AllScanned
<1>2. DiscoveryInv /\ NothingMissing /\ AllScanned => FailsOpen
  BY DiscoveryAssumption
     DEF NothingMissing, AllScanned, ToldSoFar, Told, Scanning, FailsOpen
<1>. QED
  BY <1>1, <1>2, NothingMissingInductive, DiscoveryInvariant, PTL DEF Spec
=============================================================================
