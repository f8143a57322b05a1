--------------------------- MODULE CatalogProofs ---------------------------
(***************************************************************************)
(* The names of the types, for every history of releases, every order of   *)
(* naming and every point a generation may die at: distinct, and kept once *)
(* they are released.  Ids: what a path of any length is expanded to       *)
(* parses back into the values it was made from, through escaping, joining *)
(* and splitting, and leads back to the resource (urls.go, ids.go, itemURL *)
(* of crud.go).  And the record of a resource, through whatever creates,   *)
(* imports, reads, changes, deletes and releases: where every type fits    *)
(* its API (CatalogFits) it is the one full name of what GCP has, every    *)
(* request is one that the API publishes, what is created is recorded,     *)
(* what is deleted is gone, and state keeps what was configured.           *)
(***************************************************************************)
EXTENDS CatalogFits, SequenceTheorems, WellFoundedInduction, TLAPS

Covers(f, g) == \A k \in DOMAIN g : k \in DOMAIN f /\ f[k] = g[k]

\* NamesAreDistinct is not inductive: a torn lock falls back to the published
\* one, and an abandoned generation to the lock, so those are distinct too;
\* and a catalog is published under names that the lock has.
NamingInv ==
  /\ TypeOK
  /\ Injective(Known)
  /\ Injective(published)
  /\ Covers(lock, published)
  /\ phase \in {"idle", "built"} => assigned = Nothing
  /\ phase \in {"saving", "built"} => \A c \in candidates : Key(c) \in DOMAIN Known

-----------------------------------------------------------------------------
(* Names by key *)

LEMMA NothingIsANaming == IsNaming(Nothing) /\ DOMAIN Nothing = {} /\ Injective(Nothing)
  BY DEF Nothing, IsNaming, Injective

LEMMA ExtendIsANaming ==
  ASSUME NEW f, NEW g, IsNaming(f), IsNaming(g)
  PROVE  IsNaming(Extend(f, g)) /\ DOMAIN Extend(f, g) = DOMAIN f \cup DOMAIN g
  BY DEF IsNaming, Extend

LEMMA ExtendContains ==
  ASSUME NEW f, NEW g
  PROVE  Covers(Extend(f, g), f)
  BY DEF Covers, Extend

\* What is in an injective function is injective.
LEMMA PartIsInjective ==
  ASSUME NEW f, NEW g, Covers(f, g), Injective(f)
  PROVE  Injective(g)
  BY DEF Covers, Injective

LEMMA ExtendNothing ==
  ASSUME NEW f, IsNaming(f)
  PROVE  Extend(f, Nothing) = f
<1>1. DOMAIN Extend(f, Nothing) = DOMAIN f
  BY DEF Extend, Nothing
<1>2. \A k \in DOMAIN f : Extend(f, Nothing)[k] = f[k]
  BY DEF Extend, Nothing
<1>3. f = [k \in DOMAIN f |-> f[k]]
  BY DEF IsNaming
<1> QED BY <1>1, <1>2, <1>3 DEF Extend, Nothing

LEMMA BindIsANaming ==
  ASSUME NEW f, NEW k \in Keys, NEW n \in NameWords, IsNaming(f)
  PROVE  IsNaming(Bind(f, k, n)) /\ DOMAIN Bind(f, k, n) = DOMAIN f \cup {k}
  BY DEF IsNaming, Bind

LEMMA ChosenNameIsAName ==
  ASSUME NEW c \in Candidates
  PROVE  ChosenName(c) \in NameWords /\ Key(c) \in Keys
  BY DEF ChosenName, NameWords, Keys

LEMMA KnownIsANaming ==
  ASSUME IsNaming(lock), IsNaming(assigned)
  PROVE  IsNaming(Known) /\ DOMAIN Known = DOMAIN lock \cup DOMAIN assigned
  BY ExtendIsANaming DEF Known

\* A name that no other key has keeps a naming injective.
LEMMA BindIsInjective ==
  ASSUME NEW f, NEW k, NEW n, Injective(f), k \notin DOMAIN f, \A j \in DOMAIN f : f[j] # n
  PROVE  Injective(Bind(f, k, n))
  BY DEF Injective, Bind

\* What is bound beside the lock is bound in what everyone has.
LEMMA ExtendBind ==
  ASSUME NEW f, NEW g, NEW k, NEW n, k \notin DOMAIN f
  PROVE  Extend(f, Bind(g, k, n)) = Bind(Extend(f, g), k, n)
<1>1. DOMAIN Bind(g, k, n) = DOMAIN g \cup {k}
  BY DEF Bind
<1>2. \A j \in DOMAIN f \cup (DOMAIN g \cup {k}) :
        Extend(f, Bind(g, k, n))[j] = Bind(Extend(f, g), k, n)[j]
  BY DEF Extend, Bind
<1> QED BY <1>1, <1>2 DEF Extend, Bind

-----------------------------------------------------------------------------
(* The generations *)

LEMMA NamingStarts == NamingInit => NamingInv
  BY NothingIsANaming, ExtendNothing DEF NamingInit, NamingInv, TypeOK, Known, Covers, Nothing

LEMMA NamingStep ==
  ASSUME NamingInv, [NamingNext]_naming
  PROVE  NamingInv'
<1> USE DEF NamingInv, TypeOK
<1>0. IsNaming(Nothing) /\ Injective(Nothing) /\ DOMAIN Nothing = {}
  BY NothingIsANaming
<1>1. Extend(lock, Nothing) = lock
  BY ExtendNothing
<1>2. Injective(lock)
  BY ExtendContains, PartIsInjective DEF Known
<1>3. IsNaming(Known) /\ DOMAIN Known = DOMAIN lock \cup DOMAIN assigned
  BY KnownIsANaming
<1>4. ASSUME NEW cs \in Generations, Load(cs)
      PROVE  NamingInv'
  <2>1. Known' = lock
    BY <1>4, <1>1 DEF Load, Known
  <2> QED BY <1>4, <1>0, <1>2, <2>1, NamingAssumption DEF Load
<1>5. ASSUME NEW c \in Candidates, NameNext(c)
      PROVE  NamingInv'
  <2>1. ChosenName(c) \in NameWords /\ Key(c) \in Keys
    BY ChosenNameIsAName
  <2>2. IsNaming(assigned')
    BY <1>5, <2>1, BindIsANaming DEF NameNext
  <2>3. Key(c) \notin DOMAIN Known
    BY <1>5, <1>3 DEF NameNext, Fresh
  <2>4. Known' = Bind(Known, Key(c), ChosenName(c))
    BY <1>5, ExtendBind DEF NameNext, Fresh, Known
  <2>5. \A j \in DOMAIN Known : Known[j] # ChosenName(c)
    BY <1>5, <2>3 DEF NameNext, TakenByOther
  <2>6. Injective(Known')
    BY <2>3, <2>4, <2>5, BindIsInjective
  <2> QED BY <1>5, <2>2, <2>6 DEF NameNext
<1>6. ASSUME NEW c \in Candidates, NameNone(c)
      PROVE  NamingInv'
  <2>1. Known' = lock
    BY <1>6, <1>1 DEF NameNone, Known
  <2> QED BY <1>6, <1>0, <1>2, <2>1 DEF NameNone
<1>7. CASE SaveBegins
  <2>1. \A c \in candidates : Key(c) \in DOMAIN Known
    BY <1>7, <1>3 DEF SaveBegins, AllNamed, Fresh
  <2> QED BY <1>7, <2>1 DEF SaveBegins, Known
<1>8. CASE SaveEnds
  <2>1. Known' = Known
    BY <1>8, <1>3, ExtendNothing DEF SaveEnds, Known
  <2>2. Covers(Known, published)
    BY DEF Covers, Known, Extend
  <2>3. phase = "saving" /\ phase' = "built" /\ lock' = Known /\ assigned' = Nothing
        /\ torn' = FALSE /\ UNCHANGED <<candidates, published, served>>
    BY <1>8 DEF SaveEnds
  <2> QED BY <2>1, <2>2, <2>3, <1>0, <1>3
<1>9. ASSUME NEW built \in SUBSET candidates, Publish(built)
      PROVE  NamingInv'
  <2>1. Known' = Known
    BY <1>9 DEF Publish, Known
  <2>2. \A c \in built : NameFor(c) \in NameWords
    BY <1>9, <1>3 DEF Publish, NameFor, IsNaming
  <2>3. DOMAIN served' \subseteq NameWords
    BY <1>9, <2>2 DEF Publish
  <2>4. \A n \in DOMAIN served' : served'[n] \in Candidates
    BY <1>9 DEF Publish
  <2>5. served' \in [DOMAIN served' -> Candidates]
    BY <1>9, <2>4 DEF Publish
  <2>6. assigned = Nothing /\ Known = lock
    BY <1>9, <1>1 DEF Publish, Known
  <2>7. UNCHANGED <<lock, torn, assigned>> /\ published' = lock /\ phase' = "idle" /\ candidates' = {}
    BY <1>9 DEF Publish
  <2>8. Covers(lock, lock)
    BY DEF Covers
  <2> QED BY <2>1, <2>3, <2>5, <2>6, <2>7, <2>8, <1>2
<1>10. CASE Abandon
  <2>1. Known' = lock
    BY <1>10, <1>1 DEF Abandon, Known
  <2> QED BY <1>10, <1>0, <1>2, <2>1 DEF Abandon
<1>11. CASE Restore
  <2>1. assigned = Nothing /\ Known' = published
    BY <1>11, ExtendNothing DEF Restore, Known
  <2>2. Covers(published, published)
    BY DEF Covers
  <2> QED BY <1>11, <2>1, <2>2 DEF Restore
<1>12. CASE UNCHANGED naming
  BY <1>12 DEF naming, Known, Extend, Injective, Covers, IsNaming
<1> QED BY <1>4, <1>5, <1>6, <1>7, <1>8, <1>9, <1>10, <1>11, <1>12 DEF NamingNext, Assigning

LEMMA NamesKeptByStep ==
  ASSUME NamingInv, [NamingNext]_naming
  PROVE  /\ Covers(lock', published)
         /\ Covers(published', published)
<1>1. Covers(lock, published) /\ Covers(published, published)
  BY DEF NamingInv, Covers
<1>2. Covers(Known, published)
  BY <1>1 DEF Covers, Known, Extend
<1> QED BY <1>1, <1>2 DEF NamingNext, naming, Load, Assigning, NameNext, NameNone, SaveBegins,
                           SaveEnds, Publish, Abandon, Restore

-----------------------------------------------------------------------------
(* The order of naming *)

\* NamesIgnoreTheOrder is not inductive either: that a name given in full is
\* nobody's short one has to be known of the names already given.
GivenByNameFor ==
  phase = "naming" =>
    \A k \in DOMAIN assigned :
      \E c \in Fresh : Key(c) = k /\ assigned[k] \in {Short(c), QualifiedName(c)}

LEMMA LengthOfFullName ==
  ASSUME NEW c \in Candidates
  PROVE  /\ Len(c.resource) \in Nat /\ Len(QualifiedName(c)) \in Nat
         /\ Len(c.resource) > 0 /\ Len(QualifiedName(c)) > Len(c.resource)
<1>1. c.resource \in Seq(STRING) /\ <<c.service>> \in Seq(STRING) /\ <<c.service, c.scope>> \in Seq(STRING)
  <2>1. c.service \in STRING /\ c.scope \in STRING /\ c.resource \in Seq(STRING)
    BY NamingAssumption
  <2> QED BY <2>1
<1>2. Len(<<c.service>>) = 1 /\ Len(<<c.service, c.scope>>) = 2
  OBVIOUS
<1>3. Len(<<c.service>> \o c.resource) = 1 + Len(c.resource)
  BY <1>1, <1>2, ConcatProperties
<1>4. Len(<<c.service, c.scope>> \o c.resource) = 2 + Len(c.resource)
  BY <1>1, <1>2, ConcatProperties
<1>5. Len(c.resource) \in Nat /\ Len(c.resource) > 0
  <2>1. Len(c.resource) > 0
    BY NamingAssumption
  <2> QED BY <1>1, <2>1
<1>6. \/ QualifiedName(c) = <<c.service>> \o c.resource
      \/ QualifiedName(c) = <<c.service, c.scope>> \o c.resource
  BY Zenon DEF QualifiedName
<1>7. \/ Len(QualifiedName(c)) = 1 + Len(c.resource)
      \/ Len(QualifiedName(c)) = 2 + Len(c.resource)
  BY <1>3, <1>4, <1>6, Zenon
<1> QED BY <1>5, <1>7

LEMMA ShortIsNotQualified ==
  ASSUME NEW c \in Candidates, NEW d \in Candidates, ~d.qualified
  PROVE  QualifiedName(c) # Short(d)
<1>1. ~(Len(d.resource) > 1)
  BY NamingAssumption
<1> QED BY <1>1, LengthOfFullName DEF Short

LEMMA FullIsLonger ==
  ASSUME NEW c \in Candidates
  PROVE  QualifiedName(c) # Short(c)
  BY LengthOfFullName DEF Short

LEMMA ShareAKey ==
  ASSUME NEW c \in Candidates, NEW d \in Candidates, Key(c) = Key(d)
  PROVE  /\ c.resource = d.resource /\ c.scope = d.scope
         /\ c.qualified <=> d.qualified
  BY NamingAssumption DEF Key

\* Whom nameFor names short.
ShortForAll(c) ==
  /\ c.scope = "" /\ ~c.qualified
  /\ ~Contested(c) /\ c.resource[1] \notin GenericWords
  /\ \A k \in DOMAIN lock : lock[k] # Short(c)

\* The names given so far do not change whom it is.
LEMMA ShortWhateverIsNamed ==
  ASSUME NamingInv, NamesIgnoreTheOrder, GivenByNameFor, phase = "naming",
         NEW c \in Fresh, Key(c) \notin DOMAIN assigned
  PROVE  ChosenName(c) = Short(c) <=> ShortForAll(c)
<1>0. candidates \subseteq Candidates /\ c \in Candidates /\ Key(c) \notin DOMAIN lock
  BY DEF NamingInv, TypeOK, Fresh
<1>1. /\ DOMAIN Known = DOMAIN lock \cup DOMAIN assigned
      /\ \A k \in DOMAIN lock : Known[k] = lock[k]
      /\ \A k \in DOMAIN Known \ DOMAIN lock : Known[k] = assigned[k]
  BY DEF Known, Extend
<1>2. ASSUME ChosenName(c) = Short(c)
      PROVE  ShortForAll(c)
  <2>1. TakesShort(c)
    <3>1. CASE TakesShort(c)
      BY <3>1
    <3>2. CASE ~TakesShort(c) /\ ~c.qualified
      BY <3>2, <1>0, <1>2, ShortIsNotQualified DEF ChosenName
    <3>3. CASE c.qualified
      <4>1. ChosenName(c) = QualifiedName(c)
        BY <3>3 DEF ChosenName, TakesShort
      <4> QED BY <4>1, <1>0, <1>2, <3>3, FullIsLonger
    <3> QED BY <3>1, <3>2, <3>3
  <2> QED BY <2>1, <1>0, <1>1 DEF TakesShort, TakenByOther, ShortForAll
<1>3. ASSUME ShortForAll(c)
      PROVE  ChosenName(c) = Short(c)
  <2>1. ASSUME NEW k \in DOMAIN assigned, assigned[k] = Short(c)
        PROVE  FALSE
    <3>1. PICK d \in Fresh : Key(d) = k /\ assigned[k] \in {Short(d), QualifiedName(d)}
      BY <2>1 DEF GivenByNameFor
    <3>2. d \in Candidates /\ d # c
      BY <1>0, <2>1, <3>1 DEF Fresh
    <3>3. assigned[k] = Short(d)
      BY <2>1, <3>1, <3>2, <1>0, <1>3, ShortIsNotQualified DEF ShortForAll
    <3>4. d.scope = "" /\ ~d.qualified
      BY <3>1, <3>3 DEF NamesIgnoreTheOrder
    <3>5. d \in Wanted(c)
      BY <3>1, <3>3, <3>4, <2>1 DEF Wanted, Short
    <3> QED BY <3>2, <3>5, <1>3 DEF ShortForAll, Contested
  <2>2. ~TakenByOther(c, Short(c))
    <3> SUFFICES ASSUME NEW k \in DOMAIN Known, Known[k] = Short(c)
                 PROVE  FALSE
      BY DEF TakenByOther
    <3>1. CASE k \in DOMAIN lock
      BY <3>1, <1>1, <1>3 DEF ShortForAll
    <3>2. CASE k \notin DOMAIN lock
      BY <3>2, <1>1, <2>1
    <3> QED BY <3>1, <3>2
  <2> QED BY <2>2, <1>3 DEF ChosenName, TakesShort, ShortForAll
<1> QED BY <1>2, <1>3

LEMMA OrderStarts == NamingInit => NamesIgnoreTheOrder /\ GivenByNameFor
  BY DEF NamingInit, NamesIgnoreTheOrder, GivenByNameFor

LEMMA OrderStep ==
  ASSUME NamingInv, NamesIgnoreTheOrder, GivenByNameFor, [NamingNext]_naming
  PROVE  NamesIgnoreTheOrder' /\ GivenByNameFor'
<1>1. ASSUME NEW cs \in Generations, Load(cs)
      PROVE  NamesIgnoreTheOrder' /\ GivenByNameFor'
  <2>1. DOMAIN assigned' = {}
    BY <1>1, NothingIsANaming DEF Load
  <2> QED BY <2>1 DEF NamesIgnoreTheOrder, GivenByNameFor
<1>2. ASSUME NEW c \in Candidates, NameNext(c)
      PROVE  NamesIgnoreTheOrder' /\ GivenByNameFor'
  <2>0. /\ phase = "naming" /\ c \in Fresh /\ Key(c) \notin DOMAIN assigned
        /\ Fresh' = Fresh /\ lock' = lock /\ Fresh \subseteq Candidates
    BY <1>2 DEF NameNext, Fresh, NamingInv, TypeOK
  <2>1. /\ DOMAIN assigned' = DOMAIN assigned \cup {Key(c)}
        /\ assigned'[Key(c)] = ChosenName(c)
        /\ \A k \in DOMAIN assigned : assigned'[k] = assigned[k]
    BY <1>2, <2>0 DEF NameNext, Bind
  <2>2. ChosenName(c) = Short(c) <=> ShortForAll(c)
    BY <2>0, ShortWhateverIsNamed
  <2>3. \A d \in Fresh : Contested(d)' <=> Contested(d)
    BY <2>0 DEF Contested, Wanted
  <2>4. ASSUME NEW d \in Fresh, Key(d) \in DOMAIN assigned'
        PROVE  assigned'[Key(d)] = Short(d) <=> ShortForAll(d)
    <3>1. CASE Key(d) # Key(c)
      <4>1. Key(d) \in DOMAIN assigned /\ assigned'[Key(d)] = assigned[Key(d)]
        BY <3>1, <2>1, <2>4
      <4> QED BY <4>1, <2>0 DEF NamesIgnoreTheOrder, ShortForAll
    <3>2. CASE Key(d) = Key(c)
      <4>1. c.resource = d.resource /\ c.scope = d.scope /\ (c.qualified <=> d.qualified)
        BY <3>2, <2>0, ShareAKey
      <4>2. Short(d) = Short(c) /\ Wanted(d) = Wanted(c)
        BY <4>1 DEF Short, Wanted
      <4>3. ASSUME c.scope = "", ~c.qualified
            PROVE  Contested(d) <=> Contested(c)
        BY <4>1, <4>2, <4>3, <2>0 DEF Contested, Wanted
      <4>4. ShortForAll(d) <=> ShortForAll(c)
        BY <4>1, <4>2, <4>3 DEF ShortForAll
      <4> QED BY <4>2, <4>4, <2>1, <2>2, <3>2
    <3> QED BY <3>1, <3>2
  <2>5. NamesIgnoreTheOrder'
    BY <2>0, <2>3, <2>4 DEF NamesIgnoreTheOrder, ShortForAll
  <2>6. GivenByNameFor'
    <3>1. ChosenName(c) \in {Short(c), QualifiedName(c)}
      BY DEF ChosenName
    <3>2. \A k \in DOMAIN assigned' : \E d \in Fresh :
             Key(d) = k /\ assigned'[k] \in {Short(d), QualifiedName(d)}
      BY <2>0, <2>1, <3>1 DEF GivenByNameFor
    <3> QED BY <2>0, <3>2 DEF GivenByNameFor
  <2> QED BY <2>5, <2>6
<1>3. CASE phase' # "naming"
  BY <1>3 DEF NamesIgnoreTheOrder, GivenByNameFor
<1>4. CASE UNCHANGED naming
  BY <1>4 DEF naming, NamesIgnoreTheOrder, GivenByNameFor, Fresh, Contested, Wanted
<1>5. ASSUME NEW c \in Candidates, NameNone(c)
      PROVE  phase' # "naming"
  BY <1>5 DEF NameNone
<1>6. SaveBegins \/ SaveEnds \/ Abandon \/ (\E built \in SUBSET candidates : Publish(built))
      => phase' # "naming"
  BY DEF SaveBegins, SaveEnds, Abandon, Publish
<1>7. Restore => phase' # "naming"
  BY DEF Restore
<1> QED BY <1>1, <1>2, <1>3, <1>4, <1>5, <1>6, <1>7 DEF NamingNext, Assigning

-----------------------------------------------------------------------------
(* The catalog *)

\* A generation names what the release at hand asks for.
FollowsReleases ==
  /\ releases \in Seq(Offered)
  /\ phase # "idle" => releases # <<>> /\ candidates = Head(releases).named

CatalogInv == NamingInv /\ NamesIgnoreTheOrder /\ GivenByNameFor /\ FollowsReleases

\* Every step of the catalog is one of Naming's, or leaves the names alone.
LEMMA CatalogStepNames ==
  ASSUME FollowsReleases, [Next]_vars
  PROVE  [NamingNext]_naming
<1> USE DEF NamingNext
<1>1. ASSUME Generate
      PROVE  NamingNext
  <2>1. Head(releases) \in Offered
    BY <1>1 DEF Generate, FollowsReleases
  <2>2. Head(releases).named \in Generations
    BY <2>1, CatalogAssumption
  <2> QED BY <1>1, <2>2 DEF Generate
<1>2. ASSUME Release
      PROVE  NamingNext
  <2>1. phase # "idle"
    BY <1>2 DEF Release, Publish
  <2>2. Head(releases) \in Offered /\ candidates = Head(releases).named
    BY <2>1 DEF FollowsReleases
  <2>3. DOMAIN Head(releases).types \in SUBSET candidates
    BY <2>2, CatalogAssumption
  <2> QED BY <1>2, <2>3 DEF Release
<1>3. NameOne \/ SaveLock \/ GenerationDies \/ LockRestored => NamingNext
  BY DEF NameOne, SaveLock, GenerationDies, LockRestored
<1>4. ASSUME NEW name \in DOMAIN types, Create(name) \/ Import(name)
      PROVE  UNCHANGED naming
  BY <1>4 DEF Create, CreateAs, Import
<1>5. ASSUME NEW a \in DOMAIN config, Change(a)
      PROVE  UNCHANGED naming
  BY <1>5 DEF Change
<1>6. Read \/ Forget \/ Delete \/ UNCHANGED vars => UNCHANGED naming
  BY DEF Read, Forget, Delete, vars
<1> QED BY <1>1, <1>2, <1>3, <1>4, <1>5, <1>6 DEF Next

LEMMA CatalogStarts == Init => CatalogInv
<1> SUFFICES ASSUME Init PROVE CatalogInv
  OBVIOUS
<1>1. NamingInit
  BY DEF Init
<1>2. releases \in Seq(Offered) /\ phase = "idle"
  BY CatalogAssumption DEF Init, NamingInit
<1> QED BY <1>1, <1>2, NamingStarts, OrderStarts DEF CatalogInv, FollowsReleases

LEMMA CatalogStep ==
  ASSUME CatalogInv, [Next]_vars
  PROVE  CatalogInv'
<1>1. NamingInv' /\ NamesIgnoreTheOrder' /\ GivenByNameFor'
  BY CatalogStepNames, NamingStep, OrderStep DEF CatalogInv
<1>2. FollowsReleases'
  <2> USE DEF CatalogInv, FollowsReleases
  <2>1. CASE Generate
    BY <2>1 DEF Generate, Load
  <2>2. CASE NameOne
    BY <2>2 DEF NameOne, Assigning, NameNext, NameNone
  <2>3. CASE SaveLock
    BY <2>3 DEF SaveLock, SaveBegins, SaveEnds
  <2>4. CASE Release
    <3>1. phase' = "idle" /\ releases # <<>>
      BY <2>4 DEF Release, Publish
    <3>2. Tail(releases) \in Seq(Offered)
      BY <3>1
    <3> QED BY <2>4, <3>1, <3>2 DEF Release
  <2>5. CASE GenerationDies
    BY <2>5 DEF GenerationDies, Abandon
  <2>6. CASE LockRestored
    BY <2>6 DEF LockRestored, Restore
  <2>7. ASSUME UNCHANGED naming, UNCHANGED releases
        PROVE  FollowsReleases'
    BY <2>7 DEF naming
  <2>8. ASSUME NEW name \in DOMAIN types, Create(name) \/ Import(name)
        PROVE  FollowsReleases'
    BY <2>8, <2>7 DEF Create, CreateAs, Import
  <2>9. ASSUME NEW a \in DOMAIN config, Change(a)
        PROVE  FollowsReleases'
    BY <2>9, <2>7 DEF Change
  <2>10. CASE Read \/ Forget \/ Delete \/ UNCHANGED vars
    BY <2>10, <2>7 DEF Read, Forget, Delete, vars
  <2> QED BY <2>1, <2>2, <2>3, <2>4, <2>5, <2>6, <2>8, <2>9, <2>10 DEF Next
<1> QED BY <1>1, <1>2 DEF CatalogInv

LEMMA CatalogInvariant == Spec => []CatalogInv
<1>1. CatalogInv /\ [Next]_vars => CatalogInv'
  BY CatalogStep
<1> QED BY CatalogStarts, <1>1, PTL DEF Spec

-----------------------------------------------------------------------------
(* Theorems *)

\* The names, the lock and the generation have their types, whatever is
\* released (Assign, Lock and Build's two passes).
THEOREM NamingTypeCorrect == Spec => []TypeOK
<1>1. CatalogInv => TypeOK
  BY DEF CatalogInv, NamingInv
<1> QED BY CatalogInvariant, <1>1, PTL

\* No two candidates have one name, in the lock or in the making (nameFor).
THEOREM NamesStayDistinct == Spec => []NamesAreDistinct
<1>1. CatalogInv => NamesAreDistinct
  BY DEF CatalogInv, NamingInv, NamesAreDistinct
<1> QED BY CatalogInvariant, <1>1, PTL

\* Who is named short does not hang on the order of naming (Assign).
THEOREM OrderIsIgnored == Spec => []NamesIgnoreTheOrder
<1>1. CatalogInv => NamesIgnoreTheOrder
  BY DEF CatalogInv
<1> QED BY CatalogInvariant, <1>1, PTL

\* A released name stays with its key, over every history of releases,
\* deaths, torn locks and restored ones (LoadLock, Assign, Save).
THEOREM ReleasedNamesStay == Spec => ReleasedNamesAreKept
<1>1. CatalogInv /\ [Next]_vars =>
        [\A k \in DOMAIN published :
           /\ k \in DOMAIN lock' /\ lock'[k] = published[k]
           /\ k \in DOMAIN published' /\ published'[k] = published[k]]_naming
  BY CatalogStepNames, NamesKeptByStep DEF CatalogInv, Covers
<1> QED BY CatalogInvariant, <1>1, PTL DEF Spec, ReleasedNamesAreKept

\* What the catalog does with names is what Naming says: a life under the
\* served types changes none.
THEOREM CatalogIsANaming == Spec => NamingSpec
<1>1. Init => NamingInit
  BY DEF Init
<1>2. CatalogInv /\ [Next]_vars => [NamingNext]_naming
  BY CatalogStepNames DEF CatalogInv
<1> QED BY CatalogInvariant, <1>1, <1>2, PTL DEF Spec, NamingSpec

-----------------------------------------------------------------------------
(* Counting, and the last of some numbers.  (Induction as a statement      *)
(* about a set: S is what the law holds of.)                               *)

LEMMA LeastOf ==
  ASSUME NEW T \in SUBSET Nat, T # {}
  PROVE  \E m \in T : \A k \in T : m <= k
<1>. DEFINE Below == {p \in Nat \X Nat : p[1] < p[2]}
<1>1. IsWellFoundedOn(Below, Nat)
  BY NatLessThanWellFounded DEF OpToRel
<1>2. PICK x \in T : \A y \in T : ~ (<<y, x>> \in Below)
  BY <1>1, WFMin
<1>3. ASSUME NEW y \in T
      PROVE  x <= y
  <2>1. y < x => <<y, x>> \in Below
    OBVIOUS
  <2>. QED
    BY <1>2, <2>1
<1>. QED
  BY <1>3

LEMMA CountingUp ==
  ASSUME NEW S, 0 \in S, \A n \in Nat : n \in S => n + 1 \in S
  PROVE  Nat \subseteq S
<1>1. SUFFICES ASSUME Nat \ S # {}
               PROVE  FALSE
  OBVIOUS
<1>2. PICK x \in Nat \ S : \A y \in Nat \ S : x <= y
  BY <1>1, LeastOf
<1>3. x # 0 /\ x - 1 \in Nat /\ ~ (x <= x - 1) /\ (x - 1) + 1 = x
  BY <1>2
<1>. QED
  BY <1>2, <1>3

LEMMA Appending ==
  ASSUME NEW T, NEW S, <<>> \in S, \A s \in Seq(T), e \in T : s \in S => Append(s, e) \in S
  PROVE  Seq(T) \subseteq S
<1>. DEFINE N == {n \in Nat : \A s \in Seq(T) : Len(s) = n => s \in S}
<1>1. 0 \in N
  <2>1. ASSUME NEW s \in Seq(T), Len(s) = 0
        PROVE  s = <<>>
    BY <2>1
  <2>. QED
    BY <2>1
<1>2. ASSUME NEW n \in Nat, n \in N
      PROVE  n + 1 \in N
  <2>1. ASSUME NEW s \in Seq(T), Len(s) = n + 1
        PROVE  s \in S
    <3>1. s # <<>>
      BY <2>1
    <3>2. PICK t \in Seq(T), e \in T : s = Append(t, e)
      BY <3>1, SequenceEmptyOrAppend
    <3>3. Len(t) = n
      BY <2>1, <3>2
    <3>4. t \in S
      BY <1>2, <3>3
    <3>. QED
      BY <3>2, <3>4
  <2>. QED
    BY <2>1
<1>3. Nat \subseteq N
  <2>. HIDE DEF N
  <2>. QED
    BY <1>1, <1>2, CountingUp
<1>4. ASSUME NEW s \in Seq(T)
      PROVE  s \in S
  <2>1. Len(s) \in N
    BY <1>3
  <2>. QED
    BY <2>1
<1>. QED
  BY <1>4

LEMMA MaxIsLast ==
  ASSUME NEW n \in Nat, NEW s \in SUBSET (1..n + 1), n + 1 \in s
  PROVE  Max(s) = n + 1
<1>1. \A y \in s : n + 1 >= y
  OBVIOUS
<1>2. \A x \in s : (\A y \in s : x >= y) => x = n + 1
  OBVIOUS
<1>. QED
  BY <1>1, <1>2 DEF Max

LEMMA LastOf ==
  ASSUME NEW n \in Nat, n # 0
  PROVE  Max(1..n) = n /\ (1..n) \ {n} = 1..n - 1 /\ 1..n # {}
<1>1. n - 1 \in Nat /\ (n - 1) + 1 = n
  OBVIOUS
<1>2. Max(1..n) = n
  <2>1. 1..n \in SUBSET (1..(n - 1) + 1) /\ (n - 1) + 1 \in 1..n
    BY <1>1
  <2>. QED
    BY <1>1, <2>1, MaxIsLast
<1>3. (1..n) \ {n} = 1..n - 1
  BY <1>1
<1>. QED
  BY <1>2, <1>3

LEMMA MaxIn ==
  ASSUME NEW n \in Nat, NEW s \in SUBSET (1..n), s # {}
  PROVE  Max(s) \in s /\ \A y \in s : Max(s) >= y
<1>. DEFINE T == {k \in Nat : n - k \in s}
<1>1. T # {}
  <2>1. PICK x \in s : TRUE
    OBVIOUS
  <2>2. n - x \in Nat /\ n - (n - x) = x
    BY <2>1
  <2>. QED
    BY <2>2
<1>2. PICK m \in T : \A k \in T : m <= k
  <2>. HIDE DEF T
  <2>1. T \in SUBSET Nat
    BY DEF T
  <2>. QED
    BY <1>1, <2>1, LeastOf
<1>3. ASSUME NEW y \in s
      PROVE  n - m >= y
  <2>1. n - y \in Nat /\ n - (n - y) = y
    OBVIOUS
  <2>2. n - y \in T
    BY <2>1
  <2>. QED
    BY <1>2, <2>1, <2>2
<1>4. n - m \in s
  BY <1>2
<1>. QED
  BY <1>3, <1>4 DEF Max

-----------------------------------------------------------------------------
(* Folds from the left.  The library defines a fold as a function of the   *)
(* sets of places it is over, and what such a function is has to be shown  *)
(* to exist.                                                               *)

Folds(g, L, base, op) ==
  g = [s \in SUBSET (1..L) |->
         IF s = {} THEN base ELSE op[<<g[s \ {Max(s)}], Max(s)>>]]

CanFold(n, V, base, op) == \E g \in [SUBSET (1..n) -> V] : Folds(g, n, base, op)

LEMMA FoldExists ==
  ASSUME NEW V, NEW base \in V, NEW L \in Nat, NEW op \in [V \X (1..L) -> V]
  PROVE  CanFold(L, V, base, op)
<1>. DEFINE S == {n \in Nat : n <= L => CanFold(n, V, base, op)}
<1>1. 0 \in S
  <2>. DEFINE g == [s \in SUBSET (1..0) |-> base]
  <2>1. g \in [SUBSET (1..0) -> V]
    OBVIOUS
  <2>2. \A s \in SUBSET (1..0) : s = {}
    OBVIOUS
  <2>3. Folds(g, 0, base, op)
    BY <2>2 DEF Folds
  <2>4. CanFold(0, V, base, op)
    BY <2>1, <2>3 DEF CanFold
  <2>. QED
    BY <2>4
<1>2. ASSUME NEW n \in Nat, n \in S
      PROVE  n + 1 \in S
  <2>0. n <= L => CanFold(n, V, base, op)
    BY <1>2
  <2>1. SUFFICES ASSUME n + 1 <= L
                 PROVE  CanFold(n + 1, V, base, op)
    BY <1>2
  <2>2. PICK g \in [SUBSET (1..n) -> V] : Folds(g, n, base, op)
    <3>1. n <= L
      BY <2>1
    <3>2. CanFold(n, V, base, op)
      BY <2>0, <3>1
    <3>. HIDE DEF S
    <3>. QED
      BY <3>2 DEF CanFold
  <2>. DEFINE h == [s \in SUBSET (1..n + 1) |->
                      IF n + 1 \in s THEN op[<<g[s \ {n + 1}], n + 1>>] ELSE g[s]]
  <2>3. \A s \in SUBSET (1..n + 1) : s \ {n + 1} \in SUBSET (1..n)
    OBVIOUS
  <2>4. n + 1 \in 1..L
    BY <2>1
  <2>5. \A s \in SUBSET (1..n + 1) : n + 1 \notin s => s \in SUBSET (1..n)
    OBVIOUS
  <2>6. ASSUME NEW s \in SUBSET (1..n + 1)
        PROVE  h[s] \in V
    <3>1. CASE n + 1 \in s
      BY <3>1, <2>3, <2>4
    <3>2. CASE n + 1 \notin s
      BY <3>2, <2>5
    <3>. QED
      BY <3>1, <3>2
  <2>7. h \in [SUBSET (1..n + 1) -> V]
    BY <2>6
  <2>8. ASSUME NEW s \in SUBSET (1..n + 1)
        PROVE  h[s] = IF s = {} THEN base ELSE op[<<h[s \ {Max(s)}], Max(s)>>]
    <3>1. CASE n + 1 \in s
      <4>1. Max(s) = n + 1
        BY <3>1, MaxIsLast
      <4>2. s \ {n + 1} \in SUBSET (1..n + 1) /\ n + 1 \notin s \ {n + 1}
        OBVIOUS
      <4>3. h[s \ {n + 1}] = g[s \ {n + 1}]
        BY <4>2
      <4>. QED
        BY <3>1, <4>1, <4>3
    <3>2. CASE n + 1 \notin s
      <4>1. s \in SUBSET (1..n) /\ s \ {Max(s)} \in SUBSET (1..n) /\ n + 1 \notin s \ {Max(s)}
            /\ s \ {Max(s)} \in SUBSET (1..n + 1)
        BY <3>2, <2>5
      <4>2. h[s] = g[s] /\ h[s \ {Max(s)}] = g[s \ {Max(s)}]
        BY <3>2, <4>1
      <4>3. g[s] = IF s = {} THEN base ELSE op[<<g[s \ {Max(s)}], Max(s)>>]
        BY <2>2, <4>1 DEF Folds
      <4>. QED
        BY <4>2, <4>3
    <3>. QED
      BY <3>1, <3>2
  <2>9. Folds(h, n + 1, base, op)
    BY <2>8 DEF Folds
  <2>. QED
    BY <2>7, <2>9 DEF CanFold
<1>3. L \in S
  <2>. HIDE DEF S
  <2>. QED
    BY <1>1, <1>2, CountingUp
<1>. QED
  BY <1>3

-----------------------------------------------------------------------------
(* Segments, one token at a time. *)

Cut(segs, token) ==
  IF token = "/" THEN Append(segs, <<>>) ELSE [segs EXCEPT ![Len(segs)] = Append(@, token)]

Cuts(g, text) ==
  g = [s \in SUBSET DOMAIN text |->
         IF s = {} THEN << <<>> >> ELSE Cut(g[s \ {Max(s)}], text[Max(s)])]

(* The segments of any text: at least one. *)
Parts(T) == Seq(Seq(T)) \ {<<>>}

LEMMA SegmentsFold ==
  ASSUME NEW text
  PROVE  Segments(text) = (CHOOSE g : Cuts(g, text))[DOMAIN text]
BY DEF Segments, FoldLeft, MapThenFoldSet, Cuts, Cut

LEMMA CutParts ==
  ASSUME NEW T, NEW segs \in Parts(T), NEW token \in T
  PROVE  Cut(segs, token) \in Parts(T)
<1>1. segs \in Seq(Seq(T)) /\ Len(segs) \in 1..Len(segs) /\ segs[Len(segs)] \in Seq(T)
  BY DEF Parts
<1>2. Append(segs[Len(segs)], token) \in Seq(T) /\ <<>> \in Seq(T)
  BY <1>1
<1>3. [segs EXCEPT ![Len(segs)] = Append(segs[Len(segs)], token)] \in Parts(T)
  BY <1>1, <1>2, ExceptSeq DEF Parts
<1>4. Append(segs, <<>>) \in Parts(T)
  BY <1>1, <1>2, AppendProperties DEF Parts
<1>. QED
  BY <1>3, <1>4 DEF Cut

LEMMA CutsExist ==
  ASSUME NEW T, NEW text \in Seq(T)
  PROVE  \E g : Cuts(g, text)
<1>. DEFINE L == Len(text)
            op == [p \in Parts(T) \X (1..L) |-> Cut(p[1], text[p[2]])]
<1>1. L \in Nat /\ DOMAIN text = 1..L /\ \A i \in 1..L : text[i] \in T
  OBVIOUS
<1>2. << <<>> >> \in Parts(T)
  BY DEF Parts
<1>3. op \in [Parts(T) \X (1..L) -> Parts(T)]
  BY <1>1, CutParts
<1>4. PICK g \in [SUBSET (1..L) -> Parts(T)] : Folds(g, L, << <<>> >>, op)
  <2>. HIDE DEF op, L
  <2>. QED
    BY <1>1, <1>2, <1>3, FoldExists DEF CanFold
<1>5. ASSUME NEW s \in SUBSET (1..L)
      PROVE  g[s] = IF s = {} THEN << <<>> >> ELSE Cut(g[s \ {Max(s)}], text[Max(s)])
  <2>1. CASE s = {}
    BY <1>4, <2>1 DEF Folds
  <2>2. CASE s # {}
    <3>1. g[s] = op[<<g[s \ {Max(s)}], Max(s)>>]
      <4>. HIDE DEF op, L
      <4>. QED
        BY <1>4, <2>2 DEF Folds
    <3>2. Max(s) \in s
      BY <1>1, <2>2, MaxIn
    <3>3. g[s \ {Max(s)}] \in Parts(T) /\ Max(s) \in 1..L
      BY <1>4, <3>2
    <3>. QED
      BY <2>2, <3>1, <3>3
  <2>. QED
    BY <2>1, <2>2
<1>6. Cuts(g, text)
  BY <1>1, <1>4, <1>5 DEF Cuts
<1>. QED
  BY <1>6

LEMMA CutsSteps ==
  ASSUME NEW T, NEW text \in Seq(T), NEW g, Cuts(g, text)
  PROVE  /\ g[{}] = << <<>> >>
         /\ \A n \in 1..Len(text) : g[1..n] = Cut(g[1..n - 1], text[n])
<1>1. Len(text) \in Nat /\ DOMAIN text = 1..Len(text)
  OBVIOUS
<1>2. g[{}] = << <<>> >>
  BY DEF Cuts
<1>3. ASSUME NEW n \in 1..Len(text)
      PROVE  g[1..n] = Cut(g[1..n - 1], text[n])
  <2>1. Max(1..n) = n /\ (1..n) \ {n} = 1..n - 1 /\ 1..n # {}
    BY <1>1, LastOf
  <2>2. 1..n \in SUBSET DOMAIN text
    BY <1>1
  <2>3. g[1..n] = Cut(g[(1..n) \ {Max(1..n)}], text[Max(1..n)])
    BY <2>1, <2>2 DEF Cuts
  <2>. QED
    BY <2>1, <2>3
<1>. QED
  BY <1>2, <1>3

LEMMA SegmentsAre ==
  ASSUME NEW T, NEW text \in Seq(T)
  PROVE  \E g : Cuts(g, text) /\ Segments(text) = g[1..Len(text)]
<1>. DEFINE g == CHOOSE h : Cuts(h, text)
<1>1. Cuts(g, text)
  BY CutsExist
<1>2. Segments(text) = g[DOMAIN text] /\ DOMAIN text = 1..Len(text)
  BY SegmentsFold
<1>. QED
  BY <1>1, <1>2

LEMMA SegmentsOfNothing ==
  Segments(<<>>) = << <<>> >>
<1>1. <<>> \in Seq({}) /\ Len(<<>>) = 0 /\ 1..0 = {}
  OBVIOUS
<1>2. PICK g : Cuts(g, <<>>) /\ Segments(<<>>) = g[1..0]
  BY <1>1, SegmentsAre
<1>. QED
  BY <1>1, <1>2, CutsSteps

LEMMA SegmentsOneMore ==
  ASSUME NEW T, NEW text \in Seq(T), NEW token \in T
  PROVE  Segments(Append(text, token)) = Cut(Segments(text), token)
<1>. DEFINE more == Append(text, token)
            L == Len(text)
<1>1. /\ more \in Seq(T) /\ Len(more) = L + 1 /\ L \in Nat /\ more[L + 1] = token
      /\ \A n \in 1..L : more[n] = text[n]
  BY AppendProperties
<1>. HIDE DEF more, L
<1>2. PICK g : Cuts(g, text) /\ Segments(text) = g[1..L]
  BY SegmentsAre DEF L
<1>3. PICK h : Cuts(h, more) /\ Segments(more) = h[1..L + 1]
  BY <1>1, SegmentsAre
<1>4. /\ g[{}] = << <<>> >> /\ h[{}] = << <<>> >>
      /\ \A n \in 1..L : g[1..n] = Cut(g[1..n - 1], text[n])
      /\ \A n \in 1..L + 1 : h[1..n] = Cut(h[1..n - 1], more[n])
  <2>1. g[{}] = << <<>> >> /\ \A n \in 1..Len(text) : g[1..n] = Cut(g[1..n - 1], text[n])
    BY <1>2, CutsSteps
  <2>2. h[{}] = << <<>> >> /\ \A n \in 1..Len(more) : h[1..n] = Cut(h[1..n - 1], more[n])
    BY <1>1, <1>3, CutsSteps
  <2>. QED
    BY <1>1, <2>1, <2>2 DEF L
<1>. DEFINE S == {n \in Nat : n <= L => g[1..n] = h[1..n]}
<1>5. 0 \in S
  <2>1. 1..0 = {}
    OBVIOUS
  <2>. QED
    BY <1>4, <2>1
<1>6. ASSUME NEW n \in Nat, n \in S
      PROVE  n + 1 \in S
  <2>1. n <= L => g[1..n] = h[1..n]
    BY <1>6
  <2>2. n + 1 <= L => g[1..n + 1] = h[1..n + 1]
    <3>1. SUFFICES ASSUME n + 1 <= L
                   PROVE  g[1..n + 1] = h[1..n + 1]
      OBVIOUS
    <3>2. n + 1 \in 1..L /\ n + 1 \in 1..L + 1 /\ (n + 1) - 1 = n /\ n <= L
      BY <1>1, <3>1
    <3>3. g[1..n + 1] = Cut(g[1..n], text[n + 1]) /\ h[1..n + 1] = Cut(h[1..n], more[n + 1])
      BY <1>4, <3>2
    <3>. QED
      BY <1>1, <2>1, <3>2, <3>3
  <2>. QED
    BY <2>2
<1>7. L \in S
  <2>. HIDE DEF S
  <2>. QED
    BY <1>1, <1>5, <1>6, CountingUp
<1>8. g[1..L] = h[1..L]
  BY <1>1, <1>7
<1>9. h[1..L + 1] = Cut(h[1..L], token)
  <2>1. L + 1 \in 1..L + 1 /\ (L + 1) - 1 = L
    BY <1>1
  <2>. QED
    BY <1>1, <1>4, <2>1
<1>. QED
  BY <1>2, <1>3, <1>8, <1>9 DEF more

LEMMA SegmentsParts ==
  ASSUME NEW T, NEW text \in Seq(T)
  PROVE  Segments(text) \in Parts(T)
<1>. DEFINE S == {t \in Seq(T) : Segments(t) \in Parts(T)}
<1>1. <<>> \in S
  <2>1. << <<>> >> \in Parts(T) /\ <<>> \in Seq(T)
    BY DEF Parts
  <2>. QED
    BY <2>1, SegmentsOfNothing
<1>2. ASSUME NEW t \in Seq(T), NEW e \in T, t \in S
      PROVE  Append(t, e) \in S
  <2>1. Segments(Append(t, e)) \in Parts(T)
    BY <1>2, SegmentsOneMore, CutParts
  <2>. QED
    BY <2>1
<1>3. Seq(T) \subseteq S
  <2>. HIDE DEF S
  <2>. QED
    BY <1>1, <1>2, Appending
<1>. QED
  BY <1>3

-----------------------------------------------------------------------------
(* What segments join to, one at a time. *)

Join(text, seg) == IF text = << >> THEN seg ELSE text \o <<"/">> \o seg

Joins(g, segs) ==
  g = [s \in SUBSET DOMAIN segs |->
         IF s = {} THEN <<>> ELSE Join(g[s \ {Max(s)}], segs[Max(s)])]

LEMMA JoinedFold ==
  ASSUME NEW segs
  PROVE  Joined(segs) = (CHOOSE g : Joins(g, segs))[DOMAIN segs]
BY DEF Joined, FoldLeft, MapThenFoldSet, Joins, Join

LEMMA JoinText ==
  ASSUME NEW T, "/" \in T, NEW text \in Seq(T), NEW seg \in Seq(T)
  PROVE  Join(text, seg) \in Seq(T)
<1>1. <<"/">> \in Seq(T)
  OBVIOUS
<1>2. text \o <<"/">> \in Seq(T)
  BY <1>1, ConcatProperties
<1>. QED
  BY <1>2, ConcatProperties DEF Join

LEMMA JoinsExist ==
  ASSUME NEW T, "/" \in T, NEW segs \in Seq(Seq(T))
  PROVE  \E g : Joins(g, segs)
<1>. DEFINE L == Len(segs)
            op == [p \in Seq(T) \X (1..L) |-> Join(p[1], segs[p[2]])]
<1>1. L \in Nat /\ DOMAIN segs = 1..L /\ \A i \in 1..L : segs[i] \in Seq(T)
  OBVIOUS
<1>2. <<>> \in Seq(T)
  OBVIOUS
<1>3. op \in [Seq(T) \X (1..L) -> Seq(T)]
  BY <1>1, JoinText
<1>4. PICK g \in [SUBSET (1..L) -> Seq(T)] : Folds(g, L, <<>>, op)
  <2>. HIDE DEF op, L
  <2>. QED
    BY <1>1, <1>2, <1>3, FoldExists DEF CanFold
<1>5. ASSUME NEW s \in SUBSET (1..L)
      PROVE  g[s] = IF s = {} THEN <<>> ELSE Join(g[s \ {Max(s)}], segs[Max(s)])
  <2>1. CASE s = {}
    BY <1>4, <2>1 DEF Folds
  <2>2. CASE s # {}
    <3>1. g[s] = op[<<g[s \ {Max(s)}], Max(s)>>]
      <4>. HIDE DEF op, L
      <4>. QED
        BY <1>4, <2>2 DEF Folds
    <3>2. Max(s) \in s
      BY <1>1, <2>2, MaxIn
    <3>3. g[s \ {Max(s)}] \in Seq(T) /\ Max(s) \in 1..L
      BY <1>4, <3>2
    <3>. QED
      BY <2>2, <3>1, <3>3
  <2>. QED
    BY <2>1, <2>2
<1>6. Joins(g, segs)
  BY <1>1, <1>4, <1>5 DEF Joins
<1>. QED
  BY <1>6

LEMMA JoinsSteps ==
  ASSUME NEW T, "/" \in T, NEW segs \in Seq(Seq(T)), NEW g, Joins(g, segs)
  PROVE  /\ g[{}] = <<>>
         /\ \A n \in 1..Len(segs) : g[1..n] = Join(g[1..n - 1], segs[n])
<1>1. Len(segs) \in Nat /\ DOMAIN segs = 1..Len(segs)
  OBVIOUS
<1>2. g[{}] = <<>>
  BY DEF Joins
<1>3. ASSUME NEW n \in 1..Len(segs)
      PROVE  g[1..n] = Join(g[1..n - 1], segs[n])
  <2>0. n \in Nat /\ n # 0
    BY <1>1
  <2>1. Max(1..n) = n /\ (1..n) \ {n} = 1..n - 1 /\ 1..n # {}
    BY <2>0, LastOf
  <2>2. 1..n \in SUBSET DOMAIN segs
    BY <1>1
  <2>3. g[1..n] = Join(g[(1..n) \ {Max(1..n)}], segs[Max(1..n)])
    BY <2>1, <2>2 DEF Joins
  <2>. QED
    BY <2>1, <2>3
<1>. QED
  BY <1>2, <1>3

LEMMA JoinedAre ==
  ASSUME NEW T, "/" \in T, NEW segs \in Seq(Seq(T))
  PROVE  \E g : Joins(g, segs) /\ Joined(segs) = g[1..Len(segs)]
<1>. DEFINE g == CHOOSE h : Joins(h, segs)
<1>1. Joins(g, segs)
  BY JoinsExist
<1>2. Joined(segs) = g[DOMAIN segs] /\ DOMAIN segs = 1..Len(segs)
  BY JoinedFold
<1>. QED
  BY <1>1, <1>2

LEMMA JoinedOfNothing ==
  Joined(<<>>) = <<>>
<1>1. <<>> \in Seq(Seq({"/"})) /\ Len(<<>>) = 0 /\ 1..0 = {} /\ "/" \in {"/"}
  OBVIOUS
<1>2. PICK g : Joins(g, <<>>) /\ Joined(<<>>) = g[1..0]
  BY <1>1, JoinedAre
<1>. QED
  BY <1>1, <1>2, JoinsSteps

LEMMA JoinedOneMore ==
  ASSUME NEW T, "/" \in T, NEW segs \in Seq(Seq(T)), NEW seg \in Seq(T)
  PROVE  Joined(Append(segs, seg)) = Join(Joined(segs), seg)
<1>. DEFINE more == Append(segs, seg)
            L == Len(segs)
<1>1. /\ more \in Seq(Seq(T)) /\ Len(more) = L + 1 /\ L \in Nat /\ more[L + 1] = seg
      /\ \A n \in 1..L : more[n] = segs[n]
  BY AppendProperties
<1>. HIDE DEF more, L
<1>2. PICK g : Joins(g, segs) /\ Joined(segs) = g[1..L]
  BY JoinedAre DEF L
<1>3. PICK h : Joins(h, more) /\ Joined(more) = h[1..L + 1]
  BY <1>1, JoinedAre
<1>4. /\ g[{}] = <<>> /\ h[{}] = <<>>
      /\ \A n \in 1..L : g[1..n] = Join(g[1..n - 1], segs[n])
      /\ \A n \in 1..L + 1 : h[1..n] = Join(h[1..n - 1], more[n])
  <2>1. g[{}] = <<>> /\ \A n \in 1..Len(segs) : g[1..n] = Join(g[1..n - 1], segs[n])
    BY <1>2, JoinsSteps
  <2>2. h[{}] = <<>> /\ \A n \in 1..Len(more) : h[1..n] = Join(h[1..n - 1], more[n])
    BY <1>1, <1>3, JoinsSteps
  <2>. QED
    BY <1>1, <2>1, <2>2 DEF L
<1>. DEFINE S == {n \in Nat : n <= L => g[1..n] = h[1..n]}
<1>5. 0 \in S
  <2>1. 1..0 = {}
    OBVIOUS
  <2>. QED
    BY <1>4, <2>1
<1>6. ASSUME NEW n \in Nat, n \in S
      PROVE  n + 1 \in S
  <2>1. n <= L => g[1..n] = h[1..n]
    BY <1>6
  <2>2. n + 1 <= L => g[1..n + 1] = h[1..n + 1]
    <3>1. SUFFICES ASSUME n + 1 <= L
                   PROVE  g[1..n + 1] = h[1..n + 1]
      OBVIOUS
    <3>2. n + 1 \in 1..L /\ n + 1 \in 1..L + 1 /\ (n + 1) - 1 = n /\ n <= L
      BY <1>1, <3>1
    <3>3. g[1..n + 1] = Join(g[1..n], segs[n + 1]) /\ h[1..n + 1] = Join(h[1..n], more[n + 1])
      BY <1>4, <3>2
    <3>. QED
      BY <1>1, <2>1, <3>2, <3>3
  <2>. QED
    BY <2>2
<1>7. L \in S
  <2>. HIDE DEF S
  <2>. QED
    BY <1>1, <1>5, <1>6, CountingUp
<1>8. g[1..L] = h[1..L]
  BY <1>1, <1>7
<1>9. h[1..L + 1] = Join(h[1..L], seg)
  <2>1. L + 1 \in 1..L + 1 /\ (L + 1) - 1 = L
    BY <1>1
  <2>. QED
    BY <1>1, <1>4, <2>1
<1>. QED
  BY <1>2, <1>3, <1>8, <1>9 DEF more

LEMMA JoinedText ==
  ASSUME NEW T, "/" \in T, NEW segs \in Seq(Seq(T))
  PROVE  Joined(segs) \in Seq(T)
<1>. DEFINE S == {q \in Seq(Seq(T)) : Joined(q) \in Seq(T)}
<1>1. <<>> \in S
  <2>1. <<>> \in Seq(T) /\ <<>> \in Seq(Seq(T))
    OBVIOUS
  <2>. QED
    BY <2>1, JoinedOfNothing
<1>2. ASSUME NEW q \in Seq(Seq(T)), NEW e \in Seq(T), q \in S
      PROVE  Append(q, e) \in S
  <2>1. Joined(Append(q, e)) \in Seq(T)
    BY <1>2, JoinedOneMore, JoinText
  <2>. QED
    BY <2>1
<1>3. Seq(Seq(T)) \subseteq S
  <2>. HIDE DEF S
  <2>. QED
    BY <1>1, <1>2, Appending
<1>. QED
  BY <1>3

-----------------------------------------------------------------------------
(* Segments and Joined undo each other. *)

LEMMA SegmentsOfWord ==
  ASSUME NEW T, NEW text \in Seq(T), ~ HasSlash(text)
  PROVE  Segments(text) = <<text>>
<1>. DEFINE S == {t \in Seq(T) : ~ HasSlash(t) => Segments(t) = <<t>>}
<1>1. <<>> \in S
  BY SegmentsOfNothing
<1>2. ASSUME NEW t \in Seq(T), NEW e \in T, t \in S
      PROVE  Append(t, e) \in S
  <2>1. SUFFICES ASSUME ~ HasSlash(Append(t, e))
                 PROVE  Segments(Append(t, e)) = <<Append(t, e)>>
    <3>1. Append(t, e) \in Seq(T)
      OBVIOUS
    <3>. QED
      BY <3>1
  <2>2. /\ Len(Append(t, e)) = Len(t) + 1 /\ Append(t, e)[Len(t) + 1] = e
        /\ \A i \in 1..Len(t) : Append(t, e)[i] = t[i]
        /\ DOMAIN t = 1..Len(t) /\ DOMAIN Append(t, e) = 1..Len(t) + 1 /\ Len(t) \in Nat
    BY AppendProperties
  <2>3. e # "/" /\ ~ HasSlash(t)
    BY <2>1, <2>2 DEF HasSlash
  <2>4. Segments(t) = <<t>>
    BY <1>2, <2>3
  <2>5. Cut(<<t>>, e) = <<Append(t, e)>>
    BY <2>3 DEF Cut
  <2>. QED
    BY <2>4, <2>5, SegmentsOneMore
<1>3. Seq(T) \subseteq S
  <2>. HIDE DEF S
  <2>. QED
    BY <1>1, <1>2, Appending
<1>. QED
  BY <1>3

LEMMA CutAfter ==
  ASSUME NEW T, NEW p \in Parts(T), NEW q \in Parts(T), NEW e \in T
  PROVE  Cut(p \o q, e) = p \o Cut(q, e)
<1>1. /\ p \in Seq(Seq(T)) /\ q \in Seq(Seq(T)) /\ Len(q) > 0 /\ <<>> \in Seq(T)
      /\ q[Len(q)] \in Seq(T)
  BY DEF Parts
<1>2. CASE e = "/"
  <2>1. <<>> \in Seq(T) /\ << <<>> >> \in Seq(Seq(T)) /\ p \o q \in Seq(Seq(T))
    BY <1>1, ConcatProperties
  <2>2. Append(p \o q, <<>>) = (p \o q) \o << <<>> >> /\ Append(q, <<>>) = q \o << <<>> >>
    BY <1>1, <2>1, AppendIsConcat
  <2>3. (p \o q) \o << <<>> >> = p \o (q \o << <<>> >>)
    BY <1>1, <2>1, ConcatAssociative
  <2>. QED
    BY <1>2, <2>2, <2>3 DEF Cut
<1>3. CASE e # "/"
  <2>1. /\ p \o q \in Seq(Seq(T)) /\ Len(p \o q) = Len(p) + Len(q)
        /\ \A i \in 1..Len(p) + Len(q) : (p \o q)[i] = IF i <= Len(p) THEN p[i] ELSE q[i - Len(p)]
    BY <1>1, ConcatProperties
  <2>. DEFINE l == Append(q[Len(q)], e)
              r == [q EXCEPT ![Len(q)] = l]
              s == [p \o q EXCEPT ![Len(p \o q)] = l]
  <2>2. l \in Seq(T) /\ (p \o q)[Len(p \o q)] = q[Len(q)]
    BY <1>1, <2>1
  <2>3. Cut(p \o q, e) = s /\ Cut(q, e) = r
    BY <1>3, <2>2 DEF Cut
  <2>. HIDE DEF l
  <2>4. /\ r \in Seq(Seq(T)) /\ Len(r) = Len(q)
        /\ \A i \in 1..Len(q) : r[i] = IF i = Len(q) THEN l ELSE q[i]
    BY <1>1, <2>2, ExceptSeq
  <2>5. /\ s \in Seq(Seq(T)) /\ Len(s) = Len(p) + Len(q)
        /\ \A i \in 1..Len(p) + Len(q) : s[i] = IF i = Len(p) + Len(q) THEN l ELSE (p \o q)[i]
    <3>. DEFINE pq == p \o q
    <3>. HIDE DEF pq
    <3>1. pq \in Seq(Seq(T)) /\ Len(pq) \in 1..Len(pq) /\ Len(pq) = Len(p) + Len(q)
      BY <1>1, <2>1 DEF pq
    <3>2. /\ [pq EXCEPT ![Len(pq)] = l] \in Seq(Seq(T))
          /\ Len([pq EXCEPT ![Len(pq)] = l]) = Len(pq)
          /\ \A i \in 1..Len(pq) : [pq EXCEPT ![Len(pq)] = l][i] = IF i = Len(pq) THEN l ELSE pq[i]
      BY <2>2, <3>1, ExceptSeq
    <3>. QED
      BY <3>1, <3>2 DEF pq
  <2>. HIDE DEF r, s
  <2>6. /\ p \o r \in Seq(Seq(T)) /\ Len(p \o r) = Len(p) + Len(r)
        /\ \A i \in 1..Len(p) + Len(r) : (p \o r)[i] = IF i <= Len(p) THEN p[i] ELSE r[i - Len(p)]
    BY <1>1, <2>4, ConcatProperties
  <2>7. ASSUME NEW i \in 1..Len(s)
        PROVE  s[i] = (p \o r)[i]
    <3>1. i \in 1..Len(p) + Len(q) /\ Len(p) \in Nat /\ Len(q) \in Nat
      BY <1>1, <2>5
    <3>2. CASE i <= Len(p)
      BY <1>1, <2>1, <2>4, <2>5, <2>6, <3>1, <3>2
    <3>3. CASE i > Len(p)
      <4>1. i - Len(p) \in 1..Len(q) /\ ~ (i <= Len(p)) /\ (i = Len(p) + Len(q) <=> i - Len(p) = Len(q))
        BY <3>1, <3>3
      <4>2. s[i] = IF i - Len(p) = Len(q) THEN l ELSE q[i - Len(p)]
        BY <2>1, <2>5, <3>1, <4>1
      <4>3. (p \o r)[i] = r[i - Len(p)]
        BY <2>4, <2>6, <3>1, <4>1
      <4>. QED
        BY <2>4, <4>1, <4>2, <4>3
    <3>4. i <= Len(p) \/ i > Len(p)
      BY <3>1
    <3>. QED
      BY <3>2, <3>3, <3>4
  <2>8. s = p \o r
    BY <2>4, <2>5, <2>6, <2>7, SeqEqual
  <2>. QED
    BY <2>3, <2>8
<1>. QED
  BY <1>2, <1>3

LEMMA SegmentsOfBoth ==
  ASSUME NEW T, "/" \in T, NEW head \in Seq(T), NEW text \in Seq(T)
  PROVE  Segments(head \o <<"/">> \o text) = Segments(head) \o Segments(text)
<1>. DEFINE full(t) == head \o <<"/">> \o t
            S == {t \in Seq(T) : Segments(full(t)) = Segments(head) \o Segments(t)}
<1>0. Segments(head) \in Parts(T) /\ Segments(head) \in Seq(Seq(T))
  BY SegmentsParts DEF Parts
<1>1. <<>> \in S
  <2>1. full(<<>>) = Append(head, "/")
    OBVIOUS
  <2>2. Segments(Append(head, "/")) = Append(Segments(head), <<>>)
    BY SegmentsOneMore DEF Cut
  <2>3. Append(Segments(head), <<>>) = Segments(head) \o << <<>> >>
    <3>1. <<>> \in Seq(T)
      OBVIOUS
    <3>. QED
      BY <1>0, <3>1, AppendIsConcat
  <2>4. Segments(full(<<>>)) = Segments(head) \o Segments(<<>>)
    BY <2>1, <2>2, <2>3, SegmentsOfNothing
  <2>. QED
    BY <2>4
<1>2. ASSUME NEW t \in Seq(T), NEW e \in T, t \in S
      PROVE  Append(t, e) \in S
  <2>1. full(t) \in Seq(T) /\ full(Append(t, e)) = Append(full(t), e) /\ Append(t, e) \in Seq(T)
    OBVIOUS
  <2>2. Segments(full(t)) = Segments(head) \o Segments(t)
    BY <1>2
  <2>3. Segments(Append(full(t), e)) = Cut(Segments(full(t)), e)
    BY <2>1, SegmentsOneMore
  <2>4. Segments(Append(t, e)) = Cut(Segments(t), e)
    BY SegmentsOneMore
  <2>5. Cut(Segments(head) \o Segments(t), e) = Segments(head) \o Cut(Segments(t), e)
    <3>1. Segments(t) \in Parts(T)
      BY SegmentsParts
    <3>. QED
      BY <1>0, <3>1, CutAfter
  <2>. QED
    BY <2>1, <2>2, <2>3, <2>4, <2>5
<1>3. Seq(T) \subseteq S
  <2>. HIDE DEF S
  <2>. QED
    BY <1>1, <1>2, Appending
<1>. QED
  BY <1>3

Words(segs) ==
  /\ segs # <<>> /\ segs[1] # <<>>
  /\ \A i \in 1..Len(segs) : ~ HasSlash(segs[i])

LEMMA SegmentsOfWords ==
  ASSUME NEW T, "/" \in T, NEW segs \in Seq(Seq(T)), Words(segs)
  PROVE  Joined(segs) # <<>> /\ Segments(Joined(segs)) = segs
<1>. DEFINE Law(q) == Joined(q) # <<>> /\ Segments(Joined(q)) = q
            S == {q \in Seq(Seq(T)) : Words(q) => Law(q)}
<1>1. <<>> \in S
  BY DEF Words
<1>2. ASSUME NEW q \in Seq(Seq(T)), NEW e \in Seq(T), q \in S
      PROVE  Append(q, e) \in S
  <2>. DEFINE more == Append(q, e)
  <2>1. /\ more \in Seq(Seq(T)) /\ Len(more) = Len(q) + 1 /\ more[Len(q) + 1] = e
        /\ \A i \in 1..Len(q) : more[i] = q[i]
        /\ Len(q) \in Nat
    BY AppendProperties
  <2>2. Joined(more) = Join(Joined(q), e) /\ Joined(q) \in Seq(T)
    BY JoinedOneMore, JoinedText
  <2>3. Words(q) => Law(q)
    BY <1>2
  <2>4. ASSUME Words(more)
        PROVE  Law(more)
    <3>1. ~ HasSlash(e) /\ Segments(e) = <<e>>
      <4>1. Len(q) + 1 \in 1..Len(more)
        BY <2>1
      <4>2. ~ HasSlash(e)
        BY <2>1, <2>4, <4>1 DEF Words
      <4>. QED
        BY <4>2, SegmentsOfWord
    <3>2. CASE q = <<>>
      <4>1. e # <<>> /\ more = <<e>>
        BY <2>4, <3>2 DEF Words
      <4>2. Joined(more) = e
        BY <2>2, <3>2, JoinedOfNothing DEF Join
      <4>. QED
        BY <3>1, <4>1, <4>2
    <3>3. CASE q # <<>>
      <4>1. 1 \in 1..Len(q) /\ 1..Len(q) \subseteq 1..Len(more)
        BY <2>1, <3>3
      <4>2. Words(q)
        BY <2>1, <2>4, <3>3, <4>1 DEF Words
      <4>3. Joined(more) = Joined(q) \o <<"/">> \o e
        BY <2>2, <2>3, <4>2 DEF Join
      <4>4. Segments(Joined(more)) = q \o <<e>>
        <5>1. Segments(Joined(q) \o <<"/">> \o e) = Segments(Joined(q)) \o Segments(e)
          BY <2>2, SegmentsOfBoth
        <5>2. Segments(Joined(q)) = q
          BY <2>3, <4>2
        <5>. QED
          BY <3>1, <4>3, <5>1, <5>2
      <4>5. q \o <<e>> = more
        BY AppendIsConcat
      <4>6. Joined(more) # <<>>
        BY <4>4, <4>5, SegmentsOfNothing, <2>2, <4>3
      <4>. QED
        BY <4>4, <4>5, <4>6
    <3>. QED
      BY <3>2, <3>3
  <2>. QED
    BY <2>1, <2>4
<1>3. Seq(Seq(T)) \subseteq S
  <2>. HIDE DEF S
  <2>. QED
    BY <1>1, <1>2, Appending
<1>. QED
  BY <1>3

LEMMA JoinedLonger ==
  ASSUME NEW T, "/" \in T, NEW segs \in Parts(T), NEW e \in T
  PROVE  Joined([segs EXCEPT ![Len(segs)] = Append(@, e)]) = Append(Joined(segs), e)
<1>1. PICK q \in Seq(Seq(T)), l \in Seq(T) : segs = Append(q, l)
  BY SequenceEmptyOrAppend DEF Parts
<1>2. Append(l, e) \in Seq(T)
  OBVIOUS
<1>3. [segs EXCEPT ![Len(segs)] = Append(@, e)] = Append(q, Append(l, e))
  <2>. DEFINE m == Append(l, e)
              a == [segs EXCEPT ![Len(segs)] = m]
              b == Append(q, m)
  <2>1. /\ segs \in Seq(Seq(T)) /\ Len(segs) = Len(q) + 1 /\ segs[Len(q) + 1] = l /\ Len(q) \in Nat
        /\ \A i \in 1..Len(q) : segs[i] = q[i]
    BY <1>1, AppendProperties
  <2>. HIDE DEF m
  <2>2. /\ a \in Seq(Seq(T)) /\ Len(a) = Len(segs)
        /\ \A i \in 1..Len(segs) : a[i] = IF i = Len(segs) THEN m ELSE segs[i]
    <3>1. Len(segs) \in 1..Len(segs) /\ m \in Seq(T)
      BY <1>2, <2>1 DEF m
    <3>. QED
      BY <2>1, <3>1, ExceptSeq
  <2>3. /\ b \in Seq(Seq(T)) /\ Len(b) = Len(q) + 1 /\ b[Len(q) + 1] = m
        /\ \A i \in 1..Len(q) : b[i] = q[i]
    <3>1. m \in Seq(T)
      BY <1>2 DEF m
    <3>. QED
      BY <3>1, AppendProperties
  <2>. HIDE DEF a, b
  <2>4. Len(a) = Len(b) /\ Len(a) = Len(q) + 1 /\ Len(q) \in Nat
    BY <2>1, <2>2, <2>3
  <2>5. ASSUME NEW i \in 1..Len(a)
        PROVE  a[i] = b[i]
    <3>1. CASE i = Len(q) + 1
      BY <2>1, <2>2, <2>3, <2>4, <3>1
    <3>2. CASE i # Len(q) + 1
      <4>1. i \in 1..Len(q) /\ i \in 1..Len(segs) /\ i # Len(segs)
        BY <2>1, <2>4, <3>2
      <4>. QED
        BY <2>1, <2>2, <2>3, <4>1
    <3>. QED
      BY <3>1, <3>2
  <2>6. a = b
    <3>1. a \in Seq(Seq(T)) /\ b \in Seq(Seq(T))
      BY <2>2, <2>3
    <3>. QED
      BY <2>4, <2>5, <3>1, SeqEqual
  <2>7. segs[Len(segs)] = l
    BY <2>1
  <2>. QED
    BY <2>6, <2>7 DEF a, b, m
<1>4. Joined(Append(q, Append(l, e))) = Join(Joined(q), Append(l, e))
  BY <1>2, JoinedOneMore
<1>5. Joined(segs) = Join(Joined(q), l)
  BY <1>1, JoinedOneMore
<1>6. Joined(q) \in Seq(T)
  BY JoinedText
<1>7. Join(Joined(q), Append(l, e)) = Append(Join(Joined(q), l), e)
  <2>. DEFINE j == Joined(q)
  <2>. HIDE DEF j
  <2>1. j \in Seq(T)
    BY <1>6 DEF j
  <2>2. Join(j, Append(l, e)) = Append(Join(j, l), e)
    BY <2>1 DEF Join
  <2>. QED
    BY <2>2 DEF j
<1>. QED
  BY <1>3, <1>4, <1>5, <1>7

LEMMA JoinedSegments ==
  ASSUME NEW T, "/" \in T, NEW text \in Seq(T), text = <<>> \/ text[1] # "/"
  PROVE  Joined(Segments(text)) = text
<1>. DEFINE Starts(t) == t = <<>> \/ t[1] # "/"
            S == {t \in Seq(T) : Starts(t) => Joined(Segments(t)) = t}
<1>1. <<>> \in S
  <2>1. <<>> \in Seq(T) /\ <<>> \in Seq(Seq(T)) /\ Append(<<>>, <<>>) = << <<>> >>
    OBVIOUS
  <2>2. Joined(<< <<>> >>) = Join(Joined(<<>>), <<>>)
    BY <2>1, JoinedOneMore
  <2>3. Joined(Segments(<<>>)) = <<>>
    BY <2>2, SegmentsOfNothing, JoinedOfNothing DEF Join
  <2>. QED
    BY <2>1, <2>3
<1>2. ASSUME NEW t \in Seq(T), NEW e \in T, t \in S
      PROVE  Append(t, e) \in S
  <2>1. Append(t, e) \in Seq(T)
    OBVIOUS
  <2>2. ASSUME Starts(Append(t, e))
        PROVE  Joined(Segments(Append(t, e))) = Append(t, e)
    <3>0. Append(t, e) # <<>> /\ Append(t, e)[1] = IF t = <<>> THEN e ELSE t[1]
      <4>1. CASE t = <<>>
        BY <4>1
      <4>2. CASE t # <<>>
        <5>1. 1 \in 1..Len(t)
          BY <4>2
        <5>. QED
          BY <4>2, <5>1, AppendProperties
      <4>. QED
        BY <4>1, <4>2
    <3>1. Starts(t) /\ (t = <<>> => e # "/")
      BY <2>2, <3>0
    <3>2. Joined(Segments(t)) = t
      BY <1>2, <3>1
    <3>3. Segments(t) \in Parts(T) /\ Segments(t) \in Seq(Seq(T))
      BY SegmentsParts DEF Parts
    <3>4. Segments(Append(t, e)) = Cut(Segments(t), e)
      BY SegmentsOneMore
    <3>5. CASE e = "/"
      <4>1. <<>> \in Seq(T)
        OBVIOUS
      <4>2. Joined(Append(Segments(t), <<>>)) = Join(t, <<>>)
        BY <3>2, <3>3, <4>1, JoinedOneMore
      <4>3. Join(t, <<>>) = Append(t, e)
        BY <3>1, <3>5 DEF Join
      <4>. QED
        BY <3>4, <3>5, <4>2, <4>3 DEF Cut
    <3>6. CASE e # "/"
      <4>1. Joined([Segments(t) EXCEPT ![Len(Segments(t))] = Append(@, e)]) = Append(Joined(Segments(t)), e)
        BY <3>3, JoinedLonger
      <4>. QED
        BY <3>2, <3>4, <3>6, <4>1 DEF Cut
    <3>. QED
      BY <3>5, <3>6
  <2>. QED
    BY <2>1, <2>2
<1>3. Seq(T) \subseteq S
  <2>. HIDE DEF S
  <2>. QED
    BY <1>1, <1>2, Appending
<1>. QED
  BY <1>3

LEMMA SegmentsOfJoined ==
  ASSUME NEW T, "/" \in T, NEW segs \in Seq(Seq(T)), segs # <<>>, segs[1] # <<>>,
         \A i \in 1..Len(segs) - 1 : ~ HasSlash(segs[i])
  PROVE  LET n == Len(segs)
             found == Segments(Joined(segs))
         IN  /\ found \in Seq(Seq(T))
             /\ \A i \in 1..n - 1 : found[i] = segs[i]
             /\ Len(found) = n - 1 + Len(Segments(segs[n]))
             /\ SubSeq(found, n, Len(found)) = Segments(segs[n])
<1>. DEFINE n == Len(segs)
            found == Segments(Joined(segs))
<1>1. PICK q \in Seq(Seq(T)), last \in Seq(T) : segs = Append(q, last)
  BY SequenceEmptyOrAppend
<1>2. /\ n = Len(q) + 1 /\ n - 1 = Len(q) /\ segs[n] = last /\ Len(q) \in Nat
      /\ \A i \in 1..Len(q) : segs[i] = q[i]
  BY <1>1, AppendProperties
<1>3. Joined(segs) = Join(Joined(q), last)
  BY <1>1, JoinedOneMore
<1>4. found = q \o Segments(last)
  <2>0. Segments(last) \in Seq(Seq(T))
    BY SegmentsParts DEF Parts
  <2>1. CASE q = <<>>
    <3>1. found = Segments(last)
      BY <1>3, <2>1, JoinedOfNothing DEF Join
    <3>. QED
      BY <2>0, <2>1, <3>1, ConcatEmptySeq
  <2>2. CASE q # <<>>
    <3>1. 1 \in 1..Len(q) /\ \A i \in 1..Len(q) : ~ HasSlash(q[i])
      BY <1>2, <2>2
    <3>2. Words(q)
      BY <1>2, <2>2, <3>1 DEF Words
    <3>3. Joined(q) # <<>> /\ Segments(Joined(q)) = q /\ Joined(q) \in Seq(T)
      BY <3>2, SegmentsOfWords, JoinedText
    <3>4. Joined(segs) = Joined(q) \o <<"/">> \o last
      BY <1>3, <3>3 DEF Join
    <3>. QED
      BY <3>3, <3>4, SegmentsOfBoth
  <2>. QED
    BY <2>1, <2>2
<1>5. Segments(last) \in Parts(T) /\ Segments(last) \in Seq(Seq(T))
      /\ Len(Segments(last)) \in Nat /\ Len(Segments(last)) > 0
  BY SegmentsParts DEF Parts
<1>. DEFINE l == Segments(last)
<1>. HIDE DEF l
<1>6. /\ q \o l \in Seq(Seq(T)) /\ Len(q \o l) = Len(q) + Len(l)
      /\ \A i \in 1..Len(q) + Len(l) : (q \o l)[i] = IF i <= Len(q) THEN q[i] ELSE l[i - Len(q)]
      /\ Len(l) \in Nat /\ Len(l) > 0 /\ l \in Seq(Seq(T))
  <2>1. l \in Seq(Seq(T)) /\ Len(l) \in Nat /\ Len(l) > 0
    BY <1>5 DEF l
  <2>. QED
    BY <2>1, ConcatProperties
<1>7. SubSeq(q \o l, Len(q) + 1, Len(q) + Len(l)) = l
  <2>1. /\ Len(q) + 1 \in Len(q) + 1..Len(q) + Len(l)
        /\ Len(q) + Len(l) \in Len(q) + 1..Len(q) + Len(l)
    BY <1>2, <1>6
  <2>2. SubSeq(q \o l, Len(q) + 1, Len(q) + Len(l))
          = SubSeq(l, (Len(q) + 1) - Len(q), (Len(q) + Len(l)) - Len(q))
    BY <1>6, <2>1, SubSeqOfConcat2
  <2>3. (Len(q) + 1) - Len(q) = 1 /\ (Len(q) + Len(l)) - Len(q) = Len(l)
    BY <1>2, <1>6
  <2>. QED
    BY <1>6, <2>2, <2>3, SubSeqFull
<1>8. found = q \o l /\ l = Segments(segs[n])
  BY <1>2, <1>4 DEF l
<1>9. \A i \in 1..n - 1 : found[i] = segs[i]
  BY <1>2, <1>6, <1>8
<1>10. Len(found) = n - 1 + Len(Segments(segs[n])) /\ Len(found) = Len(q) + Len(l)
  BY <1>2, <1>6, <1>8
<1>11. SubSeq(found, n, Len(found)) = Segments(segs[n])
  BY <1>2, <1>7, <1>8, <1>10
<1>. QED
  BY <1>6, <1>8, <1>9, <1>10, <1>11

-----------------------------------------------------------------------------
(* Escaping. *)

LEMMA SeparatorsAreTokens == "/" \in Tokens /\ "%2F" \in Tokens /\ "%252F" \in Tokens
  BY DEF Tokens

\* An escaped value is one segment of an id, and comes back as it was
\* (url.PathEscape in ExpandURL, PathUnescape in parseAgainstTemplate).  A
\* value that was escaped twice before is beyond the depth modelled.
THEOREM EscapedValueIsOneSegment ==
  ASSUME NEW text \in Seq(Tokens), \A i \in DOMAIN text : text[i] # "%252F"
  PROVE  ~HasSlash(Escape(text)) /\ Unescape(Escape(text)) = text
<1>1. DOMAIN Escape(text) = DOMAIN text
  BY DEF Escape
<1>2. \A i \in DOMAIN text : Escape(text)[i] = CASE text[i] = "/"   -> "%2F"
                                                  [] text[i] = "%2F" -> "%252F"
                                                  [] OTHER           -> text[i]
  BY DEF Escape
<1>3. ~HasSlash(Escape(text))
  BY <1>1, <1>2 DEF HasSlash
<1>4. \A i \in DOMAIN text : Unescape(Escape(text))[i] = text[i]
  BY <1>1, <1>2 DEF Unescape
<1>5. DOMAIN Unescape(Escape(text)) = DOMAIN text /\ text = [i \in DOMAIN text |-> text[i]]
  BY <1>1 DEF Unescape
<1> QED BY <1>3, <1>4, <1>5 DEF Unescape

-----------------------------------------------------------------------------
(* Ids parse back. *)

(* Values for it: texts that were not escaped before, the rest not         *)
(* starting with a separator, and the first segment not empty.             *)
Fills(path, attrs) ==
  /\ Fillable(Path(path), attrs)
  /\ ExpandSegment(path[1], attrs) # <<>>
  /\ \A i \in 1..Len(path) : IsPlaceholder(path[i]) =>
       LET v == attrs[path[i].name]
       IN  /\ v \in Seq(Tokens)
           /\ IF path[i].kind = "rest" THEN v = <<>> \/ v[1] # "/"
                                       ELSE \A j \in DOMAIN v : v[j] # "%252F"

LEMMA TemplatePlaces ==
  ASSUME NEW path, IsTemplate(path)
  PROVE  /\ Len(path) \in Nat /\ Len(path) > 0 /\ DOMAIN path = 1..Len(path)
         /\ \A i \in 1..Len(path) :
              path[i].kind \in {"lit", "mm", "one", "rest"} /\ path[i].name \in Tokens
<1>1. path \in Seq(Segment) /\ path # <<>>
  BY DEF IsTemplate
<1>2. /\ Len(path) \in Nat /\ Len(path) > 0 /\ DOMAIN path = 1..Len(path)
      /\ \A i \in 1..Len(path) : path[i] \in Segment
  BY <1>1
<1>3. \A seg \in Segment : seg.kind \in {"lit", "mm", "one", "rest"} /\ seg.name \in Tokens
  BY DEF Segment
<1>. QED
  BY <1>2, <1>3

LEMMA NamesOfPath ==
  ASSUME NEW path
  PROVE  PlaceholderNames(Path(path)) =
           {path[i].name : i \in {j \in DOMAIN path : IsPlaceholder(path[j])}}
<1>1. SegmentsOf(Path(path)) = {path[i] : i \in DOMAIN path}
  BY DEF SegmentsOf, Path, ToSet
<1>. QED
  BY <1>1 DEF PlaceholderNames

LEMMA ExpandedSegment ==
  ASSUME NEW path, IsTemplate(path), NEW attrs, Fills(path, attrs), NEW i \in 1..Len(path)
  PROVE  /\ ExpandSegment(path[i], attrs) \in Seq(Tokens)
         /\ path[i].kind # "rest" => ~ HasSlash(ExpandSegment(path[i], attrs))
         /\ path[i].kind \in {"mm", "one"} =>
              Unescape(ExpandSegment(path[i], attrs)) = attrs[path[i].name]
         /\ path[i].kind = "lit" => ExpandSegment(path[i], attrs) = ExpandSegment(path[i], <<>>)
<1>. DEFINE seg == path[i]
            v == attrs[seg.name]
<1>1. seg.kind \in {"lit", "mm", "one", "rest"} /\ seg.name \in Tokens
  BY TemplatePlaces
<1>2. CASE seg.kind = "lit"
  <2>1. seg.name # "/"
    BY <1>2 DEF IsTemplate
  <2>2. ExpandSegment(seg, attrs) = IF seg.name = "" THEN <<>> ELSE <<seg.name>>
    BY <1>2 DEF ExpandSegment
  <2>3. ExpandSegment(seg, <<>>) = IF seg.name = "" THEN <<>> ELSE <<seg.name>>
    BY <1>2 DEF ExpandSegment
  <2>4. CASE seg.name = ""
    <3>1. <<>> \in Seq(Tokens) /\ ~ HasSlash(<<>>)
      BY DEF HasSlash
    <3>. QED
      BY <1>2, <2>2, <2>3, <2>4, <3>1
  <2>5. CASE seg.name # ""
    <3>1. <<seg.name>> \in Seq(Tokens)
      BY <1>1
    <3>2. ~ HasSlash(<<seg.name>>)
      BY <2>1 DEF HasSlash
    <3>. QED
      BY <1>2, <2>2, <2>3, <2>5, <3>1, <3>2
  <2>. QED
    BY <2>4, <2>5
<1>3. CASE seg.kind = "rest"
  BY <1>3 DEF Fills, IsPlaceholder, ExpandSegment
<1>4. CASE seg.kind \in {"mm", "one"}
  <2>1. v \in Seq(Tokens) /\ \A j \in DOMAIN v : v[j] # "%252F"
    BY <1>4 DEF Fills, IsPlaceholder
  <2>2. ExpandSegment(seg, attrs) = Escape(v)
    BY <1>4 DEF ExpandSegment
  <2>3. ~ HasSlash(Escape(v)) /\ Unescape(Escape(v)) = v
    BY <2>1, EscapedValueIsOneSegment
  <2>4. Escape(v) \in Seq(Tokens)
    <3>1. DOMAIN Escape(v) = 1..Len(v) /\ Len(v) \in Nat
      BY <2>1 DEF Escape
    <3>2. ASSUME NEW j \in 1..Len(v)
          PROVE  Escape(v)[j] \in Tokens
      <4>1. v[j] \in Tokens
        BY <2>1
      <4>2. Escape(v)[j] \in {"%2F", "%252F", v[j]}
        BY <2>1 DEF Escape
      <4>. QED
        BY <4>1, <4>2, SeparatorsAreTokens
    <3>3. Escape(v) = [j \in 1..Len(v) |-> Escape(v)[j]]
      BY <2>1 DEF Escape
    <3>4. Escape(v) \in [1..Len(v) -> Tokens]
      BY <3>1, <3>2, <3>3
    <3>. QED
      BY <3>1, <3>4, SeqDef
  <2>. QED
    BY <1>4, <2>2, <2>3, <2>4
<1>. QED
  BY <1>1, <1>2, <1>3, <1>4

(* What an id is made from is what it is parsed into: the expansion of a   *)
(* path matches that path, and what is captured are the values it was      *)
(* expanded with (ExpandURL and parseAgainstTemplate).                     *)
THEOREM IdParsesBack ==
  ASSUME NEW path, IsTemplate(path), NEW attrs, Fills(path, attrs)
  PROVE  /\ Matches(path, ExpandPath(path, attrs))
         /\ Captures(path, ExpandPath(path, attrs)) =
              [name \in PlaceholderNames(Path(path)) |-> attrs[name]]
<1>1. PICK n \in Nat : n = Len(path) /\ n > 0 /\ DOMAIN path = 1..n /\ n \in 1..n
  BY TemplatePlaces
<1>. DEFINE segs == [i \in DOMAIN path |-> ExpandSegment(path[i], attrs)]
            id == ExpandPath(path, attrs)
            found == Segments(id)
<1>2. \A i \in 1..n : path[i].kind = "rest" => i = n
  BY <1>1 DEF IsTemplate
<1>3. /\ segs \in Seq(Seq(Tokens)) /\ Len(segs) = n
      /\ \A i \in 1..n : segs[i] = ExpandSegment(path[i], attrs)
  BY <1>1, ExpandedSegment
<1>4. segs # <<>> /\ segs[1] # <<>>
  <2>1. ExpandSegment(path[1], attrs) # <<>> /\ 1 \in 1..n
    BY <1>1 DEF Fills
  <2>. QED
    BY <1>3, <2>1
<1>5. \A i \in 1..n - 1 : ~ HasSlash(segs[i])
  <2>1. ASSUME NEW i \in 1..n - 1
        PROVE  ~ HasSlash(segs[i])
    <3>1. i \in 1..n /\ i # n
      BY <1>1
    <3>2. path[i].kind # "rest" /\ segs[i] = ExpandSegment(path[i], attrs)
      <4>. HIDE DEF segs
      <4>. QED
        BY <1>2, <1>3, <3>1
    <3>. HIDE DEF segs
    <3>. QED
      BY <1>1, <3>1, <3>2, ExpandedSegment
  <2>. QED
    BY <2>1
<1>6. id = Joined(segs)
  BY DEF ExpandPath
<1>. HIDE DEF segs
<1>7. /\ \A i \in 1..n - 1 : found[i] = segs[i]
      /\ Len(found) = n - 1 + Len(Segments(segs[n]))
      /\ SubSeq(found, n, Len(found)) = Segments(segs[n])
      /\ found \in Seq(Seq(Tokens))
  <2>. DEFINE q == segs
  <2>. HIDE DEF q
  <2>1. q \in Seq(Seq(Tokens)) /\ q # <<>> /\ q[1] # <<>> /\ Len(q) = n /\ "/" \in Tokens
        /\ \A i \in 1..Len(q) - 1 : ~ HasSlash(q[i])
    BY <1>1, <1>3, <1>4, <1>5, SeparatorsAreTokens DEF q
  <2>2. LET m == Len(q)
            f == Segments(Joined(q))
        IN  /\ f \in Seq(Seq(Tokens))
            /\ \A i \in 1..m - 1 : f[i] = q[i]
            /\ Len(f) = m - 1 + Len(Segments(q[m]))
            /\ SubSeq(f, m, Len(f)) = Segments(q[m])
    BY <2>1, SegmentsOfJoined
  <2>. QED
    BY <1>6, <2>1, <2>2 DEF q
<1>8. segs[n] \in Seq(Tokens) /\ Segments(segs[n]) \in Parts(Tokens)
      /\ Len(Segments(segs[n])) \in Nat \ {0}
  <2>1. segs[n] \in Seq(Tokens)
    BY <1>1, <1>3
  <2>2. Segments(segs[n]) \in Parts(Tokens)
    BY <2>1, SegmentsParts
  <2>3. \A q \in Parts(Tokens) : Len(q) \in Nat \ {0}
    BY DEF Parts
  <2>. QED
    BY <2>1, <2>2, <2>3
<1>9. path[n].kind # "rest" => Len(found) = n /\ found[n] = segs[n]
  <2>1. SUFFICES ASSUME path[n].kind # "rest"
                 PROVE  Len(found) = n /\ found[n] = segs[n]
    OBVIOUS
  <2>2. Segments(segs[n]) = <<segs[n]>>
    BY <1>1, <1>3, <1>8, <2>1, ExpandedSegment, SegmentsOfWord
  <2>3. Len(found) = n
    BY <1>1, <1>7, <2>2
  <2>4. SubSeq(found, n, n)[1] = found[n]
    <3>. DEFINE f == found
    <3>. HIDE DEF f
    <3>1. f \in Seq(Seq(Tokens)) /\ Len(f) = n
      BY <1>7, <2>3 DEF f
    <3>2. SubSeq(f, n, n)[1] = f[n]
      BY <1>1, <3>1
    <3>. QED
      BY <3>2 DEF f
  <2>5. SubSeq(found, n, n) = <<segs[n]>>
    BY <1>7, <2>2, <2>3
  <2>6. <<segs[n]>>[1] = segs[n]
    OBVIOUS
  <2>. HIDE DEF found
  <2>. QED
    BY <2>3, <2>4, <2>5, <2>6
<1>10. \A i \in 1..n : path[i].kind # "rest" => found[i] = segs[i]
  <2>1. ASSUME NEW i \in 1..n, path[i].kind # "rest"
        PROVE  found[i] = segs[i]
    <3>1. i \in 1..n - 1 \/ i = n
      BY <1>1
    <3>. HIDE DEF found
    <3>. QED
      BY <1>7, <1>9, <2>1, <3>1
  <2>. HIDE DEF found
  <2>. QED
    BY <2>1
<1>11. Matches(path, id)
  <2>1. \A i \in 1..n - 1 : path[i].kind # "rest"
    BY <1>1, <1>2
  <2>2. IF path[n].kind = "rest" THEN Len(found) >= n ELSE Len(found) = n
    <3>. DEFINE k == Len(Segments(segs[n]))
                m == Len(found)
    <3>1. k \in Nat \ {0} /\ m = n - 1 + k /\ (path[n].kind # "rest" => m = n)
      BY <1>7, <1>8, <1>9
    <3>. HIDE DEF k, m
    <3>2. IF path[n].kind = "rest" THEN m >= n ELSE m = n
      BY <1>1, <3>1
    <3>. QED
      BY <3>2 DEF m
  <2>3. ASSUME NEW i \in 1..n, path[i].kind = "lit"
        PROVE  found[i] = ExpandSegment(path[i], <<>>)
    <3>1. found[i] = segs[i] /\ segs[i] = ExpandSegment(path[i], attrs)
      <4>. HIDE DEF found
      <4>. QED
        BY <1>3, <1>10, <2>3
    <3>2. ExpandSegment(path[i], attrs) = ExpandSegment(path[i], <<>>)
      BY <1>1, <2>3, ExpandedSegment
    <3>. QED
      BY <3>1, <3>2
  <2>. QED
    BY <1>1, <2>1, <2>2, <2>3 DEF Matches
<1>. DEFINE names == {path[i].name : i \in {j \in DOMAIN path : IsPlaceholder(path[j])}}
            at(name) == CHOOSE i \in DOMAIN path :
                          /\ IsPlaceholder(path[i]) /\ path[i].name = name
                          /\ \A j \in DOMAIN path :
                               IsPlaceholder(path[j]) /\ path[j].name = name => j <= i
            captured(name) ==
              IF path[at(name)].kind = "rest" THEN Joined(SubSeq(found, at(name), Len(found)))
              ELSE Unescape(found[at(name)])
<1>12. ASSUME NEW name \in names
       PROVE  captured(name) = attrs[name]
  <2>. DEFINE Uses == {i \in 1..n : IsPlaceholder(path[i]) /\ path[i].name = name}
  <2>1. Uses # {} /\ Uses \in SUBSET (1..n)
    BY <1>1
  <2>2. Max(Uses) \in Uses /\ \A j \in Uses : Max(Uses) >= j
    <3>. HIDE DEF Uses
    <3>. QED
      BY <1>1, <2>1, MaxIn
  <2>3. \E i \in DOMAIN path :
          /\ IsPlaceholder(path[i]) /\ path[i].name = name
          /\ \A j \in DOMAIN path : IsPlaceholder(path[j]) /\ path[j].name = name => j <= i
    <3>. DEFINE m == Max(Uses)
    <3>1. m \in 1..n /\ IsPlaceholder(path[m]) /\ path[m].name = name
      BY <2>2
    <3>2. \A j \in 1..n : IsPlaceholder(path[j]) /\ path[j].name = name => j <= m
      BY <2>2, <3>1
    <3>. HIDE DEF m
    <3>. QED
      BY <1>1, <3>1, <3>2
  <2>4. at(name) \in 1..n /\ IsPlaceholder(path[at(name)]) /\ path[at(name)].name = name
    BY <1>1, <2>3
  <2>. DEFINE i == at(name)
  <2>. HIDE DEF i
  <2>5. i \in 1..n /\ IsPlaceholder(path[i]) /\ path[i].name = name
    BY <2>4 DEF i
  <2>6. CASE path[i].kind = "rest"
    <3>1. i = n /\ segs[n] = attrs[name]
      <4>1. i = n
        BY <1>2, <2>5, <2>6
      <4>2. segs[i] = ExpandSegment(path[i], attrs)
        BY <1>3, <2>5
      <4>3. ExpandSegment(path[i], attrs) = attrs[name]
        BY <2>5, <2>6 DEF ExpandSegment
      <4>. QED
        BY <4>1, <4>2, <4>3
    <3>2. segs[n] = <<>> \/ segs[n][1] # "/"
      <4>1. attrs[path[i].name] = <<>> \/ attrs[path[i].name][1] # "/"
        BY <1>1, <2>5, <2>6 DEF Fills
      <4>. QED
        BY <2>5, <3>1, <4>1
    <3>3. Joined(Segments(segs[n])) = segs[n]
      BY <1>8, <3>2, SeparatorsAreTokens, JoinedSegments
    <3>4. captured(name) = Joined(SubSeq(found, i, Len(found)))
      BY <2>6 DEF i
    <3>. QED
      BY <1>7, <3>1, <3>3, <3>4
  <2>7. CASE path[i].kind # "rest"
    <3>1. path[i].kind \in {"mm", "one"}
      BY <1>1, <2>5, <2>7, TemplatePlaces DEF IsPlaceholder
    <3>2. Unescape(found[i]) = attrs[name]
      <4>1. found[i] = ExpandSegment(path[i], attrs)
        <5>. HIDE DEF found
        <5>. QED
          BY <1>3, <1>10, <2>5, <2>7
      <4>2. Unescape(ExpandSegment(path[i], attrs)) = attrs[path[i].name]
        BY <1>1, <2>5, <3>1, ExpandedSegment
      <4>. QED
        BY <2>5, <4>1, <4>2
    <3>3. captured(name) = Unescape(found[i])
      BY <2>7 DEF i
    <3>. QED
      BY <3>2, <3>3
  <2>. QED
    BY <2>6, <2>7
<1>13. Captures(path, id) = [name \in names |-> captured(name)]
  BY DEF Captures
<1>14. [name \in names |-> captured(name)] = [name \in names |-> attrs[name]]
  <2>. HIDE DEF names, captured
  <2>. QED
    BY <1>12
<1>15. names = PlaceholderNames(Path(path))
  BY NamesOfPath
<1>. QED
  BY <1>11, <1>13, <1>14, <1>15

(* ... so that resources which differ in anything their path names have    *)
(* different ids.                                                          *)
THEOREM IdsAreDistinct ==
  ASSUME NEW path, IsTemplate(path), NEW a, Fills(path, a), NEW b, Fills(path, b),
         ExpandPath(path, a) = ExpandPath(path, b)
  PROVE  \A name \in PlaceholderNames(Path(path)) : a[name] = b[name]
<1>1. [name \in PlaceholderNames(Path(path)) |-> a[name]] =
        [name \in PlaceholderNames(Path(path)) |-> b[name]]
  BY IdParsesBack
<1>. QED
  BY <1>1

-----------------------------------------------------------------------------
(* What is parsed is made again. *)

LEMMA SegmentsAreWords ==
  ASSUME NEW T, "/" \in T, NEW text \in Seq(T)
  PROVE  \A i \in 1..Len(Segments(text)) : ~ HasSlash(Segments(text)[i])
<1>. DEFINE Clean(segs) == \A i \in 1..Len(segs) : ~ HasSlash(segs[i])
            S == {t \in Seq(T) : Clean(Segments(t))}
<1>1. <<>> \in S
  <2>1. Len(<< <<>> >>) = 1 /\ << <<>> >>[1] = <<>> /\ ~ HasSlash(<<>>) /\ <<>> \in Seq(T)
    BY DEF HasSlash
  <2>. QED
    BY <2>1, SegmentsOfNothing
<1>2. ASSUME NEW t \in Seq(T), NEW e \in T, t \in S
      PROVE  Append(t, e) \in S
  <2>. DEFINE segs == Segments(t)
              m == Len(segs)
              last == segs[m]
  <2>1. Segments(Append(t, e)) = Cut(segs, e) /\ segs \in Parts(T) /\ Clean(segs)
    BY <1>2, SegmentsOneMore, SegmentsParts
  <2>2. /\ segs \in Seq(Seq(T)) /\ m \in Nat /\ m > 0 /\ last \in Seq(T) /\ ~ HasSlash(last)
        /\ DOMAIN segs = 1..m
    <3>. HIDE DEF segs
    <3>. QED
      BY <2>1 DEF Parts
  <2>. HIDE DEF segs, m, last
  <2>3. CASE e = "/"
    <3>1. <<>> \in Seq(T) /\ ~ HasSlash(<<>>)
      BY DEF HasSlash
    <3>2. /\ Len(Append(segs, <<>>)) = m + 1
          /\ \A i \in 1..m + 1 : Append(segs, <<>>)[i] = IF i = m + 1 THEN <<>> ELSE segs[i]
      BY <2>2, <3>1, AppendProperties DEF m
    <3>3. Clean(Append(segs, <<>>))
      BY <2>1, <2>2, <3>1, <3>2 DEF m
    <3>. QED
      BY <2>1, <2>3, <3>3 DEF Cut
  <2>4. CASE e # "/"
    <3>1. /\ Len(Append(last, e)) = Len(last) + 1 /\ DOMAIN Append(last, e) = 1..Len(last) + 1
          /\ \A i \in 1..Len(last) + 1 :
               Append(last, e)[i] = IF i = Len(last) + 1 THEN e ELSE last[i]
      BY <2>2
    <3>2. ~ HasSlash(Append(last, e))
      BY <2>2, <2>4, <3>1 DEF HasSlash
    <3>3. Append(last, e) \in Seq(T)
      BY <2>2
    <3>4. /\ Len([segs EXCEPT ![m] = Append(last, e)]) = m
          /\ \A i \in 1..m : [segs EXCEPT ![m] = Append(last, e)][i] = IF i = m THEN Append(last, e) ELSE segs[i]
      BY <2>2, <3>3, ExceptSeq DEF m
    <3>5. Clean([segs EXCEPT ![m] = Append(last, e)])
      BY <2>1, <3>2, <3>4 DEF m
    <3>6. Cut(segs, e) = [segs EXCEPT ![m] = Append(last, e)]
      BY <2>4 DEF Cut, m, last
    <3>7. Clean(Segments(Append(t, e)))
      BY <2>1, <3>5, <3>6
    <3>8. Append(t, e) \in Seq(T)
      OBVIOUS
    <3>. HIDE DEF Clean
    <3>. QED
      BY <3>7, <3>8
  <2>. QED
    BY <2>3, <2>4
<1>3. Seq(T) \subseteq S
  <2>. HIDE DEF S
  <2>. QED
    BY <1>1, <1>2, Appending
<1>. QED
  BY <1>3

LEMMA AppendedTo ==
  ASSUME NEW T, NEW q \in Seq(T), NEW e \in T
  PROVE  Append(q, e) # <<>>
BY AppendProperties

LEMMA SegmentsStart ==
  ASSUME NEW T, "/" \in T, NEW text \in Seq(T), text # <<>>, text[1] # "/"
  PROVE  Segments(text)[1] # <<>>
<1>. DEFINE Law(t) == t # <<>> /\ t[1] # "/" => Segments(t)[1] # <<>>
            S == {t \in Seq(T) : Law(t)}
<1>1. <<>> \in S
  OBVIOUS
<1>2. ASSUME NEW t \in Seq(T), NEW e \in T, t \in S
      PROVE  Append(t, e) \in S
  <2>. DEFINE segs == Segments(t)
              m == Len(segs)
              more == Append(t, e)
  <2>1. Segments(more) = Cut(segs, e) /\ segs \in Parts(T)
    BY <1>2, SegmentsOneMore, SegmentsParts
  <2>2. segs \in Seq(Seq(T)) /\ m \in Nat /\ m > 0 /\ segs[m] \in Seq(T) /\ DOMAIN segs = 1..m
    <3>. HIDE DEF segs
    <3>. QED
      BY <2>1 DEF Parts
  <2>3. /\ more \in Seq(T) /\ t = <<>> => more[1] = e
        /\ t # <<>> => more[1] = t[1]
    BY <1>2
  <2>4. ASSUME more[1] # "/"
        PROVE  Segments(more)[1] # <<>>
    <3>1. CASE t = <<>>
      <4>1. segs = << <<>> >> /\ e # "/" /\ m = 1
        BY <2>3, <2>4, <3>1, SegmentsOfNothing
      <4>2. Cut(segs, e)[1] = Append(<<>>, e)
        BY <4>1 DEF Cut
      <4>. QED
        BY <2>1, <4>2
    <3>2. CASE t # <<>>
      <4>1. segs[1] # <<>>
        BY <1>2, <2>3, <2>4, <3>2
      <4>. HIDE DEF segs, m
      <4>2. CASE e = "/"
        <5>1. Append(segs, <<>>)[1] = segs[1]
          BY <2>2 DEF m
        <5>. QED
          BY <2>1, <4>1, <4>2, <5>1 DEF Cut
      <4>3. CASE e # "/"
        <5>1. Append(segs[m], e) # <<>>
          BY <2>2, AppendedTo
        <5>2. [segs EXCEPT ![m] = Append(segs[m], e)][1] \in {segs[1], Append(segs[m], e)}
          BY <2>2
        <5>. QED
          BY <2>1, <4>1, <4>3, <5>1, <5>2 DEF Cut, m
      <4>. QED
        BY <4>2, <4>3
    <3>. QED
      BY <3>1, <3>2
  <2>5. Law(more)
    BY <2>4
  <2>. HIDE DEF Law
  <2>. QED
    BY <2>3, <2>5
<1>3. Seq(T) \subseteq S
  <2>. HIDE DEF S
  <2>. QED
    BY <1>1, <1>2, Appending
<1>. QED
  BY <1>3

LEMMA JoinedStarts ==
  ASSUME NEW T, "/" \in T, NEW segs \in Seq(Seq(T)), segs # <<>>, segs[1] # <<>>
  PROVE  Joined(segs) # <<>> /\ Joined(segs)[1] = segs[1][1]
<1>. DEFINE Law(q) == Joined(q) # <<>> /\ Joined(q)[1] = q[1][1]
            Starts(q) == q # <<>> /\ q[1] # <<>> => Law(q)
            S == {q \in Seq(Seq(T)) : Starts(q)}
<1>1. <<>> \in S
  OBVIOUS
<1>2. ASSUME NEW q \in Seq(Seq(T)), NEW e \in Seq(T), q \in S
      PROVE  Append(q, e) \in S
  <2>. DEFINE more == Append(q, e)
  <2>1. /\ more \in Seq(Seq(T)) /\ q = <<>> => more[1] = e
        /\ q # <<>> => more[1] = q[1]
    BY <1>2
  <2>2. Joined(more) = Join(Joined(q), e) /\ Joined(q) \in Seq(T)
    BY <1>2, JoinedOneMore, JoinedText
  <2>3. ASSUME more[1] # <<>>
        PROVE  Law(more)
    <3>1. CASE q = <<>>
      BY <2>1, <2>2, <2>3, <3>1, JoinedOfNothing DEF Join
    <3>2. CASE q # <<>>
      <4>1. Law(q) /\ more[1] = q[1]
        BY <1>2, <2>1, <2>3, <3>2
      <4>. DEFINE j == Joined(q)
      <4>2. Joined(more) = j \o <<"/">> \o e
        BY <2>2, <4>1 DEF Join
      <4>3. j \in Seq(T) /\ j # <<>> /\ <<"/">> \in Seq(T)
        BY <2>2, <4>1
      <4>4. j \o <<"/">> \o e # <<>> /\ (j \o <<"/">> \o e)[1] = j[1]
        <5>. HIDE DEF j
        <5>. QED
          BY <1>2, <4>3
      <4>. QED
        BY <4>1, <4>2, <4>4
    <3>. QED
      BY <3>1, <3>2
  <2>4. Starts(more)
    BY <2>3
  <2>. HIDE DEF Starts
  <2>. QED
    BY <2>1, <2>4
<1>3. Seq(Seq(T)) \subseteq S
  <2>. HIDE DEF S
  <2>. QED
    BY <1>1, <1>2, Appending
<1>. QED
  BY <1>3

\* A segment is the escaped form of what it is parsed into.
LEMMA UnescapedIsEscapedAgain ==
  ASSUME NEW seg \in Seq(Tokens), ~ HasSlash(seg)
  PROVE  /\ Escape(Unescape(seg)) = seg
         /\ Unescape(seg) \in Seq(Tokens)
         /\ \A j \in DOMAIN Unescape(seg) : Unescape(seg)[j] # "%252F"
<1>. DEFINE raw == Unescape(seg)
<1>1. /\ DOMAIN seg = 1..Len(seg) /\ Len(seg) \in Nat
      /\ \A i \in DOMAIN seg : seg[i] \in Tokens /\ seg[i] # "/"
  BY DEF HasSlash
<1>2. /\ DOMAIN raw = DOMAIN seg
      /\ \A i \in DOMAIN seg : raw[i] = CASE seg[i] = "%2F"   -> "/"
                                          [] seg[i] = "%252F" -> "%2F"
                                          [] OTHER            -> seg[i]
  BY DEF Unescape
<1>3. \A i \in DOMAIN seg : raw[i] \in Tokens /\ raw[i] # "%252F"
  BY <1>1, <1>2, SeparatorsAreTokens
<1>4. raw \in [1..Len(seg) -> Tokens]
  BY <1>1, <1>3 DEF Unescape
<1>5. raw \in Seq(Tokens)
  BY <1>1, <1>4, SeqDef
<1>6. /\ DOMAIN Escape(raw) = DOMAIN seg
      /\ \A i \in DOMAIN seg : Escape(raw)[i] = CASE raw[i] = "/"   -> "%2F"
                                                  [] raw[i] = "%2F" -> "%252F"
                                                  [] OTHER          -> raw[i]
  BY <1>2 DEF Escape
<1>7. \A i \in DOMAIN seg : Escape(raw)[i] = seg[i]
  BY <1>1, <1>2, <1>6
<1>8. Escape(raw) = [i \in DOMAIN seg |-> Escape(raw)[i]] /\ seg = [i \in DOMAIN seg |-> seg[i]]
  BY <1>6 DEF Escape
<1>9. Escape(raw) = seg
  BY <1>7, <1>8
<1>. QED
  BY <1>2, <1>3, <1>5, <1>9

LEMMA CapturedAt ==
  ASSUME NEW path, IsTemplate(path), OnceEach(path), NEW id,
         NEW i \in 1..Len(path), IsPlaceholder(path[i])
  PROVE  /\ path[i].name \in DOMAIN Captures(path, id)
         /\ Captures(path, id)[path[i].name] =
              IF path[i].kind = "rest" THEN Joined(SubSeq(Segments(id), i, Len(Segments(id))))
                                       ELSE Unescape(Segments(id)[i])
<1>. DEFINE names == {path[j].name : j \in {k \in DOMAIN path : IsPlaceholder(path[k])}}
            Asks(k, name) == /\ IsPlaceholder(path[k]) /\ path[k].name = name
                             /\ \A j \in DOMAIN path :
                                  IsPlaceholder(path[j]) /\ path[j].name = name => j <= k
            at(name) == CHOOSE k \in DOMAIN path : Asks(k, name)
            name == path[i].name
<1>1. DOMAIN path = 1..Len(path) /\ Len(path) \in Nat
  BY TemplatePlaces
<1>2. name \in names
  BY <1>1
<1>3. \A k \in DOMAIN path : Asks(k, name) <=> k = i
  BY <1>1 DEF OnceEach
<1>4. at(name) = i
  <2>. HIDE DEF Asks
  <2>. QED
    BY <1>1, <1>3
<1>5. Captures(path, id) =
        [n \in names |->
           IF path[at(n)].kind = "rest" THEN Joined(SubSeq(Segments(id), at(n), Len(Segments(id))))
           ELSE Unescape(Segments(id)[at(n)])]
  BY DEF Captures
<1>. HIDE DEF names, at
<1>. QED
  BY <1>2, <1>4, <1>5

(* An id that a path accepts is the one that the path makes of what it     *)
(* captured: an imported id leads back to itself.  A rest that begins with *)
(* an empty segment is the exception (parseAgainstTemplate, ExpandURL).    *)
THEOREM ParsedIdIsMadeAgain ==
  ASSUME NEW path, IsTemplate(path), OnceEach(path), NEW id, IsId(id), Matches(path, id),
         path[Len(path)].kind = "rest" => Segments(id)[Len(path)] # <<>>
  PROVE  Fills(path, Captures(path, id)) /\ ExpandPath(path, Captures(path, id)) = id
<1>1. PICK n \in Nat : n = Len(path) /\ n > 0 /\ DOMAIN path = 1..n /\ n \in 1..n
  BY TemplatePlaces
<1>. DEFINE found == Segments(id)
            m == Len(found)
            attrs == Captures(path, id)
            rest == path[n].kind = "rest"
            tail == SubSeq(found, n, m)
            last == IF rest THEN Joined(tail) ELSE found[n]
            segs == [i \in DOMAIN path |-> ExpandSegment(path[i], attrs)]
<1>2. /\ id \in Seq(Tokens) /\ id # <<>> /\ id[1] # "/"
      /\ found \in Seq(Seq(Tokens)) /\ m \in Nat
      /\ \A i \in 1..m : found[i] \in Seq(Tokens) /\ ~ HasSlash(found[i])
      /\ found[1] # <<>>
      /\ Joined(found) = id
  <2>1. id \in Seq(Tokens) /\ id # <<>> /\ id[1] # "/"
    BY DEF IsId
  <2>2. found \in Seq(Seq(Tokens))
    BY <2>1, SegmentsParts DEF Parts
  <2>3. \A i \in 1..m : ~ HasSlash(found[i])
    BY <2>1, SegmentsAreWords, SeparatorsAreTokens
  <2>4. found[1] # <<>> /\ Joined(found) = id
    BY <2>1, SegmentsStart, JoinedSegments, SeparatorsAreTokens
  <2>. HIDE DEF found
  <2>. QED
    BY <2>1, <2>2, <2>3, <2>4
<1>3. /\ IF rest THEN m >= n ELSE m = n
      /\ \A i \in 1..n : path[i].kind = "lit" => found[i] = ExpandSegment(path[i], <<>>)
      /\ \A i \in 1..n - 1 : path[i].kind # "rest"
  BY <1>1 DEF Matches
<1>4. m >= n /\ 1..n \subseteq 1..m
  BY <1>1, <1>2, <1>3
<1>5. \A i \in 1..n : path[i].kind \in {"lit", "mm", "one", "rest"} /\ (path[i].kind = "rest" => i = n)
  BY <1>1, TemplatePlaces DEF IsTemplate
<1>. HIDE DEF found, m
<1>6. rest => /\ tail \in Seq(Seq(Tokens)) /\ Len(tail) = m - n + 1
              /\ \A j \in 1..m - n + 1 : tail[j] = found[n + j - 1]
              /\ Words(tail)
              /\ Joined(tail) \in Seq(Tokens) /\ Joined(tail) # <<>>
              /\ Segments(Joined(tail)) = tail /\ Joined(tail)[1] # "/"
  <2>. SUFFICES ASSUME rest
                PROVE  /\ tail \in Seq(Seq(Tokens)) /\ Len(tail) = m - n + 1
                       /\ \A j \in 1..m - n + 1 : tail[j] = found[n + j - 1]
                       /\ Words(tail)
                       /\ Joined(tail) \in Seq(Tokens) /\ Joined(tail) # <<>>
                       /\ Segments(Joined(tail)) = tail /\ Joined(tail)[1] # "/"
    OBVIOUS
  <2>1. /\ tail \in Seq(Seq(Tokens)) /\ Len(tail) = m - n + 1
        /\ \A j \in 1..m - n + 1 : tail[j] = found[n + j - 1]
    BY <1>1, <1>2, <1>4 DEF m
  <2>2. found[n] # <<>>
    BY <1>1 DEF found
  <2>3. tail # <<>> /\ tail[1] = found[n] /\ 1 \in 1..m - n + 1
    <3>1. 1 \in 1..m - n + 1 /\ n + 1 - 1 = n /\ m - n + 1 # 0
      BY <1>1, <1>2, <1>4
    <3>. HIDE DEF tail
    <3>. QED
      BY <2>1, <3>1
  <2>4. \A j \in 1..Len(tail) : ~ HasSlash(tail[j])
    BY <1>1, <1>2, <1>4, <2>1
  <2>5. Words(tail)
    BY <2>2, <2>3, <2>4 DEF Words
  <2>. HIDE DEF tail
  <2>6. Joined(tail) \in Seq(Tokens) /\ Joined(tail) # <<>> /\ Segments(Joined(tail)) = tail
    BY <2>1, <2>5, JoinedText, SegmentsOfWords, SeparatorsAreTokens
  <2>7. Joined(tail)[1] = found[n][1]
    BY <2>1, <2>2, <2>3, JoinedStarts, SeparatorsAreTokens
  <2>8. found[n][1] # "/"
    BY <1>1, <1>2, <1>4, <2>2 DEF HasSlash
  <2>. QED
    BY <2>1, <2>5, <2>6, <2>7, <2>8
<1>7. ASSUME NEW i \in 1..n
      PROVE  /\ ExpandSegment(path[i], attrs) = IF i = n THEN last ELSE found[i]
             /\ IsPlaceholder(path[i]) =>
                  LET v == attrs[path[i].name]
                  IN  /\ path[i].name \in DOMAIN attrs
                      /\ v \in Seq(Tokens)
                      /\ IF path[i].kind = "rest" THEN v = <<>> \/ v[1] # "/"
                                                  ELSE \A j \in DOMAIN v : v[j] # "%252F"
  <2>1. found[i] \in Seq(Tokens) /\ ~ HasSlash(found[i])
    BY <1>2, <1>4
  <2>2. CASE path[i].kind = "lit"
    <3>1. ExpandSegment(path[i], attrs) = ExpandSegment(path[i], <<>>)
      BY <2>2 DEF ExpandSegment
    <3>2. i = n => ~ rest
      BY <2>2
    <3>. QED
      BY <1>3, <2>2, <3>1, <3>2 DEF IsPlaceholder
  <2>3. CASE path[i].kind \in {"mm", "one"}
    <3>1. path[i].name \in DOMAIN attrs /\ attrs[path[i].name] = Unescape(found[i])
      BY <1>1, <2>3, CapturedAt DEF IsPlaceholder, found
    <3>2. ExpandSegment(path[i], attrs) = Escape(attrs[path[i].name])
      BY <2>3 DEF ExpandSegment
    <3>3. i = n => ~ rest
      BY <2>3
    <3>. HIDE DEF attrs
    <3>. QED
      BY <2>1, <2>3, <3>1, <3>2, <3>3, UnescapedIsEscapedAgain
  <2>4. CASE path[i].kind = "rest"
    <3>1. i = n /\ rest
      BY <1>5, <2>4
    <3>2. path[i].name \in DOMAIN attrs /\ attrs[path[i].name] = Joined(tail)
      BY <1>1, <2>4, <3>1, CapturedAt DEF IsPlaceholder, found, m
    <3>3. ExpandSegment(path[i], attrs) = attrs[path[i].name]
      BY <2>4 DEF ExpandSegment
    <3>. HIDE DEF attrs, tail
    <3>. QED
      BY <1>6, <2>4, <3>1, <3>2, <3>3
  <2>. QED
    BY <1>5, <2>2, <2>3, <2>4
<1>8. Fills(path, attrs)
  <2>1. Fillable(Path(path), attrs)
    <3>1. PlaceholderNames(Path(path)) \subseteq DOMAIN attrs
      <4>. HIDE DEF attrs
      <4>. QED
        BY <1>1, <1>7, NamesOfPath
    <3>. QED
      BY <3>1 DEF Fillable
  <2>2. ExpandSegment(path[1], attrs) # <<>>
    <3>1. 1 \in 1..n
      BY <1>1
    <3>2. found[n] # <<>> \/ 1 # n
      BY <1>2
    <3>. HIDE DEF attrs, tail
    <3>. QED
      BY <1>2, <1>6, <1>7, <3>1, <3>2
  <2>. HIDE DEF attrs
  <2>. QED
    BY <1>1, <1>7, <2>1, <2>2 DEF Fills
<1>9. /\ segs \in Seq(Seq(Tokens)) /\ Len(segs) = n /\ DOMAIN segs = 1..n
      /\ \A i \in 1..n : segs[i] = IF i = n THEN last ELSE found[i]
  <2>1. last \in Seq(Tokens)
    <3>. HIDE DEF tail
    <3>. QED
      BY <1>1, <1>2, <1>4, <1>6
  <2>2. DOMAIN segs = 1..n /\ \A i \in 1..n : segs[i] = IF i = n THEN last ELSE found[i]
    <3>. HIDE DEF attrs, last
    <3>. QED
      BY <1>1, <1>7
  <2>3. \A i \in 1..n : segs[i] \in Seq(Tokens)
    <3>. HIDE DEF segs, last
    <3>. QED
      BY <1>2, <1>4, <2>1, <2>2
  <2>4. segs \in [1..n -> Seq(Tokens)]
    BY <1>1, <2>3
  <2>. HIDE DEF segs
  <2>. QED
    BY <1>1, <2>2, <2>4, SeqDef
<1>10. ExpandPath(path, attrs) = Joined(segs)
  BY DEF ExpandPath
<1>11. Joined(segs) = id
  <2>1. CASE ~ rest
    <3>1. m = n /\ \A i \in 1..n : segs[i] = found[i]
      BY <1>3, <1>9, <2>1
    <3>2. segs = found
      <4>. HIDE DEF segs
      <4>. QED
        BY <1>2, <1>9, <3>1, SeqEqual DEF m
    <3>. QED
      BY <1>2, <3>2
  <2>2. CASE rest
    <3>. DEFINE x == Joined(segs)
                parts == Segments(x)
    <3>1. /\ segs # <<>> /\ segs[1] # <<>> /\ segs[n] = Joined(tail)
          /\ \A i \in 1..n - 1 : segs[i] = found[i] /\ ~ HasSlash(segs[i])
          /\ segs[1][1] # "/"
      <4>. HIDE DEF segs, tail
      <4>1. \A i \in 1..n - 1 : segs[i] = found[i] /\ ~ HasSlash(segs[i])
        BY <1>1, <1>2, <1>4, <1>9
      <4>2. segs[n] = Joined(tail)
        BY <1>1, <1>9, <2>2
      <4>3. found[1][1] # "/"
        BY <1>1, <1>2, <1>4 DEF HasSlash
      <4>4. CASE n = 1
        <5>1. segs[1] # <<>> /\ segs[1][1] # "/"
          BY <1>6, <2>2, <4>2, <4>4
        <5>2. segs # <<>>
          BY <1>1, <1>9
        <5>. QED
          BY <4>1, <4>2, <5>1, <5>2
      <4>5. CASE n # 1
        <5>1. 1 \in 1..n - 1
          BY <1>1, <4>5
        <5>. QED
          BY <1>1, <1>2, <1>9, <4>1, <4>2, <4>3, <5>1
      <4>. QED
        BY <4>4, <4>5
    <3>2. x \in Seq(Tokens) /\ x # <<>> /\ x[1] # "/"
      <4>. HIDE DEF segs
      <4>. QED
        BY <1>9, <3>1, JoinedText, JoinedStarts, SeparatorsAreTokens
    <3>3. Joined(parts) = x
      <4>. HIDE DEF x
      <4>. QED
        BY <3>2, JoinedSegments, SeparatorsAreTokens
    <3>4. /\ parts \in Seq(Seq(Tokens))
          /\ \A i \in 1..n - 1 : parts[i] = segs[i]
          /\ Len(parts) = n - 1 + Len(Segments(segs[n]))
          /\ SubSeq(parts, n, Len(parts)) = Segments(segs[n])
      <4>. HIDE DEF segs
      <4>. QED
        BY <1>9, <3>1, SegmentsOfJoined, SeparatorsAreTokens
    <3>. HIDE DEF segs, x, tail
    <3>5. Len(parts) = m /\ SubSeq(parts, n, m) = tail
      BY <1>1, <1>2, <1>4, <1>6, <2>2, <3>1, <3>4
    <3>6. \A i \in n..m : parts[i] = found[i]
      <4>. SUFFICES ASSUME NEW i \in n..m
                    PROVE  parts[i] = found[i]
        OBVIOUS
      <4>1. i - n + 1 \in 1..m - n + 1 /\ n + (i - n + 1) - 1 = i
        BY <1>1, <1>2
      <4>2. tail[i - n + 1] = found[i]
        BY <1>6, <2>2, <4>1
      <4>3. SubSeq(parts, n, m)[i - n + 1] = parts[i]
        <5>. HIDE DEF parts
        <5>. QED
          BY <1>1, <1>2, <1>4, <3>4, <3>5, <4>1
      <4>. QED
        BY <3>5, <4>2, <4>3
    <3>7. \A i \in 1..m : parts[i] = found[i]
      <4>1. \A i \in 1..n - 1 : parts[i] = found[i]
        BY <3>1, <3>4
      <4>2. 1..m \subseteq (1..n - 1) \cup (n..m)
        BY <1>1, <1>2
      <4>. HIDE DEF parts
      <4>. QED
        BY <3>6, <4>1, <4>2
    <3>8. parts = found
      <4>. HIDE DEF parts
      <4>. QED
        BY <1>2, <3>4, <3>5, <3>7, SeqEqual DEF m
    <3>. QED
      BY <1>2, <3>3, <3>8 DEF x
  <2>. QED
    BY <2>1, <2>2
<1>. QED
  BY <1>8, <1>10, <1>11

-----------------------------------------------------------------------------
(* A resource is asked for where its id says. *)

LEMMA FirstOfPlaces ==
  ASSUME NEW places, 1 \in places, places \subseteq Nat \ {0}
  PROVE  (CHOOSE i \in places : \A j \in places : i <= j) = 1
<1>. DEFINE First(i) == \A j \in places : i <= j
<1>1. First(1)
  OBVIOUS
<1>2. \A i \in places : First(i) => i = 1
  <2>. TAKE i \in places
  <2>. QED
    OBVIOUS
<1>. HIDE DEF First
<1>3. (CHOOSE i \in places : First(i)) = 1
  <2>1. /\ (CHOOSE i \in places : First(i)) \in places
        /\ First(CHOOSE i \in places : First(i))
    BY <1>1
  <2>. QED
    BY <1>2, <2>1
<1>. QED
  BY <1>3 DEF First

(* A type's own path comes first: whatever else an import of it accepts,   *)
(* the id that the path makes is parsed by the path (ParseProviderID).     *)
THEOREM OwnIdIsParsed ==
  ASSUME NEW ty, IsTemplate(ty.self.path), ty.imports \in Seq(Seq(Segment)),
         NEW attrs, Fills(ty.self.path, attrs)
  PROVE  LET id == ExpandPath(ty.self.path, attrs)
         IN  /\ Parses(ty, id)
             /\ ParseProviderID(ty, id) =
                  [name \in PlaceholderNames(Path(ty.self.path)) |-> attrs[name]]
<1>. DEFINE id == ExpandPath(ty.self.path, attrs)
            shown == ImportTemplates(ty)
            ok == Accepting(ty, id)
<1>1. 1 \in DOMAIN shown /\ shown[1] = ty.self.path /\ DOMAIN shown \subseteq Nat \ {0}
  <2>. DEFINE s == ty.self.path
              t == ty.imports
  <2>1. s \in Seq(Segment) /\ t \in Seq(Seq(Segment)) /\ shown = <<s>> \o t
    BY DEF IsTemplate, ImportTemplates
  <2>. HIDE DEF s, t
  <2>. QED
    BY <2>1 DEF s
<1>2. /\ Matches(ty.self.path, id)
      /\ Captures(ty.self.path, id) = [name \in PlaceholderNames(Path(ty.self.path)) |-> attrs[name]]
  BY IdParsesBack
<1>3. ok = {i \in DOMAIN shown : Matches(shown[i], id) \/ MatchesBound(ty, shown[i], id)}
  BY DEF Accepting
<1>. HIDE DEF id, shown, ok
<1>4. 1 \in ok /\ ok \subseteq Nat \ {0}
  BY <1>1, <1>2, <1>3
<1>5. (CHOOSE i \in ok : \A j \in ok : i <= j) = 1
  BY <1>4, FirstOfPlaces
<1>6. FirstAccepting(ty, id) = ty.self.path
  BY <1>1, <1>5 DEF FirstAccepting, shown, ok
<1>7. ParseProviderID(ty, id) = Captures(ty.self.path, id)
  BY <1>2, <1>6 DEF ParseProviderID, ParsedBy
<1>8. Parses(ty, id)
  BY <1>4 DEF Parses, ok
<1>. QED
  BY <1>2, <1>7, <1>8 DEF id

(* A path that takes one segment at a time makes an id of these segments.  *)
LEMMA OwnSegments ==
  ASSUME NEW path, IsTemplate(path), NEW attrs, Fills(path, attrs), path[Len(path)].kind # "rest"
  PROVE  LET segs == [i \in DOMAIN path |-> ExpandSegment(path[i], attrs)]
         IN  /\ segs \in Seq(Seq(Tokens)) /\ Len(segs) = Len(path) /\ DOMAIN segs = 1..Len(path)
             /\ Words(segs)
             /\ ExpandPath(path, attrs) = Joined(segs)
             /\ Segments(ExpandPath(path, attrs)) = segs
<1>1. PICK n \in Nat : n = Len(path) /\ n > 0 /\ DOMAIN path = 1..n /\ n \in 1..n
  BY TemplatePlaces
<1>. DEFINE segs == [i \in DOMAIN path |-> ExpandSegment(path[i], attrs)]
<1>2. \A i \in 1..n : path[i].kind # "rest"
  BY <1>1 DEF IsTemplate
<1>3. /\ segs \in Seq(Seq(Tokens)) /\ Len(segs) = n /\ DOMAIN segs = 1..n
      /\ \A i \in 1..n : segs[i] = ExpandSegment(path[i], attrs)
  BY <1>1, ExpandedSegment
<1>4. ExpandPath(path, attrs) = Joined(segs)
  BY DEF ExpandPath
<1>5. \A i \in 1..n : ~ HasSlash(ExpandSegment(path[i], attrs))
  BY <1>1, <1>2, ExpandedSegment
<1>6. ExpandSegment(path[1], attrs) # <<>> /\ 1 \in 1..n
  BY <1>1 DEF Fills
<1>. HIDE DEF segs
<1>7. Words(segs)
  BY <1>1, <1>3, <1>5, <1>6 DEF Words
<1>8. Segments(Joined(segs)) = segs
  BY <1>3, <1>7, SegmentsOfWords, SeparatorsAreTokens
<1>. QED
  BY <1>1, <1>3, <1>4, <1>7, <1>8 DEF segs

(* Escaping changes nothing where there is nothing to escape. *)
LEMMA EscapedWord ==
  ASSUME NEW text \in Seq(Tokens), ~ HasSlash(text), \A i \in DOMAIN text : text[i] # "%2F"
  PROVE  Escape(text) = text
<1>1. DOMAIN text = 1..Len(text) /\ text = [i \in DOMAIN text |-> text[i]]
  OBVIOUS
<1>2. \A i \in DOMAIN text : text[i] # "/"
  BY DEF HasSlash
<1>3. Escape(text) = [i \in DOMAIN text |-> text[i]]
  BY <1>2 DEF Escape
<1>. QED
  BY <1>1, <1>3

(* What only depends on the values that a path asks for. *)
LEMMA SameExpansion ==
  ASSUME NEW path, NEW other, DOMAIN other = DOMAIN path, NEW a, NEW b,
         \A i \in DOMAIN path : ExpandSegment(path[i], a) = ExpandSegment(other[i], b)
  PROVE  ExpandPath(path, a) = ExpandPath(other, b)
<1>1. [i \in DOMAIN path |-> ExpandSegment(path[i], a)] =
        [i \in DOMAIN other |-> ExpandSegment(other[i], b)]
  OBVIOUS
<1>. QED
  BY <1>1 DEF ExpandPath

LEMMA SameValues ==
  ASSUME NEW path, IsTemplate(path), NEW a, NEW b,
         \A i \in DOMAIN path : IsPlaceholder(path[i]) => a[path[i].name] = b[path[i].name]
  PROVE  ExpandPath(path, a) = ExpandPath(path, b)
<1>1. \A i \in DOMAIN path : path[i].kind \in {"lit", "mm", "one", "rest"}
  BY TemplatePlaces
<1>2. ASSUME NEW i \in DOMAIN path
      PROVE  ExpandSegment(path[i], a) = ExpandSegment(path[i], b)
  <2>1. CASE path[i].kind = "lit"
    BY <2>1 DEF ExpandSegment
  <2>2. CASE path[i].kind # "lit"
    <3>1. a[path[i].name] = b[path[i].name]
      BY <2>2 DEF IsPlaceholder
    <3>. QED
      BY <1>1, <2>2, <3>1 DEF ExpandSegment
  <2>. QED
    BY <2>1, <2>2
<1>3. [i \in DOMAIN path |-> ExpandSegment(path[i], a)] = [i \in DOMAIN path |-> ExpandSegment(path[i], b)]
  BY <1>2
<1>. QED
  BY <1>3 DEF ExpandPath

(* Where an item is addressed through its collection (itemURL), that is    *)
(* called by the same names as in the item's own path, and nothing in the  *)
(* last segment is escaped: it is escaped again on the way.                *)
InItsCollection(ty, attrs) ==
  LET last == ExpandSegment(Last(ty.self.path), attrs)
  IN  /\ ty.base.path \in Seq(Segment)
      /\ WithoutTrailingSlash(ty.base.path) = ty.base.path
      /\ \A i \in DOMAIN ty.base.path :
           IsPlaceholder(ty.base.path[i]) => ty.base.path[i].name = ty.self.path[i].name
      /\ \A j \in DOMAIN last : last[j] # "%2F"

(* The collection's part of an id. *)
LEMMA CollectionExpands ==
  ASSUME NEW ty, IsTemplate(ty.self.path), NEW attrs, Fills(ty.self.path, attrs),
         CollectionMatches(ty.base.path, ty.self.path), InItsCollection(ty, attrs),
         NEW known, \A i \in DOMAIN ty.self.path :
                      IsPlaceholder(ty.self.path[i]) =>
                        known[ty.self.path[i].name] = attrs[ty.self.path[i].name]
  PROVE  /\ ExpandPath(ty.base.path, known) = ExpandPath(Front(ty.self.path), attrs)
         /\ Len(ty.self.path) > 1
         /\ ty.self.path[Len(ty.self.path)].kind # "rest"
<1>. DEFINE self == ty.self.path
            base == ty.base.path
            front == Front(self)
<1>1. PICK n \in Nat : n = Len(self) /\ n > 1 /\ DOMAIN self = 1..n /\ self[n].kind # "rest"
  BY TemplatePlaces DEF CollectionMatches, Last
<1>2. /\ base \in Seq(Segment) /\ Shape(base) = Shape(front)
      /\ \A i \in DOMAIN base : IsPlaceholder(base[i]) => base[i].name = self[i].name
  BY DEF InItsCollection, CollectionMatches
<1>3. /\ front \in Seq(Segment) /\ DOMAIN front = 1..n - 1
      /\ \A i \in 1..n - 1 : front[i] = self[i]
  <2>1. self \in Seq(Segment)
    BY DEF IsTemplate
  <2>. HIDE DEF self
  <2>2. SubSeq(self, 1, n - 1) \in Seq(Segment) /\ Len(SubSeq(self, 1, n - 1)) = n - 1
        /\ \A i \in 1..n - 1 : SubSeq(self, 1, n - 1)[i] = self[i]
    BY <1>1, <2>1
  <2>. QED
    BY <1>1, <2>2 DEF Front
<1>4. DOMAIN Shape(base) = DOMAIN base /\ DOMAIN Shape(front) = DOMAIN front
  BY DEF Shape
<1>5. DOMAIN base = DOMAIN front
  BY <1>2, <1>4
<1>6. ASSUME NEW i \in DOMAIN base
      PROVE  ExpandSegment(base[i], known) = ExpandSegment(front[i], attrs)
  <2>. DEFINE b == base[i]
              s == front[i]
  <2>1. i \in 1..n - 1 /\ s = self[i] /\ i \in DOMAIN self
    BY <1>1, <1>3, <1>5
  <2>2. /\ Shape(base)[i] = IF b.kind \in {"mm", "one"} THEN One("*") ELSE b
        /\ Shape(front)[i] = IF s.kind \in {"mm", "one"} THEN One("*") ELSE s
    BY <1>5 DEF Shape
  <2>3. (IF b.kind \in {"mm", "one"} THEN One("*") ELSE b) = (IF s.kind \in {"mm", "one"} THEN One("*") ELSE s)
    BY <1>2, <2>2
  <2>4. One("*").kind = "one"
    BY DEF One
  <2>5. IsPlaceholder(b) => b.name = s.name
    BY <1>2, <2>1
  <2>6. IsPlaceholder(s) => known[s.name] = attrs[s.name]
    BY <2>1
  <2>. HIDE DEF b, s
  <2>7. CASE b.kind \in {"mm", "one"}
    <3>1. s.kind \in {"mm", "one"}
      BY <2>3, <2>4, <2>7
    <3>. QED
      BY <2>5, <2>6, <2>7, <3>1 DEF ExpandSegment, IsPlaceholder, b, s
  <2>8. CASE b.kind \notin {"mm", "one"}
    <3>1. s.kind \notin {"mm", "one"} /\ b = s
      BY <2>3, <2>4, <2>8
    <3>2. b \in Segment
      BY <1>2 DEF b
    <3>3. s.kind = "lit" \/ s.kind = "rest"
      BY <3>1, <3>2 DEF Segment
    <3>. QED
      BY <2>6, <3>1, <3>3 DEF ExpandSegment, IsPlaceholder, b, s
  <2>. QED
    BY <2>7, <2>8
<1>7. ExpandPath(base, known) = ExpandPath(front, attrs)
  BY <1>5, <1>6, SameExpansion
<1>. QED
  BY <1>1, <1>7

(* Whatever else an import accepts, a resource with the id that its type's *)
(* path makes is asked for there: at the prefix and the id, by every       *)
(* request that has no template of its own (Read, confirmGone, readBack,   *)
(* and Delete of most types, through itemURL), whether its url is made of  *)
(* the collection or of the path.                                          *)
THEOREM ReadAtItsOwnId ==
  ASSUME NEW ty, IsTemplate(ty.self.path), ty.self = Path(ty.self.path),
         ty.imports \in Seq(Seq(Segment)),
         NEW attrs, Fills(ty.self.path, attrs),
         CollectionMatches(ty.base.path, ty.self.path) => InItsCollection(ty, attrs)
  PROVE  LET id == ExpandPath(ty.self.path, attrs)
         IN  ItemURL(ty, NoTemplate, id, ParseProviderID(ty, id)) = AbsURL(ty, id, {})
<1>. DEFINE self == ty.self.path
            id == ExpandPath(self, attrs)
            known == ParseProviderID(ty, id)
            direct == CollectionMatches(ty.base.path, self) /\ Fillable(ty.base, known)
            url == ItemURL(ty, NoTemplate, id, known)
<1>1. known = [name \in PlaceholderNames(Path(self)) |-> attrs[name]]
  BY OwnIdIsParsed
<1>2. PlaceholderNames(Path(self)) = {self[i].name : i \in {j \in DOMAIN self : IsPlaceholder(self[j])}}
  BY NamesOfPath
<1>3. \A i \in DOMAIN self :
        IsPlaceholder(self[i]) => known[self[i].name] = attrs[self[i].name]
  <2>. HIDE DEF self, known
  <2>. QED
    BY <1>1, <1>2
<1>4. ASSUME ~ direct
      PROVE  url = AbsURL(ty, id, {})
  <2>1. url = IF Fillable(ty.self, known) THEN Expanded(ty, ty.self, known) ELSE NoUrl
    BY <1>4 DEF ItemURL
  <2>2. Fillable(ty.self, known)
    BY <1>1 DEF Fillable
  <2>3. ExpandPath(self, known) = id
    <3>1. \A i \in DOMAIN self : ExpandSegment(self[i], known) = ExpandSegment(self[i], attrs)
      <4>. HIDE DEF known, self
      <4>. QED
        BY <1>3 DEF ExpandSegment, IsPlaceholder
    <3>. QED
      BY <3>1, SameExpansion
  <2>4. ExpandQuery(ty.self.query, known) = {}
    <3>1. ty.self.query = <<>> /\ DOMAIN <<>> = {}
      BY DEF Path
    <3>. QED
      BY <3>1 DEF ExpandQuery
  <2>. QED
    BY <2>1, <2>2, <2>3, <2>4 DEF Expanded
<1>5. ASSUME direct
      PROVE  url = AbsURL(ty, id, {})
  <2>. DEFINE coll == ExpandPath(Front(self), attrs)
              last == ExpandSegment(Last(self), attrs)
  <2>1. url = AbsURL(ty, ExpandPath(WithoutTrailingSlash(ty.base.path), known)
                           \o <<"/">> \o Escape(LastPathSegment(id)), {})
    BY <1>5 DEF ItemURL
  <2>2. /\ WithoutTrailingSlash(ty.base.path) = ty.base.path
        /\ \A j \in DOMAIN last : last[j] # "%2F"
    BY <1>5 DEF InItsCollection
  <2>3. /\ ExpandPath(ty.base.path, known) = coll
        /\ Len(self) > 1 /\ self[Len(self)].kind # "rest"
    <3>. HIDE DEF known
    <3>. QED
      BY <1>3, <1>5, CollectionExpands
  <2>. DEFINE segs == [i \in DOMAIN self |-> ExpandSegment(self[i], attrs)]
              n == Len(self)
  <2>4. /\ segs \in Seq(Seq(Tokens)) /\ Len(segs) = n /\ DOMAIN segs = 1..n
        /\ Words(segs) /\ id = Joined(segs) /\ Segments(id) = segs
    BY <2>3, OwnSegments
  <2>5. n \in Nat /\ n > 1 /\ DOMAIN self = 1..n /\ self \in Seq(Segment)
    BY <2>3, TemplatePlaces DEF IsTemplate
  <2>6. segs[n] = last /\ last \in Seq(Tokens) /\ ~ HasSlash(last)
    <3>1. segs[n] = ExpandSegment(self[n], attrs) /\ Last(self) = self[n]
      BY <2>5 DEF Last
    <3>2. segs[n] \in Seq(Tokens) /\ ~ HasSlash(segs[n])
      <4>. HIDE DEF segs, n
      <4>. QED
        BY <2>4, <2>5 DEF Words
    <3>. QED
      BY <3>1, <3>2
  <2>7. LastPathSegment(id) = last
    <3>1. Last(segs) = segs[n]
      BY <2>4 DEF Last
    <3>. QED
      BY <2>4, <2>6, <3>1 DEF LastPathSegment
  <2>8. Escape(last) = last
    BY <2>2, <2>6, EscapedWord
  <2>9. id = coll \o <<"/">> \o last
    <3>. DEFINE front == SubSeq(segs, 1, n - 1)
    <3>1. /\ front \in Seq(Seq(Tokens)) /\ Len(front) = n - 1 /\ DOMAIN front = 1..n - 1
          /\ segs = Append(front, segs[n])
          /\ \A i \in 1..n - 1 : front[i] = segs[i]
      <4>. HIDE DEF segs, n
      <4>1. segs \in Seq(Seq(Tokens)) /\ Len(segs) = n /\ n \in Nat /\ n > 1
        BY <2>4, <2>5
      <4>2. /\ SubSeq(segs, 1, n - 1) \in Seq(Seq(Tokens)) /\ Len(SubSeq(segs, 1, n - 1)) = n - 1
            /\ DOMAIN SubSeq(segs, 1, n - 1) = 1..n - 1
            /\ \A i \in 1..n - 1 : SubSeq(segs, 1, n - 1)[i] = segs[i]
        BY <4>1
      <4>3. segs[n] \in Seq(Tokens)
        BY <4>1
      <4>4. Append(SubSeq(segs, 1, n - 1), segs[n]) = segs
        <5>1. /\ Append(SubSeq(segs, 1, n - 1), segs[n]) \in Seq(Seq(Tokens))
              /\ Len(Append(SubSeq(segs, 1, n - 1), segs[n])) = n
              /\ \A i \in 1..n : Append(SubSeq(segs, 1, n - 1), segs[n])[i] = segs[i]
          BY <4>1, <4>2, <4>3
        <5>. QED
          BY <4>1, <5>1, SeqEqual
      <4>. QED
        BY <4>1, <4>2, <4>4
    <3>2. coll = Joined(front)
      <4>1. DOMAIN Front(self) = 1..n - 1 /\ \A i \in 1..n - 1 : Front(self)[i] = self[i]
        <5>. HIDE DEF self
        <5>. QED
          BY <2>5 DEF Front
      <4>2. [i \in DOMAIN Front(self) |-> ExpandSegment(Front(self)[i], attrs)] = front
        <5>1. \A i \in 1..n - 1 : front[i] = ExpandSegment(self[i], attrs)
          BY <2>5, <3>1
        <5>2. front = [i \in 1..n - 1 |-> front[i]]
          <6>. HIDE DEF front
          <6>. QED
            BY <3>1
        <5>. HIDE DEF front
        <5>. QED
          BY <4>1, <5>1, <5>2
      <4>. QED
        BY <4>2 DEF ExpandPath
    <3>3. Joined(segs) = Join(Joined(front), segs[n])
      <4>1. segs[n] \in Seq(Tokens)
        BY <2>6
      <4>. HIDE DEF segs, front
      <4>. QED
        BY <3>1, <4>1, JoinedOneMore, SeparatorsAreTokens
    <3>4. Joined(front) # <<>>
      <4>1. Words(front)
        <5>. HIDE DEF segs, front, n
        <5>. QED
          BY <2>4, <2>5, <3>1 DEF Words
      <4>. QED
        BY <3>1, <4>1, SegmentsOfWords, SeparatorsAreTokens
    <3>. QED
      BY <2>4, <2>6, <3>2, <3>3, <3>4 DEF Join
  <2>. QED
    BY <2>1, <2>2, <2>3, <2>7, <2>8, <2>9
<1>. QED
  BY <1>4, <1>5
-----------------------------------------------------------------------------
(* What the API and a type of it agree on. *)

LEMMA SelfAndImports ==
  ASSUME NEW ty, UrlsAreTemplates(ty)
  PROVE  /\ IsTemplate(ty.self.path) /\ OnceEach(ty.self.path) /\ ty.self = Path(ty.self.path)
         /\ ty.imports \in Seq(Seq(Segment))
         /\ ty.self.path \in {ImportTemplates(ty)[i] : i \in DOMAIN ImportTemplates(ty)}
         /\ \A i \in DOMAIN ty.imports : IsTemplate(ty.imports[i])
<1>. DEFINE s == ty.self.path
            t == ty.imports
            shown == <<s>> \o t
<1>1. t \in Seq(Seq(Segment)) /\ DOMAIN t = 1..Len(t) /\ Len(t) \in Nat
  BY DEF UrlsAreTemplates
<1>2. ImportTemplates(ty) = shown
  BY DEF ImportTemplates
<1>3. /\ DOMAIN shown = 1..Len(t) + 1 /\ 1 \in 1..Len(t) + 1 /\ shown[1] = s
      /\ \A i \in 1..Len(t) : shown[i + 1] = t[i] /\ i + 1 \in 1..Len(t) + 1
  <2>. HIDE DEF s, t
  <2>1. <<s>> \in Seq({s} \cup Seq(Segment)) /\ t \in Seq({s} \cup Seq(Segment)) /\ Len(<<s>>) = 1 /\ <<s>>[1] = s
    BY <1>1
  <2>. QED
    BY <1>1, <2>1, ConcatProperties DEF shown
<1>4. \A i \in DOMAIN shown : IsTemplate(shown[i]) /\ OnceEach(shown[i])
  BY <1>2 DEF UrlsAreTemplates
<1>5. ty.self = Path(s)
  BY DEF UrlsAreTemplates
<1>. HIDE DEF s, t, shown
<1>6. IsTemplate(s) /\ OnceEach(s) /\ s \in {shown[i] : i \in DOMAIN shown}
  BY <1>3, <1>4
<1>7. \A i \in DOMAIN t : IsTemplate(t[i])
  BY <1>1, <1>3, <1>4
<1>. QED
  BY <1>1, <1>2, <1>5, <1>6, <1>7 DEF s, t

\* Self accepts what the get does.
LEMMA SelfAccepts ==
  ASSUME NEW t, FitsItsApi(t), NEW key, IsId(key), Matches(GetPath(t.src), key)
  PROVE  /\ Matches(t.ty.self.path, key)
         /\ IsBareCapture(t.ty.self.path) => HasSlash(key)
         /\ t.ty.self.path[Len(t.ty.self.path)].kind = "rest" => Segments(key)[Len(t.ty.self.path)] # <<>>
<1>. DEFINE self == t.ty.self.path
            path == GetPath(t.src)
            segs == Segments(key)
            n == Len(path)
<1>1. IsTemplate(self) /\ IsTemplate(path)
  BY SelfAndImports DEF FitsItsApi, GetIsPublished, GetPath
<1>2. /\ n \in Nat /\ n > 0 /\ DOMAIN path = 1..n
      /\ Len(self) \in Nat /\ Len(self) > 0 /\ DOMAIN self = 1..Len(self)
      /\ \A i \in 1..n : path[i].kind \in {"lit", "mm", "one", "rest"}
      /\ \A i \in 1..Len(self) : self[i].kind \in {"lit", "mm", "one", "rest"}
  BY <1>1, TemplatePlaces
<1>3. key \in Seq(Tokens) /\ segs \in Seq(Seq(Tokens)) /\ segs # <<>> /\ Len(segs) \in Nat /\ Len(segs) > 0
      /\ segs[1] # <<>>
  <2>1. key \in Seq(Tokens) /\ key # <<>> /\ key[1] # "/"
    BY DEF IsId
  <2>2. segs \in Seq(Seq(Tokens)) /\ segs # <<>> /\ segs[1] # <<>>
    BY <2>1, SegmentsParts, SegmentsStart, SeparatorsAreTokens DEF Parts
  <2>. HIDE DEF segs
  <2>. QED
    BY <2>1, <2>2
<1>4. /\ \A i \in 1..n - 1 : path[i].kind # "rest"
      /\ IF path[n].kind = "rest" THEN Len(segs) >= n ELSE Len(segs) = n
      /\ \A i \in 1..n : path[i].kind = "lit" => segs[i] = ExpandSegment(path[i], <<>>)
  BY DEF Matches
<1>. HIDE DEF segs
<1>5. CASE IsBareCapture(self) /\ n > 1
  <2>1. Len(self) = 1 /\ self[1].kind = "rest"
    BY <1>5 DEF IsBareCapture
  <2>2. Matches(self, key)
    BY <1>3, <2>1 DEF Matches, segs
  <2>3. HasSlash(key)
    <3>1. ~ HasSlash(key) => Len(segs) = 1
      BY <1>3, SegmentsOfWord DEF segs
    <3>2. Len(segs) # 1
      <4>1. n > 1 /\ n \in Nat /\ Len(segs) \in Nat
        BY <1>2, <1>3, <1>5
      <4>2. Len(segs) >= n \/ Len(segs) = n
        BY <1>4, Zenon
      <4>3. \A a, b \in Nat : b > 1 /\ (a >= b \/ a = b) => a # 1
        OBVIOUS
      <4>. HIDE DEF n, path
      <4>. QED
        BY <4>1, <4>2, <4>3, Zenon
    <3>. QED
      BY <3>1, <3>2, Zenon
  <2>. QED
    BY <1>3, <2>1, <2>2, <2>3 DEF segs
<1>6. CASE Last(self).kind # "rest" /\ Shape(path) = Shape(self)
  <2>1. self[Len(self)].kind # "rest"
    BY <1>6 DEF Last
  <2>2. DOMAIN Shape(path) = DOMAIN path /\ DOMAIN Shape(self) = DOMAIN self
    BY DEF Shape
  <2>3. Len(self) = n
    BY <1>2, <1>6, <2>2
  <2>4. ASSUME NEW i \in 1..n
        PROVE  /\ self[i].kind = "rest" <=> path[i].kind = "rest"
               /\ self[i].kind = "lit" => path[i] = self[i]
    <3>1. /\ Shape(path)[i] = IF path[i].kind \in {"mm", "one"} THEN One("*") ELSE path[i]
          /\ Shape(self)[i] = IF self[i].kind \in {"mm", "one"} THEN One("*") ELSE self[i]
      BY <1>2, <2>3 DEF Shape
    <3>2. One("*").kind = "one"
      BY DEF One
    <3>3. (IF path[i].kind \in {"mm", "one"} THEN One("*") ELSE path[i])
            = (IF self[i].kind \in {"mm", "one"} THEN One("*") ELSE self[i])
      BY <1>6, <3>1
    <3>. HIDE DEF self, path
    <3>. QED
      BY <3>2, <3>3
  <2>5. n \in 1..n
    BY <1>2
  <2>6. path[n].kind # "rest"
    BY <2>1, <2>3, <2>4, <2>5
  <2>7. \A i \in 1..n - 1 : self[i].kind # "rest"
    BY <1>2, <1>4, <2>4
  <2>8. \A i \in 1..n : self[i].kind = "lit" => segs[i] = ExpandSegment(self[i], <<>>)
    BY <1>4, <2>4
  <2>9. Matches(self, key)
    BY <1>2, <1>4, <2>1, <2>3, <2>6, <2>7, <2>8 DEF Matches, segs
  <2>10. ~ IsBareCapture(self)
    BY <2>1, <2>3, <2>5 DEF IsBareCapture
  <2>. QED
    BY <2>1, <2>9, <2>10
<1>7. (IsBareCapture(self) /\ n > 1) \/ (Last(self).kind # "rest" /\ Shape(path) = Shape(self))
  BY DEF FitsItsApi, SelfIsTheGets
<1>. QED
  BY <1>5, <1>6, <1>7

\* A url under the API's own prefix.
LEMMA RelativeTo ==
  ASSUME NEW t, FitsItsApi(t), NEW rel \in Seq(Tokens), NEW url, url.path = t.ty.prefix \o rel
  PROVE  IsPrefix(ApiPrefix(t.src), url.path) /\ Relative(t.src, url) = rel
<1>. DEFINE prefix == t.ty.prefix
            whole == prefix \o rel
<1>1. prefix \in Seq(Tokens) /\ prefix = ApiPrefix(t.src)
  BY DEF FitsItsApi
<1>. HIDE DEF prefix
<1>2. /\ whole \in Seq(Tokens) /\ Len(whole) = Len(prefix) + Len(rel) /\ Len(prefix) \in Nat /\ Len(rel) \in Nat
      /\ \A i \in 1..Len(prefix) : whole[i] = prefix[i]
  BY <1>1, ConcatProperties
<1>3. SubSeq(whole, Len(prefix) + 1, Len(whole)) = rel
  BY <1>1, SubSeqOfConcat2, <1>2
<1>. HIDE DEF whole
<1>4. SubSeq(prefix, 1, Len(prefix)) = SubSeq(whole, 1, Len(prefix))
  <2>1. /\ SubSeq(prefix, 1, Len(prefix)) \in Seq(Tokens) /\ SubSeq(whole, 1, Len(prefix)) \in Seq(Tokens)
        /\ Len(SubSeq(prefix, 1, Len(prefix))) = Len(prefix) /\ Len(SubSeq(whole, 1, Len(prefix))) = Len(prefix)
        /\ \A i \in 1..Len(prefix) : SubSeq(prefix, 1, Len(prefix))[i] = SubSeq(whole, 1, Len(prefix))[i]
    BY <1>1, <1>2
  <2>. QED
    BY <2>1, SeqEqual
<1>5. IsPrefix(prefix, whole)
  <2>1. Len(prefix) <= Len(whole)
    BY <1>2
  <2>. QED
    BY <1>4, <2>1 DEF IsPrefix
<1>6. url.path = whole
  BY DEF prefix, whole
<1>. QED
  BY <1>1, <1>3, <1>5, <1>6 DEF Relative

\* A request to an id that the get accepts is about the resource with that id.
LEMMA AskedAt ==
  ASSUME NEW t, FitsItsApi(t), NEW key, IsId(key), Matches(GetPath(t.src), key),
         NEW req, Relative(t.src, req.url) = key
  PROVE  ItemKey(t.src, req) = key
<1>. DEFINE url == req.url
            path == GetPath(t.src)
            segs == Segments(key)
            n == Len(path)
<1>1. key \in Seq(Tokens) /\ key # <<>> /\ key[1] # "/"
  BY DEF IsId
<1>2. "get" \in DOMAIN t.src.methods /\ IsTemplate(path)
  BY DEF FitsItsApi, GetIsPublished, GetPath
<1>3. FlatPath(Method(t.src, IF "get" \in DOMAIN t.src.methods THEN "get" ELSE "delete")) = path
  BY <1>2 DEF GetPath
<1>4. n \in Nat /\ n > 0 /\ Last(path) = path[n]
  BY <1>2, TemplatePlaces DEF Last
<1>5. IF path[n].kind = "rest" THEN Len(segs) >= n ELSE Len(segs) = n
  BY DEF Matches
<1>6. Joined(segs) = key /\ segs \in Seq(Seq(Tokens)) /\ Len(segs) \in Nat
  <2>1. Joined(segs) = key
    BY <1>1, JoinedSegments, SeparatorsAreTokens
  <2>2. segs \in Seq(Seq(Tokens))
    BY <1>1, SegmentsParts DEF Parts
  <2>. HIDE DEF segs
  <2>. QED
    BY <2>1, <2>2
<1>7. ItemKey(t.src, req) =
        CASE path[n].kind = "rest"                     -> Joined(segs)
          [] path[n].kind # "rest" /\ Len(segs) >= n   -> Joined(SubSeq(segs, 1, n))
          [] OTHER -> IF t.src.api.item \in QueryKeys(url)
                      THEN Joined(segs) \o <<"/">> \o QueryValue(url, t.src.api.item) ELSE NoId
  BY <1>3, <1>4 DEF ItemKey
<1>. HIDE DEF segs
<1>8. path[n].kind # "rest" => Len(segs) >= n /\ SubSeq(segs, 1, n) = segs
  BY <1>4, <1>5, <1>6, SubSeqFull
<1>. HIDE DEF path, n
<1>. QED
  BY <1>6, <1>7, <1>8

\* The names in a query.
KeysIn(query) == {q[1] : q \in query}

\* A request that a method takes, at the API's one host.
LEMMA IsAnswered ==
  ASSUME NEW t, FitsItsApi(t), NEW req, NEW rel \in Seq(Tokens), NEW query,
         req.url = AbsURL(t.ty, rel, query),
         NEW method, method.verb = req.verb, Matches(FlatPath(method), rel),
         QueryFits(method, KeysIn(query)),
         req.role \in {"create", "update"} => (req.body.enveloped <=> method.body = "other")
  PROVE  Answers(method, t.src, req)
<1>1. HostFor(t.ty, rel) = <<"global">>
  BY DEF HostFor, FitsItsApi
<1>2. req.url.host = <<"global">> /\ req.url.path = t.ty.prefix \o rel /\ req.url.query = query
  <2>1. AbsURL(t.ty, rel, query) = [host |-> HostFor(t.ty, rel), path |-> t.ty.prefix \o rel, query |-> query]
    BY DEF AbsURL
  <2>. QED
    BY <1>1, <2>1
<1>3. IsPrefix(ApiPrefix(t.src), req.url.path) /\ Relative(t.src, req.url) = rel
  BY <1>2, RelativeTo
<1>4. QueryKeys(req.url) = KeysIn(query)
  BY <1>2 DEF QueryKeys, KeysIn
<1>5. ~ t.src.mm.regional
  BY DEF FitsItsApi
<1>. QED
  BY <1>2, <1>3, <1>4, <1>5 DEF Answers, QueryFits

\* What is asked for at an id is answered with the resource, where the get
\* accepts the id.
LEMMA AnsweredAt ==
  ASSUME NEW t, FitsItsApi(t), NEW obj, NEW key, IsId(key), obj.key = key, Matches(GetPath(t.src), key),
         NEW req, req.role = "get", req.verb = "GET", req.url = AbsURL(t.ty, key, {})
  PROVE  Published(t.src, req) /\ ItemKey(t.src, req) = key
<1>. DEFINE get == Method(t.src, "get")
<1>1. key \in Seq(Tokens)
  BY DEF IsId
<1>2. /\ get.verb = "GET" /\ t.src.api.roles["get"] = {"get"}
      /\ \A p \in DOMAIN get.params : ~ (get.params[p].in = "query" /\ get.params[p].required)
  BY DEF FitsItsApi, GetIsPublished
<1>3. Matches(FlatPath(get), key)
  BY DEF GetPath
<1>4. QueryFits(get, KeysIn({}))
  BY <1>2 DEF QueryFits, KeysIn
<1>. HIDE DEF get
<1>5. Answers(get, t.src, req)
  BY <1>1, <1>2, <1>3, <1>4, IsAnswered
<1>6. Published(t.src, req)
  BY <1>2, <1>5 DEF Published, get
<1>7. req.url.path = t.ty.prefix \o key
  BY DEF AbsURL
<1>8. Relative(t.src, req.url) = key
  BY <1>1, <1>7, RelativeTo
<1>. QED
  BY <1>6, <1>8, AskedAt

\* The full name of a resource parses, by the type's own path; and what it
\* says of the resource makes the name, and the address, again.
LEMMA OwnAddress ==
  ASSUME NEW t, FitsItsApi(t), NEW obj, IsResource(obj), Matches(GetPath(t.src), obj.key)
  PROVE  LET self  == t.ty.self.path
             known == ParseProviderID(t.ty, obj.key)
         IN  /\ Parses(t.ty, obj.key)
             /\ known = [name \in PlaceholderNames(Path(self)) |-> Captures(self, obj.key)[name]]
             /\ ExpandPath(self, known) = obj.key
             /\ ItemURL(t.ty, NoTemplate, obj.key, known) = AbsURL(t.ty, obj.key, {})
<1>. DEFINE key == obj.key
            self == t.ty.self.path
            attrs == Captures(self, key)
            known == ParseProviderID(t.ty, key)
<1>1. IsId(key) /\ UrlsAreTemplates(t.ty)
  BY DEF IsResource, FitsItsApi
<1>2. IsTemplate(self) /\ OnceEach(self) /\ t.ty.self = Path(self) /\ t.ty.imports \in Seq(Seq(Segment))
  BY <1>1, SelfAndImports
<1>3. Fills(self, attrs) /\ ExpandPath(self, attrs) = key
  <2>1. /\ Matches(self, key)
        /\ self[Len(self)].kind = "rest" => Segments(key)[Len(self)] # <<>>
    BY <1>1, SelfAccepts
  <2>. QED
    BY <1>1, <1>2, <2>1, ParsedIdIsMadeAgain
<1>4. CollectionMatches(t.ty.base.path, self) => InItsCollection(t.ty, attrs)
  <2>1. SUFFICES ASSUME CollectionMatches(t.ty.base.path, self)
                 PROVE  InItsCollection(t.ty, attrs)
    OBVIOUS
  <2>. DEFINE n == Len(self)
              segs == [i \in DOMAIN self |-> ExpandSegment(self[i], attrs)]
  <2>2. n \in Nat /\ n > 0 /\ DOMAIN self = 1..n /\ self[n].kind # "rest" /\ Last(self) = self[n]
    BY <1>2, <2>1, TemplatePlaces DEF CollectionMatches, Last
  <2>3. Segments(key) = segs /\ Len(segs) = n
    BY <1>2, <1>3, <2>2, OwnSegments
  <2>4. LastPathSegment(key) = ExpandSegment(Last(self), attrs)
    <3>1. segs[n] = ExpandSegment(self[n], attrs)
      BY <2>2
    <3>2. Last(segs) = segs[n]
      BY <2>3 DEF Last
    <3>. HIDE DEF segs, attrs, self, n
    <3>. QED
      BY <2>2, <2>3, <3>1, <3>2 DEF LastPathSegment
  <2>5. CollectionFits(t.ty)
    BY <2>1 DEF FitsItsApi
  <2>6. \A j \in DOMAIN LastPathSegment(key) : LastPathSegment(key)[j] # "%2F"
    BY DEF IsResource
  <2>. HIDE DEF attrs, key
  <2>. QED
    BY <2>4, <2>5, <2>6 DEF InItsCollection, CollectionFits
<1>5. Parses(t.ty, key) /\ known = [name \in PlaceholderNames(Path(self)) |-> attrs[name]]
  <2>1. /\ Parses(t.ty, ExpandPath(self, attrs))
        /\ ParseProviderID(t.ty, ExpandPath(self, attrs)) = [name \in PlaceholderNames(Path(self)) |-> attrs[name]]
    <3>. HIDE DEF attrs
    <3>. QED
      BY <1>2, <1>3, OwnIdIsParsed
  <2>. QED
    BY <1>3, <2>1
<1>6. ItemURL(t.ty, NoTemplate, key, known) = AbsURL(t.ty, key, {})
  <2>. HIDE DEF attrs
  <2>1. ItemURL(t.ty, NoTemplate, ExpandPath(self, attrs), ParseProviderID(t.ty, ExpandPath(self, attrs)))
          = AbsURL(t.ty, ExpandPath(self, attrs), {})
    BY <1>2, <1>3, <1>4, ReadAtItsOwnId
  <2>. QED
    BY <1>3, <2>1
<1>7. ExpandPath(self, known) = ExpandPath(self, attrs)
  <2>1. \A i \in DOMAIN self : IsPlaceholder(self[i]) => self[i].name \in PlaceholderNames(Path(self))
    BY NamesOfPath
  <2>2. \A i \in DOMAIN self : IsPlaceholder(self[i]) => known[self[i].name] = attrs[self[i].name]
    <3>. HIDE DEF attrs, known, self
    <3>. QED
      BY <1>5, <2>1
  <2>. HIDE DEF attrs, known, self
  <2>. QED
    BY <1>2, <2>2, SameValues
<1>. QED
  BY <1>3, <1>5, <1>6, <1>7

(* A resource is found at its full name: the name parses, by the type's    *)
(* own path, and what Read and readBack then ask for is published and      *)
(* answered with that resource.                                            *)
THEOREM FoundAtItsFullName ==
  ASSUME NEW t, FitsItsApi(t), NEW obj, IsResource(obj), Matches(GetPath(t.src), obj.key)
  PROVE  /\ Finds(t, obj, obj.key)
         /\ ReadBodies(t, obj, obj.key) = <<Answer(t.src, obj)>>
<1>. DEFINE key == obj.key
            req == ReadRequest(t, key)
<1>1. IsId(key) /\ t.ty.readVia = ""
  BY DEF IsResource, FitsItsApi
<1>2. Parses(t.ty, key) /\ ItemURL(t.ty, NoTemplate, key, ParseProviderID(t.ty, key)) = AbsURL(t.ty, key, {})
  BY OwnAddress
<1>3. req.role = "get" /\ req.verb = "GET" /\ req.url = AbsURL(t.ty, key, {})
  BY <1>1, <1>2 DEF ReadRequest, Request
<1>4. Published(t.src, req) /\ ItemKey(t.src, req) = key
  <2>. HIDE DEF req
  <2>. QED
    BY <1>1, <1>3, AnsweredAt
<1>5. Answered(t, obj, key, req) = <<Answer(t.src, obj)>>
  <2>. HIDE DEF req
  <2>. QED
    BY <1>3, <1>4 DEF Answered
<1>. QED
  BY <1>2, <1>5 DEF Finds, ReadBodies

\* A link is reduced by the first prefix in it, which is the type's where
\* the host has none of its own.
LEMMA LinkIsReduced ==
  ASSUME NEW ty, ty.prefix \in Seq(Tokens), ty.prefix # <<>>,
         NEW link \in Seq(Tokens), link # <<>>, link[Len(link)] = "/",
         \A i \in DOMAIN link : link[i] # ty.prefix[1],
         NEW key \in Seq(Tokens)
  PROVE  ReduceSelfLink(ty, link \o ty.prefix \o key) = key
<1>. DEFINE prefix == ty.prefix
            head == link \o prefix
            text == head \o key
            l == Len(link)
            p == Len(prefix)
            Anchored(i) == /\ i = 1 \/ text[i - 1] = "/"
                           /\ SubSeq(text, i, i + p - 1) = prefix
            at == {i \in 1..Len(text) - p + 1 : Anchored(i)}
<1>1. /\ l \in Nat /\ l > 0 /\ l = Len(link) /\ p \in Nat /\ p > 0 /\ p = Len(prefix)
      /\ Len(key) \in Nat
      /\ prefix \in Seq(Tokens)
      /\ link[l] = "/" /\ \A i \in 1..l : link[i] # prefix[1]
  <2>1. prefix \in Seq(Tokens) /\ prefix # <<>> /\ \A i \in DOMAIN link : link[i] # prefix[1]
    BY DEF prefix
  <2>. HIDE DEF prefix
  <2>. QED
    BY <2>1
<1>. HIDE DEF l, p, prefix
<1>2. /\ head \in Seq(Tokens) /\ Len(head) = l + p
      /\ \A i \in 1..l : head[i] = link[i]
      /\ SubSeq(head, l + 1, l + p) = prefix
  <2>2. head \in Seq(Tokens) /\ Len(head) = l + p /\ \A i \in 1..l : head[i] = link[i]
    BY <1>1, ConcatProperties
  <2>3. SubSeq(head, l + 1, l + p) = SubSeq(prefix, 1, p)
    <3>1. l + 1 \in l + 1..l + p /\ l + p \in l + 1..l + p /\ l + 1 - l = 1 /\ l + p - l = p
      BY <1>1
    <3>. QED
      BY <1>1, <3>1, SubSeqOfConcat2
  <2>4. SubSeq(prefix, 1, p) = prefix
    BY <1>1, SubSeqFull
  <2>. QED
    BY <2>2, <2>3, <2>4
<1>3. /\ text \in Seq(Tokens) /\ Len(text) = l + p + Len(key)
      /\ \A i \in 1..l + p : text[i] = head[i]
      /\ SubSeq(text, l + p + 1, Len(text)) = key
  <2>. HIDE DEF head
  <2>1. text \in Seq(Tokens) /\ Len(text) = l + p + Len(key) /\ \A i \in 1..l + p : text[i] = head[i]
    <3>1. /\ text \in Seq(Tokens) /\ Len(text) = Len(head) + Len(key)
          /\ \A i \in 1..Len(head) + Len(key) : text[i] = IF i <= Len(head) THEN head[i] ELSE key[i - Len(head)]
      BY <1>2, ConcatProperties
    <3>. HIDE DEF text
    <3>2. Len(text) = l + p + Len(key) /\ \A i \in 1..l + p : i \in 1..Len(head) + Len(key) /\ i <= Len(head)
      BY <1>1, <1>2, <3>1
    <3>. QED
      BY <3>1, <3>2
  <2>2. ASSUME key # <<>>
        PROVE  SubSeq(text, l + p + 1, l + p + Len(key)) = SubSeq(key, 1, Len(key))
    <3>0. Len(key) > 0
      BY <1>1, <2>2
    <3>1. /\ l + p + 1 \in Len(head) + 1..Len(head) + Len(key) /\ l + p + Len(key) \in Len(head) + 1..Len(head) + Len(key)
          /\ (l + p + 1) - Len(head) = 1 /\ (l + p + Len(key)) - Len(head) = Len(key)
      BY <1>1, <1>2, <3>0
    <3>2. \A a, b \in Len(head) + 1..Len(head) + Len(key) :
            SubSeq(head \o key, a, b) = SubSeq(key, a - Len(head), b - Len(head))
      BY <1>2, SubSeqOfConcat2
    <3>. QED
      BY <3>1, <3>2, Zenon
  <2>3. ASSUME key = <<>>
        PROVE  SubSeq(text, l + p + 1, l + p + Len(key)) = SubSeq(key, 1, Len(key))
    <3>1. Len(key) = 0
      BY <2>3
    <3>. HIDE DEF text
    <3>2. l + p + Len(key) = l + p /\ Len(SubSeq(text, l + p + 1, l + p)) = 0
          /\ SubSeq(text, l + p + 1, l + p) \in Seq(Tokens)
      BY <1>1, <2>1, <3>1
    <3>3. SubSeq(text, l + p + 1, l + p) = <<>>
      BY <3>2, EmptySeq
    <3>4. SubSeq(key, 1, Len(key)) = key
      BY SubSeqFull
    <3>. QED
      BY <2>3, <3>2, <3>3, <3>4
  <2>. QED
    BY <2>1, <2>2, <2>3, SubSeqFull
<1>. HIDE DEF head, text
<1>4. l + 1 \in at
  <2>1. l + 1 \in 1..Len(text) - p + 1
    BY <1>1, <1>3
  <2>2. text[(l + 1) - 1] = "/"
    <3>1. l \in 1..l /\ l \in 1..l + p /\ (l + 1) - 1 = l
      BY <1>1
    <3>. QED
      BY <1>1, <1>2, <1>3, <3>1
  <2>3. SubSeq(text, l + 1, (l + 1) + p - 1) = prefix
    <3>1. SubSeq(text, l + 1, l + p) = SubSeq(head, l + 1, l + p)
      <4>1. /\ SubSeq(text, l + 1, l + p) \in Seq(Tokens) /\ SubSeq(head, l + 1, l + p) \in Seq(Tokens)
            /\ Len(SubSeq(text, l + 1, l + p)) = p /\ Len(SubSeq(head, l + 1, l + p)) = p
            /\ \A i \in 1..p : /\ SubSeq(text, l + 1, l + p)[i] = text[l + i]
                               /\ SubSeq(head, l + 1, l + p)[i] = head[l + i]
                               /\ l + i \in 1..l + p
        BY <1>1, <1>2, <1>3
      <4>. QED
        BY <1>1, <1>3, <4>1, SeqEqual
    <3>2. (l + 1) + p - 1 = l + p
      BY <1>1
    <3>. QED
      BY <1>2, <3>1, <3>2
  <2>4. Anchored(l + 1)
    BY <2>2, <2>3
  <2>. HIDE DEF Anchored
  <2>. QED
    BY <2>1, <2>4
<1>5. \A i \in at : l + 1 <= i
  <2>1. SUFFICES ASSUME NEW i \in at, i <= l
                 PROVE  FALSE
    <3>1. at \subseteq Int
      BY <1>1, <1>3
    <3>. HIDE DEF at
    <3>. QED
      BY <1>1, <3>1
  <2>2. i \in 1..l /\ i \in 1..l + p /\ SubSeq(text, i, i + p - 1) = prefix
    BY <1>1, <1>3, <2>1
  <2>3. SubSeq(text, i, i + p - 1)[1] = text[i]
    BY <1>1, <1>3, <2>2
  <2>4. text[i] = link[i]
    BY <1>1, <1>2, <1>3, <2>2
  <2>. QED
    BY <1>1, <2>2, <2>3, <2>4
<1>6. (CHOOSE i \in at : \A j \in at : i <= j) = l + 1
  <2>. DEFINE c == CHOOSE i \in at : \A j \in at : i <= j
  <2>1. at \subseteq Int
    BY <1>1, <1>3
  <2>. HIDE DEF at
  <2>2. c \in at /\ \A j \in at : c <= j
    BY <1>4, <1>5
  <2>. HIDE DEF c
  <2>3. c <= l + 1 /\ l + 1 <= c /\ c \in Int
    BY <1>4, <1>5, <2>1, <2>2
  <2>4. c = l + 1
    BY <1>1, <2>3
  <2>. QED
    BY <2>4 DEF c
<1>7. FirstAnchored(text, prefix) = l + 1
  <2>1. FirstAnchored(text, prefix) = IF at = {} THEN 0 ELSE CHOOSE i \in at : \A j \in at : i <= j
    BY <1>1 DEF FirstAnchored
  <2>. HIDE DEF at
  <2>. QED
    BY <1>4, <1>6, <2>1
<1>8. ReduceSelfLink(ty, text) = SubSeq(text, l + 1 + p, Len(text))
  <2>1. l + 1 # 0
    BY <1>1
  <2>. QED
    BY <1>1, <1>7, <2>1 DEF ReduceSelfLink, prefix, p
<1>9. l + 1 + p = l + p + 1
  BY <1>1
<1>. QED
  BY <1>3, <1>8, <1>9 DEF text, head, prefix

\* What GCP answered wins over what is known.
LEMMA AnsweredIdWins ==
  ASSUME NEW ty, NEW body, NEW attrs
  PROVE  /\ "selfLink" \in DOMAIN body => ProviderID(ty, body, attrs) = ReduceSelfLink(ty, body["selfLink"])
         /\ "selfLink" \notin DOMAIN body /\ NameIsAlreadyTheID(ty, body) =>
              ProviderID(ty, body, attrs) = body["name"]
  BY Zenon DEF ProviderID

\* What an answer tells of the resource is its full name.
LEMMA AnswerIsTheId ==
  ASSUME NEW t, FitsItsApi(t), NEW obj, IsResource(obj), Matches(GetPath(t.src), obj.key), NEW attrs
  PROVE  ProviderID(t.ty, Answer(t.src, obj), attrs) = obj.key
<1>. DEFINE key == obj.key
            body == Answer(t.src, obj)
            link == t.src.api.link
            told == [selfLink |-> link \o ApiPrefix(t.src) \o key]
            name == CASE t.src.api.names = "short" -> [name |-> Unescape(LastPathSegment(key))]
                      [] t.src.api.names = "full"  -> [name |-> key]
                      [] OTHER                     -> NoAttrs
            url == IF link = <<>> THEN NoAttrs ELSE told
<1>1. body = Extend(Extend(url, name), obj.fields)
  BY DEF Answer
<1>2. DOMAIN NoAttrs = {} /\ DOMAIN told = {"selfLink"}
  BY DEF NoAttrs
<1>3. key \in Seq(Tokens) /\ key # <<>> /\ IsId(key) /\ "selfLink" \notin DOMAIN obj.fields
  BY DEF IsResource, IsId
<1>4. CASE t.src.api.names = "full" /\ link = <<>>
  <2>1. url = NoAttrs /\ name = [name |-> key]
    BY <1>4
  <2>2. DOMAIN [name |-> key] = {"name"}
    OBVIOUS
  <2>. HIDE DEF url, name
  <2>3. "selfLink" \notin DOMAIN body
    BY <1>1, <1>2, <1>3, <2>1, <2>2 DEF Extend
  <2>4. "name" \in DOMAIN body /\ body["name"] = key
    <3>1. [name |-> key]["name"] = key
      OBVIOUS
    <3>. QED
      BY <1>1, <1>2, <2>1, <2>2, <3>1 DEF Extend
  <2>5. Matches(t.ty.self.path, key) /\ (IsBareCapture(t.ty.self.path) => HasSlash(key))
    BY <1>3, SelfAccepts
  <2>6. NameIsAlreadyTheID(t.ty, body)
    <3>. HIDE DEF body
    <3>. QED
      BY <2>4, <2>5 DEF NameIsAlreadyTheID
  <2>. HIDE DEF body
  <2>. QED
    BY <2>3, <2>4, <2>6, AnsweredIdWins, Zenon DEF body
<1>5. CASE /\ link \in Seq(Tokens) /\ link # <<>> /\ link[Len(link)] = "/"
           /\ t.ty.prefix # <<>> /\ \A i \in DOMAIN link : link[i] # t.ty.prefix[1]
  <2>1. url = told
    BY <1>5
  <2>. HIDE DEF url, name
  <2>2. "selfLink" \in DOMAIN body /\ body["selfLink"] = told["selfLink"]
    <3>. HIDE DEF told
    <3>. QED
      BY <1>1, <1>2, <2>1 DEF Extend
  <2>3. told["selfLink"] = link \o t.ty.prefix \o key
    BY DEF FitsItsApi
  <2>4. ReduceSelfLink(t.ty, link \o t.ty.prefix \o key) = key
    <3>1. t.ty.prefix \in Seq(Tokens)
      BY DEF FitsItsApi
    <3>. QED
      BY <1>3, <1>5, <3>1, LinkIsReduced
  <2>. HIDE DEF body, told
  <2>5. ProviderID(t.ty, body, attrs) = ReduceSelfLink(t.ty, body["selfLink"])
    BY <2>2, AnsweredIdWins, Zenon
  <2>. QED
    BY <2>2, <2>3, <2>4, <2>5 DEF body
<1>. QED
  BY <1>4, <1>5 DEF FitsItsApi, AnswersTell

\* What is read of a resource under its type: its answer, under its full name.
LEMMA WhatIsRead ==
  ASSUME NEW t, FitsItsApi(t), NEW obj, NEW id, Finds(t, obj, id)
  PROVE  /\ Published(t.src, ReadRequest(t, id)) /\ ItemKey(t.src, ReadRequest(t, id)) = obj.key
         /\ ReadBodies(t, obj, id) = <<Answer(t.src, obj)>>
<1>. DEFINE req == ReadRequest(t, id)
<1>1. t.ty.readVia = ""
  BY DEF FitsItsApi
<1>2. req.role = "get"
  BY <1>1 DEF ReadRequest, Request
<1>3. Answered(t, obj, id, req) # <<>>
  BY DEF Finds, ReadBodies
<1>. HIDE DEF req
<1>4. /\ Published(t.src, req) /\ ItemKey(t.src, req) = obj.key
      /\ Answered(t, obj, id, req) = <<Answer(t.src, obj)>>
  BY <1>2, <1>3 DEF Answered
<1>. QED
  BY <1>4 DEF ReadBodies, req

LEMMA EscapedText ==
  ASSUME NEW text \in Seq(Tokens)
  PROVE  Escape(text) \in Seq(Tokens)
<1>1. DOMAIN text = 1..Len(text) /\ Len(text) \in Nat /\ \A i \in DOMAIN text : text[i] \in Tokens
  OBVIOUS
<1>2. \A i \in DOMAIN text : (CASE text[i] = "/"   -> "%2F"
                                [] text[i] = "%2F" -> "%252F"
                                [] OTHER           -> text[i]) \in Tokens
  BY <1>1, SeparatorsAreTokens
<1>3. Escape(text) \in [1..Len(text) -> Tokens]
  BY <1>1, <1>2 DEF Escape
<1>. QED
  BY <1>1, <1>3, SeqDef

LEMMA PathText ==
  ASSUME NEW path \in Seq(Segment), NEW attrs,
         \A i \in DOMAIN path : IsPlaceholder(path[i]) => attrs[path[i].name] \in Seq(Tokens)
  PROVE  ExpandPath(path, attrs) \in Seq(Tokens)
<1>. DEFINE segs == [i \in DOMAIN path |-> ExpandSegment(path[i], attrs)]
<1>1. DOMAIN path = 1..Len(path) /\ Len(path) \in Nat /\ \A i \in DOMAIN path : path[i] \in Segment
  OBVIOUS
<1>2. ASSUME NEW i \in DOMAIN path
      PROVE  ExpandSegment(path[i], attrs) \in Seq(Tokens)
  <2>1. path[i].kind \in {"lit", "mm", "one", "rest"} /\ path[i].name \in Tokens
    BY <1>1 DEF Segment
  <2>2. CASE path[i].kind = "lit"
    <3>1. <<path[i].name>> \in Seq(Tokens) /\ <<>> \in Seq(Tokens)
      BY <2>1
    <3>. QED
      BY <2>2, <3>1 DEF ExpandSegment
  <2>3. CASE path[i].kind = "rest"
    BY <2>3 DEF ExpandSegment, IsPlaceholder
  <2>4. CASE path[i].kind \in {"mm", "one"}
    <3>1. attrs[path[i].name] \in Seq(Tokens)
      BY <2>4 DEF IsPlaceholder
    <3>2. ExpandSegment(path[i], attrs) = Escape(attrs[path[i].name])
      BY <2>4 DEF ExpandSegment
    <3>. QED
      BY <3>1, <3>2, EscapedText
  <2>. QED
    BY <2>1, <2>2, <2>3, <2>4
<1>3. segs \in [1..Len(path) -> Seq(Tokens)]
  BY <1>1, <1>2
<1>4. segs \in Seq(Seq(Tokens))
  <2>. HIDE DEF segs
  <2>. QED
    BY <1>1, <1>3, SeqDef
<1>. HIDE DEF segs
<1>5. Joined(segs) \in Seq(Tokens)
  BY <1>4, JoinedText, SeparatorsAreTokens
<1>. QED
  BY <1>5 DEF ExpandPath, segs

LEMMA CapturesAreTexts ==
  ASSUME NEW path, IsTemplate(path), OnceEach(path), NEW id \in Seq(Tokens), Matches(path, id)
  PROVE  \A name \in DOMAIN Captures(path, id) : Captures(path, id)[name] \in Seq(Tokens)
<1>. DEFINE segs == Segments(id)
            n == Len(path)
<1>1. n \in Nat /\ n > 0 /\ DOMAIN path = 1..n
  BY TemplatePlaces
<1>2. segs \in Seq(Seq(Tokens)) /\ \A i \in 1..Len(segs) : ~ HasSlash(segs[i])
  BY SegmentsParts, SegmentsAreWords, SeparatorsAreTokens DEF Parts
<1>3. Len(segs) >= n
  <2>1. IF path[n].kind = "rest" THEN Len(segs) >= n ELSE Len(segs) = n
    BY DEF Matches
  <2>2. Len(segs) \in Nat
    <3>. HIDE DEF segs
    <3>. QED
      BY <1>2
  <2>. QED
    BY <1>1, <2>1, <2>2
<1>4. DOMAIN Captures(path, id) = {path[i].name : i \in {j \in DOMAIN path : IsPlaceholder(path[j])}}
  BY DEF Captures
<1>5. ASSUME NEW i \in 1..n, IsPlaceholder(path[i])
      PROVE  Captures(path, id)[path[i].name] \in Seq(Tokens)
  <2>1. Captures(path, id)[path[i].name] =
          IF path[i].kind = "rest" THEN Joined(SubSeq(segs, i, Len(segs))) ELSE Unescape(segs[i])
    BY <1>5, CapturedAt
  <2>. HIDE DEF segs
  <2>2. segs[i] \in Seq(Tokens) /\ ~ HasSlash(segs[i]) /\ SubSeq(segs, i, Len(segs)) \in Seq(Seq(Tokens))
    BY <1>1, <1>2, <1>3
  <2>3. Joined(SubSeq(segs, i, Len(segs))) \in Seq(Tokens)
    BY <2>2, JoinedText, SeparatorsAreTokens
  <2>4. Unescape(segs[i]) \in Seq(Tokens)
    BY <2>2, UnescapedIsEscapedAgain
  <2>. QED
    BY <2>1, <2>3, <2>4
<1>. QED
  BY <1>1, <1>4, <1>5

\* The url of a text is a text.
LEMMA AddressIsText ==
  ASSUME NEW t, FitsItsApi(t), NEW id \in Seq(Tokens), Parses(t.ty, id)
  PROVE  ItemURL(t.ty, NoTemplate, id, ParseProviderID(t.ty, id)).path \in Seq(Tokens)
<1>. DEFINE ty == t.ty
            self == ty.self.path
            base == ty.base.path
            shown == ImportTemplates(ty)
            ok == Accepting(ty, id)
            path == FirstAccepting(ty, id)
            known == ParseProviderID(ty, id)
            url == ItemURL(ty, NoTemplate, id, known)
            direct == CollectionMatches(base, self) /\ Fillable(ty.base, known)
            last == LastPathSegment(id)
<1>1. UrlsAreTemplates(ty) /\ ty.prefix \in Seq(Tokens)
  BY DEF FitsItsApi
<1>2. IsTemplate(self) /\ ty.self = Path(self)
  BY <1>1, SelfAndImports
<1>3. IsTemplate(path) /\ OnceEach(path) /\ Matches(path, id)
  <2>1. ok # {} /\ ok \subseteq DOMAIN shown
        /\ \A i \in ok : Matches(shown[i], id) \/ MatchesBound(ty, shown[i], id)
    BY DEF Parses, Accepting
  <2>2. DOMAIN shown \subseteq Nat
    <3>1. <<self>> \in Seq({self} \cup Seq(Segment)) /\ ty.imports \in Seq({self} \cup Seq(Segment))
      BY <1>1, <1>2 DEF UrlsAreTemplates
    <3>2. shown = <<self>> \o ty.imports
      BY DEF ImportTemplates
    <3>3. shown \in Seq({self} \cup Seq(Segment))
      <4>. HIDE DEF self, shown
      <4>. QED
        BY <3>1, <3>2, ConcatProperties
    <3>. HIDE DEF shown, self
    <3>. QED
      BY <3>3
  <2>3. PICK i \in ok : path = shown[i]
    <3>1. path = shown[CHOOSE i \in ok : \A j \in ok : i <= j]
      BY DEF FirstAccepting
    <3>. HIDE DEF ok, shown, path
    <3>2. \E i \in ok : \A j \in ok : i <= j
      <4>1. ok \subseteq Nat /\ ok # {}
        BY <2>1, <2>2
      <4>. QED
        BY <4>1, LeastOf
    <3>. QED
      BY <3>1, <3>2
  <2>4. IsTemplate(shown[i]) /\ OnceEach(shown[i]) /\ SpelledOut(ty, shown[i]) = shown[i]
    BY <1>1, <2>1 DEF UrlsAreTemplates
  <2>5. ~ MatchesBound(ty, shown[i], id)
    BY <2>4 DEF MatchesBound
  <2>. HIDE DEF ok, shown, path
  <2>. QED
    BY <2>1, <2>3, <2>4, <2>5
<1>4. known = Captures(path, id)
  <2>1. known = ParsedBy(ty, path, id)
    BY DEF ParseProviderID
  <2>. HIDE DEF known, path
  <2>. QED
    BY <1>3, <2>1 DEF ParsedBy
<1>5. \A name \in DOMAIN known : known[name] \in Seq(Tokens)
  <2>. HIDE DEF known, path
  <2>. QED
    BY <1>3, <1>4, CapturesAreTexts
<1>6. last \in Seq(Tokens)
  <2>. DEFINE segs == Segments(id)
  <2>1. segs \in Seq(Seq(Tokens)) /\ segs # <<>>
    BY SegmentsParts DEF Parts
  <2>2. last = segs[Len(segs)]
    BY DEF LastPathSegment, Last
  <2>. HIDE DEF segs
  <2>. QED
    BY <2>1, <2>2
<1>. HIDE DEF known
<1>7. ASSUME NEW rel \in Seq(Tokens), NEW query
      PROVE  AbsURL(ty, rel, query).path \in Seq(Tokens)
  <2>1. AbsURL(ty, rel, query).path = ty.prefix \o rel
    BY DEF AbsURL
  <2>. QED
    BY <1>1, <2>1
<1>8. CASE direct
  <2>1. url = AbsURL(ty, ExpandPath(WithoutTrailingSlash(base), known) \o <<"/">> \o Escape(last), {})
    BY <1>8 DEF ItemURL
  <2>2. base \in Seq(Segment) /\ WithoutTrailingSlash(base) = base
    BY <1>8 DEF FitsItsApi, CollectionFits
  <2>3. PlaceholderNames(ty.base) \subseteq DOMAIN known
    BY <1>8 DEF Fillable
  <2>4. \A i \in DOMAIN base : IsPlaceholder(base[i]) => base[i].name \in PlaceholderNames(ty.base)
    BY DEF PlaceholderNames, SegmentsOf, ToSet
  <2>5. ExpandPath(base, known) \in Seq(Tokens)
    <3>. HIDE DEF base
    <3>. QED
      BY <1>5, <2>2, <2>3, <2>4, PathText
  <2>6. Escape(last) \in Seq(Tokens)
    <3>. HIDE DEF last
    <3>. QED
      BY <1>6, EscapedText
  <2>. DEFINE coll == ExpandPath(base, known)
              tail == Escape(last)
  <2>7. coll \o <<"/">> \o tail \in Seq(Tokens)
    <3>1. <<"/">> \in Seq(Tokens)
      BY SeparatorsAreTokens
    <3>2. coll \in Seq(Tokens) /\ tail \in Seq(Tokens)
      BY <2>5, <2>6
    <3>. HIDE DEF coll, tail
    <3>. QED
      BY <3>1, <3>2
  <2>8. AbsURL(ty, coll \o <<"/">> \o tail, {}).path \in Seq(Tokens)
    <3>. HIDE DEF coll, tail
    <3>. QED
      BY <1>7, <2>7
  <2>9. url = AbsURL(ty, coll \o <<"/">> \o tail, {})
    BY <2>1, <2>2
  <2>10. url.path \in Seq(Tokens)
    <3>. HIDE DEF url, coll, tail
    <3>. QED
      BY <2>8, <2>9
  <2>. QED
    BY <2>10 DEF known
<1>9. CASE ~ direct
  <2>1. url = IF Fillable(ty.self, known) THEN Expanded(ty, ty.self, known) ELSE NoUrl
    BY <1>9 DEF ItemURL
  <2>2. Fillable(ty.self, known) => ExpandPath(self, known) \in Seq(Tokens)
    <3>1. SUFFICES ASSUME Fillable(ty.self, known)
                   PROVE  ExpandPath(self, known) \in Seq(Tokens)
      OBVIOUS
    <3>2. PlaceholderNames(ty.self) \subseteq DOMAIN known
      BY <3>1 DEF Fillable
    <3>3. \A i \in DOMAIN self : IsPlaceholder(self[i]) => self[i].name \in PlaceholderNames(ty.self)
      BY DEF PlaceholderNames, SegmentsOf, ToSet
    <3>4. self \in Seq(Segment)
      BY <1>2 DEF IsTemplate
    <3>. HIDE DEF self
    <3>. QED
      BY <1>5, <3>2, <3>3, <3>4, PathText
  <2>3. NoUrl.path \in Seq(Tokens)
    BY DEF NoUrl
  <2>4. Expanded(ty, ty.self, known) = AbsURL(ty, ExpandPath(self, known), ExpandQuery(ty.self.query, known))
    BY DEF Expanded
  <2>5. url.path \in Seq(Tokens)
    <3>. HIDE DEF url, ty, self
    <3>. QED
      BY <1>7, <2>1, <2>2, <2>3, <2>4
  <2>. QED
    BY <2>5 DEF known
<1>. QED
  BY <1>8, <1>9

\* What is found under its type has a name that the get accepts.
LEMMA FoundIsAccepted ==
  ASSUME NEW t, FitsItsApi(t), NEW obj, NEW id \in Seq(Tokens), Finds(t, obj, id)
  PROVE  Matches(GetPath(t.src), obj.key)
<1>. DEFINE req == ReadRequest(t, id)
            url == req.url
            path == GetPath(t.src)
            n == Len(path)
            prefix == ApiPrefix(t.src)
            rel == Relative(t.src, url)
            segs == Segments(rel)
<1>1. Published(t.src, req) /\ ItemKey(t.src, req) = obj.key
  BY WhatIsRead
<1>2. /\ req.role = "get" /\ url = ItemURL(t.ty, NoTemplate, id, ParseProviderID(t.ty, id))
      /\ Parses(t.ty, id)
  BY DEF ReadRequest, Request, FitsItsApi, Finds
<1>3. /\ "get" \in DOMAIN t.src.methods /\ t.src.api.roles["get"] = {"get"} /\ IsTemplate(path)
      /\ path[1].kind = "lit" /\ path[1].name # ""
  BY DEF FitsItsApi, GetIsPublished, GetPath
<1>4. n \in Nat /\ n > 0 /\ 1 \in 1..n /\ n \in 1..n /\ DOMAIN path = 1..n /\ Last(path) = path[n]
  <2>1. n \in Nat /\ n > 0 /\ DOMAIN path = 1..n
    BY <1>3, TemplatePlaces
  <2>. HIDE DEF path
  <2>. QED
    BY <2>1 DEF Last
<1>5. Matches(path, rel)
  <2>. HIDE DEF req
  <2>1. Answers(Method(t.src, "get"), t.src, req)
    BY <1>1, <1>2, <1>3 DEF Published
  <2>. QED
    BY <2>1 DEF Answers, GetPath
<1>6. rel \in Seq(Tokens)
  <2>1. url.path \in Seq(Tokens)
    <3>1. ItemURL(t.ty, NoTemplate, id, ParseProviderID(t.ty, id)).path \in Seq(Tokens)
      BY <1>2, AddressIsText
    <3>. HIDE DEF url
    <3>. QED
      BY <1>2, <3>1
  <2>2. prefix \in Seq(Tokens)
    BY DEF FitsItsApi
  <2>3. SubSeq(url.path, Len(prefix) + 1, Len(url.path)) \in Seq(Tokens)
    <3>. DEFINE p == url.path
                k == Len(prefix)
    <3>1. k \in Nat
      <4>. HIDE DEF prefix
      <4>. QED
        BY <2>2
    <3>2. p \in Seq(Tokens) /\ Len(p) \in Nat
      BY <2>1
    <3>. HIDE DEF p, k
    <3>3. SubSeq(p, k + 1, Len(p)) \in Seq(Tokens)
      BY <3>1, <3>2
    <3>. QED
      BY <3>3 DEF p, k
  <2>. QED
    BY <2>3 DEF Relative
<1>. HIDE DEF rel
<1>7. segs \in Seq(Seq(Tokens)) /\ \A i \in 1..Len(segs) : ~ HasSlash(segs[i])
  BY <1>6, SegmentsParts, SegmentsAreWords, SeparatorsAreTokens DEF Parts
<1>8. /\ IF path[n].kind = "rest" THEN Len(segs) >= n ELSE Len(segs) = n
      /\ \A i \in 1..n : path[i].kind = "lit" => segs[i] = ExpandSegment(path[i], <<>>)
  BY <1>5 DEF Matches
<1>9. segs[1] # <<>>
  <2>1. ExpandSegment(path[1], <<>>) = <<path[1].name>>
    BY <1>3 DEF ExpandSegment
  <2>2. <<path[1].name>> # <<>>
    OBVIOUS
  <2>3. segs[1] = ExpandSegment(path[1], <<>>)
    <3>. HIDE DEF segs, path, n
    <3>. QED
      BY <1>3, <1>4, <1>8
  <2>. QED
    BY <2>1, <2>2, <2>3, Zenon
<1>10. Len(segs) \in Nat /\ Len(segs) >= n /\ segs # <<>>
  <2>1. Len(segs) \in Nat
    <3>. HIDE DEF segs
    <3>. QED
      BY <1>7
  <2>2. Len(segs) >= n
    BY <1>4, <1>8, <2>1
  <2>. HIDE DEF segs, n
  <2>. QED
    BY <1>4, <2>1, <2>2
<1>11. Segments(Joined(segs)) = segs
  <2>. HIDE DEF segs
  <2>1. Words(segs)
    BY <1>7, <1>9, <1>10 DEF Words
  <2>. QED
    BY <1>7, <2>1, SegmentsOfWords, SeparatorsAreTokens
<1>12. obj.key = Joined(segs)
  <2>1. ItemKey(t.src, req) =
          CASE path[n].kind = "rest"                     -> Joined(segs)
            [] path[n].kind # "rest" /\ Len(segs) >= n   -> Joined(SubSeq(segs, 1, n))
            [] OTHER -> IF t.src.api.item \in QueryKeys(url)
                        THEN Joined(segs) \o <<"/">> \o QueryValue(url, t.src.api.item) ELSE NoId
    BY <1>3, <1>4 DEF ItemKey, GetPath, rel
  <2>. HIDE DEF segs
  <2>2. path[n].kind # "rest" => SubSeq(segs, 1, n) = segs
    BY <1>7, <1>8, SubSeqFull
  <2>. HIDE DEF path, n, req
  <2>. QED
    BY <1>1, <1>10, <2>1, <2>2
<1>13. Segments(obj.key) = Segments(rel)
  BY <1>11, <1>12
<1>. QED
  BY <1>5, <1>13 DEF Matches

\* What a state is made of when a resource is read: what is told of it, then
\* what the id says, then what only a create takes (stateFrom).
WholeOf(t, obj, current) ==
  Extend(Extend(SchemaAttrs(t.ty, Answer(t.src, obj)),
                DeclaredIDAttrs(t.ty, SchemaAttrs(t.ty, ParseProviderID(t.ty, current.id)))),
         Restrict(current.attrs, {n \in DOMAIN t.ty.attrs \cap DOMAIN current.attrs : t.ty.attrs[n].createOnly}))

LEMMA ReadMakesState ==
  ASSUME NEW t, FitsItsApi(t), NEW obj, IsResource(obj),
         NEW current, current.id \in Seq(Tokens), Finds(t, obj, current.id)
  PROVE  ReadAs(t, obj, current) = StateOf(t.ty, obj.key, WholeOf(t, obj, current), current.attrs)
<1>. DEFINE body == Answer(t.src, obj)
            idAttrs == ParseProviderID(t.ty, current.id)
            st == StateFrom(t.ty, Settings, current, idAttrs, Head(ReadBodies(t, obj, current.id)))
            scope == WithScope(Settings, idAttrs)
            whole == WholeOf(t, obj, current)
            made == ProviderID(t.ty, body, scope)
<1>1. ReadBodies(t, obj, current.id) = <<body>> /\ Head(<<body>>) = body
  BY WhatIsRead
<1>2. ReadAs(t, obj, current) = st
  BY DEF ReadAs, FitsItsApi
<1>3. made = obj.key /\ obj.key # NoId
  <2>1. Matches(GetPath(t.src), obj.key)
    BY FoundIsAccepted
  <2>. QED
    BY <2>1, AnswerIsTheId DEF IsResource, IsId, NoId
<1>4. StateFrom(t.ty, Settings, current, idAttrs, body)
        = StateOf(t.ty, IF made = NoId THEN current.id ELSE made, whole, current.attrs)
  BY Zenon DEF StateFrom, WholeOf
<1>. HIDE DEF whole, made, body, idAttrs
<1>. QED
  BY <1>1, <1>2, <1>3, <1>4 DEF whole

(* Whatever a resource is asked for by, the state records its full name:   *)
(* imported under any of its names, it has one identity (Read, Import,     *)
(* stateFrom, ProviderID).                                                 *)
THEOREM ReadNamesTheResource ==
  ASSUME NEW t, FitsItsApi(t), NEW obj, IsResource(obj),
         NEW current, current.id \in Seq(Tokens), Finds(t, obj, current.id)
  PROVE  ReadAs(t, obj, current).id = obj.key
<1>1. ReadAs(t, obj, current) = StateOf(t.ty, obj.key, WholeOf(t, obj, current), current.attrs)
  BY ReadMakesState
<1>2. StateOf(t.ty, obj.key, WholeOf(t, obj, current), current.attrs).id = obj.key
  BY DEF StateOf
<1>. QED
  BY <1>1, <1>2

-----------------------------------------------------------------------------
(* The id of what was just created. *)

LEMMA SegmentText ==
  ASSUME NEW seg \in Segment, NEW attrs, IsPlaceholder(seg) => attrs[seg.name] \in Seq(Tokens)
  PROVE  ExpandSegment(seg, attrs) \in Seq(Tokens)
<1>1. seg.kind \in {"lit", "mm", "one", "rest"} /\ seg.name \in Tokens
  BY DEF Segment
<1>2. CASE seg.kind = "lit"
  <2>1. <<seg.name>> \in Seq(Tokens) /\ <<>> \in Seq(Tokens)
    BY <1>1
  <2>. QED
    BY <1>2, <2>1 DEF ExpandSegment
<1>3. CASE seg.kind = "rest"
  BY <1>3 DEF ExpandSegment, IsPlaceholder
<1>4. CASE seg.kind \in {"mm", "one"}
  <2>1. Escape(attrs[seg.name]) \in Seq(Tokens)
    BY <1>4, EscapedText DEF IsPlaceholder
  <2>. QED
    BY <1>4, <2>1 DEF ExpandSegment
<1>. QED
  BY <1>1, <1>2, <1>3, <1>4

(* A path makes what its front makes and what its last segment says. *)
LEMMA PathGrows ==
  ASSUME NEW path \in Seq(Segment), Len(path) > 1, NEW attrs,
         \A i \in DOMAIN path : IsPlaceholder(path[i]) => attrs[path[i].name] \in Seq(Tokens)
  PROVE  ExpandPath(path, attrs) =
           Join(ExpandPath(Front(path), attrs), ExpandSegment(path[Len(path)], attrs))
<1>. DEFINE n == Len(path)
            front == Front(path)
            segs == [i \in DOMAIN front |-> ExpandSegment(front[i], attrs)]
            last == ExpandSegment(path[n], attrs)
            all == [i \in DOMAIN path |-> ExpandSegment(path[i], attrs)]
<1>1. n \in Nat /\ n > 1 /\ DOMAIN path = 1..n /\ n \in 1..n
  OBVIOUS
<1>2. DOMAIN front = 1..n - 1 /\ \A i \in 1..n - 1 : front[i] = path[i]
  <2>1. Len(SubSeq(path, 1, n - 1)) = n - 1 /\ SubSeq(path, 1, n - 1) \in Seq(Segment)
        /\ \A i \in 1..n - 1 : SubSeq(path, 1, n - 1)[i] = path[i]
    BY <1>1
  <2>. QED
    BY <1>1, <2>1 DEF Front
<1>3. \A i \in 1..n : path[i] \in Segment
  BY <1>1
<1>4. \A i \in 1..n : ExpandSegment(path[i], attrs) \in Seq(Tokens)
  <2>. HIDE DEF n
  <2>. QED
    BY <1>1, <1>3, SegmentText
<1>. HIDE DEF front, n
<1>5. segs \in [1..n - 1 -> Seq(Tokens)] /\ all \in [1..n -> Seq(Tokens)] /\ last \in Seq(Tokens)
  BY <1>1, <1>2, <1>4
<1>6. segs \in Seq(Seq(Tokens)) /\ Len(segs) = n - 1 /\ all \in Seq(Seq(Tokens)) /\ Len(all) = n
  <2>. HIDE DEF segs, all
  <2>1. n - 1 \in Nat
    BY <1>1
  <2>. QED
    BY <1>1, <1>5, <2>1
<1>7. \A i \in 1..n - 1 : segs[i] = all[i]
  BY <1>1, <1>2
<1>8. all[n] = last
  BY <1>1
<1>. HIDE DEF segs, all, last
<1>9. all = Append(segs, last)
  <2>1. /\ Append(segs, last) \in Seq(Seq(Tokens)) /\ Len(Append(segs, last)) = n
        /\ \A i \in 1..n - 1 : Append(segs, last)[i] = segs[i]
        /\ Append(segs, last)[n] = last
    BY <1>1, <1>5, <1>6
  <2>2. \A i \in 1..n : i = n \/ i \in 1..n - 1
    BY <1>1
  <2>3. \A i \in 1..n : all[i] = Append(segs, last)[i]
    BY <1>7, <1>8, <2>1, <2>2
  <2>. QED
    BY <1>6, <2>1, <2>3, SeqEqual
<1>10. Joined(all) = Join(Joined(segs), last)
  BY <1>5, <1>6, <1>9, JoinedOneMore, SeparatorsAreTokens
<1>. QED
  BY <1>10 DEF ExpandPath, all, segs, last, front, n

LEMMA AliasesKeep ==
  ASSUME NEW ty, NEW attrs
  PROVE  \A n \in DOMAIN attrs : n \in DOMAIN WireAliases(ty, attrs) /\ WireAliases(ty, attrs)[n] = attrs[n]
<1>. DEFINE more == [wire \in {ToWire(ty, name) : name \in DOMAIN attrs} |->
                       attrs[CHOOSE name \in DOMAIN attrs : ToWire(ty, name) = wire]]
<1>1. WireAliases(ty, attrs) = Extend(attrs, more)
  BY DEF WireAliases
<1>. HIDE DEF more
<1>. QED
  BY <1>1 DEF Extend

LEMMA ScopeIsAFunction ==
  ASSUME NEW t
  PROVE  Extend(NoAttrs, ScopeOfNew(t)) = ScopeOfNew(t)
<1>. DEFINE inner == BindOnce(t.ty, WithScope(Settings, Configured(t)))
            resolves(n) == IF n \in BoundToPath(t.ty) THEN Fillable(Path(t.ty.bindings[n].path), inner)
                           ELSE t.ty.bindings[n].attr \in DOMAIN inner
            more == [n \in {m \in DOMAIN t.ty.bindings : resolves(m)} |->
                       IF n \in BoundToPath(t.ty) THEN ExpandPath(t.ty.bindings[n].path, inner)
                       ELSE inner[t.ty.bindings[n].attr]]
<1>1. ScopeOfNew(t) = Extend(inner, more)
  BY Zenon DEF ScopeOfNew, WithCreateBindings, BindOnce
<1>. HIDE DEF inner, more
<1>2. DOMAIN NoAttrs = {}
  BY DEF NoAttrs
<1>3. DOMAIN Extend(inner, more) = DOMAIN inner \cup DOMAIN more
  BY DEF Extend
<1>4. Extend(inner, more) = [k \in DOMAIN Extend(inner, more) |-> Extend(inner, more)[k]]
  BY DEF Extend
<1>. DEFINE s == Extend(inner, more)
<1>. HIDE DEF s
<1>5. Extend(NoAttrs, s) = [k \in DOMAIN s |-> s[k]]
  BY <1>2 DEF Extend
<1>. QED
  BY <1>1, <1>4, <1>5 DEF s

(* What the create is sent to, under the API's own prefix, is the          *)
(* collection.                                                             *)
LEMMA SentToTheCollection ==
  ASSUME NEW t, FitsItsApi(t),
         NEW coll, coll = ExpandPath(CreateTemplate(t.ty).path, ScopeOfNew(t)), coll \in Seq(Tokens)
  PROVE  Relative(t.src, NewRequest(t).url) = coll
<1>. DEFINE prefix == t.ty.prefix
            url == NewRequest(t).url
<1>1. prefix \in Seq(Tokens) /\ prefix = ApiPrefix(t.src)
  BY DEF FitsItsApi
<1>2. url = Expanded(t.ty, CreateTemplate(t.ty), ScopeOfNew(t))
  BY Zenon DEF NewRequest, CreateRequest, Request
<1>3. url.path = prefix \o coll
  <2>. DEFINE query == ExpandQuery(CreateTemplate(t.ty).query, ScopeOfNew(t))
  <2>. HIDE DEF url
  <2>1. url = AbsURL(t.ty, coll, query)
    BY <1>2 DEF Expanded
  <2>. HIDE DEF query
  <2>2. AbsURL(t.ty, coll, query).path = t.ty.prefix \o coll
    BY DEF AbsURL
  <2>. QED
    BY <2>1, <2>2
<1>4. SubSeq(prefix \o coll, Len(prefix) + 1, Len(prefix \o coll)) = coll
  <2>. HIDE DEF prefix
  <2>. QED
    BY <1>1, SubSeqOfConcat2, ConcatProperties
<1>. HIDE DEF prefix, url
<1>. QED
  BY <1>1, <1>3, <1>4 DEF Relative, url

(* An id that the provider makes itself is the one the create gives: by    *)
(* self and what is known (FilledID), or for a bare capture by the         *)
(* collection and the short name (bareCaptureID).                          *)
LEMMA ComputedIdIsTheKey ==
  ASSUME NEW t, FitsItsApi(t), ComputesTheID(t), Fillable(CreateTemplate(t.ty), ScopeOfNew(t))
  PROVE  LET coll  == ExpandPath(CreateTemplate(t.ty).path, ScopeOfNew(t))
             given == GivenID(t.src, NewRequest(t))
         IN  /\ coll \in Seq(Tokens) /\ coll # <<>> /\ given \in Seq(Tokens) /\ ~ HasSlash(given)
             /\ CreatedKey(t.src, NewRequest(t)) = coll \o <<"/">> \o given
             /\ ProviderID(t.ty, NoAttrs, ScopeOfNew(t)) = coll \o <<"/">> \o given
<1>. DEFINE self == t.ty.self.path
            path == CollectionPath(t.ty)
            scoped == ScopeOfNew(t)
            said == WireAliases(t.ty, scoped)
            known == FillLastFromName(self, said)
            coll == ExpandPath(path, scoped)
            given == GivenID(t.src, NewRequest(t))
            n == Len(self)
            id == ProviderID(t.ty, NoAttrs, scoped)
<1>1. /\ path = CreateTemplate(t.ty).path /\ path \in Seq(Segment) /\ coll # <<>>
      /\ \A i \in DOMAIN path : IsPlaceholder(path[i]) => scoped[path[i].name] \in Seq(Tokens)
      /\ t.src.api.from \notin {"path", "server"}
      /\ FillsSelf(t) \/ FillsCollection(t)
  BY DEF ComputesTheID
<1>2. IsTemplate(self) /\ n \in Nat /\ n > 0 /\ DOMAIN self = 1..n /\ self \in Seq(Segment)
  BY SelfAndImports, TemplatePlaces DEF FitsItsApi, IsTemplate
<1>3. coll \in Seq(Tokens)
  BY <1>1, PathText
<1>4. CreatedKey(t.src, NewRequest(t)) = coll \o <<"/">> \o given
  <2>1. Relative(t.src, NewRequest(t).url) = coll
    BY <1>1, <1>3, SentToTheCollection
  <2>. QED
    BY <1>1, <2>1 DEF CreatedKey
<1>5. \A i \in DOMAIN path : IsPlaceholder(path[i]) => path[i].name \in DOMAIN scoped
  <2>1. PlaceholderNames(Path(path)) \subseteq PlaceholderNames(CreateTemplate(t.ty))
    BY <1>1 DEF PlaceholderNames, SegmentsOf, Path, ToSet
  <2>2. PlaceholderNames(Path(path)) = {path[i].name : i \in {j \in DOMAIN path : IsPlaceholder(path[j])}}
    BY NamesOfPath
  <2>. HIDE DEF path
  <2>. QED
    BY <2>1, <2>2 DEF Fillable
<1>6. id = ComputedID(t.ty, path, NoAttrs, said)
  <2>1. DOMAIN NoAttrs = {}
    BY DEF NoAttrs
  <2>2. id = ComputedID(t.ty, path, NoAttrs, WireAliases(t.ty, Extend(NoAttrs, scoped)))
    <3>1. "selfLink" \notin DOMAIN NoAttrs /\ ~ NameIsAlreadyTheID(t.ty, NoAttrs)
      BY <2>1 DEF NameIsAlreadyTheID
    <3>. QED
      BY <3>1, Zenon DEF ProviderID
  <2>. QED
    BY <2>2, ScopeIsAFunction
<1>7. ~ NameInOwnCollection(path, NoAttrs, said)
  BY DEF NameInOwnCollection, NoAttrs
<1>8. CASE FillsSelf(t)
  <2>1. /\ CollectionMatches(path, self)
        /\ \A i \in DOMAIN path : IsPlaceholder(path[i]) =>
             self[i].name \in DOMAIN known /\ known[self[i].name] = scoped[path[i].name]
        /\ IsPlaceholder(self[n]) /\ self[n].name \in DOMAIN known /\ known[self[n].name] \in Seq(Tokens)
        /\ given = Escape(known[self[n].name])
    BY <1>8 DEF FillsSelf
  <2>2. n > 1 /\ self[n].kind # "rest" /\ Shape(path) = Shape(Front(self))
    BY <2>1 DEF CollectionMatches, Last
  <2>3. /\ Front(self) \in Seq(Segment) /\ DOMAIN Front(self) = 1..n - 1
        /\ \A i \in 1..n - 1 : Front(self)[i] = self[i]
    <3>1. SubSeq(self, 1, n - 1) \in Seq(Segment) /\ Len(SubSeq(self, 1, n - 1)) = n - 1
          /\ \A i \in 1..n - 1 : SubSeq(self, 1, n - 1)[i] = self[i]
      <4>. HIDE DEF self
      <4>. QED
        BY <1>2, <2>2
    <3>. QED
      BY <3>1 DEF Front
  <2>4. DOMAIN path = 1..n - 1
    <3>1. DOMAIN Shape(path) = DOMAIN path /\ DOMAIN Shape(Front(self)) = DOMAIN Front(self)
      BY DEF Shape
    <3>. QED
      BY <2>2, <2>3, <3>1
  <2>5. ASSUME NEW i \in 1..n - 1
        PROVE  /\ ExpandSegment(Front(self)[i], known) = ExpandSegment(path[i], scoped)
               /\ IsPlaceholder(self[i]) =>
                    self[i].name \in DOMAIN known /\ known[self[i].name] \in Seq(Tokens)
    <3>. DEFINE b == path[i]
                s == self[i]
    <3>1. /\ Shape(path)[i] = IF b.kind \in {"mm", "one"} THEN One("*") ELSE b
          /\ Shape(Front(self))[i] = IF s.kind \in {"mm", "one"} THEN One("*") ELSE s
      BY <2>3, <2>4 DEF Shape
    <3>2. (IF b.kind \in {"mm", "one"} THEN One("*") ELSE b) = (IF s.kind \in {"mm", "one"} THEN One("*") ELSE s)
      BY <2>2, <3>1
    <3>3. One("*").kind = "one"
      BY DEF One
    <3>4. IsPlaceholder(b) => /\ s.name \in DOMAIN known /\ known[s.name] = scoped[b.name]
                              /\ scoped[b.name] \in Seq(Tokens)
      BY <1>1, <2>1, <2>4
    <3>5. b \in Segment
      BY <1>1, <2>4
    <3>6. Front(self)[i] = s
      BY <2>3
    <3>. HIDE DEF b, s, known, scoped
    <3>7. CASE b.kind \in {"mm", "one"}
      <4>1. s.kind \in {"mm", "one"}
        BY <3>2, <3>3, <3>7
      <4>. QED
        BY <3>4, <3>6, <3>7, <4>1 DEF ExpandSegment, IsPlaceholder, b, s
    <3>8. CASE b.kind \notin {"mm", "one"}
      <4>1. s.kind \notin {"mm", "one"} /\ b = s
        BY <3>2, <3>3, <3>8
      <4>2. s.kind = "lit" \/ s.kind = "rest"
        BY <3>5, <4>1 DEF Segment
      <4>. QED
        BY <3>4, <3>6, <4>1, <4>2 DEF ExpandSegment, IsPlaceholder, b, s
    <3>. QED
      BY <3>7, <3>8
  <2>6. ExpandPath(Front(self), known) = coll
    <3>. HIDE DEF known, scoped, path, self
    <3>. QED
      BY <2>3, <2>4, <2>5, SameExpansion DEF coll
  <2>7. \A i \in 1..n : i = n \/ i \in 1..n - 1
    BY <1>2
  <2>8. \A i \in DOMAIN self : IsPlaceholder(self[i]) =>
          self[i].name \in DOMAIN known /\ known[self[i].name] \in Seq(Tokens)
    <3>. HIDE DEF known, self
    <3>. QED
      BY <1>2, <2>1, <2>5, <2>7
  <2>9. self[n].kind \in {"mm", "one"}
    <3>1. self[n] \in Segment
      BY <1>2
    <3>. QED
      BY <2>1, <2>2, <3>1 DEF IsPlaceholder, Segment
  <2>10. ExpandSegment(self[n], known) = given
    BY <2>1, <2>9 DEF ExpandSegment
  <2>11. ExpandPath(self, known) = coll \o <<"/">> \o given
    <3>1. ExpandPath(self, known) = Join(ExpandPath(Front(self), known), ExpandSegment(self[n], known))
      <4>. HIDE DEF known, self
      <4>. QED
        BY <1>2, <2>2, <2>8, PathGrows DEF n
    <3>. HIDE DEF known, self, coll, given
    <3>. QED
      BY <1>1, <2>6, <2>10, <3>1 DEF Join
  <2>12. Fillable(Path(self), known)
    <3>1. PlaceholderNames(Path(self)) = {self[i].name : i \in {j \in DOMAIN self : IsPlaceholder(self[j])}}
      BY NamesOfPath
    <3>. HIDE DEF known, self
    <3>. QED
      BY <2>8, <3>1 DEF Fillable
  <2>13. BareCaptureID(t.ty, path, said) = NoId
    <3>1. ~ IsBareCapture(self)
      BY <2>2 DEF IsBareCapture
    <3>. QED
      BY <3>1 DEF BareCaptureID
  <2>14. id = coll \o <<"/">> \o given
    <3>1. ComputedID(t.ty, path, NoAttrs, said) = FilledID(self, known)
      BY <1>7, <2>13, Zenon DEF ComputedID
    <3>. HIDE DEF known, self, coll, given
    <3>. QED
      BY <1>6, <2>11, <2>12, <3>1 DEF FilledID
  <2>15. given \in Seq(Tokens) /\ ~ HasSlash(given)
    <3>. DEFINE v == known[self[n].name]
    <3>1. v \in Seq(Tokens) /\ given = Escape(v)
      BY <2>1
    <3>. HIDE DEF v, given
    <3>2. Escape(v) \in Seq(Tokens)
      BY <3>1, EscapedText
    <3>3. ~ HasSlash(Escape(v))
      <4>1. DOMAIN Escape(v) = DOMAIN v /\ \A i \in DOMAIN v : Escape(v)[i] # "/"
        BY DEF Escape
      <4>. QED
        BY <4>1 DEF HasSlash
    <3>. QED
      BY <3>1, <3>2, <3>3
  <2>. HIDE DEF coll, given, id, path
  <2>. QED
    BY <1>1, <1>3, <1>4, <2>14, <2>15 DEF coll, given, id, path
<1>9. CASE FillsCollection(t)
  <2>. DEFINE from == IF self[1].name \in DOMAIN said THEN self[1].name ELSE "name"
  <2>1. /\ IsBareCapture(self) /\ ~ IsBareCapture(path) /\ Shape(path) # Shape(self)
        /\ from \in DOMAIN said /\ said[from] \in Seq(Tokens) /\ ~ HasSlash(said[from])
        /\ given = said[from]
    BY <1>9 DEF FillsCollection
  <2>2. \A i \in DOMAIN path : IsPlaceholder(path[i]) =>
          path[i].name \in DOMAIN said /\ said[path[i].name] = scoped[path[i].name]
    BY <1>5, AliasesKeep
  <2>3. Fillable(Path(path), said)
    <3>1. PlaceholderNames(Path(path)) = {path[i].name : i \in {j \in DOMAIN path : IsPlaceholder(path[j])}}
      BY NamesOfPath
    <3>. HIDE DEF said, path
    <3>. QED
      BY <2>2, <3>1 DEF Fillable
  <2>4. ExpandPath(path, said) = coll
    <3>1. \A i \in DOMAIN path : ExpandSegment(path[i], said) = ExpandSegment(path[i], scoped)
      <4>. HIDE DEF said, scoped, path
      <4>. QED
        BY <2>2 DEF ExpandSegment, IsPlaceholder
    <3>. HIDE DEF said, scoped, path
    <3>. QED
      BY <3>1, SameExpansion DEF coll
  <2>5. BareCaptureID(t.ty, path, said) = coll \o <<"/">> \o given
    <3>. HIDE DEF said, path, coll, given
    <3>1. BareCaptureID(t.ty, path, said) = ExpandPath(path, said) \o <<"/">> \o said[from]
      BY <2>1, <2>3, Zenon DEF BareCaptureID
    <3>. QED
      BY <2>1, <2>4, <3>1
  <2>6. coll \o <<"/">> \o given # NoId
    <3>. HIDE DEF coll, given
    <3>1. given \in Seq(Tokens)
      BY <2>1
    <3>2. <<"/">> \in Seq(Tokens)
      BY SeparatorsAreTokens
    <3>. QED
      BY <1>1, <1>3, <3>1, <3>2 DEF NoId
  <2>7. id = coll \o <<"/">> \o given
    BY <1>6, <2>5, <2>6, Zenon DEF ComputedID
  <2>. HIDE DEF coll, given, id, path, said
  <2>. QED
    BY <1>1, <1>3, <1>4, <2>1, <2>7 DEF coll, given, id, path
<1>. QED
  BY <1>1, <1>8, <1>9

(* What a resource is in, is not where it was created: it is shorter.      *)
LEMMA ParentIsShorter ==
  ASSUME NEW coll \in Seq(Tokens), coll # <<>>, coll[1] # "/",
         NEW given \in Seq(Tokens), ~ HasSlash(given)
  PROVE  LET parent == Joined(Front(Front(Segments(coll \o <<"/">> \o given))))
         IN  parent \in Seq(Tokens) /\ Len(parent) < Len(coll)
<1>. DEFINE segs == Segments(coll)
            all == Segments(coll \o <<"/">> \o given)
<1>1. segs \in Seq(Seq(Tokens)) /\ segs # <<>>
  BY SegmentsParts DEF Parts
<1>2. all = segs \o <<given>>
  BY SegmentsOfBoth, SegmentsOfWord, SeparatorsAreTokens
<1>3. coll = Joined(segs)
  BY JoinedSegments, SeparatorsAreTokens
<1>. HIDE DEF segs, all
<1>4. PICK q \in Seq(Seq(Tokens)), l \in Seq(Tokens) : segs = Append(q, l)
  BY <1>1, SequenceEmptyOrAppend
<1>5. all = Append(segs, given)
  BY <1>1, <1>2, AppendIsConcat
<1>6. ASSUME NEW s \in Seq(Seq(Tokens)), NEW e \in Seq(Tokens)
      PROVE  Front(Append(s, e)) = s
  <2>1. /\ Append(s, e) \in Seq(Seq(Tokens)) /\ Len(Append(s, e)) = Len(s) + 1 /\ Len(s) \in Nat
        /\ \A i \in 1..Len(s) : Append(s, e)[i] = s[i]
    BY AppendProperties
  <2>. DEFINE more == Append(s, e)
  <2>. HIDE DEF more
  <2>2. SubSeq(more, 1, Len(s)) \in Seq(Seq(Tokens)) /\ Len(SubSeq(more, 1, Len(s))) = Len(s)
        /\ \A i \in 1..Len(s) : SubSeq(more, 1, Len(s))[i] = more[i]
    BY <2>1 DEF more
  <2>3. SubSeq(more, 1, Len(s)) = s
    BY <2>1, <2>2, SeqEqual DEF more
  <2>4. Len(more) - 1 = Len(s)
    BY <2>1 DEF more
  <2>. QED
    BY <2>3, <2>4 DEF Front, more
<1>7. Front(Front(all)) = q
  BY <1>1, <1>4, <1>5, <1>6
<1>8. coll = Join(Joined(q), l)
  BY <1>3, <1>4, JoinedOneMore, SeparatorsAreTokens
<1>9. Joined(q) \in Seq(Tokens)
  BY JoinedText, SeparatorsAreTokens
<1>10. Len(Joined(q)) < Len(coll)
  <2>. DEFINE j == Joined(q)
  <2>. HIDE DEF j
  <2>1. j \in Seq(Tokens) /\ Len(j) \in Nat /\ Len(l) \in Nat /\ Len(coll) \in Nat /\ Len(coll) > 0
    BY <1>9 DEF j
  <2>2. CASE j = <<>>
    BY <2>1, <2>2 DEF j
  <2>3. CASE j # <<>>
    <3>1. <<"/">> \in Seq(Tokens) /\ Len(<<"/">>) = 1
      BY SeparatorsAreTokens
    <3>2. coll = j \o <<"/">> \o l
      BY <1>8, <2>3 DEF Join, j
    <3>3. Len(j \o <<"/">>) = Len(j) + 1 /\ j \o <<"/">> \in Seq(Tokens)
      BY <2>1, <3>1
    <3>4. Len(coll) = Len(j) + 1 + Len(l)
      BY <2>1, <3>2, <3>3
    <3>. QED
      BY <2>1, <3>4 DEF j
  <2>. QED
    BY <2>2, <2>3
<1>. QED
  BY <1>7, <1>9, <1>10 DEF all

LEMMA ShorterIsOutside ==
  ASSUME NEW ty, NEW tmpl, NEW attrs, NEW id \in Seq(Tokens),
         WithoutTrailingSlash(tmpl) = tmpl, Fillable(Path(tmpl), attrs),
         ExpandPath(tmpl, attrs) \in Seq(Tokens), Len(id) < Len(ExpandPath(tmpl, attrs))
  PROVE  OutsideCreatedCollection(ty, tmpl, id, attrs)
<1>. DEFINE coll == ExpandPath(tmpl, attrs)
            head == Unescape(coll) \o <<"/">>
<1>1. coll \in Seq(Tokens) /\ Len(id) \in Nat /\ Len(coll) \in Nat /\ Len(id) < Len(coll)
  OBVIOUS
<1>. HIDE DEF coll
<1>2. id # coll
  BY <1>1
<1>3. Len(head) = Len(coll) + 1
  <2>1. DOMAIN coll = 1..Len(coll) /\ \A i \in DOMAIN coll : coll[i] \in Tokens
    BY <1>1
  <2>2. Unescape(coll) \in [1..Len(coll) -> Tokens]
    <3>1. \A i \in DOMAIN coll : (CASE coll[i] = "%2F"   -> "/"
                                    [] coll[i] = "%252F" -> "%2F"
                                    [] OTHER             -> coll[i]) \in Tokens
      BY <2>1, SeparatorsAreTokens
    <3>. QED
      BY <2>1, <3>1 DEF Unescape
  <2>. DEFINE raw == Unescape(coll)
  <2>. HIDE DEF raw
  <2>3. raw \in Seq(Tokens) /\ Len(raw) = Len(coll)
    BY <1>1, <2>2, SeqDef DEF raw
  <2>4. <<"/">> \in Seq(Tokens) /\ Len(<<"/">>) = 1
    BY SeparatorsAreTokens
  <2>. QED
    BY <2>3, <2>4 DEF raw
<1>4. ~ IsPrefix(head, id)
  BY <1>1, <1>3 DEF IsPrefix
<1>. QED
  BY <1>2, <1>4, Zenon DEF OutsideCreatedCollection, coll

(* Whatever a create is answered with, its id is the full name of the      *)
(* resource it made: told by the answer, computed where nothing is told,   *)
(* and computed where the operation names what the resource is in          *)
(* (createdID, trustedID, outsideCreatedCollection).                       *)
THEOREM CreatedIdIsTheKey ==
  ASSUME NEW t, Fits(t), Fillable(CreateTemplate(t.ty), ScopeOfNew(t)),
         Published(t.src, NewRequest(t)), GivenID(t.src, NewRequest(t)) # NoId,
         NEW awaited \in Awaited(t.src, MadeBy(t, NewRequest(t)))
  PROVE  CreatedID(t.ty, awaited, ScopeOfNew(t)) = MadeBy(t, NewRequest(t)).key
<1>. DEFINE obj == MadeBy(t, NewRequest(t))
            key == obj.key
            scoped == ScopeOfNew(t)
            tmpl == CreateTemplate(t.ty).path
            coll == ExpandPath(tmpl, scoped)
            given == GivenID(t.src, NewRequest(t))
            prefix == ApiPrefix(t.src)
            waits == t.src.api.waits
            link(k) == [selfLink |-> t.src.api.link \o prefix \o k]
            parent == Joined(Front(Front(Segments(key))))
            id == ProviderID(t.ty, awaited, scoped)
            own == ProviderID(t.ty, NoAttrs, scoped)
            Outside(x) == OutsideCreatedCollection(t.ty, tmpl, x, scoped)
<1>1. /\ FitsItsApi(t) /\ IsResource(obj) /\ Matches(GetPath(t.src), key)
      /\ waits \notin {"resource", "any"} => t.src.api.link # <<>>
      /\ ComputesTheID(t) \/ IsToldInside(t)
  BY DEF Fits, CreateFits
<1>2. key \in Seq(Tokens) /\ key # <<>> /\ key[1] # "/" /\ key # NoId
  BY <1>1 DEF IsResource, IsId, NoId
<1>3. CreatedID(t.ty, awaited, scoped) =
        IF awaited # NoAttrs /\ (id = NoId \/ Outside(id)) THEN own ELSE id
  BY Zenon DEF CreatedID, TrustedID
<1>4. key = CreatedKey(t.src, NewRequest(t))
  BY DEF MadeBy
<1>5. ASSUME ComputesTheID(t)
      PROVE  /\ coll \in Seq(Tokens) /\ coll # <<>> /\ given \in Seq(Tokens) /\ ~ HasSlash(given)
             /\ key = coll \o <<"/">> \o given /\ own = key
  <2>. HIDE DEF key, own, coll, given
  <2>. QED
    BY <1>1, <1>4, <1>5, ComputedIdIsTheKey DEF own, coll, given
<1>6. IsToldInside(t) => waits \in {"resource", "link"} /\ ~ Outside(key)
  BY DEF IsToldInside
<1>7. ASSUME NEW k \in Seq(Tokens), t.src.api.link # <<>>, awaited = link(k)
      PROVE  id = k
  <2>1. AnswersTell(t) /\ t.ty.prefix = prefix /\ prefix \in Seq(Tokens)
    BY <1>1 DEF FitsItsApi
  <2>2. /\ t.src.api.link \in Seq(Tokens) /\ t.src.api.link[Len(t.src.api.link)] = "/" /\ prefix # <<>>
        /\ \A i \in DOMAIN t.src.api.link : t.src.api.link[i] # prefix[1]
    <3>. HIDE DEF prefix
    <3>. QED
      BY <1>7, <2>1 DEF AnswersTell
  <2>. HIDE DEF prefix
  <2>3. ReduceSelfLink(t.ty, t.src.api.link \o t.ty.prefix \o k) = k
    BY <1>7, <2>1, <2>2, LinkIsReduced
  <2>4. "selfLink" \in DOMAIN awaited /\ awaited["selfLink"] = t.src.api.link \o prefix \o k
    BY <1>7
  <2>5. id = ReduceSelfLink(t.ty, awaited["selfLink"])
    BY <2>4, AnsweredIdWins, Zenon
  <2>. HIDE DEF id
  <2>. QED
    BY <2>1, <2>3, <2>4, <2>5
<1>8. ASSUME id = key
      PROVE  CreatedID(t.ty, awaited, scoped) = key
  <2>. HIDE DEF id, own, key, Outside
  <2>. QED
    BY <1>1, <1>2, <1>3, <1>5, <1>6, <1>8
<1>9. CASE awaited = Answer(t.src, obj)
  <2>1. id = key
    <3>. HIDE DEF obj, scoped
    <3>. QED
      BY <1>1, <1>9, AnswerIsTheId
  <2>. QED
    BY <1>8, <2>1
<1>10. CASE awaited = link(key) /\ t.src.api.link # <<>>
  BY <1>2, <1>7, <1>8, <1>10
<1>11. CASE awaited = NoAttrs /\ waits \notin {"resource", "link"}
  <2>1. ComputesTheID(t)
    BY <1>1, <1>6, <1>11
  <2>2. id = own
    BY <1>11
  <2>. QED
    BY <1>5, <1>8, <2>1, <2>2
<1>12. CASE awaited = link(parent) /\ t.src.api.link # <<>> /\ waits \notin {"resource", "link"}
  <2>1. ComputesTheID(t)
    BY <1>1, <1>6, <1>12
  <2>2. /\ coll \in Seq(Tokens) /\ coll # <<>> /\ given \in Seq(Tokens) /\ ~ HasSlash(given)
        /\ key = coll \o <<"/">> \o given /\ own = key
    BY <1>5, <2>1
  <2>. HIDE DEF coll, given, own, key
  <2>3. coll[1] # "/"
    <3>1. <<"/">> \o given \in Seq(Tokens) /\ <<"/">> \in Seq(Tokens) /\ Len(coll) > 0 /\ Len(coll) \in Nat
      BY <2>2, SeparatorsAreTokens
    <3>2. (coll \o <<"/">> \o given)[1] = coll[1]
      BY <2>2, <3>1
    <3>. QED
      BY <1>2, <2>2, <3>2
  <2>4. parent \in Seq(Tokens) /\ Len(parent) < Len(coll)
    BY <2>2, <2>3, ParentIsShorter
  <2>5. id = parent
    <3>. HIDE DEF parent, id
    <3>. QED
      BY <1>7, <1>12, <2>4
  <2>6. Outside(parent)
    <3>1. WithoutTrailingSlash(tmpl) = tmpl
      BY <2>1 DEF ComputesTheID, CollectionPath
    <3>2. Fillable(Path(tmpl), scoped)
      BY DEF Fillable, PlaceholderNames, SegmentsOf, Path, ToSet
    <3>. HIDE DEF parent, tmpl, scoped
    <3>. QED
      BY <2>2, <2>4, <3>1, <3>2, ShorterIsOutside DEF coll
  <2>7. awaited # NoAttrs
    <3>1. "selfLink" \in DOMAIN awaited /\ DOMAIN NoAttrs = {}
      BY <1>12 DEF NoAttrs
    <3>. QED
      BY <3>1
  <2>8. CreatedID(t.ty, awaited, scoped) = own
    <3>. HIDE DEF id, parent, Outside
    <3>1. Outside(id)
      BY <2>5, <2>6, Zenon
    <3>. HIDE DEF scoped
    <3>. QED
      BY <1>3, <2>7, <3>1, Zenon
  <2>. QED
    BY <2>2, <2>8 DEF key
<1>13. awaited \in CASE waits = "resource" -> {Answer(t.src, obj)}
                     [] waits = "any"      -> {NoAttrs, Answer(t.src, obj)}
                     [] waits = "link"     -> {link(key)}
                     [] OTHER              -> {link(parent)}
  BY DEF Awaited
<1>14. \/ awaited = Answer(t.src, obj)
       \/ awaited = NoAttrs /\ waits \notin {"resource", "link"}
       \/ awaited = link(key) /\ waits = "link"
       \/ awaited = link(parent) /\ waits \notin {"resource", "any", "link"}
  <2>. DEFINE a == Answer(t.src, obj)
              x == link(key)
              y == link(parent)
              z == NoAttrs
              w == waits
  <2>1. awaited \in CASE w = "resource" -> {a}
                      [] w = "any"      -> {z, a}
                      [] w = "link"     -> {x}
                      [] OTHER          -> {y}
    BY <1>13
  <2>. HIDE DEF a, x, y, z, w
  <2>2. \/ awaited = a
        \/ awaited = z /\ w \notin {"resource", "link"}
        \/ awaited = x /\ w = "link"
        \/ awaited = y /\ w \notin {"resource", "any", "link"}
    BY <2>1
  <2>. QED
    BY <2>2 DEF a, x, y, z, w
<1>15. waits = "link" => t.src.api.link # <<>>
  BY <1>1
<1>16. waits \notin {"resource", "any", "link"} => t.src.api.link # <<>> /\ waits \notin {"resource", "link"}
  BY <1>1
<1>. HIDE DEF waits, link, parent, id, own, Outside
<1>17. CreatedID(t.ty, awaited, scoped) = key
  <2>1. CASE awaited = Answer(t.src, obj)
    BY <1>9, <2>1, Zenon
  <2>2. CASE awaited = NoAttrs /\ waits \notin {"resource", "link"}
    BY <1>11, <2>2, Zenon
  <2>3. CASE awaited = link(key) /\ waits = "link"
    BY <1>10, <1>15, <2>3, Zenon
  <2>4. CASE awaited = link(parent) /\ waits \notin {"resource", "any", "link"}
    BY <1>12, <1>16, <2>4, Zenon
  <2>. QED
    BY <1>14, <2>1, <2>2, <2>3, <2>4, Zenon
<1>. QED
  BY <1>17

-----------------------------------------------------------------------------
(* What is sent is published. *)

\* An escaped value is one segment, whatever it is.
LEMMA EscapedIsOneSegment ==
  ASSUME NEW text \in Seq(Tokens)
  PROVE  Escape(text) \in Seq(Tokens) /\ ~ HasSlash(Escape(text))
<1>1. DOMAIN Escape(text) = DOMAIN text
  BY DEF Escape
<1>2. \A i \in DOMAIN text : Escape(text)[i] = CASE text[i] = "/"   -> "%2F"
                                                  [] text[i] = "%2F" -> "%252F"
                                                  [] OTHER           -> text[i]
  BY DEF Escape
<1>3. ~ HasSlash(Escape(text))
  BY <1>1, <1>2 DEF HasSlash
<1>. QED
  BY <1>3, EscapedText

\* What a path that takes one segment at a time makes of texts is accepted
\* where the method has its own (ExpandURL, and the API's own matching).
LEMMA AcceptedOneByOne ==
  ASSUME NEW path, NEW flat, OneByOne(path, flat),
         NEW attrs, \A i \in DOMAIN path : IsPlaceholder(path[i]) => attrs[path[i].name] \in Seq(Tokens)
  PROVE  LET segs == [i \in DOMAIN path |-> ExpandSegment(path[i], attrs)]
         IN  /\ ExpandPath(path, attrs) \in Seq(Tokens) /\ ExpandPath(path, attrs) # <<>>
             /\ Segments(ExpandPath(path, attrs)) = segs
             /\ segs \in Seq(Seq(Tokens)) /\ Len(segs) = Len(path)
             /\ Matches(flat, ExpandPath(path, attrs))
<1>. DEFINE n == Len(path)
            segs == [i \in DOMAIN path |-> ExpandSegment(path[i], attrs)]
            id == ExpandPath(path, attrs)
<1>1. /\ IsTemplate(path) /\ IsTemplate(flat) /\ Shape(flat) = Shape(path)
      /\ path[1].kind = "lit" /\ path[1].name # "" /\ path[n].kind # "rest"
  BY DEF OneByOne
<1>2. /\ n \in Nat /\ n > 0 /\ DOMAIN path = 1..n /\ path \in Seq(Segment)
      /\ \A i \in 1..n : path[i] \in Segment /\ path[i].kind \in {"lit", "mm", "one", "rest"}
  <2>1. path \in Seq(Segment)
    BY <1>1 DEF IsTemplate
  <2>2. /\ n \in Nat /\ n > 0 /\ DOMAIN path = 1..n
        /\ \A i \in 1..n : path[i].kind \in {"lit", "mm", "one", "rest"}
    BY <1>1, TemplatePlaces
  <2>3. \A i \in 1..n : path[i] \in Segment
    BY <2>1
  <2>. QED
    BY <2>1, <2>2, <2>3
<1>3. \A i \in 1..n : path[i].kind # "rest" /\ (path[i].kind = "lit" => path[i].name # "/")
  BY <1>1, <1>2 DEF IsTemplate
<1>4. ASSUME NEW i \in 1..n
      PROVE  ExpandSegment(path[i], attrs) \in Seq(Tokens) /\ ~ HasSlash(ExpandSegment(path[i], attrs))
  <2>1. IsPlaceholder(path[i]) => attrs[path[i].name] \in Seq(Tokens)
    BY <1>2
  <2>2. ExpandSegment(path[i], attrs) \in Seq(Tokens)
    BY <1>2, <2>1, SegmentText
  <2>3. CASE path[i].kind = "lit"
    <3>1. ExpandSegment(path[i], attrs) = IF path[i].name = "" THEN <<>> ELSE <<path[i].name>>
      BY <2>3 DEF ExpandSegment
    <3>2. ~ HasSlash(<<>>)
      BY DEF HasSlash
    <3>3. ~ HasSlash(<<path[i].name>>)
      BY <1>3, <2>3 DEF HasSlash
    <3>. QED
      BY <2>2, <3>1, <3>2, <3>3
  <2>4. CASE path[i].kind \in {"mm", "one"}
    <3>1. ExpandSegment(path[i], attrs) = Escape(attrs[path[i].name])
      BY <2>4 DEF ExpandSegment
    <3>2. attrs[path[i].name] \in Seq(Tokens)
      BY <2>1, <2>4 DEF IsPlaceholder
    <3>. QED
      BY <2>2, <3>1, <3>2, EscapedIsOneSegment
  <2>. QED
    BY <1>2, <1>3, <2>3, <2>4
<1>5. /\ segs \in [1..n -> Seq(Tokens)]
      /\ \A i \in 1..n : segs[i] = ExpandSegment(path[i], attrs)
  BY <1>2, <1>4
<1>6. segs[1] = <<path[1].name>> /\ 1 \in 1..n
  <2>1. ExpandSegment(path[1], attrs) = <<path[1].name>>
    BY <1>1 DEF ExpandSegment
  <2>. HIDE DEF segs
  <2>. QED
    BY <1>2, <1>5, <2>1
<1>. HIDE DEF segs
<1>7. segs \in Seq(Seq(Tokens)) /\ Len(segs) = n
  BY <1>2, <1>5, SeqDef
<1>8. \A i \in 1..n : ~ HasSlash(segs[i])
  BY <1>4, <1>5
<1>9. Words(segs)
  BY <1>2, <1>6, <1>7, <1>8 DEF Words
<1>10. Segments(Joined(segs)) = segs /\ Joined(segs) # <<>>
  BY <1>7, <1>9, SegmentsOfWords, SeparatorsAreTokens
<1>11. id = Joined(segs)
  BY DEF ExpandPath, segs
<1>12. id \in Seq(Tokens)
  BY <1>7, <1>11, JoinedText, SeparatorsAreTokens
<1>13. Len(flat) = n /\ \A i \in 1..n :
          /\ flat[i].kind # "rest"
          /\ flat[i].kind = "lit" => path[i] = flat[i]
  <2>1. DOMAIN Shape(path) = DOMAIN path /\ DOMAIN Shape(flat) = DOMAIN flat
    BY DEF Shape
  <2>2. Len(flat) \in Nat /\ Len(flat) > 0 /\ DOMAIN flat = 1..Len(flat)
    BY <1>1, TemplatePlaces
  <2>3. Len(flat) = n
    <3>1. DOMAIN flat = DOMAIN path
      BY <1>1, <2>1, Zenon
    <3>2. 1..Len(flat) = 1..n
      BY <1>2, <2>2, <3>1
    <3>. HIDE DEF n
    <3>. DEFINE m == Len(flat)
    <3>3. n \in 1..n /\ m \in 1..m
      BY <1>2, <2>2
    <3>4. n \in 1..m /\ m \in 1..n
      <4>. HIDE DEF m
      <4>. QED
        BY <3>2, <3>3, Zenon DEF m
    <3>. HIDE DEF m
    <3>. QED
      BY <1>2, <3>4 DEF m
  <2>4. ASSUME NEW i \in 1..n
        PROVE  flat[i].kind # "rest" /\ (flat[i].kind = "lit" => path[i] = flat[i])
    <3>1. /\ Shape(path)[i] = IF path[i].kind \in {"mm", "one"} THEN One("*") ELSE path[i]
          /\ Shape(flat)[i] = IF flat[i].kind \in {"mm", "one"} THEN One("*") ELSE flat[i]
      BY <1>2, <2>2, <2>3 DEF Shape
    <3>2. One("*").kind = "one"
      BY DEF One
    <3>3. CASE path[i].kind \in {"mm", "one"}
      BY <1>1, <3>1, <3>2, <3>3
    <3>4. CASE path[i].kind = "lit"
      BY <1>1, <3>1, <3>2, <3>4
    <3>. QED
      BY <1>2, <1>3, <3>3, <3>4
  <2>. QED
    BY <2>3, <2>4
<1>14. Matches(flat, id)
  <2>1. \A i \in 1..n : flat[i].kind = "lit" => segs[i] = ExpandSegment(flat[i], <<>>)
    <3>1. \A seg : seg.kind = "lit" => ExpandSegment(seg, attrs) = ExpandSegment(seg, <<>>)
      BY DEF ExpandSegment
    <3>. QED
      BY <1>5, <1>13, <3>1
  <2>2. Segments(id) = segs
    BY <1>10, <1>11
  <2>. HIDE DEF id, n
  <2>. QED
    BY <1>2, <1>7, <1>13, <2>1, <2>2 DEF Matches
<1>. QED
  BY <1>7, <1>10, <1>11, <1>12, <1>14 DEF segs

\* What a url of the item may say: self's values, and the last segment.
SaidOfItem(t, id) == Extend(ParseProviderID(t.ty, id), [name |-> LastPathSegment(id)])

LEMMA SaidAreTexts ==
  ASSUME NEW t, FitsItsApi(t), NEW obj, IsResource(obj), Matches(GetPath(t.src), obj.key)
  PROVE  LET said == SaidOfItem(t, obj.key)
         IN  /\ DOMAIN said = PlaceholderNames(t.ty.self) \cup {"name"}
             /\ \A n \in DOMAIN said : said[n] \in Seq(Tokens)
             /\ \A n \in PlaceholderNames(t.ty.self) : said[n] = ParseProviderID(t.ty, obj.key)[n]
             /\ "name" \notin PlaceholderNames(t.ty.self) => said["name"] = LastPathSegment(obj.key)
<1>. DEFINE key == obj.key
            self == t.ty.self.path
            names == PlaceholderNames(t.ty.self)
            attrs == Captures(self, key)
            known == ParseProviderID(t.ty, key)
            last == LastPathSegment(key)
            segs == Segments(key)
            said == SaidOfItem(t, key)
<1>1. IsId(key) /\ key \in Seq(Tokens) /\ UrlsAreTemplates(t.ty)
  BY DEF IsResource, IsId, FitsItsApi
<1>2. IsTemplate(self) /\ OnceEach(self) /\ t.ty.self = Path(self)
  BY <1>1, SelfAndImports
<1>3. Matches(self, key)
  BY <1>1, SelfAccepts
<1>4. known = [name \in names |-> attrs[name]]
  BY <1>2, OwnAddress
<1>5. DOMAIN attrs = names
  BY <1>2, NamesOfPath DEF Captures
<1>6. \A n \in names : attrs[n] \in Seq(Tokens)
  <2>. HIDE DEF attrs, names
  <2>1. \A n \in DOMAIN attrs : attrs[n] \in Seq(Tokens)
    BY <1>1, <1>2, <1>3, CapturesAreTexts DEF attrs
  <2>. QED
    BY <1>5, <2>1
<1>7. last \in Seq(Tokens)
  <2>1. segs \in Seq(Seq(Tokens)) /\ segs # <<>>
    BY <1>1, SegmentsParts DEF Parts
  <2>. HIDE DEF segs
  <2>2. Last(segs) \in Seq(Tokens)
    BY <2>1 DEF Last
  <2>. QED
    BY <2>2 DEF LastPathSegment, segs
<1>8. said = [k \in names \cup {"name"} |-> IF k \in names THEN known[k] ELSE last]
  <2>1. DOMAIN [name |-> last] = {"name"} /\ [name |-> last]["name"] = last
    OBVIOUS
  <2>2. DOMAIN known = names
    <3>. HIDE DEF names, attrs, known
    <3>. QED
      BY <1>4
  <2>3. said = Extend(known, [name |-> last])
    BY DEF SaidOfItem
  <2>. HIDE DEF names, known, last, said
  <2>. DEFINE one == [name |-> last]
  <2>4. said = [k \in DOMAIN known \cup DOMAIN one |-> IF k \in DOMAIN known THEN known[k] ELSE one[k]]
    BY <2>3 DEF Extend
  <2>. HIDE DEF one
  <2>5. said = [k \in names \cup {"name"} |-> IF k \in names THEN known[k] ELSE one[k]]
    BY <2>1, <2>2, <2>4 DEF one
  <2>6. \A k \in names \cup {"name"} : k \notin names => one[k] = last
    BY <2>1 DEF one
  <2>. QED
    BY <2>5, <2>6
<1>. HIDE DEF known, last, attrs, names, said
<1>9. \A n \in names : said[n] = known[n] /\ known[n] \in Seq(Tokens)
  BY <1>4, <1>6, <1>8
<1>10. \A n \in DOMAIN said : said[n] \in Seq(Tokens)
  BY <1>7, <1>8, <1>9
<1>11. "name" \notin names => said["name"] = last
  BY <1>8
<1>. QED
  BY <1>8, <1>9, <1>10, <1>11 DEF known, names, said, last

\* Self makes the id of that.
LEMMA SelfSaysTheID ==
  ASSUME NEW t, FitsItsApi(t), NEW obj, IsResource(obj), Matches(GetPath(t.src), obj.key)
  PROVE  LET self == t.ty.self.path
             said == SaidOfItem(t, obj.key)
         IN  /\ ExpandPath(self, said) = obj.key
             /\ \A i \in DOMAIN self : IsPlaceholder(self[i]) => said[self[i].name] \in Seq(Tokens)
<1>. DEFINE self == t.ty.self.path
            said == SaidOfItem(t, obj.key)
            known == ParseProviderID(t.ty, obj.key)
<1>1. IsTemplate(self) /\ t.ty.self = Path(self)
  BY SelfAndImports DEF FitsItsApi
<1>2. ExpandPath(self, known) = obj.key
  BY OwnAddress
<1>3. /\ DOMAIN said = PlaceholderNames(t.ty.self) \cup {"name"}
      /\ \A n \in DOMAIN said : said[n] \in Seq(Tokens)
      /\ \A n \in PlaceholderNames(t.ty.self) : said[n] = known[n]
  BY SaidAreTexts
<1>4. \A i \in DOMAIN self : IsPlaceholder(self[i]) => self[i].name \in PlaceholderNames(Path(self))
  BY NamesOfPath
<1>. HIDE DEF said, known, self
<1>5. \A i \in DOMAIN self : IsPlaceholder(self[i]) =>
        said[self[i].name] = known[self[i].name] /\ said[self[i].name] \in Seq(Tokens)
  BY <1>1, <1>3, <1>4
<1>6. ExpandPath(self, said) = ExpandPath(self, known)
  BY <1>1, <1>5, SameValues
<1>. QED
  BY <1>2, <1>5, <1>6 DEF said, self

\* A template that says what self does is filled by an id.
LEMMA ItemURLSays ==
  ASSUME NEW t, FitsItsApi(t), NEW obj, IsResource(obj), Matches(GetPath(t.src), obj.key),
         NEW tmpl, SaysWhatSelfDoes(t, tmpl), tmpl # NoTemplate
  PROVE  LET said == SaidOfItem(t, obj.key)
         IN  /\ ItemURL(t.ty, tmpl, obj.key, ParseProviderID(t.ty, obj.key))
                  = AbsURL(t.ty, ExpandPath(tmpl.path, said), ExpandQuery(tmpl.query, said))
             /\ \A i \in DOMAIN tmpl.path : IsPlaceholder(tmpl.path[i]) => said[tmpl.path[i].name] \in Seq(Tokens)
<1>. DEFINE said == SaidOfItem(t, obj.key)
<1>1. /\ DOMAIN said = PlaceholderNames(t.ty.self) \cup {"name"}
      /\ \A n \in DOMAIN said : said[n] \in Seq(Tokens)
  BY SaidAreTexts
<1>2. ItemURL(t.ty, tmpl, obj.key, ParseProviderID(t.ty, obj.key)) =
        IF Fillable(tmpl, said) THEN Expanded(t.ty, tmpl, said) ELSE NoUrl
  BY DEF ItemURL, SaidOfItem
<1>. HIDE DEF said
<1>3. Fillable(tmpl, said)
  BY <1>1 DEF Fillable, SaysWhatSelfDoes
<1>4. \A i \in DOMAIN tmpl.path : IsPlaceholder(tmpl.path[i]) => tmpl.path[i].name \in PlaceholderNames(tmpl)
  BY DEF PlaceholderNames, SegmentsOf, ToSet
<1>5. \A i \in DOMAIN tmpl.path : IsPlaceholder(tmpl.path[i]) => said[tmpl.path[i].name] \in Seq(Tokens)
  BY <1>1, <1>3, <1>4 DEF Fillable
<1>. QED
  BY <1>2, <1>3, <1>5 DEF Expanded, said

LEMMA QuerySays ==
  ASSUME NEW query, NEW said
  PROVE  KeysIn(ExpandQuery(query, said)) = AsksFor(query)
<1>. DEFINE pairs == ExpandQuery(query, said)
<1>1. ASSUME NEW i \in DOMAIN query
      PROVE  \E q \in pairs : q[1] = query[i].key
  <2>. DEFINE q == <<query[i].key, ExpandSegment(query[i].value, said)>>
  <2>1. q \in pairs
    BY DEF ExpandQuery
  <2>2. q[1] = query[i].key
    OBVIOUS
  <2>. HIDE DEF q, pairs
  <2>. QED
    BY <2>1, <2>2
<1>2. ASSUME NEW q \in pairs
      PROVE  \E i \in DOMAIN query : q[1] = query[i].key
  <2>1. PICK i \in DOMAIN query : q = <<query[i].key, ExpandSegment(query[i].value, said)>>
    BY DEF ExpandQuery
  <2>2. q[1] = query[i].key
    BY <2>1
  <2>. QED
    BY <2>2
<1>. HIDE DEF pairs
<1>3. KeysIn(pairs) = {query[i].key : i \in DOMAIN query}
  BY <1>1, <1>2 DEF KeysIn
<1>. QED
  BY <1>3 DEF pairs, AsksFor

(* A request of the item's is sent where a method of the API's is, with    *)
(* the query that its template has; to the item's own address if the       *)
(* template is that (itemURL).                                             *)
LEMMA ItemAddress ==
  ASSUME NEW t, FitsItsApi(t), NEW obj, IsResource(obj), Matches(GetPath(t.src), obj.key),
         NEW tmpl, SaysWhatSelfDoes(t, tmpl), NEW method, ServedAt(t, tmpl, method)
  PROVE  \E rel \in Seq(Tokens) : \E query :
           /\ ItemURL(t.ty, tmpl, obj.key, ParseProviderID(t.ty, obj.key)) = AbsURL(t.ty, rel, query)
           /\ KeysIn(query) = AsksFor(tmpl.query)
           /\ Matches(FlatPath(method), rel)
           /\ IsOwnAddress(t, tmpl) => rel = obj.key
<1>. DEFINE said == SaidOfItem(t, obj.key)
            known == ParseProviderID(t.ty, obj.key)
            self == t.ty.self.path
<1>1. obj.key \in Seq(Tokens)
  BY DEF IsResource, IsId
<1>3. ItemURL(t.ty, NoTemplate, obj.key, known) = AbsURL(t.ty, obj.key, {})
  BY OwnAddress
<1>4. ExpandPath(self, said) = obj.key
  BY SelfSaysTheID
<1>5. CASE tmpl = NoTemplate
  <2>1. ~ OneByOne(tmpl.path, FlatPath(method))
    BY <1>5 DEF OneByOne, IsTemplate, NoTemplate
  <2>2. FlatPath(method) = GetPath(t.src)
    BY <2>1 DEF ServedAt
  <2>3. KeysIn({}) = AsksFor(tmpl.query)
    BY <1>5 DEF AsksFor, NoTemplate, KeysIn
  <2>4. Matches(FlatPath(method), obj.key)
    BY <2>2
  <2>5. ItemURL(t.ty, tmpl, obj.key, known) = AbsURL(t.ty, obj.key, {})
    BY <1>3, <1>5
  <2>. HIDE DEF known
  <2>. QED
    BY <1>1, <2>3, <2>4, <2>5 DEF known
<1>6. CASE tmpl # NoTemplate
  <2>. DEFINE rel == ExpandPath(tmpl.path, said)
              query == ExpandQuery(tmpl.query, said)
  <2>1. /\ ItemURL(t.ty, tmpl, obj.key, known) = AbsURL(t.ty, rel, query)
        /\ \A i \in DOMAIN tmpl.path : IsPlaceholder(tmpl.path[i]) => said[tmpl.path[i].name] \in Seq(Tokens)
    BY <1>6, ItemURLSays
  <2>2. KeysIn(query) = AsksFor(tmpl.query)
    BY QuerySays
  <2>3. tmpl.path = self => rel = obj.key
    BY <1>4
  <2>. HIDE DEF known, query, said, self
  <2>4. rel \in Seq(Tokens) /\ Matches(FlatPath(method), rel)
    <3>1. CASE tmpl.path = self /\ FlatPath(method) = GetPath(t.src)
      BY <1>1, <2>3, <3>1
    <3>2. CASE OneByOne(tmpl.path, FlatPath(method))
      BY <2>1, <3>2, AcceptedOneByOne
    <3>. QED
      BY <1>6, <3>1, <3>2 DEF ServedAt, IsOwnAddress, self
  <2>5. IsOwnAddress(t, tmpl) => rel = obj.key
    BY <1>6, <2>3 DEF IsOwnAddress, self
  <2>. HIDE DEF rel
  <2>. QED
    BY <2>1, <2>2, <2>4, <2>5 DEF known
<1>. QED
  BY <1>5, <1>6

\* What no mask is added to.
LEMMA MethodIsPublished ==
  ASSUME NEW t, FitsItsApi(t), NEW obj, IsResource(obj), Matches(GetPath(t.src), obj.key),
         NEW role, role \notin {"create", "update"}, NEW verb, NEW tmpl,
         HasMethod(t, role, verb, tmpl, AsksFor(tmpl.query)),
         NEW req, req.role = role, req.verb = verb,
         req.url = ItemURL(t.ty, tmpl, obj.key, ParseProviderID(t.ty, obj.key))
  PROVE  Published(t.src, req)
<1>1. SaysWhatSelfDoes(t, tmpl)
  BY DEF HasMethod
<1>2. PICK m \in t.src.api.roles[role] :
        /\ Method(t.src, m).verb = verb /\ QueryFits(Method(t.src, m), AsksFor(tmpl.query))
        /\ ServedAt(t, tmpl, Method(t.src, m))
  BY DEF HasMethod
<1>. DEFINE method == Method(t.src, m)
<1>3. method.verb = req.verb /\ QueryFits(method, AsksFor(tmpl.query)) /\ ServedAt(t, tmpl, method)
  BY <1>2
<1>. HIDE DEF method
<1>4. PICK rel \in Seq(Tokens) : \E query :
        /\ req.url = AbsURL(t.ty, rel, query)
        /\ KeysIn(query) = AsksFor(tmpl.query)
        /\ Matches(FlatPath(method), rel)
  BY <1>1, <1>3, ItemAddress
<1>5. PICK query : /\ req.url = AbsURL(t.ty, rel, query)
                   /\ KeysIn(query) = AsksFor(tmpl.query)
                   /\ Matches(FlatPath(method), rel)
  BY <1>4
<1>6. QueryFits(method, KeysIn(query))
  BY <1>3, <1>5
<1>7. Answers(method, t.src, req)
  BY <1>3, <1>5, <1>6, IsAnswered
<1>. QED
  BY <1>2, <1>7 DEF Published, method

\* An update, with its mask and its body.
IsUpdate(t, req, url, wire) ==
  LET mask == IF t.ty.updateMask THEN {<<"updateMask", <<wire>> >>} ELSE {}
  IN  /\ req.role = "update" /\ req.verb = t.ty.updateVerb
      /\ req.body.enveloped <=> t.ty.updateWrapper # ""
      /\ req.url = [url EXCEPT !.query = @ \cup mask]

LEMMA UpdateIsAnswered ==
  ASSUME NEW t, FitsItsApi(t), NEW rel \in Seq(Tokens), NEW query, KeysIn(query) = AsksFor(t.ty.update.query),
         NEW wire, NEW req, IsUpdate(t, req, AbsURL(t.ty, rel, query), wire),
         NEW method, method.verb = t.ty.updateVerb, QueryFits(method, UpdateKeys(t.ty)),
         t.ty.updateWrapper # "" <=> method.body = "other", Matches(FlatPath(method), rel)
  PROVE  Answers(method, t.src, req)
<1>. DEFINE mask == IF t.ty.updateMask THEN {<<"updateMask", <<wire>> >>} ELSE {}
<1>1. /\ method.verb = req.verb
      /\ req.body.enveloped <=> method.body = "other"
  BY DEF IsUpdate
<1>2. req.url = AbsURL(t.ty, rel, query \cup mask)
  <2>1. req.url = [AbsURL(t.ty, rel, query) EXCEPT !.query = @ \cup mask]
    BY DEF IsUpdate
  <2>. HIDE DEF mask
  <2>. QED
    BY <2>1 DEF AbsURL
<1>3. KeysIn(mask) = IF t.ty.updateMask THEN {"updateMask"} ELSE {}
  <2>. DEFINE said == <<"updateMask", <<wire>> >>
  <2>1. said[1] = "updateMask"
    OBVIOUS
  <2>. HIDE DEF said
  <2>2. KeysIn({said}) = {"updateMask"}
    <3>1. \A k : k \in KeysIn({said}) <=> k = "updateMask"
      BY <2>1 DEF KeysIn
    <3>. QED
      BY <3>1
  <2>3. KeysIn({}) = {}
    BY DEF KeysIn
  <2>4. mask = IF t.ty.updateMask THEN {said} ELSE {}
    BY DEF said
  <2>. HIDE DEF mask
  <2>. QED
    BY <2>2, <2>3, <2>4
<1>. HIDE DEF mask
<1>4. KeysIn(query \cup mask) = UpdateKeys(t.ty)
  <2>1. KeysIn(query \cup mask) = KeysIn(query) \cup KeysIn(mask)
    BY DEF KeysIn
  <2>. QED
    BY <1>3, <2>1 DEF UpdateKeys
<1>5. QueryFits(method, KeysIn(query \cup mask))
  BY <1>4
<1>. QED
  BY <1>1, <1>2, <1>5, IsAnswered

LEMMA UpdateIsPublished ==
  ASSUME NEW t, FitsItsApi(t), NEW obj, IsResource(obj), Matches(GetPath(t.src), obj.key), HasUpdate(t),
         NEW wire, NEW req,
         IsUpdate(t, req, ItemURL(t.ty, t.ty.update, obj.key, ParseProviderID(t.ty, obj.key)), wire)
  PROVE  Published(t.src, req)
<1>. DEFINE tmpl == t.ty.update
            url == ItemURL(t.ty, tmpl, obj.key, ParseProviderID(t.ty, obj.key))
<1>1. SaysWhatSelfDoes(t, tmpl)
  BY DEF HasUpdate
<1>2. PICK m \in t.src.api.roles["update"] :
        LET method == Method(t.src, m)
        IN  /\ method.verb = t.ty.updateVerb
            /\ QueryFits(method, UpdateKeys(t.ty)) /\ ServedAt(t, t.ty.update, method)
            /\ t.ty.updateWrapper # "" <=> method.body = "other"
  BY DEF HasUpdate
<1>. DEFINE method == Method(t.src, m)
<1>3. /\ method.verb = t.ty.updateVerb /\ QueryFits(method, UpdateKeys(t.ty))
      /\ t.ty.updateWrapper # "" <=> method.body = "other"
  BY <1>2
<1>4. ServedAt(t, tmpl, method)
  BY <1>2
<1>. HIDE DEF method
<1>5. PICK rel \in Seq(Tokens) : \E query :
        /\ url = AbsURL(t.ty, rel, query)
        /\ KeysIn(query) = AsksFor(tmpl.query)
        /\ Matches(FlatPath(method), rel)
  BY <1>1, <1>4, ItemAddress
<1>6. PICK query :
        /\ url = AbsURL(t.ty, rel, query)
        /\ KeysIn(query) = AsksFor(tmpl.query)
        /\ Matches(FlatPath(method), rel)
  BY <1>5
<1>7. IsUpdate(t, req, AbsURL(t.ty, rel, query), wire)
  BY <1>6
<1>8. Answers(method, t.src, req)
  BY <1>3, <1>6, <1>7, UpdateIsAnswered
<1>9. req.role = "update"
  BY DEF IsUpdate
<1>. QED
  BY <1>2, <1>8, <1>9 DEF Published, method

\* A path of one value is expanded to that value.
LEMMA BareCaptureExpands ==
  ASSUME NEW path \in Seq(Segment), IsBareCapture(path), NEW attrs, attrs[path[1].name] \in Seq(Tokens)
  PROVE  ExpandPath(path, attrs) = attrs[path[1].name]
<1>. DEFINE value == attrs[path[1].name]
            segs == [i \in DOMAIN path |-> ExpandSegment(path[i], attrs)]
<1>1. Len(path) = 1 /\ DOMAIN path = 1..1 /\ path[1].kind = "rest"
  BY DEF IsBareCapture
<1>2. ExpandSegment(path[1], attrs) = value
  BY <1>1 DEF ExpandSegment
<1>. HIDE DEF value
<1>3. segs \in [1..1 -> Seq(Tokens)] /\ segs[1] = value
  <2>1. \A i \in 1..1 : i = 1
    OBVIOUS
  <2>. QED
    BY <1>1, <1>2, <2>1 DEF value
<1>. HIDE DEF segs
<1>4. segs \in Seq(Seq(Tokens)) /\ Len(segs) = 1
  <2>1. \A n \in Nat : \A s \in [1..n -> Seq(Tokens)] : s \in Seq(Seq(Tokens)) /\ Len(s) = n
    OBVIOUS
  <2>. QED
    BY <1>3, <2>1
<1>5. segs = Append(<<>>, value)
  <2>1. /\ Append(<<>>, value) \in Seq(Seq(Tokens)) /\ Len(Append(<<>>, value)) = 1
        /\ Append(<<>>, value)[1] = value
    BY DEF value
  <2>2. \A i \in 1..1 : i = 1
    OBVIOUS
  <2>3. \A i \in 1..1 : segs[i] = Append(<<>>, value)[i]
    BY <1>3, <2>1, <2>2
  <2>. QED
    BY <1>4, <2>1, <2>3, SeqEqual
<1>6. Joined(segs) = Join(Joined(<<>>), value)
  <2>1. <<>> \in Seq(Seq(Tokens)) /\ value \in Seq(Tokens)
    BY DEF value
  <2>. QED
    BY <1>5, <2>1, JoinedOneMore, SeparatorsAreTokens
<1>. QED
  BY <1>6, JoinedOfNothing DEF Join, ExpandPath, segs, value

\* A create of the collection, or of a full name.
LEMMA CreateIsPublished ==
  ASSUME NEW t, FitsItsApi(t), HasCreate(t)
  PROVE  Published(t.src, NewRequest(t))
<1>. DEFINE tmpl == CreateTemplate(t.ty)
            path == tmpl.path
            scoped == ScopeOfNew(t)
            value == scoped[path[1].name]
            rel == ExpandPath(path, scoped)
            query == ExpandQuery(tmpl.query, scoped)
            req == NewRequest(t)
<1>1. PICK m \in t.src.api.roles["create"] :
        LET method == Method(t.src, m)
        IN  /\ method.verb = t.ty.createVerb
            /\ QueryFits(method, AsksFor(tmpl.query))
            /\ t.ty.wrapper <=> method.body = "other"
            /\ \/ /\ OneByOne(path, FlatPath(method))
                  /\ \A i \in DOMAIN path : IsPlaceholder(path[i]) => scoped[path[i].name] \in Seq(Tokens)
               \/ /\ path \in Seq(Segment) /\ IsBareCapture(path)
                  /\ value \in Seq(Tokens) /\ Matches(FlatPath(method), value)
  BY Zenon DEF HasCreate
<1>. DEFINE method == Method(t.src, m)
<1>2. req.role = "create" /\ req.verb = t.ty.createVerb /\ req.body.enveloped = t.ty.wrapper
      /\ req.url = AbsURL(t.ty, rel, query)
  <2>. HIDE DEF tmpl, scoped
  <2>. QED
    BY DEF NewRequest, CreateRequest, Request, Expanded, tmpl, scoped
<1>3. /\ method.verb = req.verb /\ QueryFits(method, AsksFor(tmpl.query))
      /\ req.body.enveloped <=> method.body = "other"
  <2>. HIDE DEF req
  <2>. QED
    BY <1>1, <1>2
<1>4. rel \in Seq(Tokens) /\ Matches(FlatPath(method), rel)
  <2>1. CASE OneByOne(path, FlatPath(method))
             /\ \A i \in DOMAIN path : IsPlaceholder(path[i]) => scoped[path[i].name] \in Seq(Tokens)
    <3>. HIDE DEF path, scoped, method
    <3>. QED
      BY <2>1, AcceptedOneByOne
  <2>2. CASE path \in Seq(Segment) /\ IsBareCapture(path) /\ value \in Seq(Tokens) /\ Matches(FlatPath(method), value)
    <3>. HIDE DEF path, scoped, method
    <3>1. rel = value
      BY <2>2, BareCaptureExpands
    <3>. QED
      BY <2>2, <3>1
  <2>. QED
    BY <1>1, <2>1, <2>2
<1>5. KeysIn(query) = AsksFor(tmpl.query)
  BY QuerySays
<1>. HIDE DEF method, rel, query, req, tmpl
<1>6. QueryFits(method, KeysIn(query))
  BY <1>3, <1>5
<1>7. Answers(method, t.src, req)
  BY <1>2, <1>3, <1>4, <1>6, IsAnswered
<1>. QED
  BY <1>1, <1>2, <1>7 DEF Published, method, req

LEMMA PartsOfURL ==
  ASSUME NEW ty, NEW rel, NEW query
  PROVE  AbsURL(ty, rel, query).path = ty.prefix \o rel /\ AbsURL(ty, rel, query).query = query
<1>1. AbsURL(ty, rel, query) = [host |-> HostFor(ty, rel), path |-> ty.prefix \o rel, query |-> query]
  BY DEF AbsURL
<1>. QED
  BY <1>1

\* Paths that look alike take a rest in the same place.
LEMMA SameShape ==
  ASSUME NEW path, IsTemplate(path), NEW other, IsTemplate(other), Shape(path) = Shape(other)
  PROVE  /\ Len(path) = Len(other)
         /\ \A i \in 1..Len(path) : path[i].kind = "rest" <=> other[i].kind = "rest"
<1>1. /\ Len(path) \in Nat /\ Len(path) > 0 /\ DOMAIN path = 1..Len(path)
      /\ Len(other) \in Nat /\ Len(other) > 0 /\ DOMAIN other = 1..Len(other)
  BY TemplatePlaces
<1>2. DOMAIN Shape(path) = DOMAIN path /\ DOMAIN Shape(other) = DOMAIN other
  BY DEF Shape
<1>. DEFINE n == Len(path)
            m == Len(other)
<1>3. n = m
  <2>1. 1..n = 1..m
    BY <1>1, <1>2
  <2>2. n \in 1..n /\ m \in 1..m
    BY <1>1
  <2>3. n \in 1..m /\ m \in 1..n
    BY <2>1, <2>2, Zenon
  <2>4. n \in Nat /\ m \in Nat
    BY <1>1
  <2>. HIDE DEF n, m
  <2>. QED
    BY <2>3, <2>4
<1>4. ASSUME NEW i \in 1..n
      PROVE  path[i].kind = "rest" <=> other[i].kind = "rest"
  <2>1. /\ Shape(path)[i] = IF path[i].kind \in {"mm", "one"} THEN One("*") ELSE path[i]
        /\ Shape(other)[i] = IF other[i].kind \in {"mm", "one"} THEN One("*") ELSE other[i]
    BY <1>1, <1>3 DEF Shape
  <2>2. One("*").kind = "one"
    BY DEF One
  <2>3. (IF path[i].kind \in {"mm", "one"} THEN One("*") ELSE path[i])
          = (IF other[i].kind \in {"mm", "one"} THEN One("*") ELSE other[i])
    BY <2>1
  <2>. DEFINE a == path[i]
              b == other[i]
  <2>. HIDE DEF a, b
  <2>. QED
    BY <2>2, <2>3
<1>. QED
  BY <1>3, <1>4

LEMMA SaidAlikeExpands ==
  ASSUME NEW a, NEW b, SaidAlike(a, b), NEW attrs
  PROVE  ExpandSegment(a, attrs) = ExpandSegment(b, attrs)
<1>1. CASE a = b
  BY <1>1
<1>2. CASE a.name = b.name /\ a.kind \in {"one", "mm"} /\ b.kind \in {"one", "mm"}
  BY <1>2 DEF ExpandSegment
<1>. QED
  BY <1>1, <1>2 DEF SaidAlike

\* Where the id is not one value, self takes one segment of it at a time.
LEMMA SelfIsOneByOne ==
  ASSUME NEW t, FitsItsApi(t), ~ IsBareCapture(t.ty.self.path),
         NEW obj, IsResource(obj), Matches(GetPath(t.src), obj.key)
  PROVE  LET self == t.ty.self.path
             path == GetPath(t.src)
             n    == Len(self)
             said == SaidOfItem(t, obj.key)
         IN  /\ self \in Seq(Segment) /\ n \in Nat /\ n > 0 /\ DOMAIN self = 1..n
             /\ path[Len(path)].kind # "rest" /\ Len(path) = n
             /\ Segments(obj.key) \in Seq(Seq(Tokens)) /\ Len(Segments(obj.key)) = n
             /\ \A i \in 1..n : Segments(obj.key)[i] = ExpandSegment(self[i], said)
             /\ Joined(Segments(obj.key)) = obj.key
<1>. DEFINE self == t.ty.self.path
            path == GetPath(t.src)
            n == Len(self)
            said == SaidOfItem(t, obj.key)
            segs == [i \in DOMAIN self |-> ExpandSegment(self[i], said)]
<1>1. Last(self).kind # "rest" /\ Shape(path) = Shape(self)
  BY DEF FitsItsApi, SelfIsTheGets
<1>2. IsTemplate(self) /\ IsTemplate(path) /\ path[1].kind = "lit" /\ path[1].name # ""
  BY SelfAndImports DEF FitsItsApi, GetIsPublished, GetPath
<1>3. /\ self \in Seq(Segment) /\ n \in Nat /\ n > 0 /\ DOMAIN self = 1..n
      /\ Len(path) \in Nat /\ Len(path) > 0 /\ DOMAIN path = 1..Len(path)
  BY <1>2, TemplatePlaces DEF IsTemplate
<1>4. /\ ExpandPath(self, said) = obj.key
      /\ \A i \in DOMAIN self : IsPlaceholder(self[i]) => said[self[i].name] \in Seq(Tokens)
  BY SelfSaysTheID
<1>5. self[n].kind # "rest"
  BY <1>1 DEF Last
<1>6. obj.key \in Seq(Tokens) /\ obj.key[1] # "/"
  BY DEF IsResource, IsId
<1>7. Joined(Segments(obj.key)) = obj.key
  BY <1>6, JoinedSegments, SeparatorsAreTokens
<1>. HIDE DEF self, path, said
<1>8. Len(path) = n /\ \A i \in 1..n : path[i].kind = "rest" <=> self[i].kind = "rest"
  BY <1>1, <1>2, SameShape
<1>9. self[1].kind = "lit" /\ self[1].name # ""
  <2>1. 1 \in DOMAIN self /\ 1 \in DOMAIN path
    BY <1>3
  <2>2. /\ Shape(self)[1] = IF self[1].kind \in {"mm", "one"} THEN One("*") ELSE self[1]
        /\ Shape(path)[1] = IF path[1].kind \in {"mm", "one"} THEN One("*") ELSE path[1]
    BY <2>1 DEF Shape
  <2>3. One("*").kind = "one"
    BY DEF One
  <2>. DEFINE a == self[1]
              b == path[1]
  <2>4. (IF a.kind \in {"mm", "one"} THEN One("*") ELSE a) = (IF b.kind \in {"mm", "one"} THEN One("*") ELSE b)
    BY <1>1, <2>2
  <2>. HIDE DEF a, b
  <2>5. b.kind = "lit" /\ b.name # ""
    BY <1>2 DEF b
  <2>6. a = b
    BY <2>3, <2>4, <2>5
  <2>. QED
    BY <2>5, <2>6 DEF a
<1>10. OneByOne(self, path)
  BY <1>1, <1>2, <1>5, <1>9 DEF OneByOne
<1>11. Segments(obj.key) = segs /\ segs \in Seq(Seq(Tokens)) /\ Len(segs) = n
  BY <1>4, <1>10, AcceptedOneByOne
<1>12. \A i \in 1..n : segs[i] = ExpandSegment(self[i], said)
  BY <1>3
<1>13. path[Len(path)].kind # "rest"
  <2>1. n \in 1..n
    BY <1>3
  <2>. HIDE DEF n
  <2>. QED
    BY <1>5, <1>8, <2>1
<1>. HIDE DEF segs, n
<1>. QED
  BY <1>3, <1>7, <1>8, <1>11, <1>12, <1>13 DEF self, path, said, n

\* The word for the last segment of an id says what self says there: there
\* is nothing in it to escape.
LEMMA LastIsSaid ==
  ASSUME NEW t, FitsItsApi(t), ~ IsBareCapture(t.ty.self.path),
         NEW obj, IsResource(obj), Matches(GetPath(t.src), obj.key),
         NEW seg, SaysTheLast(t, seg)
  PROVE  ExpandSegment(seg, SaidOfItem(t, obj.key)) = Segments(obj.key)[Len(t.ty.self.path)]
<1>. DEFINE self == t.ty.self.path
            n == Len(self)
            said == SaidOfItem(t, obj.key)
            segs == Segments(obj.key)
            word == segs[n]
<1>1. /\ n \in Nat /\ n > 0 /\ segs \in Seq(Seq(Tokens)) /\ Len(segs) = n
      /\ \A i \in 1..n : segs[i] = ExpandSegment(self[i], said)
  BY SelfIsOneByOne
<1>2. n \in 1..n /\ word = ExpandSegment(self[n], said) /\ Last(self) = self[n]
  <2>1. n \in 1..n
    BY <1>1
  <2>2. Last(self) = self[n]
    BY DEF Last
  <2>. HIDE DEF n, said, segs
  <2>. QED
    BY <1>1, <2>1, <2>2
<1>3. CASE SaidAlike(seg, Last(self))
  <2>1. ExpandSegment(seg, said) = ExpandSegment(Last(self), said)
    BY <1>3, SaidAlikeExpands
  <2>. QED
    BY <1>2, <2>1
<1>4. CASE "name" \notin PlaceholderNames(t.ty.self) /\ SaidAlike(seg, One("name"))
  <2>1. said["name"] = LastPathSegment(obj.key)
    BY <1>4, SaidAreTexts
  <2>2. LastPathSegment(obj.key) = word
    <3>1. LastPathSegment(obj.key) = segs[Len(segs)]
      BY DEF LastPathSegment, Last
    <3>. QED
      BY <1>1, <3>1
  <2>3. word \in Seq(Tokens) /\ ~ HasSlash(word)
    <3>1. obj.key \in Seq(Tokens)
      BY DEF IsResource, IsId
    <3>2. \A i \in 1..Len(segs) : ~ HasSlash(segs[i])
      BY <3>1, SegmentsAreWords, SeparatorsAreTokens
    <3>. HIDE DEF segs, n
    <3>. QED
      BY <1>1, <1>2, <3>2
  <2>4. \A i \in DOMAIN word : word[i] # "%2F"
    BY <2>2 DEF IsResource
  <2>5. ExpandSegment(seg, said) = ExpandSegment(One("name"), said)
    BY <1>4, SaidAlikeExpands
  <2>. HIDE DEF said, word
  <2>6. ExpandSegment(One("name"), said) = Escape(said["name"])
    BY DEF ExpandSegment, One
  <2>7. Escape(word) = word
    BY <2>3, <2>4, EscapedWord
  <2>. QED
    BY <2>1, <2>2, <2>5, <2>6, <2>7 DEF said, word
<1>. QED
  BY <1>3, <1>4 DEF SaysTheLast

\* A request to this url, with a mask or without.
IsSentTo(req, url, mask) ==
  /\ req.url.path = url.path /\ req.url.query = url.query \cup mask
  /\ KeysIn(mask) \subseteq {"updateMask"}

LEMMA SentAsItIs ==
  ASSUME NEW req
  PROVE  IsSentTo(req, req.url, {})
<1>1. \A query : query = query \cup {}
  OBVIOUS
<1>2. KeysIn({}) \subseteq {"updateMask"}
  BY DEF KeysIn
<1>. QED
  BY <1>1, <1>2, Zenon DEF IsSentTo

(* A request that is sent to the resource, further down, or to what it is  *)
(* in with the last segment in the query, is about the resource.           *)
LEMMA ItemIsMeant ==
  ASSUME NEW t, FitsItsApi(t), NEW obj, IsResource(obj), Matches(GetPath(t.src), obj.key),
         NEW tmpl, SaysWhatSelfDoes(t, tmpl), AtTheItem(t, tmpl), NEW method, ServedAt(t, tmpl, method),
         NEW url, url = ItemURL(t.ty, tmpl, obj.key, ParseProviderID(t.ty, obj.key)),
         NEW req, NEW mask, IsSentTo(req, url, mask)
  PROVE  ItemKey(t.src, req) = obj.key
<1>. DEFINE self == t.ty.self.path
            n == Len(self)
            said == SaidOfItem(t, obj.key)
            segs == Segments(obj.key)
            path == GetPath(t.src)
            item == t.src.api.item
<1>1. IsId(obj.key) /\ obj.key \in Seq(Tokens)
  BY DEF IsResource, IsId
<1>2. CASE IsOwnAddress(t, tmpl)
  <2>1. \E rel \in Seq(Tokens) : \E query :
          /\ url = AbsURL(t.ty, rel, query)
          /\ IsOwnAddress(t, tmpl) => rel = obj.key
    BY ItemAddress
  <2>2. PICK query : url = AbsURL(t.ty, obj.key, query)
    BY <1>2, <2>1
  <2>3. req.url.path = t.ty.prefix \o obj.key
    <3>1. AbsURL(t.ty, obj.key, query).path = t.ty.prefix \o obj.key
      BY PartsOfURL
    <3>2. req.url.path = url.path
      BY DEF IsSentTo
    <3>. QED
      BY <2>2, <3>1, <3>2, Zenon
  <2>4. Relative(t.src, req.url) = obj.key
    BY <1>1, <2>3, RelativeTo
  <2>. QED
    BY <1>1, <2>4, AskedAt
<1>6. ASSUME tmpl # NoTemplate
      PROVE  /\ url.path = t.ty.prefix \o ExpandPath(tmpl.path, said)
             /\ url.query = ExpandQuery(tmpl.query, said)
  <2>. DEFINE rel == ExpandPath(tmpl.path, said)
              query == ExpandQuery(tmpl.query, said)
  <2>1. url = AbsURL(t.ty, rel, query)
    BY <1>6, ItemURLSays
  <2>. HIDE DEF said, rel, query
  <2>2. url = [host |-> HostFor(t.ty, rel), path |-> t.ty.prefix \o rel, query |-> query]
    BY <2>1, Zenon DEF AbsURL
  <2>. DEFINE whole == t.ty.prefix \o rel
  <2>. HIDE DEF whole
  <2>3. url.path = whole /\ url.query = query
    BY <2>2 DEF whole
  <2>. QED
    BY <2>3 DEF whole, rel, query
<1>3. ASSUME ~ IsOwnAddress(t, tmpl), ~ IsBareCapture(self), NEW m \in Nat, m <= n, m <= Len(tmpl.path),
             \A i \in 1..m : ExpandSegment(tmpl.path[i], said) = segs[i]
      PROVE  LET rel  == ExpandPath(tmpl.path, said)
                 asks == Segments(rel)
             IN  /\ url.query = ExpandQuery(tmpl.query, said)
                 /\ rel \in Seq(Tokens) /\ rel # <<>>
                 /\ asks \in Seq(Seq(Tokens)) /\ Len(asks) = Len(tmpl.path) /\ Joined(asks) = rel
                 /\ \A i \in 1..m : asks[i] = segs[i]
                 /\ ItemKey(t.src, req) =
                      IF Len(asks) >= n THEN Joined(SubSeq(asks, 1, n))
                      ELSE IF item \in QueryKeys(req.url) THEN rel \o <<"/">> \o QueryValue(req.url, item) ELSE NoId
  <2>. DEFINE rel == ExpandPath(tmpl.path, said)
              asks == Segments(rel)
              made == [i \in DOMAIN tmpl.path |-> ExpandSegment(tmpl.path[i], said)]
  <2>1. OneByOne(tmpl.path, FlatPath(method)) /\ tmpl # NoTemplate
    BY <1>3 DEF ServedAt, IsOwnAddress
  <2>2. /\ url = AbsURL(t.ty, rel, ExpandQuery(tmpl.query, said))
        /\ \A i \in DOMAIN tmpl.path : IsPlaceholder(tmpl.path[i]) => said[tmpl.path[i].name] \in Seq(Tokens)
    BY <2>1, ItemURLSays
  <2>3. url.path = t.ty.prefix \o rel /\ url.query = ExpandQuery(tmpl.query, said)
    BY <1>6, <2>1
  <2>4. /\ rel \in Seq(Tokens) /\ rel # <<>> /\ asks = made
        /\ made \in Seq(Seq(Tokens)) /\ Len(made) = Len(tmpl.path) /\ Joined(made) = rel
    <3>. HIDE DEF said
    <3>1. /\ rel \in Seq(Tokens) /\ rel # <<>> /\ asks = made
          /\ made \in Seq(Seq(Tokens)) /\ Len(made) = Len(tmpl.path)
      BY <2>1, <2>2, AcceptedOneByOne
    <3>2. Joined(made) = rel
      BY DEF ExpandPath
    <3>. QED
      BY <3>1, <3>2
  <2>5. Relative(t.src, req.url) = rel
    <3>1. req.url.path = t.ty.prefix \o rel
      BY <2>3 DEF IsSentTo
    <3>. HIDE DEF rel
    <3>. QED
      BY <2>4, <3>1, RelativeTo
  <2>6. path[Len(path)].kind # "rest" /\ Len(path) = n
    BY <1>3, SelfIsOneByOne
  <2>7. FlatPath(Method(t.src, IF "get" \in DOMAIN t.src.methods THEN "get" ELSE "delete")) = path
    BY DEF FitsItsApi, GetIsPublished, GetPath
  <2>8. ItemKey(t.src, req) =
          IF Len(asks) >= n THEN Joined(SubSeq(asks, 1, n))
          ELSE IF item \in QueryKeys(req.url) THEN rel \o <<"/">> \o QueryValue(req.url, item) ELSE NoId
    <3>1. Joined(asks) = rel
      BY <2>4
    <3>. HIDE DEF rel, path, n
    <3>. QED
      BY <2>5, <2>6, <2>7, <3>1 DEF ItemKey, Last
  <2>9. \A i \in 1..m : made[i] = segs[i]
    <3>1. IsTemplate(tmpl.path)
      BY <2>1 DEF OneByOne
    <3>2. DOMAIN tmpl.path = 1..Len(tmpl.path) /\ Len(tmpl.path) \in Nat
      BY <3>1, TemplatePlaces
    <3>3. \A i \in 1..m : i \in DOMAIN tmpl.path
      BY <1>3, <3>2
    <3>. HIDE DEF segs, said
    <3>. QED
      BY <1>3, <3>3
  <2>. HIDE DEF made, rel, segs, n, said, item
  <2>. QED
    BY <2>3, <2>4, <2>8, <2>9 DEF rel, said
<1>4. CASE /\ ~ IsOwnAddress(t, tmpl) /\ ~ IsBareCapture(self) /\ Len(tmpl.path) >= n
           /\ \A i \in 1..n - 1 : SaidAlike(tmpl.path[i], self[i])
           /\ SaysTheLast(t, tmpl.path[n])
  <2>. DEFINE rel == ExpandPath(tmpl.path, said)
              asks == Segments(rel)
  <2>1. /\ n \in Nat /\ n > 0 /\ segs \in Seq(Seq(Tokens)) /\ Len(segs) = n /\ Joined(segs) = obj.key
        /\ \A i \in 1..n : segs[i] = ExpandSegment(self[i], said)
    BY <1>4, SelfIsOneByOne
  <2>2. \A i \in 1..n : ExpandSegment(tmpl.path[i], said) = segs[i]
    <3>1. ExpandSegment(tmpl.path[n], said) = segs[n]
      BY <1>4, LastIsSaid
    <3>2. \A i \in 1..n - 1 : ExpandSegment(tmpl.path[i], said) = ExpandSegment(self[i], said)
      BY <1>4, SaidAlikeExpands
    <3>. HIDE DEF n, said, segs, self
    <3>3. \A i \in 1..n : i = n \/ i \in 1..n - 1
      BY <2>1
    <3>. QED
      BY <2>1, <3>1, <3>2, <3>3
  <2>3. /\ asks \in Seq(Seq(Tokens)) /\ Len(asks) = Len(tmpl.path)
        /\ \A i \in 1..n : asks[i] = segs[i]
        /\ ItemKey(t.src, req) =
             IF Len(asks) >= n THEN Joined(SubSeq(asks, 1, n))
             ELSE IF item \in QueryKeys(req.url) THEN rel \o <<"/">> \o QueryValue(req.url, item) ELSE NoId
    <3>1. n <= n /\ n <= Len(tmpl.path)
      <4>. HIDE DEF n
      <4>. QED
        BY <1>4, <2>1
    <3>. HIDE DEF n, said, segs, item
    <3>. QED
      BY <1>3, <1>4, <2>1, <2>2, <3>1
  <2>. HIDE DEF asks, segs, n
  <2>4. SubSeq(asks, 1, n) = segs
    <3>1. /\ SubSeq(asks, 1, n) \in Seq(Seq(Tokens)) /\ Len(SubSeq(asks, 1, n)) = n
          /\ \A i \in 1..n : SubSeq(asks, 1, n)[i] = asks[i]
      BY <1>4, <2>1, <2>3
    <3>. QED
      BY <2>1, <2>3, <3>1, SeqEqual
  <2>. QED
    BY <1>4, <2>1, <2>3, <2>4
<1>5. CASE /\ ~ IsOwnAddress(t, tmpl) /\ Len(tmpl.path) = n - 1
           /\ \A i \in 1..n - 1 : SaidAlike(tmpl.path[i], self[i])
           /\ \E seg : tmpl.query = << [key |-> item, value |-> seg] >> /\ SaysTheLast(t, seg)
           /\ item # "updateMask"
  <2>. DEFINE rel == ExpandPath(tmpl.path, said)
              asks == Segments(rel)
  <2>1. PICK seg : tmpl.query = << [key |-> item, value |-> seg] >> /\ SaysTheLast(t, seg)
    BY <1>5
  <2>2. n \in Nat /\ n > 1 /\ DOMAIN tmpl.path = 1..n - 1 /\ self \in Seq(Segment)
    <3>1. IsTemplate(tmpl.path) /\ IsTemplate(self)
      BY <1>5, SelfAndImports DEF ServedAt, OneByOne, FitsItsApi
    <3>2. Len(tmpl.path) \in Nat /\ Len(tmpl.path) > 0 /\ DOMAIN tmpl.path = 1..Len(tmpl.path) /\ n \in Nat
      BY <3>1, TemplatePlaces
    <3>3. self \in Seq(Segment)
      BY <3>1 DEF IsTemplate
    <3>. HIDE DEF n, self
    <3>. QED
      BY <1>5, <3>2, <3>3
  <2>3. ~ IsBareCapture(self)
    <3>1. n # 1
      <4>. HIDE DEF n
      <4>. QED
        BY <2>2
    <3>. QED
      BY <3>1 DEF IsBareCapture
  <2>4. /\ segs \in Seq(Seq(Tokens)) /\ Len(segs) = n
        /\ \A i \in 1..n : segs[i] = ExpandSegment(self[i], said)
    BY <2>3, SelfIsOneByOne
  <2>5. \A i \in 1..n - 1 : ExpandSegment(tmpl.path[i], said) = ExpandSegment(self[i], said)
    BY <1>5, SaidAlikeExpands
  <2>6. /\ url.query = ExpandQuery(tmpl.query, said)
        /\ rel # <<>> /\ rel \in Seq(Tokens) /\ Len(asks) = n - 1
        /\ ItemKey(t.src, req) =
             IF Len(asks) >= n THEN Joined(SubSeq(asks, 1, n))
             ELSE IF item \in QueryKeys(req.url) THEN rel \o <<"/">> \o QueryValue(req.url, item) ELSE NoId
    <3>1. n - 1 \in Nat /\ n - 1 <= n /\ n - 1 <= Len(tmpl.path) /\ \A i \in 1..n - 1 : i \in 1..n
      <4>. HIDE DEF n
      <4>. QED
        BY <1>5, <2>2
    <3>2. \A i \in 1..n - 1 : ExpandSegment(tmpl.path[i], said) = segs[i]
      <4>. HIDE DEF n, said, segs, self
      <4>. QED
        BY <2>4, <2>5, <3>1
    <3>. HIDE DEF n, said, segs, item, self
    <3>. QED
      BY <1>3, <1>5, <2>3, <3>1, <3>2
  <2>7. obj.key = rel \o <<"/">> \o segs[n]
    <3>1. /\ ExpandPath(self, said) = obj.key
          /\ \A i \in DOMAIN self : IsPlaceholder(self[i]) => said[self[i].name] \in Seq(Tokens)
      BY SelfSaysTheID
    <3>2. ExpandPath(self, said) = Join(ExpandPath(Front(self), said), ExpandSegment(self[n], said))
      <4>. HIDE DEF said, self
      <4>. QED
        BY <2>2, <3>1, PathGrows DEF n
    <3>3. ExpandPath(Front(self), said) = rel
      <4>1. DOMAIN Front(self) = 1..n - 1 /\ \A i \in 1..n - 1 : Front(self)[i] = self[i]
        <5>1. Len(SubSeq(self, 1, n - 1)) = n - 1 /\ SubSeq(self, 1, n - 1) \in Seq(Segment)
              /\ \A i \in 1..n - 1 : SubSeq(self, 1, n - 1)[i] = self[i]
          <6>. HIDE DEF self
          <6>. QED
            BY <2>2
        <5>2. Front(self) = SubSeq(self, 1, n - 1)
          BY DEF Front
        <5>. HIDE DEF self, n
        <5>. QED
          BY <2>2, <5>1, <5>2
      <4>. HIDE DEF self, n, said
      <4>2. \A i \in DOMAIN Front(self) : ExpandSegment(Front(self)[i], said) = ExpandSegment(tmpl.path[i], said)
        BY <2>5, <4>1
      <4>. QED
        BY <2>2, <4>1, <4>2, SameExpansion
    <3>4. segs[n] = ExpandSegment(self[n], said)
      <4>1. n \in 1..n
        <5>. HIDE DEF n
        <5>. QED
          BY <2>2
      <4>. HIDE DEF n, segs, said, self
      <4>. QED
        BY <2>4, <4>1
    <3>. HIDE DEF rel, segs, n, said, self
    <3>. QED
      BY <2>6, <3>1, <3>2, <3>3, <3>4 DEF Join
  <2>8. ExpandQuery(tmpl.query, said) = {<<item, segs[n]>>}
    <3>. DEFINE one == [key |-> item, value |-> seg]
    <3>1. tmpl.query = <<one>>
      BY <2>1
    <3>2. DOMAIN <<one>> = {1} /\ <<one>>[1] = one /\ one.key = item /\ one.value = seg
      OBVIOUS
    <3>0. ExpandSegment(seg, said) = segs[n]
      BY <2>1, <2>3, LastIsSaid
    <3>. HIDE DEF one, said, self, item, n
    <3>3. \A q : q \in ExpandQuery(<<one>>, said) <=> q = <<one.key, ExpandSegment(one.value, said)>>
      BY <3>2 DEF ExpandQuery
    <3>4. ExpandQuery(<<one>>, said) = {<<one.key, ExpandSegment(one.value, said)>>}
      BY <3>3
    <3>. QED
      BY <3>0, <3>1, <3>2, <3>4
  <2>9. item \in QueryKeys(req.url) /\ QueryValue(req.url, item) = segs[n]
    <3>. DEFINE last == segs[n]
    <3>0. req.url.query = url.query \cup mask /\ \A q \in mask : q[1] = "updateMask"
      BY DEF IsSentTo, KeysIn
    <3>. DEFINE all == {<<item, last>>} \cup mask
    <3>1. req.url.query = all
      BY <2>6, <2>8, <3>0
    <3>. HIDE DEF item, last
    <3>2. <<item, last>>[1] = item /\ <<item, last>>[2] = last
      OBVIOUS
    <3>3. <<item, last>> \in all /\ \A q \in all : q[1] = item => q = <<item, last>>
      BY <1>5, <3>0, <3>2
    <3>. HIDE DEF all
    <3>4. item \in QueryKeys(req.url)
      BY <3>1, <3>2, <3>3 DEF QueryKeys
    <3>5. (CHOOSE q \in all : q[1] = item) = <<item, last>>
      BY <3>2, <3>3
    <3>. QED
      BY <3>1, <3>2, <3>4, <3>5 DEF QueryValue, last
  <2>10. ~ (Len(asks) >= n)
    <3>. HIDE DEF asks, n
    <3>. QED
      BY <2>2, <2>6
  <2>. HIDE DEF asks, rel, n, segs, item
  <2>. QED
    BY <2>6, <2>7, <2>9, <2>10
<1>. QED
  BY <1>2, <1>4, <1>5 DEF AtTheItem

-----------------------------------------------------------------------------
(* One resource through every release. *)

\* Whatever key has this name, every type that is ever released for it has
\* a get that accepts the id.
AcceptedFor(k, id) ==
  \A r \in Offered : \A c \in DOMAIN r.types : Key(c) = k => Matches(GetPath(r.types[c].src), id)

ServedAs(n, r, c) ==
  /\ c \in DOMAIN r.types /\ types[n] = Named(n, r.types[c]) /\ n \in NameWords
  /\ Key(c) \in DOMAIN published /\ published[Key(c)] = n

\* RecordIsTheObject is not inductive: a record outlives the release that its
\* type was in, and a later release finds the resource by a type of its own.
\* So the id in state is the resource's full name, which says nothing of any
\* type, and what gives the record's type its name keeps that name.
LifeInv ==
  /\ object = [key |-> object.key, fields |-> object.fields]
  /\ object # NoObject => IsResource(object)
  /\ record # NoRecord =>
       /\ object # NoObject /\ record.id = object.key
       /\ \E k \in DOMAIN published : published[k] = record.type /\ AcceptedFor(k, object.key)
  /\ \A n \in DOMAIN types : \E r \in Offered : \E c \in DOMAIN r.types : ServedAs(n, r, c)

LEMMA WhatIsServedFits ==
  ASSUME EverythingFits, LifeInv, NEW n \in DOMAIN types
  PROVE  /\ Fits(types[n]) /\ types[n].name = n
         /\ \A id : Matches(GetPath(types[n].src), id) =>
              \E k \in DOMAIN published : published[k] = n /\ AcceptedFor(k, id)
<1>0. PICK r \in Offered : \E c \in DOMAIN r.types : ServedAs(n, r, c)
  BY DEF LifeInv
<1>1. PICK c \in DOMAIN r.types : ServedAs(n, r, c)
  BY <1>0
<1>2. types[n] = Named(n, r.types[c]) /\ n \in NameWords /\ Key(c) \in DOMAIN published /\ published[Key(c)] = n
  BY <1>1 DEF ServedAs
<1>3. Fits(types[n])
  BY <1>2 DEF EverythingFits
<1>4. types[n].name = n /\ types[n].src = r.types[c].src
  BY <1>2 DEF Named
<1>5. ASSUME NEW id, Matches(GetPath(types[n].src), id)
      PROVE  AcceptedFor(Key(c), id)
  <2>1. \A s \in Offered : \A d \in DOMAIN s.types :
          Key(d) = Key(c) => GetPath(s.types[d].src) = GetPath(types[n].src)
    BY <1>4 DEF EverythingFits
  <2>. QED
    BY <1>5, <2>1 DEF AcceptedFor
<1>. QED
  BY <1>2, <1>3, <1>4, <1>5

\* A record's type, while it is served, finds the resource under its own
\* name: a name belongs to one key.
LEMMA RecordedIsFound ==
  ASSUME EverythingFits, LifeInv, Injective(published), record # NoRecord, record.type \in DOMAIN types
  PROVE  /\ Fits(types[record.type]) /\ IsResource(object) /\ record.id \in Seq(Tokens)
         /\ Matches(GetPath(types[record.type].src), object.key)
         /\ Finds(types[record.type], object, object.key)
<1>. DEFINE t == types[record.type]
<1>1. Fits(t) /\ IsResource(object) /\ record.id = object.key
  BY WhatIsServedFits DEF LifeInv
<1>2. record.id \in Seq(Tokens)
  BY <1>1 DEF IsResource, IsId
<1>3. PICK k \in DOMAIN published : published[k] = record.type /\ AcceptedFor(k, object.key)
  BY DEF LifeInv
<1>0. PICK r \in Offered : \E c \in DOMAIN r.types : ServedAs(record.type, r, c)
  BY DEF LifeInv
<1>4. PICK c \in DOMAIN r.types : ServedAs(record.type, r, c)
  BY <1>0
<1>5. Key(c) = k
  BY <1>3, <1>4 DEF ServedAs, Injective
<1>6. t.src = r.types[c].src
  BY <1>4 DEF ServedAs, Named
<1>7. Matches(GetPath(t.src), object.key)
  BY <1>3, <1>5, <1>6 DEF AcceptedFor
<1>8. Finds(t, object, object.key)
  BY <1>1, <1>7, FoundAtItsFullName DEF Fits
<1>. QED
  BY <1>1, <1>2, <1>7, <1>8

LEMMA KnownIDsAreTexts ==
  ASSUME NEW t, Fits(t), NEW obj, IsResource(obj), NEW id \in KnownIDs(t, obj)
  PROVE  id \in Seq(Tokens)
<1>. DEFINE says == WithScope(Settings, t.src.api.user)
<1>1. obj.key \in Seq(Tokens)
  BY DEF IsResource, IsId
<1>2. ASSUME NEW i \in DOMAIN t.ty.imports, Fillable(Path(t.ty.imports[i]), says)
      PROVE  ExpandPath(t.ty.imports[i], says) \in Seq(Tokens)
  <2>. DEFINE path == t.ty.imports[i]
  <2>1. IsTemplate(path)
    BY SelfAndImports DEF Fits, FitsItsApi
  <2>2. \A n \in DOMAIN says : says[n] \in Seq(Tokens)
    BY DEF Fits, KnownByTexts
  <2>3. PlaceholderNames(Path(path)) = {path[j].name : j \in {m \in DOMAIN path : IsPlaceholder(path[m])}}
    BY NamesOfPath
  <2>. HIDE DEF says, path
  <2>4. \A j \in DOMAIN path : IsPlaceholder(path[j]) => says[path[j].name] \in Seq(Tokens)
    BY <1>2, <2>2, <2>3 DEF Fillable, path
  <2>. QED
    BY <2>1, <2>4, PathText DEF IsTemplate, path
<1>3. id = obj.key \/ \E i \in DOMAIN t.ty.imports : /\ Fillable(Path(t.ty.imports[i]), says)
                                                     /\ id = ExpandPath(t.ty.imports[i], says)
  BY DEF KnownIDs
<1>. HIDE DEF says
<1>. QED
  BY <1>1, <1>2, <1>3

\* What is read, under whatever id it was found, is recorded under its name.
LEMMA ReadIsRecorded ==
  ASSUME NEW t, Fits(t), NEW obj, IsResource(obj), NEW n,
         NEW current, current.id \in Seq(Tokens), Finds(t, obj, current.id)
  PROVE  /\ Recorded(n, ReadAs(t, obj, current)).id = obj.key
         /\ Recorded(n, ReadAs(t, obj, current)).type = n
         /\ Matches(GetPath(t.src), obj.key)
<1>1. ReadAs(t, obj, current).id = obj.key
  BY ReadNamesTheResource DEF Fits
<1>2. Matches(GetPath(t.src), obj.key)
  BY FoundIsAccepted DEF Fits
<1>. QED
  BY <1>1, <1>2 DEF Recorded

\* A change leaves the resource its name.
LEMMA UpdatedIsTheSame ==
  ASSUME NEW t, NEW req, object = [key |-> object.key, fields |-> object.fields], IsResource(object)
  PROVE  /\ Updated(t, req) = [key |-> Updated(t, req).key, fields |-> Updated(t, req).fields]
         /\ Updated(t, req).key = object.key
         /\ IsResource(Updated(t, req))
<1>. DEFINE taken == Taken(t, req)
<1>1. "selfLink" \notin DOMAIN taken
  <2>1. DOMAIN taken \subseteq DOMAIN req.body.resource \ {"name", "selfLink"}
    BY DEF Taken, Restrict
  <2>. QED
    BY <2>1
<1>2. "selfLink" \notin DOMAIN object.fields
  BY DEF IsResource
<1>. HIDE DEF taken
<1>3. "selfLink" \notin DOMAIN Extend(taken, object.fields)
  BY <1>1, <1>2 DEF Extend
<1>4. \/ Updated(t, req) = object
      \/ Updated(t, req) = [object EXCEPT !.fields = taken]
      \/ Updated(t, req) = [object EXCEPT !.fields = Extend(taken, object.fields)]
  BY DEF Updated, taken
<1>5. PICK f : Updated(t, req) = [key |-> object.key, fields |-> f] /\ "selfLink" \notin DOMAIN f
  <2>1. \A f : [object EXCEPT !.fields = f] = [key |-> object.key, fields |-> f]
    OBVIOUS
  <2>. QED
    BY <1>1, <1>2, <1>3, <1>4, <2>1
<1>6. Updated(t, req).key = object.key /\ Updated(t, req).fields = f
  BY <1>5
<1>. QED
  BY <1>5, <1>6 DEF IsResource

LEMMA LifeStarts == Init => LifeInv
<1> SUFFICES ASSUME Init PROVE LifeInv
  OBVIOUS
<1>1. object = NoObject /\ record = NoRecord /\ DOMAIN types = {}
  BY DEF Init, NoAttrs
<1>2. object = [key |-> object.key, fields |-> object.fields]
  BY <1>1 DEF NoObject
<1> QED BY <1>1, <1>2 DEF LifeInv

\* A release brings its own types, under the names that were published.
LEMMA ReleaseServes ==
  ASSUME CatalogInv, Release
  PROVE  /\ releases \in Seq(Offered) /\ releases # <<>>
         /\ \A k \in DOMAIN published : k \in DOMAIN published' /\ published'[k] = published[k]
         /\ \E r \in Offered : /\ r = Head(releases)
                             /\ \A n \in DOMAIN types' : \E c \in DOMAIN r.types : ServedAs(n, r, c)'
<1>0. PICK r \in Offered : r = Head(releases) /\ candidates = r.named
  <2>1. phase = "built"
    BY DEF Release, Publish
  <2>2. releases \in Seq(Offered) /\ releases # <<>> /\ candidates = Head(releases).named
    BY <2>1 DEF CatalogInv, FollowsReleases
  <2>3. Head(releases) \in Offered
    BY <2>2
  <2>. QED
    BY <2>2, <2>3
<1>. DEFINE built == r.types
<1>1. Publish(DOMAIN built)
      /\ types' = [n \in DOMAIN served' |->
                     [name |-> n, ty |-> built[served'[n]].ty, src |-> built[served'[n]].src]]
  BY <1>0 DEF Release
<1>2. phase = "built" /\ published' = lock
      /\ served' = [n \in {NameFor(c) : c \in DOMAIN built} |-> CHOOSE c \in DOMAIN built : NameFor(c) = n]
  BY <1>1 DEF Publish
<1>3. /\ DOMAIN built \subseteq candidates
      /\ IsNaming(lock) /\ Covers(lock, published) /\ Known = lock
      /\ \A c \in candidates : Key(c) \in DOMAIN Known
  <2>1. DOMAIN built \subseteq candidates
    BY <1>0, CatalogAssumption
  <2>2. Known = lock
    BY <1>2, ExtendNothing DEF CatalogInv, NamingInv, TypeOK, Known
  <2>. QED
    BY <1>2, <2>1, <2>2 DEF CatalogInv, NamingInv, TypeOK
<1>4. ASSUME NEW n \in DOMAIN types'
      PROVE  \E c \in DOMAIN built : /\ types'[n] = Named(n, built[c]) /\ n \in NameWords
                                     /\ Key(c) \in DOMAIN published' /\ published'[Key(c)] = n
  <2>1. n \in DOMAIN served' /\ types'[n] = [name |-> n, ty |-> built[served'[n]].ty, src |-> built[served'[n]].src]
    BY <1>1, <1>4
  <2>2. served'[n] \in DOMAIN built /\ NameFor(served'[n]) = n
    <3>1. \E d \in DOMAIN built : NameFor(d) = n
      BY <1>2, <2>1
    <3>2. served'[n] = CHOOSE d \in DOMAIN built : NameFor(d) = n
      BY <1>2, <2>1
    <3>. QED
      BY <3>1, <3>2
  <2>3. PICK c \in DOMAIN built : c = served'[n] /\ NameFor(c) = n
    BY <2>2
  <2>4. Key(c) \in DOMAIN lock /\ lock[Key(c)] = n
    BY <1>3, <2>3 DEF NameFor
  <2>5. n \in NameWords
    BY <1>3, <2>4 DEF IsNaming
  <2>6. types'[n] = Named(n, built[c])
    BY <2>1, <2>3 DEF Named
  <2>. QED
    BY <1>2, <2>4, <2>5, <2>6
<1>5. \A n \in DOMAIN types' : \E c \in DOMAIN r.types : ServedAs(n, r, c)'
  BY <1>4 DEF ServedAs
<1>6. \A k \in DOMAIN published : k \in DOMAIN published' /\ published'[k] = published[k]
  BY <1>2, <1>3 DEF Covers
<1>7. releases \in Seq(Offered) /\ releases # <<>>
  BY <1>2 DEF CatalogInv, FollowsReleases
<1>. QED
  BY <1>0, <1>5, <1>6, <1>7

LEMMA LifeStepRelease ==
  ASSUME CatalogInv, LifeInv, Release
  PROVE  LifeInv'
<1>1. UNCHANGED <<object, record>>
  BY DEF Release
<1>2. PICK r \in Offered : \A n \in DOMAIN types' : \E c \in DOMAIN r.types : ServedAs(n, r, c)'
  BY ReleaseServes
<1>3. \A k \in DOMAIN published : k \in DOMAIN published' /\ published'[k] = published[k]
  BY ReleaseServes
<1>. QED
  BY <1>1, <1>2, <1>3 DEF LifeInv, AcceptedFor

\* What is made is recorded, under its own name.
LEMMA MadeIsRecorded ==
  ASSUME EverythingFits, LifeInv, NEW name \in DOMAIN types, Create(name),
         Published(types[name].src, NewRequest(types[name])), GivenID(types[name].src, NewRequest(types[name])) # NoId
  PROVE  LET t   == types[name]
             obj == MadeBy(t, NewRequest(t))
         IN  /\ object' = obj /\ IsResource(obj) /\ Matches(GetPath(t.src), obj.key)
             /\ obj # NoObject /\ obj.key # NoId
             /\ record'.id = obj.key /\ record'.type = name
<1>. DEFINE t == types[name]
            desired == Configured(t)
            scoped == ScopeOfNew(t)
            req == NewRequest(t)
            obj == MadeBy(t, req)
<1>1. Fits(t) /\ t.name = name
  BY WhatIsServedFits
<1>2. CreateAs(t, desired, scoped)
  BY DEF Create, ScopeOfNew
<1>3. Fillable(CreateTemplate(t.ty), scoped) /\ Created(t, req, obj, desired, scoped)
  BY <1>2 DEF CreateAs, NewRequest
<1>4. PICK awaited \in Awaited(t.src, obj) :
        /\ object' = obj
        /\ record' = CreateRecord(t, obj, CreatedID(t.ty, awaited, scoped), desired, awaited)
  <2>. HIDE DEF obj
  <2>. QED
    BY <1>3 DEF Created
<1>5. CreatedID(t.ty, awaited, scoped) = obj.key
  BY <1>1, <1>3, CreatedIdIsTheKey
<1>6. IsResource(obj) /\ Matches(GetPath(t.src), obj.key)
  <2>1. CreateFits(t)
    BY <1>1 DEF Fits
  <2>. QED
    BY <1>3, <2>1 DEF CreateFits
<1>. HIDE DEF obj, req, scoped, desired
<1>7. obj.key # NoId /\ obj.key \in Seq(Tokens) /\ obj # NoObject
  BY <1>6 DEF IsResource, IsId, NoId, NoObject
<1>8. record'.id = obj.key /\ record'.type = name
  <2>1. CASE Finds(t, obj, obj.key)
    <3>. DEFINE current == [id |-> obj.key, attrs |-> desired]
    <3>1. record' = Recorded(t.name, ReadAs(t, obj, current))
      BY <1>4, <1>5, <1>7, <2>1 DEF CreateRecord
    <3>2. current.id = obj.key
      OBVIOUS
    <3>. HIDE DEF current, t
    <3>3. Recorded(t.name, ReadAs(t, obj, current)).id = obj.key
          /\ Recorded(t.name, ReadAs(t, obj, current)).type = t.name
      BY <1>1, <1>6, <1>7, <2>1, <3>2, ReadIsRecorded
    <3>. QED
      BY <1>1, <3>1, <3>3
  <2>2. CASE ~ Finds(t, obj, obj.key)
    <3>1. record' = Recorded(t.name, BestEffortState(t.ty, obj.key, desired, awaited))
      BY <1>4, <1>5, <1>7, <2>2 DEF CreateRecord
    <3>2. BestEffortState(t.ty, obj.key, desired, awaited).id = obj.key
      BY DEF BestEffortState, StateOf
    <3>. QED
      BY <1>1, <3>1, <3>2 DEF Recorded
  <2>. QED
    BY <2>1, <2>2
<1>. QED
  BY <1>4, <1>6, <1>7, <1>8 DEF obj, req

LEMMA LifeStepCreate ==
  ASSUME CatalogInv, EverythingFits, LifeInv, NEW name \in DOMAIN types, Create(name)
  PROVE  LifeInv'
<1>. DEFINE t == types[name]
            req == NewRequest(t)
            obj == MadeBy(t, req)
            Makes == Published(t.src, req) /\ GivenID(t.src, req) # NoId
<1>1. \A id : Matches(GetPath(t.src), id) =>
        \E k \in DOMAIN published : published[k] = name /\ AcceptedFor(k, id)
  BY WhatIsServedFits
<1>2. Created(t, req, obj, Configured(t), ScopeOfNew(t)) /\ UNCHANGED <<naming, types>>
  <2>1. CreateAs(t, Configured(t), ScopeOfNew(t))
    BY DEF Create, ScopeOfNew
  <2>. QED
    BY <2>1 DEF CreateAs, NewRequest
<1>3. CASE ~ Makes
  <2>1. UNCHANGED <<object, record>>
    <3>. HIDE DEF obj, req
    <3>. QED
      BY <1>2, <1>3 DEF Created
  <2>. QED
    BY <1>2, <2>1 DEF LifeInv, ServedAs, naming, AcceptedFor
<1>4. CASE Makes
  <2>1. /\ object' = obj /\ IsResource(obj) /\ Matches(GetPath(t.src), obj.key) /\ obj # NoObject
        /\ record'.id = obj.key /\ record'.type = name
    BY <1>4, MadeIsRecorded
  <2>2. obj = [key |-> obj.key, fields |-> obj.fields]
    BY DEF MadeBy
  <2>. HIDE DEF obj, req
  <2>3. \E k \in DOMAIN published : published[k] = name /\ AcceptedFor(k, obj.key)
    BY <1>1, <2>1
  <2>. QED
    BY <1>2, <2>1, <2>2, <2>3 DEF LifeInv, ServedAs, naming, AcceptedFor
<1>. QED
  BY <1>3, <1>4

LEMMA LifeStepImport ==
  ASSUME EverythingFits, LifeInv, NEW name \in DOMAIN types, Import(name)
  PROVE  LifeInv'
<1>. DEFINE t == types[name]
<1>1. /\ Fits(t)
      /\ \A id : Matches(GetPath(t.src), id) =>
           \E k \in DOMAIN published : published[k] = name /\ AcceptedFor(k, id)
  BY WhatIsServedFits
<1>2. object # NoObject /\ UNCHANGED <<naming, types, object>>
  BY DEF Import
<1>3. PICK id \in KnownIDs(t, object) :
        /\ Finds(t, object, id)
        /\ record' = Recorded(name, ReadAs(t, object, [id |-> id, attrs |-> ParseProviderID(t.ty, id)]))
  BY Zenon DEF Import
<1>4. IsResource(object)
  BY <1>2 DEF LifeInv
<1>5. id \in Seq(Tokens)
  BY <1>1, <1>4, KnownIDsAreTexts
<1>. DEFINE current == [id |-> id, attrs |-> ParseProviderID(t.ty, id)]
<1>6. current.id = id /\ record' = Recorded(name, ReadAs(t, object, current))
  BY <1>3
<1>. HIDE DEF current, t
<1>7. record'.id = object.key /\ record'.type = name /\ Matches(GetPath(t.src), object.key)
  BY <1>1, <1>3, <1>4, <1>5, <1>6, ReadIsRecorded
<1>8. \E k \in DOMAIN published : published[k] = name /\ AcceptedFor(k, object.key)
  BY <1>1, <1>7
<1>. QED
  BY <1>2, <1>7, <1>8 DEF LifeInv, ServedAs, naming, AcceptedFor

\* What a served record's read brings, of a resource with the same name.
LEMMA LifeStepReads ==
  ASSUME EverythingFits, LifeInv, Injective(published), Served, NEW obj, IsResource(obj),
         obj = [key |-> obj.key, fields |-> obj.fields], obj.key = object.key,
         UNCHANGED <<naming, types>>, object' = obj,
         \/ record' = record \/ record' = NoRecord
         \/ /\ Finds(types[record.type], obj, record.id)
            /\ record' = Recorded(record.type, ReadAs(types[record.type], obj, record))
  PROVE  LifeInv'
<1>. DEFINE t == types[record.type]
<1>1. record # NoRecord /\ record.type \in DOMAIN types
  BY DEF Served
<1>2. Fits(t) /\ record.id \in Seq(Tokens)
  BY <1>1, RecordedIsFound
<1>3. /\ object # NoObject /\ record.id = object.key
      /\ \E k \in DOMAIN published : published[k] = record.type /\ AcceptedFor(k, object.key)
  BY <1>1 DEF LifeInv
<1>4. obj # NoObject
  BY DEF NoObject, IsResource, IsId, NoId
<1>5. record' # NoRecord => record'.id = obj.key /\ record'.type = record.type
  <2>1. CASE record' = record
    BY <1>3, <2>1
  <2>2. CASE record' = NoRecord
    BY <2>2
  <2>3. CASE Finds(t, obj, record.id) /\ record' = Recorded(record.type, ReadAs(t, obj, record))
    <3>. HIDE DEF t
    <3>1. /\ Recorded(record.type, ReadAs(t, obj, record)).id = obj.key
          /\ Recorded(record.type, ReadAs(t, obj, record)).type = record.type
      BY <1>2, <2>3, ReadIsRecorded
    <3>. QED
      BY <2>3, <3>1
  <2>. QED
    BY <2>1, <2>2, <2>3
<1>. QED
  BY <1>3, <1>4, <1>5 DEF LifeInv, ServedAs, naming, AcceptedFor

LEMMA LifeStep ==
  ASSUME CatalogInv, EverythingFits, LifeInv, [Next]_vars
  PROVE  LifeInv'
<1>0. Injective(published)
  BY DEF CatalogInv, NamingInv
<1>1. ASSUME UNCHANGED <<published, types, object, record>>
      PROVE  LifeInv'
  BY <1>1 DEF LifeInv, ServedAs, AcceptedFor
<1>2. CASE Generate \/ NameOne \/ SaveLock \/ GenerationDies \/ LockRestored
  <2>1. UNCHANGED <<published, types, object, record>>
    BY <1>2 DEF Generate, NameOne, SaveLock, GenerationDies, LockRestored, Load, Assigning, NameNext, NameNone,
                SaveBegins, SaveEnds, Abandon, Restore, life
  <2>. QED
    BY <1>1, <2>1
<1>3. CASE Release
  BY <1>3, LifeStepRelease
<1>4. ASSUME NEW name \in DOMAIN types, Create(name)
      PROVE  LifeInv'
  BY <1>4, LifeStepCreate
<1>5. ASSUME NEW name \in DOMAIN types, Import(name)
      PROVE  LifeInv'
  BY <1>5, LifeStepImport
<1>6. CASE Read
  <2>1. Served /\ UNCHANGED <<naming, types, object>>
    BY <1>6 DEF Read
  <2>2. record # NoRecord /\ object # NoObject /\ IsResource(object) /\ object = [key |-> object.key, fields |-> object.fields]
    BY <2>1 DEF Served, LifeInv
  <2>3. \/ record' = NoRecord
        \/ /\ Finds(types[record.type], object, record.id)
           /\ record' = Recorded(record.type, ReadAs(types[record.type], object, record))
    BY <1>6, Zenon DEF Read
  <2>. QED
    BY <1>0, <2>1, <2>2, <2>3, LifeStepReads
<1>7. CASE Forget
  BY <1>7 DEF Forget, LifeInv, ServedAs, naming, AcceptedFor
<1>8. ASSUME NEW a \in DOMAIN config, Change(a)
      PROVE  LifeInv'
  <2>. DEFINE t == types[record.type]
              obj == Updated(t, sent')
  <2>1. Served /\ object # NoObject /\ UNCHANGED <<naming, types>> /\ object' = obj
    BY <1>8 DEF Change
  <2>2. IsResource(object) /\ object = [key |-> object.key, fields |-> object.fields]
    BY <2>1 DEF LifeInv
  <2>3. obj = [key |-> obj.key, fields |-> obj.fields] /\ obj.key = object.key /\ IsResource(obj)
    BY <2>2, UpdatedIsTheSame
  <2>4. \/ record' = record
        \/ /\ Finds(t, object', record.id)
           /\ record' = Recorded(record.type, ReadAs(t, object', record))
    BY <1>8, Zenon DEF Change
  <2>. HIDE DEF obj
  <2>. QED
    BY <1>0, <2>1, <2>3, <2>4, LifeStepReads
<1>9. CASE Delete
  <2>1. UNCHANGED <<naming, types>> /\ record' = NoRecord /\ (object' = NoObject \/ object' = object)
    BY <1>9 DEF Delete
  <2>2. NoObject = [key |-> NoObject.key, fields |-> NoObject.fields]
    BY DEF NoObject
  <2>. QED
    BY <2>1, <2>2 DEF LifeInv, ServedAs, naming, AcceptedFor
<1>10. CASE UNCHANGED vars
  BY <1>1, <1>10 DEF vars, naming, life
<1>. QED
  BY <1>2, <1>3, <1>4, <1>5, <1>6, <1>7, <1>8, <1>9, <1>10 DEF Next

LEMMA LifeInvariant ==
  ASSUME EverythingFits
  PROVE  Spec => [](CatalogInv /\ LifeInv)
<1>1. Init => CatalogInv /\ LifeInv
  BY CatalogStarts, LifeStarts
<1>2. CatalogInv /\ LifeInv /\ [Next]_vars => CatalogInv' /\ LifeInv'
  BY CatalogStep, LifeStep
<1>. QED
  BY <1>1, <1>2, PTL DEF Spec

(* What state records is what GCP has, and is found there: over every      *)
(* history of releases in which every type fits its API, whatever creates, *)
(* imports, reads, changes and deletes there were in between (createdID,   *)
(* ParseProviderID, itemURL, stateFrom).                                   *)
THEOREM RecordStaysTheObject ==
  ASSUME EverythingFits
  PROVE  Spec => []RecordIsTheObject
<1>1. CatalogInv /\ LifeInv => RecordIsTheObject
  <2>1. ASSUME CatalogInv, LifeInv, record # NoRecord, record.type \in DOMAIN types
        PROVE  object # NoObject /\ Finds(types[record.type], object, record.id)
    <3>1. object # NoObject /\ record.id = object.key
      BY <2>1 DEF LifeInv
    <3>2. Finds(types[record.type], object, object.key)
      BY <2>1, RecordedIsFound DEF CatalogInv, NamingInv
    <3>. QED
      BY <3>1, <3>2
  <2>. QED
    BY <2>1 DEF RecordIsTheObject
<1>. QED
  BY <1>1, LifeInvariant, PTL

(* One id for one resource, whether it was created or imported under any   *)
(* of the names a person may know it by (ProviderID, ParseProviderID).     *)
THEOREM OneIdAlways ==
  ASSUME EverythingFits
  PROVE  Spec => []OneIdPerResource
<1>1. CatalogInv /\ LifeInv => OneIdPerResource
  <2>1. ASSUME CatalogInv, LifeInv, record # NoRecord, object # NoObject, record.type \in DOMAIN types,
               NEW id \in KnownIDs(types[record.type], object), Finds(types[record.type], object, id)
        PROVE  ReadAs(types[record.type], object,
                      [id |-> id, attrs |-> ParseProviderID(types[record.type].ty, id)]).id = record.id
    <3>. DEFINE t == types[record.type]
                current == [id |-> id, attrs |-> ParseProviderID(t.ty, id)]
    <3>1. Fits(t) /\ IsResource(object)
      BY <2>1, RecordedIsFound DEF CatalogInv, NamingInv
    <3>2. id \in Seq(Tokens)
      BY <2>1, <3>1, KnownIDsAreTexts
    <3>3. current.id = id
      OBVIOUS
    <3>4. record.id = object.key
      BY <2>1 DEF LifeInv
    <3>5. Finds(t, object, current.id)
      BY <2>1, <3>3
    <3>. HIDE DEF current, t
    <3>6. ReadAs(t, object, current).id = object.key
      BY <3>1, <3>2, <3>3, <3>5, ReadNamesTheResource DEF Fits
    <3>. QED
      BY <3>4, <3>6 DEF current, t
  <2>. QED
    BY <2>1, Zenon DEF OneIdPerResource
<1>. QED
  BY <1>1, LifeInvariant, PTL

-----------------------------------------------------------------------------
(* What is sent, through every release. *)

\* What is asked is published where something is found.
LEMMA ReadIsPublished ==
  ASSUME NEW t, NEW obj, NEW id, Finds(t, obj, id)
  PROVE  Published(t.src, ReadRequest(t, id))
BY DEF Finds, ReadBodies, Answered

LEMMA ServedRequestsFit ==
  ASSUME EverythingFits, EveryRequestFits, LifeInv, NEW n \in DOMAIN types
  PROVE  /\ FitsItsApi(types[n]) /\ types[n].name = n
         /\ RequestsFit(types[n])
<1>0. PICK r \in Offered : \E c \in DOMAIN r.types : ServedAs(n, r, c)
  BY DEF LifeInv
<1>1. PICK c \in DOMAIN r.types : ServedAs(n, r, c)
  BY <1>0
<1>2. RequestsFit(types[n])
  BY <1>1 DEF ServedAs, EveryRequestFits
<1>. QED
  BY <1>2, WhatIsServedFits DEF Fits

\* A record's type has what its requests need, and its id is the resource's.
LEMMA RecordedRequestsFit ==
  ASSUME EverythingFits, EveryRequestFits, CatalogInv, LifeInv, Served
  PROVE  /\ FitsItsApi(types[record.type]) /\ RequestsFit(types[record.type])
         /\ types[record.type].name = record.type
         /\ object # NoObject /\ IsResource(object) /\ record.id = object.key
         /\ Matches(GetPath(types[record.type].src), object.key)
         /\ Finds(types[record.type], object, record.id)
<1>1. record # NoRecord /\ record.type \in DOMAIN types
  BY DEF Served
<1>2. Injective(published)
  BY DEF CatalogInv, NamingInv
<1>3. object # NoObject /\ record.id = object.key
  BY <1>1 DEF LifeInv
<1>4. /\ IsResource(object) /\ Matches(GetPath(types[record.type].src), object.key)
      /\ Finds(types[record.type], object, object.key)
  BY <1>1, <1>2, RecordedIsFound
<1>. QED
  BY <1>1, <1>3, <1>4, ServedRequestsFit

\* A create that is sent is published, and says enough for an id.
LEMMA CreateIsSent ==
  ASSUME EverythingFits, EveryRequestFits, LifeInv, NEW name \in DOMAIN types, Create(name)
  PROVE  /\ sent' = NewRequest(types[name]) /\ UNCHANGED types
         /\ sent'.role = "create" /\ sent'.type = name
         /\ Published(types[name].src, NewRequest(types[name]))
         /\ GivenID(types[name].src, NewRequest(types[name])) # NoId
<1>. DEFINE t == types[name]
            scoped == ScopeOfNew(t)
<1>1. FitsItsApi(t) /\ t.name = name /\ RequestsFit(t)
  BY ServedRequestsFit
<1>2. CreateAs(t, Configured(t), scoped)
  BY DEF Create, ScopeOfNew
<1>3. UnresolvedCreatePlaceholders(t.ty) = {} /\ Fillable(CreateTemplate(t.ty), scoped) /\ UNCHANGED types
      /\ sent' = NewRequest(t)
  BY <1>2 DEF CreateAs, NewRequest
<1>4. HasCreate(t) /\ GivenID(t.src, NewRequest(t)) # NoId
  BY <1>1, <1>3 DEF RequestsFit, CanBeMade
<1>5. Published(t.src, NewRequest(t))
  BY <1>1, <1>4, CreateIsPublished
<1>6. NewRequest(t).role = "create" /\ NewRequest(t).type = t.name
  <2>. HIDE DEF t
  <2>. QED
    BY DEF NewRequest, CreateRequest, Request
<1>. QED
  BY <1>1, <1>3, <1>4, <1>5, <1>6

\* A setter's request is published, and an update's is.
LEMMA ChangeIsSent ==
  ASSUME EverythingFits, EveryRequestFits, CatalogInv, LifeInv, NEW a \in DOMAIN config, Change(a)
  PROVE  /\ UNCHANGED types /\ sent'.role \in {"setter", "update"} /\ sent'.type = record.type
         /\ Published(types[record.type].src, sent')
<1>. DEFINE t == types[record.type]
            known == ParseProviderID(t.ty, record.id)
            wire == t.ty.attrs[a].wire
            change == [w \in {wire} |-> <<"changed">>]
            s == CHOOSE x \in SetterOf(t.ty, a) : TRUE
<1>1. Served /\ ChangesInPlace(t, a) /\ UNCHANGED types /\ sent' = UpdateRequest(t, a, change, known)
  BY DEF Change
<1>2. /\ FitsItsApi(t) /\ RequestsFit(t) /\ t.name = record.type /\ object # NoObject /\ IsResource(object)
      /\ record.id = object.key /\ Matches(GetPath(t.src), object.key)
  BY <1>1, RecordedRequestsFit
<1>. HIDE DEF t, change, wire
<1>3. CASE SetterOf(t.ty, a) # {}
  <2>. DEFINE tmpl == Path(s.path)
  <2>1. s \in Setters(t.ty)
    <3>1. s \in SetterOf(t.ty, a)
      BY <1>3
    <3>. QED
      BY <3>1 DEF SetterOf
  <2>2. AsksFor(tmpl.query) = {}
    BY DEF AsksFor, Path
  <2>3. HasMethod(t, "setter", s.verb, tmpl, AsksFor(tmpl.query))
    BY <1>2, <2>1, <2>2 DEF RequestsFit
  <2>4. /\ sent'.role = "setter" /\ sent'.verb = s.verb /\ sent'.type = t.name
        /\ sent'.url = ItemURL(t.ty, tmpl, record.id, known)
    <3>. HIDE DEF s, known
    <3>. QED
      BY <1>1, <1>3 DEF UpdateRequest, Request, s
  <2>5. sent'.url = ItemURL(t.ty, tmpl, object.key, ParseProviderID(t.ty, object.key))
    BY <1>2, <2>4
  <2>. HIDE DEF s, tmpl, known
  <2>6. Published(t.src, sent')
    BY <1>2, <2>3, <2>4, <2>5, MethodIsPublished
  <2>. QED
    BY <1>1, <1>2, <2>4, <2>6 DEF t
<1>4. CASE SetterOf(t.ty, a) = {}
  <2>. DEFINE url == ItemURL(t.ty, t.ty.update, object.key, ParseProviderID(t.ty, object.key))
  <2>1. t.ty.updateVerb # ""
    BY <1>1, <1>4 DEF ChangesInPlace
  <2>2. HasUpdate(t)
    BY <1>2, <2>1 DEF RequestsFit
  <2>3. sent' = Request("update", t.ty.updateVerb, t, UpdateURL(t.ty, known, t.ty.attrs[a].wire), UpdateBody(t, change))
    BY <1>1, <1>4 DEF UpdateRequest
  <2>4. UpdateBody(t, change).enveloped <=> t.ty.updateWrapper # ""
    BY DEF UpdateBody
  <2>5. UpdateURL(t.ty, known, wire) =
          [url EXCEPT !.query = @ \cup (IF t.ty.updateMask THEN {<<"updateMask", <<wire>> >>} ELSE {})]
    BY <1>2 DEF UpdateURL
  <2>. HIDE DEF url, known
  <2>6. IsUpdate(t, sent', url, wire)
    BY <2>3, <2>4, <2>5 DEF IsUpdate, Request, wire
  <2>7. Published(t.src, sent')
    BY <1>2, <2>2, <2>6, UpdateIsPublished DEF url
  <2>8. sent'.role = "update" /\ sent'.type = t.name
    BY <2>3 DEF Request
  <2>. QED
    BY <1>1, <1>2, <2>7, <2>8 DEF t
<1>. QED
  BY <1>3, <1>4

\* A delete is published, and about the resource.
LEMMA DeleteIsSent ==
  ASSUME EverythingFits, EveryRequestFits, CatalogInv, LifeInv, Delete
  PROVE  /\ UNCHANGED types /\ sent'.role = "delete" /\ sent'.type = record.type
         /\ Published(types[record.type].src, sent')
         /\ object' = NoObject
<1>. DEFINE t == types[record.type]
            tmpl == t.ty.delete
            req == DeleteRequest(t)
<1>1. /\ Served /\ UNCHANGED types /\ sent' = req
      /\ object' = IF Published(t.src, sent') /\ ItemKey(t.src, sent') = object.key
                   THEN NoObject ELSE object
  BY DEF Delete
<1>2. /\ FitsItsApi(t) /\ RequestsFit(t) /\ t.name = record.type /\ object # NoObject /\ IsResource(object)
      /\ record.id = object.key /\ Matches(GetPath(t.src), object.key)
  BY <1>1, RecordedRequestsFit
<1>3. /\ HasMethod(t, "delete", "DELETE", tmpl, AsksFor(tmpl.query)) /\ AtTheItem(t, tmpl)
      /\ \E method : SaysWhatSelfDoes(t, tmpl) /\ ServedAt(t, tmpl, method)
  BY <1>2 DEF RequestsFit, HasMethod
<1>4. /\ req.role = "delete" /\ req.verb = "DELETE" /\ req.type = t.name
      /\ req.url = ItemURL(t.ty, tmpl, object.key, ParseProviderID(t.ty, object.key))
  <2>. HIDE DEF t
  <2>. QED
    BY <1>2 DEF DeleteRequest, Request
<1>. HIDE DEF req, t
<1>5. Published(t.src, req)
  BY <1>2, <1>3, <1>4, MethodIsPublished
<1>6. ItemKey(t.src, req) = object.key
  <2>1. PICK method : SaysWhatSelfDoes(t, tmpl) /\ ServedAt(t, tmpl, method)
    BY <1>3
  <2>2. IsSentTo(req, req.url, {})
    BY SentAsItIs
  <2>. QED
    BY <1>2, <1>3, <1>4, <2>1, <2>2, ItemIsMeant
<1>. QED
  BY <1>1, <1>2, <1>4, <1>5, <1>6 DEF t

\* What each step does to the last request.
LEMMA StepSends ==
  ASSUME EverythingFits, EveryRequestFits, CatalogInv, LifeInv, [Next]_vars
  PROVE  \/ UNCHANGED <<types, sent>>
         \/ sent' = NoRequest
         \/ /\ UNCHANGED types /\ Published(types[sent'.type].src, sent')
            /\ sent'.role = "create" => record' # NoRecord
            /\ sent'.role = "delete" => object' = NoObject
<1>. DEFINE Sends == /\ UNCHANGED types /\ Published(types[sent'.type].src, sent')
                     /\ sent'.role = "create" => record' # NoRecord
                     /\ sent'.role = "delete" => object' = NoObject
<1>1. CASE Generate \/ NameOne \/ SaveLock \/ GenerationDies \/ LockRestored \/ Forget \/ UNCHANGED vars
  BY <1>1 DEF Generate, NameOne, SaveLock, GenerationDies, LockRestored, Forget, life, vars
<1>2. CASE Release
  BY <1>2 DEF Release
<1>3. ASSUME NEW name \in DOMAIN types, Create(name)
      PROVE  Sends
  <2>. DEFINE t == types[name]
              obj == MadeBy(t, NewRequest(t))
  <2>1. /\ UNCHANGED types /\ sent'.role = "create" /\ sent'.type = name /\ sent' = NewRequest(t)
        /\ Published(t.src, NewRequest(t)) /\ GivenID(t.src, NewRequest(t)) # NoId
    BY <1>3, CreateIsSent
  <2>2. record'.id = obj.key /\ obj.key # NoId
    BY <1>3, <2>1, MadeIsRecorded
  <2>3. NoRecord.id = NoId
    BY DEF NoRecord
  <2>. HIDE DEF t, obj
  <2>4. record' # NoRecord
    BY <2>2, <2>3
  <2>. QED
    BY <2>1, <2>4 DEF t
<1>4. ASSUME NEW name \in DOMAIN types, Import(name)
      PROVE  Sends
  <2>. DEFINE t == types[name]
  <2>1. UNCHANGED types /\ \E id \in KnownIDs(t, object) : Finds(t, object, id) /\ sent' = ReadRequest(t, id)
    BY <1>4, Zenon DEF Import
  <2>2. PICK id \in KnownIDs(t, object) : Finds(t, object, id) /\ sent' = ReadRequest(t, id)
    BY <2>1
  <2>3. Published(t.src, sent')
    BY <2>2, ReadIsPublished
  <2>4. t.name = name
    BY WhatIsServedFits
  <2>. HIDE DEF t
  <2>5. sent'.role \in {"get", "list"} /\ sent'.type = t.name
    BY <2>2 DEF ReadRequest, Request
  <2>. QED
    BY <2>1, <2>3, <2>4, <2>5 DEF t
<1>5. CASE Read
  <2>. DEFINE t == types[record.type]
  <2>1. Served /\ UNCHANGED types /\ sent' = ReadRequest(t, record.id)
    BY <1>5 DEF Read
  <2>2. t.name = record.type /\ Finds(t, object, record.id)
    BY <2>1, RecordedRequestsFit
  <2>3. Published(t.src, sent')
    BY <2>1, <2>2, ReadIsPublished
  <2>. HIDE DEF t
  <2>4. sent'.role \in {"get", "list"} /\ sent'.type = t.name
    BY <2>1 DEF ReadRequest, Request
  <2>. QED
    BY <2>1, <2>2, <2>3, <2>4 DEF t
<1>6. ASSUME NEW a \in DOMAIN config, Change(a)
      PROVE  Sends
  BY <1>6, ChangeIsSent
<1>7. CASE Delete
  BY <1>7, DeleteIsSent
<1>. HIDE DEF Sends
<1>8. (\E name \in DOMAIN types : Create(name) \/ Import(name)) => Sends
  BY <1>3, <1>4
<1>9. (\E a \in DOMAIN config : Change(a)) => Sends
  BY <1>6
<1>10. Next \/ UNCHANGED vars
  OBVIOUS
<1>. QED
  BY <1>1, <1>2, <1>5, <1>7, <1>8, <1>9, <1>10, Zenon DEF Next, Sends

(* Every request is one that the API publishes for what it is to do: the   *)
(* method, its path and host, the query it takes and must have, and the    *)
(* form of its body; over every history of releases in which every type    *)
(* fits its API and has what its requests need (itemURL, ExpandURL,        *)
(* requestBody, and buildType's templates).                                *)
THEOREM EveryRequestIsPublished ==
  ASSUME EverythingFits, EveryRequestFits
  PROVE  Spec => []RequestsArePublished
<1>1. Init => RequestsArePublished
  BY DEF Init, RequestsArePublished
<1>2. CatalogInv /\ LifeInv /\ RequestsArePublished /\ [Next]_vars => RequestsArePublished'
  <2>1. SUFFICES ASSUME CatalogInv, LifeInv, RequestsArePublished, [Next]_vars
                 PROVE  RequestsArePublished'
    OBVIOUS
  <2>2. \/ UNCHANGED <<types, sent>>
        \/ sent' = NoRequest
        \/ UNCHANGED types /\ Published(types[sent'.type].src, sent')
    BY <2>1, StepSends
  <2>3. CASE UNCHANGED <<types, sent>>
    BY <2>1, <2>3 DEF RequestsArePublished
  <2>4. CASE sent' = NoRequest
    BY <2>4 DEF RequestsArePublished
  <2>5. CASE UNCHANGED types /\ Published(types[sent'.type].src, sent')
    BY <2>5 DEF RequestsArePublished
  <2>. QED
    BY <2>2, <2>3, <2>4, <2>5
<1>. QED
  BY <1>1, <1>2, LifeInvariant, PTL DEF Spec

(* What a create makes is recorded, whatever it is answered with: its      *)
(* request says enough for GCP to name the resource, and the provider      *)
(* computes the same name (Create, createdID).                             *)
THEOREM WhatIsCreatedIsRecorded ==
  ASSUME EverythingFits, EveryRequestFits
  PROVE  Spec => CreatedIsRecorded
<1>1. CatalogInv /\ LifeInv /\ [Next]_vars => [sent' # sent /\ sent'.role = "create" => record' # NoRecord]_vars
  BY StepSends DEF NoRequest
<1>. QED
  BY <1>1, LifeInvariant, PTL DEF Spec, CreatedIsRecorded

(* A delete that is sent deletes: it is published, and about the resource  *)
(* that is recorded, in its path or in its query (Delete, and              *)
(* discoveredDeleteURL of the generator).                                  *)
THEOREM WhatIsDeletedIsGone ==
  ASSUME EverythingFits, EveryRequestFits
  PROVE  Spec => DeleteDeletes
<1>1. CatalogInv /\ LifeInv /\ [Next]_vars => [sent' # sent /\ sent'.role = "delete" => object' = NoObject]_vars
  BY StepSends DEF NoRequest
<1>. QED
  BY <1>1, LifeInvariant, PTL DEF Spec, DeleteDeletes
-----------------------------------------------------------------------------
(* What comes back. *)

LEMMA ExtendSays ==
  ASSUME NEW f, NEW g
  PROVE  /\ DOMAIN Extend(f, g) = DOMAIN f \cup DOMAIN g
         /\ \A k \in DOMAIN f : Extend(f, g)[k] = f[k]
         /\ \A k \in DOMAIN g : k \notin DOMAIN f => Extend(f, g)[k] = g[k]
BY DEF Extend

\* The field of an attribute, and only that, shows as the attribute
\* (bodyToSchema).
LEMMA FieldShows ==
  ASSUME NEW ty, OneSpelling(ty), NEW body, SpeltApart(ty, DOMAIN body), NEW a \in DOMAIN ty.attrs
  PROVE  /\ a \in DOMAIN SchemaAttrs(ty, body) <=> ty.attrs[a].wire \in DOMAIN body
         /\ ty.attrs[a].wire \in DOMAIN body => SchemaAttrs(ty, body)[a] = body[ty.attrs[a].wire]
<1>. DEFINE w == ty.attrs[a].wire
<1>1. \A b \in DOMAIN ty.attrs : ty.attrs[b].wire = w => b = a
  BY DEF OneSpelling
<1>2. ASSUME NEW wire \in DOMAIN body, ToSchema(ty, wire) = a
      PROVE  wire = w
  <2>1. CASE wire \in Spellings(ty, wire)
    BY <1>2, <2>1 DEF ToSchema, Spellings
  <2>2. CASE Spellings(ty, wire) = {}
    <3>1. wire = a
      BY <1>2, <2>2 DEF ToSchema
    <3>. QED
      BY <3>1 DEF SpeltApart
  <2>3. CASE wire \notin Spellings(ty, wire) /\ Spellings(ty, wire) # {}
    <3>1. a = CHOOSE name \in Spellings(ty, wire) : TRUE
      BY <1>2, <2>3 DEF ToSchema
    <3>2. a \in Spellings(ty, wire)
      BY <2>3, <3>1
    <3>. QED
      BY <3>2 DEF Spellings
  <2>. QED
    BY <2>1, <2>2, <2>3
<1>3. ToSchema(ty, w) = a
  <2>1. Spellings(ty, w) = {a}
    BY <1>1 DEF Spellings
  <2>. QED
    BY <2>1 DEF ToSchema
<1>4. DOMAIN SchemaAttrs(ty, body) = {ToSchema(ty, wire) : wire \in DOMAIN body}
  BY DEF SchemaAttrs
<1>. HIDE DEF w
<1>5. a \in DOMAIN SchemaAttrs(ty, body) => w \in DOMAIN body
  BY <1>2, <1>4
<1>6. ASSUME w \in DOMAIN body
      PROVE  a \in DOMAIN SchemaAttrs(ty, body) /\ SchemaAttrs(ty, body)[a] = body[w]
  <2>1. a \in DOMAIN SchemaAttrs(ty, body)
    BY <1>3, <1>4, <1>6
  <2>2. (CHOOSE wire \in DOMAIN body : ToSchema(ty, wire) = a) = w
    BY <1>2, <1>3, <1>6
  <2>3. SchemaAttrs(ty, body)[a] = body[CHOOSE wire \in DOMAIN body : ToSchema(ty, wire) = a]
    BY <1>4, <2>1 DEF SchemaAttrs
  <2>. QED
    BY <2>1, <2>2, <2>3
<1>. QED
  BY <1>5, <1>6 DEF w

\* What an answer says of the resource itself, whatever fields it has.
Label(src, key) ==
  LET link == [selfLink |-> src.api.link \o ApiPrefix(src) \o key]
      name == CASE src.api.names = "short" -> [name |-> Unescape(LastPathSegment(key))]
                [] src.api.names = "full"  -> [name |-> key]
                [] OTHER                   -> NoAttrs
  IN Extend(IF src.api.link = <<>> THEN NoAttrs ELSE link, name)

NameTold(src, key) == IF src.api.names = "short" THEN Unescape(LastPathSegment(key)) ELSE key

LEMMA LabelSays ==
  ASSUME NEW src, NEW key
  PROVE  /\ DOMAIN Label(src, key) \subseteq Labels
         /\ src.api.names \in {"short", "full"} =>
              "name" \in DOMAIN Label(src, key) /\ Label(src, key)["name"] = NameTold(src, key)
<1>. DEFINE told == src.api.link \o ApiPrefix(src) \o key
            short == Unescape(LastPathSegment(key))
            link == [selfLink |-> told]
            url == IF src.api.link = <<>> THEN NoAttrs ELSE link
            name == CASE src.api.names = "short" -> [name |-> short]
                      [] src.api.names = "full"  -> [name |-> key]
                      [] OTHER                   -> NoAttrs
<1>1. Label(src, key) = Extend(url, name)
  BY DEF Label
<1>. HIDE DEF told, short
<1>2. DOMAIN NoAttrs = {} /\ DOMAIN link = {"selfLink"}
  BY DEF NoAttrs
<1>3. \A v : DOMAIN [name |-> v] = {"name"} /\ [name |-> v]["name"] = v
  OBVIOUS
<1>4. DOMAIN url \subseteq {"selfLink"}
  BY <1>2
<1>5. DOMAIN name \subseteq {"name"}
  BY <1>2, <1>3
<1>6. src.api.names \in {"short", "full"} => "name" \in DOMAIN name /\ name["name"] = NameTold(src, key)
  <2>1. CASE src.api.names = "short"
    <3>1. name = [name |-> short] /\ NameTold(src, key) = short
      BY <2>1 DEF NameTold, short
    <3>. QED
      BY <1>3, <3>1
  <2>2. CASE src.api.names = "full"
    <3>1. name = [name |-> key] /\ NameTold(src, key) = key
      BY <2>2 DEF NameTold
    <3>. QED
      BY <1>3, <3>1
  <2>. QED
    BY <2>1, <2>2
<1>. HIDE DEF url, name
<1>7. /\ DOMAIN Extend(url, name) = DOMAIN url \cup DOMAIN name
      /\ \A k \in DOMAIN name : k \notin DOMAIN url => Extend(url, name)[k] = name[k]
  BY ExtendSays
<1>. QED
  BY <1>1, <1>4, <1>5, <1>6, <1>7 DEF Labels

\* What a resource holds are fields, none of them spelt as another attribute.
HoldsFields(ty, obj) == DOMAIN obj.fields \cap Labels = {} /\ SpeltApart(ty, DOMAIN obj.fields)

\* An answer is that and the fields; it shows every attribute by its field.
IsTold(ty, label, fields, body) ==
  /\ DOMAIN body = DOMAIN label \cup DOMAIN fields
  /\ \A w \in DOMAIN body : body[w] = IF w \in Labels THEN label[w] ELSE fields[w]
  /\ \A a \in DOMAIN ty.attrs :
       /\ a \in DOMAIN SchemaAttrs(ty, body) <=> ty.attrs[a].wire \in DOMAIN body
       /\ ty.attrs[a].wire \in DOMAIN body => SchemaAttrs(ty, body)[a] = body[ty.attrs[a].wire]

LEMMA AnswerShows ==
  ASSUME NEW ty, OneSpelling(ty), NEW src, NEW obj, HoldsFields(ty, obj)
  PROVE  /\ Answer(src, obj) = Extend(Label(src, obj.key), obj.fields)
         /\ IsTold(ty, Label(src, obj.key), obj.fields, Answer(src, obj))
<1>. DEFINE body == Answer(src, obj)
            label == Label(src, obj.key)
<1>1. body = Extend(label, obj.fields)
  BY DEF Answer, Label
<1>2. DOMAIN label \subseteq Labels
  BY LabelSays
<1>. HIDE DEF label, body
<1>3. /\ DOMAIN body = DOMAIN label \cup DOMAIN obj.fields
      /\ \A k \in DOMAIN label : body[k] = label[k]
      /\ \A k \in DOMAIN obj.fields : k \notin DOMAIN label => body[k] = obj.fields[k]
  <2>. DEFINE fields == obj.fields
              made == Extend(label, fields)
  <2>. HIDE DEF fields
  <2>1. /\ DOMAIN made = DOMAIN label \cup DOMAIN fields
        /\ \A k \in DOMAIN label : made[k] = label[k]
        /\ \A k \in DOMAIN fields : k \notin DOMAIN label => made[k] = fields[k]
    BY ExtendSays
  <2>2. body = made
    BY <1>1 DEF fields
  <2>. HIDE DEF made
  <2>. QED
    BY <2>1, <2>2 DEF fields
<1>4. \A w \in DOMAIN body : body[w] = IF w \in Labels THEN label[w] ELSE obj.fields[w]
  BY <1>2, <1>3 DEF HoldsFields
<1>5. SpeltApart(ty, DOMAIN body)
  BY <1>2, <1>3 DEF HoldsFields, OneSpelling, SpeltApart
<1>6. \A a \in DOMAIN ty.attrs :
        /\ a \in DOMAIN SchemaAttrs(ty, body) <=> ty.attrs[a].wire \in DOMAIN body
        /\ ty.attrs[a].wire \in DOMAIN body => SchemaAttrs(ty, body)[a] = body[ty.attrs[a].wire]
  BY <1>5, FieldShows
<1>. QED
  BY <1>1, <1>3, <1>4, <1>6 DEF IsTold, body, label

\* The name that state shows of a resource that tells this one
\* (shortNameFromOwnID).
NameShown(ty, key, told, wroteShort) ==
  LET got   == Segments(told)
      want  == Segments(key)
      short == /\ IsPlaceholder(Last(ty.self.path)) /\ Last(ty.self.path).name = "name"
               /\ Last(ty.self.path).kind # "rest" /\ Len(ty.self.path) > 1
  IN IF /\ short \/ wroteShort
        /\ Len(got) > 1 /\ Len(want) > 1
        /\ SubSeq(got, Len(got) - 1, Len(got)) = SubSeq(want, Len(want) - 1, Len(want))
     THEN Last(got) ELSE told

WroteShort(ty, attrs) == IsBareCapture(ty.self.path) /\ "name" \in DOMAIN attrs /\ ~ HasSlash(attrs["name"])

LEMMA StateShows ==
  ASSUME NEW ty, NEW id, NEW whole, NEW reference
  PROVE  LET st == StateOf(ty, id, whole, reference).attrs
         IN  /\ DOMAIN st = DOMAIN whole \cap DOMAIN ty.attrs
             /\ \A a \in DOMAIN st : a # "name" => st[a] = whole[a]
             /\ "name" \in DOMAIN st /\ ~ ty.attrs["name"].output =>
                  st["name"] = NameShown(ty, id, whole["name"], WroteShort(ty, reference))
<1>. DEFINE named == ShortNameFromOwnID(ty, id, whole, reference)
            st == StateOf(ty, id, whole, reference).attrs
            got == Segments(whole["name"])
            want == Segments(id)
            short == /\ IsPlaceholder(Last(ty.self.path)) /\ Last(ty.self.path).name = "name"
                     /\ Last(ty.self.path).kind # "rest" /\ Len(ty.self.path) > 1
            alike == SubSeq(got, Len(got) - 1, Len(got)) = SubSeq(want, Len(want) - 1, Len(want))
            Shortens == /\ "name" \in DOMAIN ty.attrs /\ ~ ty.attrs["name"].output
                        /\ "name" \in DOMAIN whole
                        /\ short \/ WroteShort(ty, reference)
                        /\ Len(got) > 1 /\ Len(want) > 1 /\ alike
            last == Last(got)
<1>1. named = IF Shortens THEN [whole EXCEPT !["name"] = last] ELSE whole
  BY DEF ShortNameFromOwnID, WroteShort
<1>2. st = [a \in DOMAIN named \cap DOMAIN ty.attrs |-> named[a]]
  BY DEF StateOf, Restrict
<1>3. NameShown(ty, id, whole["name"], WroteShort(ty, reference)) =
        IF (short \/ WroteShort(ty, reference)) /\ Len(got) > 1 /\ Len(want) > 1 /\ alike THEN last ELSE whole["name"]
  BY DEF NameShown
<1>. HIDE DEF got, want, short, alike, last, named, st
<1>4. DOMAIN named = DOMAIN whole /\ \A a \in DOMAIN whole : a # "name" => named[a] = whole[a]
  <2>. HIDE DEF Shortens
  <2>. QED
    BY <1>1
<1>5. "name" \in DOMAIN whole \cap DOMAIN ty.attrs /\ ~ ty.attrs["name"].output =>
        named["name"] = NameShown(ty, id, whole["name"], WroteShort(ty, reference))
  <2>1. "name" \in DOMAIN whole => [whole EXCEPT !["name"] = last]["name"] = last
    OBVIOUS
  <2>. QED
    BY <1>1, <1>3, <2>1
<1>. QED
  BY <1>2, <1>4, <1>5 DEF st

\* What a read of a resource shows, of every attribute of its type.
IsShown(t, obj, current, got) ==
  LET told == SchemaAttrs(t.ty, Answer(t.src, obj))
      says == IdSays(t, current.id)
  IN  /\ DOMAIN got \subseteq DOMAIN t.ty.attrs
      /\ \A a \in DOMAIN t.ty.attrs : a # "name" =>
           /\ a \in DOMAIN told => a \in DOMAIN got /\ got[a] = told[a]
           /\ a \notin DOMAIN told /\ a \in DOMAIN says => a \in DOMAIN got /\ got[a] = says[a]
           /\ a \notin DOMAIN told \cup DOMAIN says =>
                /\ a \in DOMAIN got <=> (a \in DOMAIN current.attrs /\ t.ty.attrs[a].createOnly)
                /\ a \in DOMAIN got => got[a] = current.attrs[a]
      /\ "name" \in DOMAIN t.ty.attrs /\ ~ t.ty.attrs["name"].output =>
           /\ "name" \in DOMAIN got
           /\ got["name"] = NameShown(t.ty, obj.key, NameTold(t.src, obj.key), WroteShort(t.ty, current.attrs))

LEMMA ReadShows ==
  ASSUME NEW t, FitsItsApi(t), FieldsFit(t), NEW obj, IsResource(obj), HoldsFields(t.ty, obj),
         NEW current, current.id \in Seq(Tokens), Finds(t, obj, current.id)
  PROVE  IsShown(t, obj, current, ReadAs(t, obj, current).attrs)
<1>. DEFINE ty == t.ty
            got == ReadAs(t, obj, current).attrs
            told == SchemaAttrs(ty, Answer(t.src, obj))
            says == IdSays(t, current.id)
            declared == DeclaredIDAttrs(ty, says)
            carried == {n \in DOMAIN ty.attrs \cap DOMAIN current.attrs : ty.attrs[n].createOnly}
            kept == Restrict(current.attrs, carried)
            said == Extend(told, declared)
            whole == WholeOf(t, obj, current)
<1>1. got = StateOf(ty, obj.key, whole, current.attrs).attrs
  BY ReadMakesState
<1>2. /\ DOMAIN got = DOMAIN whole \cap DOMAIN ty.attrs
      /\ \A a \in DOMAIN got : a # "name" => got[a] = whole[a]
      /\ "name" \in DOMAIN got /\ ~ ty.attrs["name"].output =>
           got["name"] = NameShown(ty, obj.key, whole["name"], WroteShort(ty, current.attrs))
  <2>. HIDE DEF got, whole, ty
  <2>. QED
    BY <1>1, StateShows
<1>3. DOMAIN declared = DOMAIN ty.attrs \cap DOMAIN says /\ \A a \in DOMAIN declared : declared[a] = says[a]
  <2>. HIDE DEF says
  <2>. QED
    BY DEF DeclaredIDAttrs, Restrict
<1>4. DOMAIN kept = carried /\ \A a \in carried : kept[a] = current.attrs[a]
  BY DEF Restrict
<1>5. whole = Extend(said, kept)
  BY DEF WholeOf, IdSays
<1>6. "name" \in DOMAIN ty.attrs => "name" \in DOMAIN told /\ told["name"] = NameTold(t.src, obj.key)
  <2>. DEFINE body == Answer(t.src, obj)
              label == Label(t.src, obj.key)
  <2>1. ASSUME "name" \in DOMAIN ty.attrs
        PROVE  ty.attrs["name"].wire = "name" /\ t.src.api.names \in {"short", "full"}
    BY <2>1 DEF FieldsFit, OneSpelling, SpeltApart, Labels
  <2>2. OneSpelling(ty)
    BY DEF FieldsFit
  <2>3. ASSUME "name" \in DOMAIN ty.attrs
        PROVE  "name" \in DOMAIN label /\ label["name"] = NameTold(t.src, obj.key)
    <3>. HIDE DEF label
    <3>. QED
      BY <2>1, <2>3, LabelSays DEF label
  <2>0. HoldsFields(ty, obj)
    OBVIOUS
  <2>. HIDE DEF ty, label
  <2>4. IsTold(ty, label, obj.fields, body)
    BY <2>0, <2>2, AnswerShows DEF label
  <2>. HIDE DEF body
  <2>. QED
    BY <2>1, <2>3, <2>4 DEF IsTold, Labels, body
<1>. HIDE DEF got, told, says, declared, kept, said, whole
<1>7. /\ DOMAIN said = DOMAIN told \cup DOMAIN declared
      /\ \A k \in DOMAIN told : said[k] = told[k]
      /\ \A k \in DOMAIN declared : k \notin DOMAIN told => said[k] = declared[k]
  BY ExtendSays DEF said
<1>8. /\ DOMAIN whole = DOMAIN said \cup DOMAIN kept
      /\ \A k \in DOMAIN said : whole[k] = said[k]
      /\ \A k \in DOMAIN kept : k \notin DOMAIN said => whole[k] = kept[k]
  <2>. DEFINE made == Extend(said, kept)
  <2>1. /\ DOMAIN made = DOMAIN said \cup DOMAIN kept
        /\ \A k \in DOMAIN said : made[k] = said[k]
        /\ \A k \in DOMAIN kept : k \notin DOMAIN said => made[k] = kept[k]
    BY ExtendSays
  <2>. HIDE DEF made
  <2>2. whole = made
    BY <1>5 DEF made
  <2>. QED
    BY <2>1, <2>2
<1>9. ASSUME NEW a \in DOMAIN ty.attrs, a # "name"
      PROVE  /\ a \in DOMAIN told => a \in DOMAIN got /\ got[a] = told[a]
             /\ a \notin DOMAIN told /\ a \in DOMAIN says => a \in DOMAIN got /\ got[a] = says[a]
             /\ a \notin DOMAIN told \cup DOMAIN says =>
                  /\ a \in DOMAIN got <=> (a \in DOMAIN current.attrs /\ ty.attrs[a].createOnly)
                  /\ a \in DOMAIN got => got[a] = current.attrs[a]
  <2>1. a \in DOMAIN declared <=> a \in DOMAIN says
    BY <1>3
  <2>2. a \in carried <=> a \in DOMAIN current.attrs /\ ty.attrs[a].createOnly
    OBVIOUS
  <2>. HIDE DEF carried, ty
  <2>. QED
    BY <1>2, <1>3, <1>4, <1>7, <1>8, <1>9, <2>1, <2>2
<1>10. ASSUME "name" \in DOMAIN ty.attrs, ~ ty.attrs["name"].output
       PROVE  /\ "name" \in DOMAIN got
              /\ got["name"] = NameShown(ty, obj.key, NameTold(t.src, obj.key), WroteShort(ty, current.attrs))
  BY <1>2, <1>6, <1>7, <1>8, <1>10
<1>. QED
  BY <1>2, <1>9, <1>10 DEF IsShown, got, told, says

\* What is said of a resource, by the answer and then by its full name.
Said(ty, src, obj) ==
  Extend(SchemaAttrs(ty, Answer(src, obj)), SchemaAttrs(ty, ParseProviderID(ty, obj.key)))

IsBoth(said, told, says) ==
  /\ DOMAIN said = DOMAIN told \cup DOMAIN says
  /\ \A k \in DOMAIN told : said[k] = told[k]
  /\ \A k \in DOMAIN says : k \notin DOMAIN told => said[k] = says[k]

LEMMA SaidByBoth ==
  ASSUME NEW t, NEW obj
  PROVE  IsBoth(Said(t.ty, t.src, obj), SchemaAttrs(t.ty, Answer(t.src, obj)), IdSays(t, obj.key))
<1>. DEFINE said == Said(t.ty, t.src, obj)
            told == SchemaAttrs(t.ty, Answer(t.src, obj))
            says == IdSays(t, obj.key)
            made == Extend(told, says)
<1>1. said = made
  BY DEF Said, IdSays
<1>. HIDE DEF told, says, said
<1>2. IsBoth(made, told, says)
  BY ExtendSays DEF IsBoth
<1>. HIDE DEF made
<1>. QED
  BY <1>1, <1>2 DEF told, says, said

\* A configuration that a read of the resource shows again, as far as it
\* shows anything of it.
Holds(ty, src, obj, cfg) ==
  /\ DOMAIN cfg \subseteq DOMAIN ty.attrs
  /\ \A a \in DOMAIN cfg : ~ ty.attrs[a].output
  /\ \A a \in DOMAIN cfg \ {"name"} :
       IF a \in DOMAIN Said(ty, src, obj) THEN Said(ty, src, obj)[a] = cfg[a] ELSE ty.attrs[a].createOnly
  /\ "name" \in DOMAIN cfg =>
       NameShown(ty, obj.key, NameTold(src, obj.key), WroteShort(ty, cfg)) = cfg["name"]

\* State says it already, or the answer will.
IsKnown(ty, src, obj, attrs, cfg) ==
  \A a \in DOMAIN cfg :
    \/ a \in DOMAIN attrs /\ attrs[a] = cfg[a]
    \/ a # "name" /\ a \in DOMAIN SchemaAttrs(ty, Answer(src, obj))

LEMMA NameShownAgain ==
  ASSUME NEW ty, NEW key, NEW told, NEW f, NEW g, "name" \in DOMAIN f, "name" \in DOMAIN g, f["name"] = g["name"]
  PROVE  NameShown(ty, key, told, WroteShort(ty, f)) = NameShown(ty, key, told, WroteShort(ty, g))
<1>1. WroteShort(ty, f) <=> WroteShort(ty, g)
  BY DEF WroteShort
<1>. QED
  BY <1>1 DEF NameShown

\* What is held is in state after a read.
LEMMA ReadKeeps ==
  ASSUME NEW t, FitsItsApi(t), FieldsFit(t), NEW obj, IsResource(obj), HoldsFields(t.ty, obj),
         NEW cfg, Holds(t.ty, t.src, obj, cfg),
         NEW current, current.id = obj.key, Finds(t, obj, obj.key), IsKnown(t.ty, t.src, obj, current.attrs, cfg)
  PROVE  Covers(ReadAs(t, obj, current).attrs, cfg)
<1>. DEFINE got  == ReadAs(t, obj, current).attrs
            told == SchemaAttrs(t.ty, Answer(t.src, obj))
            says == IdSays(t, obj.key)
            said == Said(t.ty, t.src, obj)
<1>1. IsShown(t, obj, current, got)
  <2>1. current.id \in Seq(Tokens)
    BY DEF IsResource, IsId
  <2>2. Finds(t, obj, current.id)
    OBVIOUS
  <2>. QED
    BY <2>1, <2>2, ReadShows
<1>2. IsBoth(said, told, says)
  BY SaidByBoth
<1>. HIDE DEF got
<1>3. ASSUME NEW a \in DOMAIN cfg, a # "name"
      PROVE  a \in DOMAIN got /\ got[a] = cfg[a]
  <2>1. a \in DOMAIN t.ty.attrs
    BY DEF Holds
  <2>2. IF a \in DOMAIN said THEN said[a] = cfg[a] ELSE t.ty.attrs[a].createOnly
    BY <1>3 DEF Holds
  <2>3. a \in DOMAIN told \/ (a \in DOMAIN current.attrs /\ current.attrs[a] = cfg[a])
    BY DEF IsKnown
  <2>4. /\ a \in DOMAIN told => a \in DOMAIN got /\ got[a] = told[a]
        /\ a \notin DOMAIN told /\ a \in DOMAIN says => a \in DOMAIN got /\ got[a] = says[a]
        /\ a \notin DOMAIN told \cup DOMAIN says =>
             /\ a \in DOMAIN got <=> (a \in DOMAIN current.attrs /\ t.ty.attrs[a].createOnly)
             /\ a \in DOMAIN got => got[a] = current.attrs[a]
    BY <1>1, <1>3, <2>1 DEF IsShown
  <2>. HIDE DEF told, says, said
  <2>. QED
    BY <1>2, <2>2, <2>3, <2>4 DEF IsBoth
<1>4. ASSUME "name" \in DOMAIN cfg
      PROVE  "name" \in DOMAIN got /\ got["name"] = cfg["name"]
  <2>1. "name" \in DOMAIN t.ty.attrs /\ ~ t.ty.attrs["name"].output
    BY <1>4 DEF Holds
  <2>2. /\ "name" \in DOMAIN got
        /\ got["name"] = NameShown(t.ty, obj.key, NameTold(t.src, obj.key), WroteShort(t.ty, current.attrs))
    BY <1>1, <2>1 DEF IsShown
  <2>3. "name" \in DOMAIN current.attrs /\ current.attrs["name"] = cfg["name"]
    BY <1>4 DEF IsKnown
  <2>4. NameShown(t.ty, obj.key, NameTold(t.src, obj.key), WroteShort(t.ty, cfg)) = cfg["name"]
    BY <1>4 DEF Holds
  <2>5. NameShown(t.ty, obj.key, NameTold(t.src, obj.key), WroteShort(t.ty, current.attrs)) =
          NameShown(t.ty, obj.key, NameTold(t.src, obj.key), WroteShort(t.ty, cfg))
    BY <1>4, <2>3, NameShownAgain
  <2>. QED
    BY <2>2, <2>4, <2>5
<1>. QED
  BY <1>3, <1>4 DEF Covers, got

\* The name that is shown, once it is written down, is shown again.
LEMMA ShownNameIsShown ==
  ASSUME NEW ty, NEW key, NEW told \in Seq(Tokens), NEW ref, NEW cfg, "name" \in DOMAIN cfg,
         cfg["name"] = NameShown(ty, key, told, WroteShort(ty, ref))
  PROVE  NameShown(ty, key, told, WroteShort(ty, cfg)) = cfg["name"]
<1>. DEFINE got   == Segments(told)
            want  == Segments(key)
            last  == Last(got)
            short == /\ IsPlaceholder(Last(ty.self.path)) /\ Last(ty.self.path).name = "name"
                     /\ Last(ty.self.path).kind # "rest" /\ Len(ty.self.path) > 1
            Alike == /\ Len(got) > 1 /\ Len(want) > 1
                     /\ SubSeq(got, Len(got) - 1, Len(got)) = SubSeq(want, Len(want) - 1, Len(want))
<1>1. /\ NameShown(ty, key, told, WroteShort(ty, ref)) =
           IF (short \/ WroteShort(ty, ref)) /\ Alike THEN last ELSE told
      /\ NameShown(ty, key, told, WroteShort(ty, cfg)) =
           IF (short \/ WroteShort(ty, cfg)) /\ Alike THEN last ELSE told
  BY DEF NameShown
<1>2. ~ HasSlash(last)
  <2>1. got \in Seq(Seq(Tokens)) \ {<<>>}
    BY SegmentsParts, SeparatorsAreTokens DEF Parts
  <2>2. \A i \in 1..Len(got) : ~ HasSlash(got[i])
    BY SegmentsAreWords, SeparatorsAreTokens
  <2>. HIDE DEF got
  <2>3. Len(got) \in 1..Len(got) /\ last = got[Len(got)]
    BY <2>1 DEF Last
  <2>. QED
    BY <2>2, <2>3
<1>3. ~ HasSlash(told) => ~ Alike
  <2>1. ~ HasSlash(told) => got = <<told>>
    BY SegmentsOfWord
  <2>2. Len(<<told>>) = 1 /\ ~ 1 > 1
    OBVIOUS
  <2>. HIDE DEF got, want
  <2>3. Alike => Len(got) > 1
    OBVIOUS
  <2>. HIDE DEF Alike
  <2>. QED
    BY <2>1, <2>2, <2>3
<1>4. WroteShort(ty, ref) => IsBareCapture(ty.self.path)
  BY DEF WroteShort
<1>5. WroteShort(ty, cfg) <=> IsBareCapture(ty.self.path) /\ ~ HasSlash(cfg["name"])
  BY DEF WroteShort
<1>. HIDE DEF got, want, last, short, Alike
<1>. QED
  BY <1>1, <1>2, <1>3, <1>4, <1>5

LEMMA ToldIsText ==
  ASSUME NEW src, NEW key \in Seq(Tokens)
  PROVE  NameTold(src, key) \in Seq(Tokens)
<1>. DEFINE got == Segments(key)
            last == Last(got)
<1>1. got \in Seq(Seq(Tokens)) \ {<<>>}
  BY SegmentsParts, SeparatorsAreTokens DEF Parts
<1>2. \A i \in 1..Len(got) : ~ HasSlash(got[i])
  BY SegmentsAreWords, SeparatorsAreTokens
<1>. HIDE DEF got
<1>3. last \in Seq(Tokens) /\ ~ HasSlash(last)
  <2>1. Len(got) \in 1..Len(got) /\ last = got[Len(got)] /\ got[Len(got)] \in Seq(Tokens)
    BY <1>1 DEF Last
  <2>. QED
    BY <1>2, <2>1
<1>. HIDE DEF last
<1>4. Unescape(last) \in Seq(Tokens)
  BY <1>3, UnescapedIsEscapedAgain
<1>. QED
  BY <1>4 DEF NameTold, LastPathSegment, last, got

\* What an import shows is held, under whatever name the resource was known.
LEMMA ImportHolds ==
  ASSUME NEW t, Fits(t), FieldsFit(t), NEW obj, IsResource(obj), HoldsFields(t.ty, obj),
         NEW current, current.id \in KnownIDs(t, obj), current.attrs = ParseProviderID(t.ty, current.id),
         Finds(t, obj, current.id),
         NEW cfg, LET got == ReadAs(t, obj, current).attrs
                  IN  cfg = Restrict(got, {n \in DOMAIN got : ~ t.ty.attrs[n].output})
  PROVE  /\ Holds(t.ty, t.src, obj, cfg)
         /\ Covers(ReadAs(t, obj, current).attrs, cfg)
<1>. DEFINE id    == current.id
            got   == ReadAs(t, obj, current).attrs
            told  == SchemaAttrs(t.ty, Answer(t.src, obj))
            short == IdSays(t, id)
            full  == IdSays(t, obj.key)
            given == ParseProviderID(t.ty, id)
            said  == Said(t.ty, t.src, obj)
<1>1. id \in Seq(Tokens) /\ obj.key \in Seq(Tokens)
  BY KnownIDsAreTexts DEF IsResource, IsId
<1>2. IsShown(t, obj, current, got)
  BY <1>1, ReadShows DEF Fits
<1>3. DOMAIN cfg \subseteq DOMAIN got /\ \A n \in DOMAIN cfg : cfg[n] = got[n] /\ ~ t.ty.attrs[n].output
  <2>. HIDE DEF got
  <2>. QED
    BY DEF Restrict, got
<1>4. IsBoth(said, told, full)
  BY SaidByBoth
<1>5. \A a \in DOMAIN t.ty.attrs \ {"name"} :
        /\ ~ t.ty.attrs[a].output
        /\ a \in DOMAIN short \/ (t.ty.attrs[a].createOnly /\ a \in DOMAIN given)
        => IF a \in DOMAIN full THEN full[a] = (IF a \in DOMAIN short THEN short[a] ELSE given[a])
           ELSE t.ty.attrs[a].createOnly
  <2>1. CASE id = obj.key
    <3>1. short = full
      BY <2>1
    <3>. HIDE DEF short, full, given
    <3>. QED
      BY <3>1
  <2>2. CASE id # obj.key
    <3>. DEFINE known == WithScope(Settings, t.src.api.user)
    <3>1. PICK i \in DOMAIN t.ty.imports : Fillable(Path(t.ty.imports[i]), known) /\ id = ExpandPath(t.ty.imports[i], known)
      BY <2>2 DEF KnownIDs
    <3>2. ItemKey(t.src, ReadRequest(t, id)) = obj.key
      BY WhatIsRead DEF Fits, FitsItsApi
    <3>3. OtherNamesAgree(t)
      BY DEF FieldsFit
    <3>. HIDE DEF known
    <3>. QED
      BY <3>1, <3>2, <3>3 DEF OtherNamesAgree, known
  <2>. QED
    BY <2>1, <2>2
<1>. HIDE DEF got, told, short, full, given, said
<1>6. ASSUME NEW a \in DOMAIN cfg, a # "name"
      PROVE  IF a \in DOMAIN said THEN said[a] = cfg[a] ELSE t.ty.attrs[a].createOnly
  <2>1. a \in DOMAIN t.ty.attrs /\ ~ t.ty.attrs[a].output /\ a \in DOMAIN got /\ got[a] = cfg[a]
    BY <1>2, <1>3 DEF IsShown
  <2>2. /\ a \in DOMAIN told => a \in DOMAIN got /\ got[a] = told[a]
        /\ a \notin DOMAIN told /\ a \in DOMAIN short => a \in DOMAIN got /\ got[a] = short[a]
        /\ a \notin DOMAIN told \cup DOMAIN short =>
             /\ a \in DOMAIN got <=> (a \in DOMAIN current.attrs /\ t.ty.attrs[a].createOnly)
             /\ a \in DOMAIN got => got[a] = current.attrs[a]
    BY <1>2, <1>6, <2>1 DEF IsShown, told, short
  <2>3. current.attrs = given
    BY DEF given
  <2>. QED
    BY <1>4, <1>5, <1>6, <2>1, <2>2, <2>3 DEF IsBoth
<1>7. ASSUME "name" \in DOMAIN cfg
      PROVE  NameShown(t.ty, obj.key, NameTold(t.src, obj.key), WroteShort(t.ty, cfg)) = cfg["name"]
  <2>1. "name" \in DOMAIN t.ty.attrs /\ ~ t.ty.attrs["name"].output /\ got["name"] = cfg["name"]
    BY <1>2, <1>3, <1>7 DEF IsShown
  <2>2. got["name"] = NameShown(t.ty, obj.key, NameTold(t.src, obj.key), WroteShort(t.ty, current.attrs))
    BY <1>2, <2>1 DEF IsShown
  <2>. QED
    BY <1>1, <1>7, <2>1, <2>2, ShownNameIsShown, ToldIsText
<1>8. DOMAIN cfg \subseteq DOMAIN t.ty.attrs
  BY <1>2, <1>3 DEF IsShown
<1>. QED
  BY <1>3, <1>6, <1>7, <1>8 DEF Holds, Covers, got, said

\* The name that was configured is shown.
LEMMA ConfiguredNameIsShown ==
  ASSUME NEW t, NEW key \in Seq(Tokens), NEW cfg, "name" \in DOMAIN cfg, NameComesBack(t, key, cfg["name"])
  PROVE  NameShown(t.ty, key, NameTold(t.src, key), WroteShort(t.ty, cfg)) = cfg["name"]
<1>. DEFINE ty == t.ty
            told == NameTold(t.src, key)
            name == cfg["name"]
            got == Segments(told)
            want == Segments(key)
            short == /\ IsPlaceholder(Last(ty.self.path)) /\ Last(ty.self.path).name = "name"
                     /\ Last(ty.self.path).kind # "rest" /\ Len(ty.self.path) > 1
            Alike == /\ Len(got) > 1 /\ Len(want) > 1
                     /\ SubSeq(got, Len(got) - 1, Len(got)) = SubSeq(want, Len(want) - 1, Len(want))
            bare == IsBareCapture(ty.self.path)
<1>1. NameShown(ty, key, told, WroteShort(ty, cfg)) =
        IF (short \/ WroteShort(ty, cfg)) /\ Alike THEN Last(got) ELSE told
  BY DEF NameShown
<1>2. told \in Seq(Tokens)
  BY ToldIsText
<1>3. WroteShort(ty, cfg) <=> bare /\ ~ HasSlash(name)
  BY DEF WroteShort
<1>4. ASSUME ~ HasSlash(told)
      PROVE  ~ Alike
  <2>1. got = <<told>>
    BY <1>2, <1>4, SegmentsOfWord
  <2>2. Len(<<told>>) = 1 /\ ~ 1 > 1
    OBVIOUS
  <2>. HIDE DEF got, want
  <2>3. Alike => Len(got) > 1
    OBVIOUS
  <2>. HIDE DEF Alike
  <2>. QED
    BY <2>1, <2>2, <2>3
<1>5. told = IF t.src.api.names = "short" THEN Unescape(LastPathSegment(key)) ELSE key
  BY DEF NameTold
<1>6. \/ t.src.api.names = "short" /\ name = Unescape(LastPathSegment(key)) /\ ~ HasSlash(name)
      \/ /\ t.src.api.names = "full"
         /\ \/ name = Last(want) /\ Len(want) > 1 /\ (short \/ bare)
            \/ name = key /\ ~ short /\ HasSlash(name)
  BY DEF NameComesBack, LastPathSegment
<1>7. CASE t.src.api.names = "short" /\ name = Unescape(LastPathSegment(key)) /\ ~ HasSlash(name)
  <2>1. told = name
    BY <1>5, <1>7
  <2>. HIDE DEF told, Alike, short, bare
  <2>. QED
    BY <1>1, <1>4, <1>7, <2>1 DEF told
<1>8. CASE t.src.api.names = "full" /\ name = Last(want) /\ Len(want) > 1 /\ (short \/ bare)
  <2>1. told = key
    BY <1>5, <1>8
  <2>2. got = want /\ Alike
    BY <1>8, <2>1
  <2>3. ~ HasSlash(name)
    <3>1. want \in Seq(Seq(Tokens)) \ {<<>>}
      BY SegmentsParts, SeparatorsAreTokens DEF Parts
    <3>2. \A i \in 1..Len(want) : ~ HasSlash(want[i])
      BY SegmentsAreWords, SeparatorsAreTokens
    <3>. HIDE DEF want, short, bare
    <3>3. Len(want) \in 1..Len(want) /\ Last(want) = want[Len(want)]
      BY <3>1 DEF Last
    <3>. QED
      BY <1>8, <3>2, <3>3
  <2>. HIDE DEF told, got, want, Alike, short, bare
  <2>. QED
    BY <1>1, <1>3, <1>8, <2>2, <2>3 DEF told
<1>9. CASE t.src.api.names = "full" /\ name = key /\ ~ short /\ HasSlash(name)
  <2>1. told = key
    BY <1>5, <1>9
  <2>. HIDE DEF told, got, want, Alike, short, bare
  <2>. QED
    BY <1>1, <1>3, <1>9, <2>1 DEF told
<1>. QED
  BY <1>6, <1>7, <1>8, <1>9

\* A field of a body is an attribute that was configured (requestBody).
LEMMA BodySays ==
  ASSUME NEW ty, OneSpelling(ty), NEW tmpl, NEW attrs, DOMAIN attrs \subseteq DOMAIN ty.attrs
  PROVE  LET body == RequestBody(ty, tmpl, attrs).resource
         IN  /\ DOMAIN body \subseteq Wires(ty)
             /\ \A a \in DOMAIN attrs : ty.attrs[a].wire \in DOMAIN body => body[ty.attrs[a].wire] = attrs[a]
<1>. DEFINE sent0 == {n \in DOMAIN attrs : /\ {n, ToWire(ty, n)} \cap PlaceholderNames(tmpl) = {}
                                           /\ n \in DOMAIN ty.attrs => ~ty.attrs[n].output}
            top == {n \in sent0 : ty.wrapper /\ n \in DOMAIN ty.attrs /\ ty.attrs[n].createOnly}
            names == sent0 \ top
            body == [w \in {ToWire(ty, n) : n \in names} |-> attrs[CHOOSE n \in names : ToWire(ty, n) = w]]
<1>1. RequestBody(ty, tmpl, attrs).resource = body
  BY DEF RequestBody
<1>2. names \subseteq DOMAIN attrs
  OBVIOUS
<1>. HIDE DEF names
<1>3. \A n \in names : ToWire(ty, n) = ty.attrs[n].wire /\ n \in DOMAIN ty.attrs
  BY <1>2 DEF ToWire
<1>4. DOMAIN body \subseteq Wires(ty)
  BY <1>3 DEF Wires
<1>5. ASSUME NEW a \in DOMAIN attrs, ty.attrs[a].wire \in DOMAIN body
      PROVE  body[ty.attrs[a].wire] = attrs[a]
  <2>. DEFINE w == ty.attrs[a].wire
  <2>1. PICK n \in names : ToWire(ty, n) = w
    BY <1>5
  <2>2. \A m \in names : ToWire(ty, m) = w => m = a
    BY <1>3 DEF OneSpelling
  <2>3. (CHOOSE m \in names : ToWire(ty, m) = w) = a
    BY <2>1, <2>2
  <2>. HIDE DEF w
  <2>4. w \in DOMAIN body
    BY <1>5 DEF w
  <2>5. body[w] = attrs[CHOOSE m \in names : ToWire(ty, m) = w]
    BY <2>4
  <2>. QED
    BY <2>3, <2>5 DEF w
<1>. QED
  BY <1>1, <1>4, <1>5

\* What a create makes holds what was configured.
LEMMA CreateHolds ==
  ASSUME NEW t, FieldsFit(t), CanBeMade(t), IsResource(MadeBy(t, NewRequest(t))),
         SpeltApart(t.ty, Wires(t.ty))
  PROVE  LET obj == MadeBy(t, NewRequest(t))
         IN  /\ DOMAIN obj.fields \subseteq Wires(t.ty) \ Labels
             /\ Holds(t.ty, t.src, obj, Configured(t))
<1>. DEFINE req == NewRequest(t)
            obj == MadeBy(t, req)
            new == Configured(t)
            body == RequestBody(t.ty, CreateTemplate(t.ty), new).resource
            said == Said(t.ty, t.src, obj)
            told == SchemaAttrs(t.ty, Answer(t.src, obj))
            full == IdSays(t, obj.key)
<1>1. OneSpelling(t.ty) /\ ComesBack(t)
  BY DEF FieldsFit
<1>2. DOMAIN new \subseteq DOMAIN t.ty.attrs /\ \A a \in DOMAIN new : ~ t.ty.attrs[a].output
  BY DEF Configured, Restrict
<1>3. req.body.resource = body
  BY DEF NewRequest, CreateRequest, Request
<1>4. /\ DOMAIN body \subseteq Wires(t.ty)
      /\ \A a \in DOMAIN new : t.ty.attrs[a].wire \in DOMAIN body => body[t.ty.attrs[a].wire] = new[a]
  <2>. HIDE DEF new
  <2>. QED
    BY <1>1, <1>2, BodySays
<1>. HIDE DEF body
<1>5. DOMAIN obj.fields = DOMAIN body \ {"name"} /\ \A w \in DOMAIN obj.fields : obj.fields[w] = body[w]
  BY <1>3 DEF MadeBy, Restrict
<1>. HIDE DEF obj, new, req
<1>6. "selfLink" \notin DOMAIN obj.fields /\ obj.key \in Seq(Tokens)
  BY DEF IsResource, IsId, obj, req
<1>7. DOMAIN obj.fields \subseteq Wires(t.ty) \ Labels /\ DOMAIN obj.fields = DOMAIN body \ Labels
  BY <1>4, <1>5, <1>6 DEF Labels
<1>8. HoldsFields(t.ty, obj)
  BY <1>7 DEF HoldsFields, SpeltApart
<1>9. IsTold(t.ty, Label(t.src, obj.key), obj.fields, Answer(t.src, obj))
  BY <1>1, <1>8, AnswerShows
<1>10. DOMAIN Label(t.src, obj.key) \subseteq Labels
  BY LabelSays
<1>11. IsBoth(said, told, full)
  BY SaidByBoth
<1>12. ASSUME NEW a \in DOMAIN new
       PROVE  LET wire == t.ty.attrs[a].wire
              IN  \/ a = "name" /\ NameComesBack(t, obj.key, new[a])
                  \/ wire \in DOMAIN body \ Labels
                  \/ /\ wire \notin DOMAIN body \cup Labels
                     /\ IF a \in DOMAIN full THEN full[a] = new[a] ELSE t.ty.attrs[a].createOnly
  BY <1>1, <1>3, <1>12 DEF ComesBack, new, obj, req
<1>13. ASSUME NEW a \in DOMAIN new, a # "name"
       PROVE  IF a \in DOMAIN said THEN said[a] = new[a] ELSE t.ty.attrs[a].createOnly
  <2>. DEFINE wire == t.ty.attrs[a].wire
              answer == Answer(t.src, obj)
  <2>1. a \in DOMAIN t.ty.attrs
    BY <1>2
  <2>2. /\ a \in DOMAIN told <=> wire \in DOMAIN answer
        /\ wire \in DOMAIN answer => told[a] = answer[wire]
    BY <1>9, <2>1 DEF IsTold
  <2>3. DOMAIN answer = DOMAIN Label(t.src, obj.key) \cup DOMAIN obj.fields
        /\ \A w \in DOMAIN answer : w \notin Labels => answer[w] = obj.fields[w]
    BY <1>9 DEF IsTold
  <2>4. \/ wire \in DOMAIN body \ Labels
        \/ /\ wire \notin DOMAIN body \cup Labels
           /\ IF a \in DOMAIN full THEN full[a] = new[a] ELSE t.ty.attrs[a].createOnly
    BY <1>12, <1>13
  <2>5. wire \in DOMAIN body => body[wire] = new[a]
    BY <1>4
  <2>. HIDE DEF wire, answer, told, said, full
  <2>6. CASE wire \in DOMAIN body \ Labels
    <3>1. wire \in DOMAIN obj.fields /\ obj.fields[wire] = new[a]
      BY <1>5, <1>7, <2>5, <2>6
    <3>2. wire \in DOMAIN answer /\ answer[wire] = new[a]
      BY <2>3, <2>6, <3>1
    <3>. QED
      BY <1>11, <2>2, <3>2 DEF IsBoth
  <2>7. CASE /\ wire \notin DOMAIN body \cup Labels
             /\ IF a \in DOMAIN full THEN full[a] = new[a] ELSE t.ty.attrs[a].createOnly
    <3>1. wire \notin DOMAIN answer
      BY <1>5, <1>10, <2>3, <2>7
    <3>. QED
      BY <1>11, <2>2, <2>7, <3>1 DEF IsBoth
  <2>. QED
    BY <2>4, <2>6, <2>7
<1>14. ASSUME "name" \in DOMAIN new
       PROVE  NameShown(t.ty, obj.key, NameTold(t.src, obj.key), WroteShort(t.ty, new)) = new["name"]
  <2>1. t.ty.attrs["name"].wire = "name" /\ "name" \in Labels
    BY <1>1, <1>2, <1>14 DEF OneSpelling, SpeltApart, Labels
  <2>2. NameComesBack(t, obj.key, new["name"])
    BY <1>12, <1>14, <2>1
  <2>. QED
    BY <1>6, <1>14, <2>2, ConfiguredNameIsShown
<1>. QED
  BY <1>2, <1>7, <1>13, <1>14 DEF Holds, obj, req, new, said

-----------------------------------------------------------------------------
(* What a change leaves. *)

\* The request of a change: a setter's, with the change, or the update's, with
\* that or with the whole.
IsChange(t, a, change, req) ==
  \/ \E s \in SetterOf(t.ty, a) :
       /\ req.role = "setter" /\ req.verb = s.verb
       /\ req.url = ItemURL(t.ty, Path(s.path), object.key, ParseProviderID(t.ty, object.key))
       /\ req.body.resource = change
  \/ /\ SetterOf(t.ty, a) = {}
     /\ IsUpdate(t, req, ItemURL(t.ty, t.ty.update, object.key, ParseProviderID(t.ty, object.key)), t.ty.attrs[a].wire)
     /\ req.body.resource = IF t.ty.updateVerb = "PUT" THEN Extend(change, Answer(t.src, object)) ELSE change

LEMMA ChangeSays ==
  ASSUME NEW t, NEW a, NEW change, record.id = object.key
  PROVE  IsChange(t, a, change, UpdateRequest(t, a, change, ParseProviderID(t.ty, record.id)))
<1>. DEFINE known == ParseProviderID(t.ty, record.id)
            wire == t.ty.attrs[a].wire
            req == UpdateRequest(t, a, change, known)
            s == CHOOSE x \in SetterOf(t.ty, a) : TRUE
            body == UpdateBody(t, change)
<1>1. body.resource = IF t.ty.updateVerb = "PUT" THEN Extend(change, Answer(t.src, object)) ELSE change
  BY DEF UpdateBody
<1>2. [body EXCEPT !.resource = change].resource = change
  BY DEF UpdateBody
<1>3. body.enveloped <=> t.ty.updateWrapper # ""
  BY DEF UpdateBody
<1>. HIDE DEF body, known
<1>4. CASE SetterOf(t.ty, a) # {}
  <2>1. s \in SetterOf(t.ty, a)
    BY <1>4
  <2>. HIDE DEF s
  <2>2. req = Request("setter", s.verb, t, ItemURL(t.ty, Path(s.path), record.id, known),
                      [body EXCEPT !.resource = change])
    BY <1>4 DEF UpdateRequest, s, body
  <2>. HIDE DEF req
  <2>3. /\ req.role = "setter" /\ req.verb = s.verb
        /\ req.url = ItemURL(t.ty, Path(s.path), record.id, known)
        /\ req.body.resource = change
    BY <1>2, <2>2 DEF Request
  <2>. QED
    BY <2>1, <2>3 DEF IsChange, known, req
<1>5. CASE SetterOf(t.ty, a) = {}
  <2>. DEFINE url == ItemURL(t.ty, t.ty.update, object.key, ParseProviderID(t.ty, object.key))
  <2>1. req = Request("update", t.ty.updateVerb, t, UpdateURL(t.ty, known, wire), body)
    BY <1>5 DEF UpdateRequest, body
  <2>2. UpdateURL(t.ty, known, wire) =
          [url EXCEPT !.query = @ \cup (IF t.ty.updateMask THEN {<<"updateMask", <<wire>> >>} ELSE {})]
    BY DEF UpdateURL, known
  <2>. HIDE DEF url, req
  <2>3. IsUpdate(t, req, url, wire)
    BY <1>3, <2>1, <2>2 DEF IsUpdate, Request
  <2>4. req.body.resource = body.resource
    BY <2>1 DEF Request
  <2>. QED
    BY <1>1, <1>5, <2>3, <2>4 DEF IsChange, req, url, known
<1>. QED
  BY <1>4, <1>5

\* It is about the resource.
LEMMA ChangeIsMeant ==
  ASSUME NEW t, FitsItsApi(t), RequestsFit(t), ChangesTheItem(t), IsResource(object),
         Matches(GetPath(t.src), object.key), NEW a, ChangesInPlace(t, a), NEW change, NEW req,
         IsChange(t, a, change, req)
  PROVE  ItemKey(t.src, req) = object.key
<1>. DEFINE URL(tmpl) == ItemURL(t.ty, tmpl, object.key, ParseProviderID(t.ty, object.key))
<1>1. ASSUME NEW s \in SetterOf(t.ty, a), req.url = URL(Path(s.path))
      PROVE  ItemKey(t.src, req) = object.key
  <2>. DEFINE tmpl == Path(s.path)
  <2>1. s \in Setters(t.ty)
    BY DEF SetterOf
  <2>2. AtTheItem(t, tmpl)
    BY <2>1 DEF ChangesTheItem
  <2>3. HasMethod(t, "setter", s.verb, tmpl, {})
    BY <2>1 DEF RequestsFit
  <2>. HIDE DEF tmpl
  <2>4. \E method : SaysWhatSelfDoes(t, tmpl) /\ ServedAt(t, tmpl, method)
    BY <2>3 DEF HasMethod
  <2>5. PICK method : SaysWhatSelfDoes(t, tmpl) /\ ServedAt(t, tmpl, method)
    BY <2>4
  <2>6. req.url = ItemURL(t.ty, tmpl, object.key, ParseProviderID(t.ty, object.key))
    BY <1>1 DEF tmpl
  <2>7. IsSentTo(req, req.url, {})
    BY SentAsItIs
  <2>. QED
    BY <2>2, <2>5, <2>6, <2>7, ItemIsMeant
<1>2. ASSUME SetterOf(t.ty, a) = {}, IsUpdate(t, req, URL(t.ty.update), t.ty.attrs[a].wire)
      PROVE  ItemKey(t.src, req) = object.key
  <2>. DEFINE tmpl == t.ty.update
              url == URL(tmpl)
              wire == t.ty.attrs[a].wire
              mask == IF t.ty.updateMask THEN {<<"updateMask", <<wire>> >>} ELSE {}
  <2>1. t.ty.updateVerb # ""
    BY <1>2 DEF ChangesInPlace
  <2>2. AtTheItem(t, tmpl) /\ HasUpdate(t)
    BY <2>1 DEF ChangesTheItem, RequestsFit
  <2>3. \E method : SaysWhatSelfDoes(t, tmpl) /\ ServedAt(t, tmpl, method)
    BY <2>2 DEF HasUpdate
  <2>4. PICK method : SaysWhatSelfDoes(t, tmpl) /\ ServedAt(t, tmpl, method)
    BY <2>3
  <2>. HIDE DEF tmpl
  <2>5. \E rel \in Seq(Tokens) : \E query : url = AbsURL(t.ty, rel, query)
    BY <2>4, ItemAddress
  <2>6. req.url = [url EXCEPT !.query = @ \cup mask]
    BY <1>2 DEF IsUpdate, tmpl
  <2>7. KeysIn(mask) \subseteq {"updateMask"}
    <3>1. <<"updateMask", <<wire>> >>[1] = "updateMask"
      OBVIOUS
    <3>. HIDE DEF wire
    <3>. QED
      BY <3>1 DEF KeysIn
  <2>. HIDE DEF url, mask
  <2>8. req.url.path = url.path /\ req.url.query = url.query \cup mask
    <3>1. DOMAIN url = {"host", "path", "query"}
      BY <2>5 DEF AbsURL
    <3>. QED
      BY <2>6, <3>1
  <2>9. IsSentTo(req, url, mask)
    BY <2>7, <2>8 DEF IsSentTo
  <2>. QED
    BY <2>2, <2>4, <2>9, ItemIsMeant DEF url
<1>. QED
  BY <1>1, <1>2 DEF IsChange

\* The fields with this one changed.
IsChanged(new, wire, value, fields) ==
  /\ DOMAIN new = {wire} \cup DOMAIN fields
  /\ new[wire] = value
  /\ \A w \in DOMAIN fields : w # wire => new[w] = fields[w]

SetsOne(t, a, value, req) == IsChange(t, a, [w \in {t.ty.attrs[a].wire} |-> value], req)

\* GCP takes it.
LEMMA ChangeIsTaken ==
  ASSUME NEW t, FieldsFit(t), HoldsFields(t.ty, object), object = [key |-> object.key, fields |-> object.fields],
         NEW a, a \notin t.src.api.fixed, ChangesInPlace(t, a), NEW value, NEW req,
         SetsOne(t, a, value, req), Published(t.src, req), ItemKey(t.src, req) = object.key
  PROVE  /\ Updated(t, req).key = object.key
         /\ IsChanged(Updated(t, req).fields, t.ty.attrs[a].wire, value, object.fields)
<1>. DEFINE wire == t.ty.attrs[a].wire
            one == [w \in {wire} |-> value]
            taken == Taken(t, req)
            body == req.body.resource
            answer == Answer(t.src, object)
            label == Label(t.src, object.key)
            honoured == IF req.role = "setter" \/ req.verb = "PUT" THEN DOMAIN body ELSE t.src.api.honours
<1>1. /\ wire \notin Labels
      /\ \A s \in SetterOf(t.ty, a) : s.verb # "PUT"
      /\ SetterOf(t.ty, a) # {} \/ t.ty.updateVerb = "PUT" \/ wire \in t.src.api.honours
  <2>1. a \in DOMAIN t.ty.attrs \ t.src.api.fixed
    BY DEF ChangesInPlace
  <2>. QED
    BY <2>1 DEF FieldsFit, HonoursChanges
<1>2. \/ req.verb = "PUT" /\ Updated(t, req) = [object EXCEPT !.fields = taken]
      \/ req.verb # "PUT" /\ Updated(t, req) = [object EXCEPT !.fields = Extend(taken, @)]
  BY DEF Updated
<1>3. /\ DOMAIN taken = (DOMAIN body \cap honoured) \ Labels
      /\ \A w \in DOMAIN taken : taken[w] = body[w]
  BY DEF Taken, Restrict, Labels
<1>4. DOMAIN one = {wire} /\ one[wire] = value
  OBVIOUS
<1>5. IsTold(t.ty, label, object.fields, answer) /\ DOMAIN label \subseteq Labels
  BY AnswerShows, LabelSays DEF FieldsFit
<1>6. \/ \E s \in SetterOf(t.ty, a) : req.role = "setter" /\ req.verb = s.verb /\ body = one
      \/ /\ SetterOf(t.ty, a) = {} /\ req.role = "update" /\ req.verb = t.ty.updateVerb
         /\ body = IF t.ty.updateVerb = "PUT" THEN Extend(one, answer) ELSE one
  BY DEF SetsOne, IsChange, IsUpdate
<1>. HIDE DEF wire, one, taken, body, answer, label
<1>7. CASE req.verb # "PUT"
  <2>1. body = one /\ wire \in honoured
    <3>1. CASE \E s \in SetterOf(t.ty, a) : req.role = "setter" /\ req.verb = s.verb /\ body = one
      BY <1>4, <3>1
    <3>2. CASE /\ SetterOf(t.ty, a) = {} /\ req.role = "update" /\ req.verb = t.ty.updateVerb
               /\ body = IF t.ty.updateVerb = "PUT" THEN Extend(one, answer) ELSE one
      BY <1>1, <1>7, <3>2
    <3>. QED
      BY <1>6, <3>1, <3>2
  <2>. HIDE DEF honoured
  <2>2. DOMAIN taken = {wire} /\ taken[wire] = value
    BY <1>1, <1>3, <1>4, <2>1
  <2>. DEFINE fields == object.fields
              made == Extend(taken, fields)
  <2>3. Updated(t, req) = [key |-> object.key, fields |-> made]
    BY <1>2, <1>7
  <2>. HIDE DEF fields
  <2>4. /\ DOMAIN made = DOMAIN taken \cup DOMAIN fields
        /\ \A k \in DOMAIN taken : made[k] = taken[k]
        /\ \A k \in DOMAIN fields : k \notin DOMAIN taken => made[k] = fields[k]
    BY ExtendSays
  <2>. HIDE DEF made
  <2>5. IsChanged(made, wire, value, fields)
    BY <2>2, <2>4 DEF IsChanged
  <2>. QED
    BY <2>3, <2>5 DEF fields, wire
<1>8. CASE req.verb = "PUT"
  <2>. DEFINE made == Extend(one, answer)
  <2>1. body = made /\ honoured = DOMAIN body
    <3>1. CASE \E s \in SetterOf(t.ty, a) : req.role = "setter" /\ req.verb = s.verb /\ body = one
      BY <1>1, <1>8, <3>1
    <3>2. CASE /\ SetterOf(t.ty, a) = {} /\ req.role = "update" /\ req.verb = t.ty.updateVerb
               /\ body = IF t.ty.updateVerb = "PUT" THEN Extend(one, answer) ELSE one
      BY <1>8, <3>2
    <3>. QED
      BY <1>6, <3>1, <3>2
  <2>2. /\ DOMAIN made = DOMAIN one \cup DOMAIN answer
        /\ \A k \in DOMAIN one : made[k] = one[k]
        /\ \A k \in DOMAIN answer : k \notin DOMAIN one => made[k] = answer[k]
    BY ExtendSays
  <2>. HIDE DEF made, honoured
  <2>. DEFINE fields == object.fields
  <2>3. Updated(t, req) = [key |-> object.key, fields |-> taken]
    BY <1>2, <1>8
  <2>4. /\ DOMAIN answer = DOMAIN label \cup DOMAIN fields
        /\ \A w \in DOMAIN answer : w \notin Labels => answer[w] = fields[w]
        /\ DOMAIN fields \cap Labels = {}
    BY <1>5 DEF IsTold, HoldsFields
  <2>. HIDE DEF fields
  <2>5. DOMAIN taken = {wire} \cup DOMAIN fields
    BY <1>1, <1>3, <1>4, <1>5, <2>1, <2>2, <2>4
  <2>6. taken[wire] = value /\ \A w \in DOMAIN fields : w # wire => taken[w] = fields[w]
    BY <1>3, <1>4, <2>1, <2>2, <2>4, <2>5
  <2>7. IsChanged(taken, wire, value, fields)
    BY <2>5, <2>6 DEF IsChanged
  <2>. QED
    BY <2>3, <2>7 DEF fields, wire
<1>. QED
  BY <1>7, <1>8

\* What was held is held still, with the change in it.
LEMMA ChangeHolds ==
  ASSUME NEW t, OneSpelling(t.ty), NEW old, NEW new, HoldsFields(t.ty, old), HoldsFields(t.ty, new), new.key = old.key,
         NEW cfg, Holds(t.ty, t.src, old, cfg), NEW a \in DOMAIN cfg, t.ty.attrs[a].wire \notin Labels,
         NEW value, IsChanged(new.fields, t.ty.attrs[a].wire, value, old.fields)
  PROVE  /\ a # "name" /\ a \in DOMAIN SchemaAttrs(t.ty, Answer(t.src, new))
         /\ Holds(t.ty, t.src, new, [cfg EXCEPT ![a] = value])
<1>. DEFINE ty == t.ty
            src == t.src
            wire == ty.attrs[a].wire
            label == Label(src, old.key)
            before == Answer(src, old)
            after == Answer(src, new)
            toldBefore == SchemaAttrs(ty, before)
            toldAfter == SchemaAttrs(ty, after)
            says == IdSays(t, old.key)
            was == Said(ty, src, old)
            is == Said(ty, src, new)
            changed == [cfg EXCEPT ![a] = value]
<1>1. IsTold(ty, label, old.fields, before) /\ IsTold(ty, label, new.fields, after) /\ DOMAIN label \subseteq Labels
  <2>1. Label(src, new.key) = label
    OBVIOUS
  <2>2. IsTold(ty, Label(src, new.key), new.fields, after)
    BY AnswerShows
  <2>3. IsTold(ty, label, old.fields, before)
    BY AnswerShows
  <2>4. DOMAIN label \subseteq Labels
    BY LabelSays
  <2>. HIDE DEF label, before, after, ty, src
  <2>. QED
    BY <2>1, <2>2, <2>3, <2>4
<1>2. IsBoth(was, toldBefore, says) /\ IsBoth(is, toldAfter, says)
  <2>1. IdSays(t, new.key) = says
    OBVIOUS
  <2>2. IsBoth(is, toldAfter, IdSays(t, new.key))
    BY SaidByBoth
  <2>3. IsBoth(was, toldBefore, says)
    BY SaidByBoth
  <2>. HIDE DEF says, was, is, toldBefore, toldAfter
  <2>. QED
    BY <2>1, <2>2, <2>3
<1>3. /\ DOMAIN cfg \subseteq DOMAIN ty.attrs
      /\ \A b \in DOMAIN cfg : ~ ty.attrs[b].output
      /\ \A b \in DOMAIN cfg \ {"name"} :
           IF b \in DOMAIN was THEN was[b] = cfg[b] ELSE ty.attrs[b].createOnly
      /\ "name" \in DOMAIN cfg =>
           NameShown(ty, old.key, NameTold(src, old.key), WroteShort(ty, cfg)) = cfg["name"]
  BY DEF Holds
<1>4. DOMAIN changed = DOMAIN cfg /\ changed[a] = value /\ \A b \in DOMAIN cfg : b # a => changed[b] = cfg[b]
  OBVIOUS
<1>5. "name" \in DOMAIN ty.attrs => ty.attrs["name"].wire = "name" /\ "name" \in Labels
  BY DEF OneSpelling, SpeltApart, Labels
<1>6. a # "name"
  BY <1>3, <1>5
<1>7. \A b \in DOMAIN cfg : b # a => ty.attrs[b].wire # wire
  BY <1>3 DEF OneSpelling
<1>. HIDE DEF before, after, label, wire, toldBefore, toldAfter, says, was, is, changed
<1>8. \A b \in DOMAIN ty.attrs :
        /\ b \in DOMAIN toldBefore <=> ty.attrs[b].wire \in DOMAIN before
        /\ b \in DOMAIN toldBefore => toldBefore[b] = before[ty.attrs[b].wire]
        /\ b \in DOMAIN toldAfter <=> ty.attrs[b].wire \in DOMAIN after
        /\ b \in DOMAIN toldAfter => toldAfter[b] = after[ty.attrs[b].wire]
  BY <1>1 DEF IsTold, toldBefore, toldAfter
<1>9. /\ DOMAIN new.fields = {wire} \cup DOMAIN old.fields
      /\ new.fields[wire] = value
      /\ \A w \in DOMAIN old.fields : w # wire => new.fields[w] = old.fields[w]
  BY DEF IsChanged, wire
<1>10. /\ DOMAIN after = {wire} \cup DOMAIN before
       /\ after[wire] = value
       /\ \A w \in DOMAIN before : w # wire => after[w] = before[w]
  <2>1. /\ DOMAIN before = DOMAIN label \cup DOMAIN old.fields
        /\ \A w \in DOMAIN before : before[w] = IF w \in Labels THEN label[w] ELSE old.fields[w]
        /\ DOMAIN after = DOMAIN label \cup DOMAIN new.fields
        /\ \A w \in DOMAIN after : after[w] = IF w \in Labels THEN label[w] ELSE new.fields[w]
    BY <1>1 DEF IsTold
  <2>2. wire \notin Labels
    BY DEF wire
  <2>3. DOMAIN old.fields \cap Labels = {}
    BY DEF HoldsFields
  <2>. QED
    BY <1>1, <1>9, <2>1, <2>2, <2>3
<1>11. a \in DOMAIN toldAfter /\ toldAfter[a] = value
  BY <1>3, <1>8, <1>10 DEF wire
<1>12. ASSUME NEW b \in DOMAIN cfg, b # "name"
       PROVE  IF b \in DOMAIN is THEN is[b] = changed[b] ELSE ty.attrs[b].createOnly
  <2>1. CASE b = a
    BY <1>2, <1>4, <1>11, <2>1 DEF IsBoth
  <2>2. CASE b # a
    <3>1. /\ b \in DOMAIN toldAfter <=> b \in DOMAIN toldBefore
          /\ b \in DOMAIN toldBefore => toldAfter[b] = toldBefore[b]
      <4>1. b \in DOMAIN ty.attrs /\ ty.attrs[b].wire # wire
        BY <1>3, <1>7, <2>2
      <4>. QED
        BY <1>8, <1>10, <4>1
    <3>2. b \in DOMAIN is <=> b \in DOMAIN was
      BY <1>2, <3>1 DEF IsBoth
    <3>3. b \in DOMAIN was => is[b] = was[b]
      BY <1>2, <3>1 DEF IsBoth
    <3>. QED
      BY <1>3, <1>4, <1>12, <2>2, <3>2, <3>3
  <2>. QED
    BY <2>1, <2>2
<1>13. ASSUME "name" \in DOMAIN cfg
       PROVE  NameShown(ty, new.key, NameTold(src, new.key), WroteShort(ty, changed)) = changed["name"]
  <2>1. changed["name"] = cfg["name"] /\ "name" \in DOMAIN changed
    BY <1>4, <1>6, <1>13
  <2>2. NameShown(ty, old.key, NameTold(src, old.key), WroteShort(ty, changed)) =
          NameShown(ty, old.key, NameTold(src, old.key), WroteShort(ty, cfg))
    BY <1>13, <2>1, NameShownAgain
  <2>. HIDE DEF ty, src
  <2>. QED
    BY <1>3, <1>13, <2>1, <2>2
<1>. QED
  BY <1>3, <1>4, <1>6, <1>11, <1>12, <1>13 DEF Holds, changed, is, toldAfter, after

-----------------------------------------------------------------------------
(* State and configuration, through every release. *)

\* What is offered under the record's name holds the configuration.
HeldAs(n, r, c) ==
  /\ Key(c) \in DOMAIN published /\ published[Key(c)] = n
  /\ Holds(r.types[c].ty, r.types[c].src, object, config)

\* Release n of a history is served; what comes after it is still to come.
IsAt(h, n) ==
  /\ n \in 0..Len(h)
  /\ Len(releases) = Len(h) - n /\ \A i \in 1..Len(releases) : releases[i] = h[n + i]
  /\ \A name \in DOMAIN types : n > 0 /\ \E c \in DOMAIN h[n].types : ServedAs(name, h[n], c)

\* The configuration is in state, and some release so far held it.
HeldIn(h, n) ==
  record # NoRecord =>
    /\ Covers(record.attrs, config)
    /\ \E i \in 1..n : \E c \in DOMAIN h[i].types : HeldAs(record.type, h[i], c)

\* NothingDrifts is not inductive: state has what was configured only as long
\* as every read shows it again.  So the resource holds it, by its fields, its
\* full name and the name it tells, as some release so far would show it, and
\* every later type of that key, even while none is served.
DriftAt(h, n) == IsAt(h, n) /\ DOMAIN object.fields \subseteq EveryWire \ Labels /\ HeldIn(h, n)

DriftInv == \E h \in Histories : \E n \in Nat : DriftAt(h, n)

LEMMA ServedFieldsFit ==
  ASSUME EverythingFits, EveryFieldFits, LifeInv, NEW n \in DOMAIN types
  PROVE  /\ FieldsFit(types[n]) /\ Fits(types[n])
         /\ Wires(types[n].ty) \subseteq EveryWire /\ SpeltApart(types[n].ty, EveryWire)
<1>0. PICK r \in Offered : \E c \in DOMAIN r.types : ServedAs(n, r, c)
  BY DEF LifeInv
<1>1. PICK c \in DOMAIN r.types : ServedAs(n, r, c)
  BY <1>0
<1>2. types[n] = Named(n, r.types[c]) /\ n \in NameWords
  BY <1>1 DEF ServedAs
<1>3. FieldsFit(types[n]) /\ Fits(types[n])
  BY <1>2, WhatIsServedFits DEF EveryFieldFits
<1>4. types[n].ty = r.types[c].ty
  BY <1>2 DEF Named
<1>5. \A s \in Offered : \A d \in DOMAIN s.types : SpeltApart(types[n].ty, Wires(s.types[d].ty))
  BY <1>4 DEF EveryFieldFits, TypesAgree
<1>6. SpeltApart(types[n].ty, EveryWire)
  <2>1. \A w \in EveryWire : \E s \in Offered : \E d \in DOMAIN s.types : w \in Wires(s.types[d].ty)
    BY DEF EveryWire
  <2>. QED
    BY <1>5, <2>1 DEF SpeltApart
<1>7. Wires(types[n].ty) \subseteq EveryWire
  BY <1>4 DEF EveryWire
<1>. QED
  BY <1>3, <1>6, <1>7

\* Whatever resource has such fields.
LEMMA FieldsAreHeld ==
  ASSUME NEW ty, SpeltApart(ty, EveryWire), NEW obj, DOMAIN obj.fields \subseteq EveryWire \ Labels
  PROVE  HoldsFields(ty, obj)
BY DEF HoldsFields, SpeltApart

\* The names that self asks for say the same of a full name in every type
\* that has this self: its own path comes first (ParseProviderID).
LEMMA ParsedBySelf ==
  ASSUME NEW ty, UrlsAreTemplates(ty), NEW key, Matches(ty.self.path, key)
  PROVE  /\ ParseProviderID(ty, key) = Captures(ty.self.path, key)
         /\ DOMAIN Captures(ty.self.path, key) = PlaceholderNames(ty.self)
<1>. DEFINE s == ty.self.path
            t == ty.imports
            shown == ImportTemplates(ty)
            ok == Accepting(ty, key)
<1>1. IsTemplate(s) /\ ty.self = Path(s) /\ t \in Seq(Seq(Segment))
  BY SelfAndImports
<1>2. 1 \in DOMAIN shown /\ shown[1] = s /\ DOMAIN shown \subseteq Nat \ {0}
  <2>1. s \in Seq(Segment) /\ shown = <<s>> \o t
    BY <1>1 DEF IsTemplate, ImportTemplates
  <2>. HIDE DEF s, t
  <2>. QED
    BY <1>1, <2>1
<1>3. ok = {i \in DOMAIN shown : Matches(shown[i], key) \/ MatchesBound(ty, shown[i], key)}
  BY DEF Accepting
<1>. HIDE DEF shown, ok
<1>4. 1 \in ok /\ ok \subseteq Nat \ {0}
  BY <1>2, <1>3
<1>5. (CHOOSE i \in ok : \A j \in ok : i <= j) = 1
  BY <1>4, FirstOfPlaces
<1>6. FirstAccepting(ty, key) = s
  BY <1>2, <1>5 DEF FirstAccepting, shown, ok
<1>7. ParseProviderID(ty, key) = Captures(s, key)
  BY <1>6 DEF ParseProviderID, ParsedBy
<1>8. DOMAIN Captures(s, key) = PlaceholderNames(Path(s))
  <2>. HIDE DEF s
  <2>. QED
    BY NamesOfPath DEF Captures
<1>. QED
  BY <1>1, <1>7, <1>8

\* Every name is an attribute of its own.
LEMMA NamesShow ==
  ASSUME NEW ty, NEW found,
         \A m, n \in DOMAIN found : ToSchema(ty, m) = ToSchema(ty, n) => m = n
  PROVE  /\ DOMAIN SchemaAttrs(ty, found) = {ToSchema(ty, n) : n \in DOMAIN found}
         /\ \A n \in DOMAIN found : SchemaAttrs(ty, found)[ToSchema(ty, n)] = found[n]
<1>1. DOMAIN SchemaAttrs(ty, found) = {ToSchema(ty, n) : n \in DOMAIN found}
  BY DEF SchemaAttrs
<1>2. ASSUME NEW n \in DOMAIN found
      PROVE  SchemaAttrs(ty, found)[ToSchema(ty, n)] = found[n]
  <2>. DEFINE name == ToSchema(ty, n)
  <2>1. \A m \in DOMAIN found : ToSchema(ty, m) = name => m = n
    OBVIOUS
  <2>2. SchemaAttrs(ty, found)[name] = found[CHOOSE m \in DOMAIN found : ToSchema(ty, m) = name]
    BY DEF SchemaAttrs
  <2>3. (CHOOSE m \in DOMAIN found : ToSchema(ty, m) = name) = n
    BY <2>1
  <2>. QED
    BY <2>2, <2>3
<1>. QED
  BY <1>1, <1>2

\* What is held as one type says is held as a later type of its key says.
LEMMA HoldsStill ==
  ASSUME NEW old, NEW new, KeepsType(old, new),
         UrlsAreTemplates(old.ty), UrlsAreTemplates(new.ty), OneSpelling(old.ty), OneSpelling(new.ty),
         NEW obj, HoldsFields(old.ty, obj), HoldsFields(new.ty, obj), Matches(new.ty.self.path, obj.key),
         NEW cfg, Holds(old.ty, old.src, obj, cfg)
  PROVE  Holds(new.ty, new.src, obj, cfg)
<1>. DEFINE was  == SchemaAttrs(old.ty, Answer(old.src, obj))
            told == SchemaAttrs(new.ty, Answer(new.src, obj))
            P    == ParseProviderID(new.ty, obj.key)
            says == SchemaAttrs(old.ty, P)
            is   == SchemaAttrs(new.ty, P)
            label == Label(new.src, obj.key)
            body == Answer(new.src, obj)
<1>1. Label(old.src, obj.key) = label /\ NameTold(old.src, obj.key) = NameTold(new.src, obj.key)
  BY DEF Label, NameTold, KeepsType
<1>2. /\ Answer(old.src, obj) = Extend(Label(old.src, obj.key), obj.fields)
      /\ IsTold(old.ty, Label(old.src, obj.key), obj.fields, Answer(old.src, obj))
  BY AnswerShows
<1>3. body = Extend(label, obj.fields) /\ IsTold(new.ty, label, obj.fields, body)
  BY AnswerShows
<1>4. Answer(old.src, obj) = body
  BY <1>1, <1>2, <1>3
<1>5. ASSUME NEW a \in DOMAIN old.ty.attrs
      PROVE  /\ a \in DOMAIN new.ty.attrs /\ (a \in DOMAIN was <=> a \in DOMAIN told)
             /\ a \in DOMAIN told => was[a] = told[a]
  <2>1. a \in DOMAIN new.ty.attrs /\ new.ty.attrs[a].wire = old.ty.attrs[a].wire
    BY DEF KeepsType
  <2>2. /\ a \in DOMAIN was <=> old.ty.attrs[a].wire \in DOMAIN body
        /\ old.ty.attrs[a].wire \in DOMAIN body => was[a] = body[old.ty.attrs[a].wire]
    BY <1>2, <1>4 DEF IsTold
  <2>3. /\ a \in DOMAIN told <=> new.ty.attrs[a].wire \in DOMAIN body
        /\ new.ty.attrs[a].wire \in DOMAIN body => told[a] = body[new.ty.attrs[a].wire]
    BY <1>3, <2>1 DEF IsTold
  <2>. HIDE DEF was, told, body
  <2>. QED
    BY <2>1, <2>2, <2>3
<1>6. P = ParseProviderID(old.ty, obj.key) /\ DOMAIN P = PlaceholderNames(old.ty.self)
  <2>1. new.ty.self = old.ty.self /\ Matches(old.ty.self.path, obj.key)
    BY DEF KeepsType
  <2>. QED
    BY <2>1, ParsedBySelf
<1>. HIDE DEF P
<1>7. DOMAIN is = DOMAIN says /\ \A a \in DOMAIN is : is[a] = says[a]
  <2>1. \A m, n \in DOMAIN P : ToSchema(new.ty, m) = ToSchema(old.ty, n) <=> m = n
    BY <1>6 DEF KeepsType
  <2>2. /\ \A n \in DOMAIN P : ToSchema(new.ty, n) = ToSchema(old.ty, n)
        /\ \A m, n \in DOMAIN P : ToSchema(old.ty, m) = ToSchema(old.ty, n) => m = n
        /\ \A m, n \in DOMAIN P : ToSchema(new.ty, m) = ToSchema(new.ty, n) => m = n
    BY <2>1
  <2>3. /\ DOMAIN says = {ToSchema(old.ty, n) : n \in DOMAIN P}
        /\ \A n \in DOMAIN P : says[ToSchema(old.ty, n)] = P[n]
    BY <2>2, NamesShow
  <2>4. /\ DOMAIN is = {ToSchema(new.ty, n) : n \in DOMAIN P}
        /\ \A n \in DOMAIN P : is[ToSchema(new.ty, n)] = P[n]
    BY <2>2, NamesShow
  <2>. HIDE DEF is, says
  <2>. QED
    BY <2>2, <2>3, <2>4
<1>8. IsBoth(Said(old.ty, old.src, obj), was, says)
  BY <1>6, SaidByBoth DEF IdSays
<1>9. IsBoth(Said(new.ty, new.src, obj), told, is)
  BY SaidByBoth DEF IdSays, P
<1>. HIDE DEF was, told, says, is
<1>10. ASSUME NEW a \in DOMAIN cfg
       PROVE  /\ a \in DOMAIN new.ty.attrs /\ ~ new.ty.attrs[a].output
              /\ old.ty.attrs[a].createOnly => new.ty.attrs[a].createOnly
  <2>1. a \in DOMAIN old.ty.attrs /\ ~ old.ty.attrs[a].output
    BY DEF Holds
  <2>. QED
    BY <2>1 DEF KeepsType
<1>11. ASSUME NEW a \in DOMAIN cfg, a # "name"
       PROVE  IF a \in DOMAIN Said(new.ty, new.src, obj) THEN Said(new.ty, new.src, obj)[a] = cfg[a]
              ELSE new.ty.attrs[a].createOnly
  <2>1. a \in DOMAIN old.ty.attrs
    BY DEF Holds
  <2>2. IF a \in DOMAIN Said(old.ty, old.src, obj) THEN Said(old.ty, old.src, obj)[a] = cfg[a]
        ELSE old.ty.attrs[a].createOnly
    BY <1>11 DEF Holds
  <2>3. /\ a \in DOMAIN was <=> a \in DOMAIN told
        /\ a \in DOMAIN told => was[a] = told[a]
    BY <1>5, <2>1
  <2>. QED
    BY <1>7, <1>8, <1>9, <1>10, <2>2, <2>3 DEF IsBoth
<1>12. ASSUME "name" \in DOMAIN cfg
       PROVE  NameShown(new.ty, obj.key, NameTold(new.src, obj.key), WroteShort(new.ty, cfg)) = cfg["name"]
  <2>1. new.ty.self = old.ty.self
    BY DEF KeepsType
  <2>2. NameShown(old.ty, obj.key, NameTold(old.src, obj.key), WroteShort(old.ty, cfg)) = cfg["name"]
    BY <1>12 DEF Holds
  <2>3. WroteShort(new.ty, cfg) <=> WroteShort(old.ty, cfg)
    BY <2>1 DEF WroteShort
  <2>. QED
    BY <1>1, <2>1, <2>2, <2>3 DEF NameShown
<1>. QED
  BY <1>10, <1>11, <1>12 DEF Holds

\* A type that is served holds what it now shows.
LEMMA ServedIsHeld ==
  ASSUME NEW h, NEW n, IsAt(h, n), NEW name \in DOMAIN types
  PROVE  \E i \in 1..n : \E c \in DOMAIN h[i].types :
           /\ Key(c) \in DOMAIN published /\ published[Key(c)] = name
           /\ h[i].types[c].ty = types[name].ty /\ h[i].types[c].src = types[name].src
<1>1. n \in 1..n
  BY DEF IsAt
<1>2. PICK c \in DOMAIN h[n].types : ServedAs(name, h[n], c)
  BY DEF IsAt
<1>3. /\ Key(c) \in DOMAIN published /\ published[Key(c)] = name
      /\ h[n].types[c].ty = types[name].ty /\ h[n].types[c].src = types[name].src
  BY <1>2 DEF ServedAs, Named
<1>. QED
  BY <1>1, <1>3

\* A served record's type holds it: a name belongs to one key, and a key
\* keeps its type from release to release.
LEMMA RecordedIsHeld ==
  ASSUME EverythingFits, EveryFieldFits, CatalogInv, LifeInv,
         NEW h \in Histories, NEW n \in Nat, DriftAt(h, n), Served
  PROVE  LET t == types[record.type]
         IN  /\ FieldsFit(t) /\ FitsItsApi(t) /\ SpeltApart(t.ty, EveryWire) /\ Wires(t.ty) \subseteq EveryWire
             /\ HoldsFields(t.ty, object) /\ Holds(t.ty, t.src, object, config)
<1>. DEFINE t == types[record.type]
<1>1. record # NoRecord /\ record.type \in DOMAIN types
  BY DEF Served
<1>2. FieldsFit(t) /\ Fits(t) /\ SpeltApart(t.ty, EveryWire) /\ Wires(t.ty) \subseteq EveryWire
  BY <1>1, ServedFieldsFit
<1>3. PICK i \in 1..n : \E c \in DOMAIN h[i].types : HeldAs(record.type, h[i], c)
  BY <1>1 DEF DriftAt, HeldIn
<1>4. PICK c \in DOMAIN h[i].types : HeldAs(record.type, h[i], c)
  BY <1>3
<1>5. PICK d \in DOMAIN h[n].types : ServedAs(record.type, h[n], d)
  BY <1>1 DEF DriftAt, IsAt
<1>6. Key(c) = Key(d)
  <2>1. Injective(published)
    BY DEF CatalogInv, NamingInv
  <2>. QED
    BY <1>4, <1>5, <2>1 DEF HeldAs, ServedAs, Injective
<1>7. h \in Seq(Offered) /\ i \in DOMAIN h /\ n \in DOMAIN h /\ i <= n
  <2>1. h \in Seq(Offered)
    BY CatalogAssumption
  <2>2. n \in 0..Len(h)
    BY DEF DriftAt, IsAt
  <2>. QED
    BY <2>1, <2>2
<1>8. KeepsType(h[i].types[c], h[n].types[d])
  BY <1>6, <1>7 DEF EveryFieldFits, TypesAgree
<1>. DEFINE old == h[i].types[c]
            new == h[n].types[d]
<1>9. t.ty = new.ty /\ t.src = new.src
  BY <1>5 DEF ServedAs, Named
<1>10. UrlsAreTemplates(old.ty) /\ OneSpelling(old.ty) /\ SpeltApart(old.ty, EveryWire)
  <2>1. h[i] \in Offered
    BY <1>7
  <2>2. record.type \in NameWords
    BY <1>5 DEF ServedAs
  <2>3. Fits(Named(record.type, old)) /\ FieldsFit(Named(record.type, old))
    BY <2>1, <2>2 DEF EverythingFits, EveryFieldFits
  <2>4. Named(record.type, old).ty = old.ty
    BY DEF Named
  <2>5. \A s \in Offered : \A e \in DOMAIN s.types : SpeltApart(old.ty, Wires(s.types[e].ty))
    BY <2>1 DEF EveryFieldFits, TypesAgree
  <2>6. SpeltApart(old.ty, EveryWire)
    <3>1. \A w \in EveryWire : \E s \in Offered : \E e \in DOMAIN s.types : w \in Wires(s.types[e].ty)
      BY DEF EveryWire
    <3>. HIDE DEF old
    <3>. QED
      BY <2>5, <3>1 DEF SpeltApart
  <2>. QED
    BY <2>3, <2>4, <2>6 DEF Fits, FitsItsApi, FieldsFit
<1>11. FitsItsApi(t) /\ UrlsAreTemplates(t.ty) /\ OneSpelling(t.ty)
  BY <1>2 DEF Fits, FitsItsApi, FieldsFit
<1>12. HoldsFields(old.ty, object) /\ HoldsFields(t.ty, object)
  BY <1>2, <1>10, FieldsAreHeld DEF DriftAt
<1>13. Matches(t.ty.self.path, object.key)
  <2>1. IsResource(object) /\ Matches(GetPath(t.src), object.key)
    <3>1. Injective(published)
      BY DEF CatalogInv, NamingInv
    <3>. QED
      BY <1>1, <3>1, RecordedIsFound
  <2>. QED
    BY <1>11, <2>1, SelfAccepts DEF IsResource
<1>14. Holds(old.ty, old.src, object, config)
  BY <1>4 DEF HeldAs
<1>. HIDE DEF old, new, t
<1>15. KeepsType(old, t)
  BY <1>8, <1>9 DEF old, new, KeepsType
<1>16. Holds(t.ty, t.src, object, config)
  BY <1>10, <1>11, <1>12, <1>13, <1>14, <1>15, HoldsStill
<1>. QED
  BY <1>2, <1>11, <1>12, <1>16 DEF t

LEMMA DriftStarts == Init => DriftInv
<1> SUFFICES ASSUME Init PROVE DriftInv
  OBVIOUS
<1>1. object = NoObject /\ record = NoRecord
  BY DEF Init
<1>2. DOMAIN object.fields = {}
  BY <1>1 DEF NoObject, NoAttrs
<1>3. releases \in Histories /\ releases \in Seq(Offered) /\ DOMAIN types = {}
  BY CatalogAssumption DEF Init, NoAttrs
<1>4. IsAt(releases, 0)
  BY <1>3 DEF IsAt
<1>5. HeldIn(releases, 0)
  BY <1>1 DEF HeldIn
<1>6. DriftAt(releases, 0)
  BY <1>2, <1>4, <1>5 DEF DriftAt
<1> QED BY <1>3, <1>6 DEF DriftInv

\* While no release comes, this one is served.
LEMMA StillAt ==
  ASSUME NEW h, NEW n, IsAt(h, n), UNCHANGED <<naming, releases, types>>
  PROVE  IsAt(h, n)'
<1>1. \A name, c : ServedAs(name, h[n], c) => ServedAs(name, h[n], c)'
  BY DEF ServedAs, naming
<1>. QED
  BY <1>1 DEF IsAt

LEMMA DriftStepCreate ==
  ASSUME EverythingFits, EveryRequestFits, EveryFieldFits, CatalogInv, LifeInv,
         NEW h \in Histories, NEW n \in Nat, DriftAt(h, n),
         NEW name \in DOMAIN types, Create(name)
  PROVE  DriftAt(h, n)'
<1>. DEFINE t == types[name]
            req == NewRequest(t)
            obj == MadeBy(t, req)
            desired == Configured(t)
            scoped == ScopeOfNew(t)
            current == [id |-> obj.key, attrs |-> desired]
<1>1. Published(t.src, req) /\ GivenID(t.src, req) # NoId
  BY CreateIsSent
<1>2. object' = obj /\ IsResource(obj) /\ Matches(GetPath(t.src), obj.key) /\ obj.key # NoId /\ record'.type = name
  BY <1>1, MadeIsRecorded
<1>3. FieldsFit(t) /\ Fits(t) /\ t.name = name /\ Wires(t.ty) \subseteq EveryWire /\ SpeltApart(t.ty, EveryWire)
  BY ServedFieldsFit, WhatIsServedFits
<1>4. CreateAs(t, desired, scoped)
  BY DEF Create, ScopeOfNew
<1>5. /\ UnresolvedCreatePlaceholders(t.ty) = {} /\ Fillable(CreateTemplate(t.ty), scoped)
      /\ Created(t, req, obj, desired, scoped)
      /\ config' = desired /\ UNCHANGED <<naming, releases, types>>
  BY <1>4 DEF CreateAs, NewRequest
<1>6. PICK awaited \in Awaited(t.src, obj) :
        record' = CreateRecord(t, obj, CreatedID(t.ty, awaited, scoped), desired, awaited)
  <2>. HIDE DEF obj, req, t, desired, scoped
  <2>. QED
    BY <1>1, <1>5 DEF Created
<1>7. CreatedID(t.ty, awaited, scoped) = obj.key
  BY <1>1, <1>3, <1>5, CreatedIdIsTheKey
<1>8. CanBeMade(t)
  BY <1>5 DEF CanBeMade
<1>9. /\ DOMAIN obj.fields \subseteq Wires(t.ty) \ Labels
      /\ Holds(t.ty, t.src, obj, desired)
  <2>1. SpeltApart(t.ty, Wires(t.ty))
    BY <1>3 DEF SpeltApart
  <2>. QED
    BY <1>2, <1>3, <1>8, <2>1, CreateHolds
<1>10. Finds(t, obj, obj.key)
  BY <1>2, <1>3, FoundAtItsFullName DEF Fits
<1>11. current.id = obj.key /\ current.attrs = desired
  OBVIOUS
<1>12. \E i \in 1..n : \E c \in DOMAIN h[i].types :
         /\ Key(c) \in DOMAIN published /\ published[Key(c)] = name
         /\ h[i].types[c].ty = t.ty /\ h[i].types[c].src = t.src
  BY ServedIsHeld DEF DriftAt
<1>. HIDE DEF t, obj, req, desired, scoped
<1>13. record' = Recorded(t.name, ReadAs(t, obj, current))
  BY <1>2, <1>6, <1>7, <1>10 DEF CreateRecord
<1>. HIDE DEF current
<1>14. Covers(ReadAs(t, obj, current).attrs, desired)
  <2>1. IsKnown(t.ty, t.src, obj, current.attrs, desired)
    BY <1>11 DEF IsKnown
  <2>2. HoldsFields(t.ty, obj)
    BY <1>3, <1>9, FieldsAreHeld
  <2>. QED
    BY <1>2, <1>3, <1>9, <1>10, <1>11, <2>1, <2>2, ReadKeeps DEF Fits
<1>15. record'.attrs = ReadAs(t, obj, current).attrs
  BY <1>13 DEF Recorded
<1>16. PICK i \in 1..n : \E c \in DOMAIN h[i].types :
         /\ Key(c) \in DOMAIN published /\ published[Key(c)] = name
         /\ h[i].types[c].ty = t.ty /\ h[i].types[c].src = t.src
  BY <1>12
<1>17. \E c \in DOMAIN h[i].types : HeldAs(record.type, h[i], c)'
  BY <1>2, <1>5, <1>9, <1>16 DEF HeldAs, naming
<1>18. HeldIn(h, n)'
  BY <1>5, <1>14, <1>15, <1>17 DEF HeldIn
<1>19. IsAt(h, n)'
  BY <1>5, StillAt DEF DriftAt
<1>. QED
  BY <1>2, <1>3, <1>9, <1>18, <1>19 DEF DriftAt

LEMMA DriftStepImport ==
  ASSUME EverythingFits, EveryFieldFits, LifeInv,
         NEW h \in Histories, NEW n \in Nat, DriftAt(h, n), NEW name \in DOMAIN types, Import(name)
  PROVE  DriftAt(h, n)'
<1>. DEFINE t == types[name]
<1>1. FieldsFit(t) /\ Fits(t) /\ SpeltApart(t.ty, EveryWire)
  BY ServedFieldsFit
<1>2. object # NoObject /\ UNCHANGED <<naming, releases, types, object>>
  BY DEF Import
<1>3. PICK id \in KnownIDs(t, object) :
        /\ Finds(t, object, id)
        /\ record' = Recorded(name, ReadAs(t, object, [id |-> id, attrs |-> ParseProviderID(t.ty, id)]))
        /\ config' = Restrict(record'.attrs, {m \in DOMAIN record'.attrs : ~t.ty.attrs[m].output})
  BY Zenon DEF Import
<1>4. IsResource(object)
  BY <1>2 DEF LifeInv
<1>5. HoldsFields(t.ty, object)
  BY <1>1, FieldsAreHeld DEF DriftAt
<1>6. \E i \in 1..n : \E c \in DOMAIN h[i].types :
        /\ Key(c) \in DOMAIN published /\ published[Key(c)] = name
        /\ h[i].types[c].ty = t.ty /\ h[i].types[c].src = t.src
  BY ServedIsHeld DEF DriftAt
<1>. DEFINE current == [id |-> id, attrs |-> ParseProviderID(t.ty, id)]
            got == ReadAs(t, object, current).attrs
<1>7. current.id = id /\ current.attrs = ParseProviderID(t.ty, current.id)
  OBVIOUS
<1>8. record' = Recorded(name, ReadAs(t, object, current))
  BY <1>3
<1>. HIDE DEF current, t
<1>9. record'.type = name /\ record'.attrs = got
  BY <1>8 DEF Recorded
<1>. DEFINE cfg == Restrict(got, {m \in DOMAIN got : ~ t.ty.attrs[m].output})
<1>10. config' = cfg
  BY <1>3, <1>9
<1>11. Finds(t, object, current.id) /\ current.id \in KnownIDs(t, object)
  BY <1>3, <1>7
<1>12. Holds(t.ty, t.src, object, cfg) /\ Covers(got, cfg)
  BY <1>1, <1>4, <1>5, <1>7, <1>11, ImportHolds
<1>. HIDE DEF cfg, got
<1>13. PICK i \in 1..n : \E c \in DOMAIN h[i].types :
         /\ Key(c) \in DOMAIN published /\ published[Key(c)] = name
         /\ h[i].types[c].ty = t.ty /\ h[i].types[c].src = t.src
  BY <1>6
<1>14. \E c \in DOMAIN h[i].types : HeldAs(record.type, h[i], c)'
  BY <1>2, <1>9, <1>10, <1>12, <1>13 DEF HeldAs, naming
<1>15. HeldIn(h, n)'
  BY <1>9, <1>10, <1>12, <1>14 DEF HeldIn
<1>16. IsAt(h, n)'
  BY <1>2, StillAt DEF DriftAt
<1>. QED
  BY <1>2, <1>15, <1>16 DEF DriftAt

LEMMA DriftStepRead ==
  ASSUME EverythingFits, EveryFieldFits, CatalogInv, LifeInv,
         NEW h \in Histories, NEW n \in Nat, DriftAt(h, n), Read
  PROVE  DriftAt(h, n)'
<1>. DEFINE t == types[record.type]
<1>1. Served /\ UNCHANGED <<naming, releases, types, object, config>>
  BY DEF Read
<1>2. /\ FieldsFit(t) /\ FitsItsApi(t)
      /\ HoldsFields(t.ty, object) /\ Holds(t.ty, t.src, object, config)
  BY <1>1, RecordedIsHeld
<1>3. record # NoRecord /\ record.type \in DOMAIN types
  BY <1>1 DEF Served
<1>4. object # NoObject /\ IsResource(object) /\ record.id = object.key
  BY <1>3 DEF LifeInv
<1>5. record' = NoRecord \/ (Finds(t, object, record.id) /\ record' = Recorded(record.type, ReadAs(t, object, record)))
  BY Zenon DEF Read
<1>6. IsKnown(t.ty, t.src, object, record.attrs, config)
  BY <1>3 DEF IsKnown, DriftAt, HeldIn, Covers
<1>. HIDE DEF t
<1>7. IsAt(h, n)' /\ DOMAIN object'.fields \subseteq EveryWire \ Labels
  BY <1>1, StillAt DEF DriftAt
<1>8. CASE record' = NoRecord
  BY <1>7, <1>8 DEF DriftAt, HeldIn
<1>9. CASE Finds(t, object, record.id) /\ record' = Recorded(record.type, ReadAs(t, object, record))
  <2>1. Covers(ReadAs(t, object, record).attrs, config)
    BY <1>2, <1>4, <1>6, <1>9, ReadKeeps
  <2>2. record'.type = record.type /\ record'.attrs = ReadAs(t, object, record).attrs
    BY <1>9 DEF Recorded
  <2>3. PICK i \in 1..n : \E c \in DOMAIN h[i].types : HeldAs(record.type, h[i], c)
    BY <1>3 DEF DriftAt, HeldIn
  <2>4. \E c \in DOMAIN h[i].types : HeldAs(record.type, h[i], c)'
    BY <1>1, <2>2, <2>3 DEF HeldAs, naming
  <2>. QED
    BY <1>1, <1>7, <2>1, <2>2, <2>4 DEF DriftAt, HeldIn
<1>. QED
  BY <1>5, <1>8, <1>9

LEMMA DriftStepChange ==
  ASSUME EverythingFits, EveryRequestFits, EveryFieldFits, CatalogInv, LifeInv,
         NEW h \in Histories, NEW n \in Nat, DriftAt(h, n),
         NEW a \in DOMAIN config, Change(a)
  PROVE  DriftAt(h, n)'
<1>. DEFINE t == types[record.type]
            value == <<"changed">>
            wire == t.ty.attrs[a].wire
            one == [w \in {wire} |-> value]
            obj == Updated(t, sent')
            changed == [config EXCEPT ![a] = value]
<1>1. /\ Served /\ a \notin t.src.api.fixed /\ ChangesInPlace(t, a)
      /\ UNCHANGED <<naming, releases, types>> /\ object' = obj /\ config' = changed
      /\ sent' = UpdateRequest(t, a, one, ParseProviderID(t.ty, record.id))
  BY DEF Change
<1>2. record' = IF Finds(t, object', record.id) THEN Recorded(record.type, ReadAs(t, object', record)) ELSE record
  BY Zenon DEF Change
<1>3. /\ FieldsFit(t) /\ SpeltApart(t.ty, EveryWire) /\ Wires(t.ty) \subseteq EveryWire
      /\ HoldsFields(t.ty, object) /\ Holds(t.ty, t.src, object, config)
  BY <1>1, RecordedIsHeld
<1>4. /\ FitsItsApi(t) /\ RequestsFit(t) /\ IsResource(object) /\ record.id = object.key
      /\ Matches(GetPath(t.src), object.key)
  BY <1>1, RecordedRequestsFit
<1>5. object = [key |-> object.key, fields |-> object.fields]
  BY DEF LifeInv
<1>6. Published(t.src, sent')
  BY ChangeIsSent
<1>7. record # NoRecord
  BY <1>1 DEF Served
<1>. HIDE DEF t, obj, changed, value
<1>8. IsChange(t, a, one, sent')
  <2>. HIDE DEF one
  <2>. QED
    BY <1>1, <1>4, ChangeSays
<1>9. ItemKey(t.src, sent') = object.key
  <2>1. ChangesTheItem(t)
    BY <1>3 DEF FieldsFit
  <2>. HIDE DEF one
  <2>. QED
    BY <1>1, <1>4, <1>8, <2>1, ChangeIsMeant
<1>10. obj.key = object.key /\ IsChanged(obj.fields, wire, value, object.fields)
  <2>1. SetsOne(t, a, value, sent')
    BY <1>8 DEF SetsOne
  <2>. HIDE DEF one, wire
  <2>2. /\ Updated(t, sent').key = object.key
        /\ IsChanged(Updated(t, sent').fields, t.ty.attrs[a].wire, value, object.fields)
    BY <1>1, <1>3, <1>5, <1>6, <1>9, <2>1, ChangeIsTaken
  <2>. QED
    BY <2>2 DEF obj, wire
<1>11. IsResource(obj)
  BY <1>4, <1>5, UpdatedIsTheSame DEF obj
<1>12. a \in DOMAIN t.ty.attrs /\ wire \in EveryWire \ Labels
  <2>1. a \in DOMAIN t.ty.attrs /\ a \notin t.src.api.fixed
    BY <1>1 DEF ChangesInPlace
  <2>2. wire \notin Labels
    BY <1>1, <1>3, <2>1 DEF FieldsFit, HonoursChanges
  <2>3. wire \in EveryWire
    BY <1>3, <2>1 DEF Wires
  <2>. QED
    BY <2>1, <2>2, <2>3
<1>. HIDE DEF one, wire
<1>13. DOMAIN obj.fields \subseteq EveryWire \ Labels
  BY <1>10, <1>12 DEF DriftAt, IsChanged
<1>14. HoldsFields(t.ty, obj)
  BY <1>3, <1>13, FieldsAreHeld
<1>15. /\ a # "name" /\ a \in DOMAIN SchemaAttrs(t.ty, Answer(t.src, obj))
       /\ Holds(t.ty, t.src, obj, changed)
  <2>1. OneSpelling(t.ty)
    BY <1>3 DEF FieldsFit
  <2>. QED
    BY <1>3, <1>10, <1>12, <1>14, <2>1, ChangeHolds DEF wire, changed
<1>16. IsKnown(t.ty, t.src, obj, record.attrs, changed)
  <2>1. \A b \in DOMAIN config : b \in DOMAIN record.attrs /\ record.attrs[b] = config[b]
    BY <1>7 DEF DriftAt, HeldIn, Covers
  <2>2. DOMAIN changed = DOMAIN config /\ \A b \in DOMAIN config : b # a => changed[b] = config[b]
    BY DEF changed
  <2>. QED
    BY <1>15, <2>1, <2>2 DEF IsKnown
<1>17. Finds(t, obj, obj.key)
  BY <1>4, <1>10, <1>11, FoundAtItsFullName
<1>18. record' = Recorded(record.type, ReadAs(t, obj, record))
  BY <1>1, <1>2, <1>4, <1>10, <1>17
<1>19. record'.type = record.type /\ record'.attrs = ReadAs(t, obj, record).attrs
  BY <1>18 DEF Recorded
<1>20. Covers(ReadAs(t, obj, record).attrs, changed)
  BY <1>3, <1>4, <1>10, <1>11, <1>14, <1>15, <1>16, <1>17, ReadKeeps
<1>21. \E i \in 1..n : \E c \in DOMAIN h[i].types :
         /\ Key(c) \in DOMAIN published /\ published[Key(c)] = record.type
         /\ h[i].types[c].ty = t.ty /\ h[i].types[c].src = t.src
  <2>1. record.type \in DOMAIN types
    BY <1>1 DEF Served
  <2>. QED
    BY <2>1, ServedIsHeld DEF DriftAt, t
<1>22. PICK i \in 1..n : \E c \in DOMAIN h[i].types :
         /\ Key(c) \in DOMAIN published /\ published[Key(c)] = record.type
         /\ h[i].types[c].ty = t.ty /\ h[i].types[c].src = t.src
  BY <1>21
<1>23. \E c \in DOMAIN h[i].types : HeldAs(record.type, h[i], c)'
  BY <1>1, <1>15, <1>19, <1>22 DEF HeldAs, naming
<1>24. HeldIn(h, n)'
  BY <1>1, <1>19, <1>20, <1>23 DEF HeldIn
<1>25. IsAt(h, n)'
  BY <1>1, StillAt DEF DriftAt
<1>. QED
  BY <1>1, <1>13, <1>24, <1>25 DEF DriftAt

\* The next release of the history is served; what it held, it holds.
LEMMA DriftStepRelease ==
  ASSUME CatalogInv, NEW h \in Histories, NEW n \in Nat, DriftAt(h, n), Release
  PROVE  DriftAt(h, n + 1)'
<1>1. h \in Seq(Offered) /\ releases \in Seq(Offered) /\ releases # <<>>
  BY CatalogAssumption, ReleaseServes
<1>2. /\ n \in 0..Len(h) /\ Len(releases) = Len(h) - n
      /\ \A i \in 1..Len(releases) : releases[i] = h[n + i]
  BY DEF DriftAt, IsAt
<1>3. n + 1 \in 1..Len(h) /\ Head(releases) = h[n + 1]
  BY <1>1, <1>2
<1>4. releases' = Tail(releases) /\ UNCHANGED <<object, record, config>>
  BY DEF Release
<1>5. /\ Len(releases') = Len(h) - (n + 1)
      /\ \A i \in 1..Len(releases') : releases'[i] = h[(n + 1) + i]
  <2>1. /\ Len(releases') = Len(releases) - 1
        /\ \A i \in 1..Len(releases) - 1 : releases'[i] = releases[i + 1]
    BY <1>1, <1>4
  <2>2. Len(releases') = Len(h) - (n + 1)
    BY <1>1, <1>2, <2>1
  <2>3. ASSUME NEW i \in 1..Len(releases')
        PROVE  releases'[i] = h[(n + 1) + i]
    <3>1. i + 1 \in 1..Len(releases) /\ i \in 1..Len(releases) - 1 /\ n + (i + 1) = (n + 1) + i
      BY <1>1, <2>1, <2>3
    <3>. QED
      BY <1>2, <2>1, <3>1
  <2>. QED
    BY <2>2, <2>3
<1>6. \A name \in DOMAIN types' : \E c \in DOMAIN h[n + 1].types : ServedAs(name, h[n + 1], c)'
  <2>1. PICK r \in Offered : /\ r = Head(releases)
                             /\ \A name \in DOMAIN types' : \E c \in DOMAIN r.types : ServedAs(name, r, c)'
    BY ReleaseServes
  <2>2. r = h[n + 1]
    BY <1>3, <2>1
  <2>. QED
    BY <2>1, <2>2
<1>7. IsAt(h, n + 1)'
  BY <1>3, <1>5, <1>6 DEF IsAt
<1>8. ASSUME NEW i \in 1..n, NEW c \in DOMAIN h[i].types, HeldAs(record.type, h[i], c)
      PROVE  HeldAs(record.type, h[i], c)'
  <2>1. \A k \in DOMAIN published : k \in DOMAIN published' /\ published'[k] = published[k]
    BY ReleaseServes
  <2>. QED
    BY <1>4, <1>8, <2>1 DEF HeldAs
<1>9. HeldIn(h, n + 1)'
  <2>1. ASSUME record # NoRecord
        PROVE  \E i \in 1..n + 1 : \E c \in DOMAIN h[i].types : HeldAs(record.type, h[i], c)'
    <3>1. PICK i \in 1..n : \E c \in DOMAIN h[i].types : HeldAs(record.type, h[i], c)
      BY <2>1 DEF DriftAt, HeldIn
    <3>2. i \in 1..n + 1
      OBVIOUS
    <3>. QED
      BY <1>8, <3>1, <3>2
  <2>. QED
    BY <1>4, <2>1 DEF DriftAt, HeldIn
<1>. QED
  BY <1>4, <1>7, <1>9 DEF DriftAt

LEMMA DriftStepOther ==
  ASSUME NEW h, NEW n, DriftAt(h, n), UNCHANGED <<published, releases, types, config>>,
         object' = object \/ DOMAIN object'.fields = {},
         record' = NoRecord \/ (record' = record /\ object' = object)
  PROVE  DriftAt(h, n)'
<1>1. \A name, c : ServedAs(name, h[n], c) => ServedAs(name, h[n], c)'
  BY DEF ServedAs
<1>2. IsAt(h, n)'
  BY <1>1 DEF DriftAt, IsAt
<1>3. DOMAIN object'.fields \subseteq EveryWire \ Labels
  BY DEF DriftAt
<1>4. HeldIn(h, n)'
  <2>1. ASSUME record' = record, object' = object
        PROVE  \A i, c : HeldAs(record.type, h[i], c) => HeldAs(record.type, h[i], c)'
    BY <2>1 DEF HeldAs
  <2>2. CASE record' = NoRecord
    BY <2>2 DEF HeldIn
  <2>3. CASE record' = record /\ object' = object /\ record # NoRecord
    <3>1. PICK i \in 1..n : \E c \in DOMAIN h[i].types : HeldAs(record.type, h[i], c)
      BY <2>3 DEF DriftAt, HeldIn
    <3>2. \E c \in DOMAIN h[i].types : HeldAs(record.type, h[i], c)'
      BY <2>1, <2>3, <3>1
    <3>. QED
      BY <2>3, <3>2 DEF DriftAt, HeldIn
  <2>. QED
    BY <2>2, <2>3
<1>. QED
  BY <1>2, <1>3, <1>4 DEF DriftAt

LEMMA DriftStep ==
  ASSUME EverythingFits, EveryRequestFits, EveryFieldFits, CatalogInv, LifeInv, DriftInv, [Next]_vars
  PROVE  DriftInv'
<1>0. PICK h \in Histories : \E n \in Nat : DriftAt(h, n)
  BY DEF DriftInv
<1>1. PICK n \in Nat : DriftAt(h, n)
  BY <1>0
<1>2. ASSUME Generate \/ NameOne \/ SaveLock \/ GenerationDies \/ LockRestored \/ Forget \/ UNCHANGED vars
      PROVE  DriftAt(h, n)'
  <2>1. UNCHANGED <<published, releases, types, object, config>> /\ (record' = record \/ record' = NoRecord)
    BY <1>2 DEF Generate, NameOne, SaveLock, GenerationDies, LockRestored, Forget, Load, Assigning, NameNext, NameNone,
                SaveBegins, SaveEnds, Abandon, Restore, naming, life, vars
  <2>. QED
    BY <1>1, <2>1, DriftStepOther
<1>3. Release => DriftAt(h, n + 1)'
  BY <1>1, DriftStepRelease
<1>4. ASSUME NEW name \in DOMAIN types, Create(name)
      PROVE  DriftAt(h, n)'
  BY <1>1, <1>4, DriftStepCreate
<1>5. ASSUME NEW name \in DOMAIN types, Import(name)
      PROVE  DriftAt(h, n)'
  BY <1>1, <1>5, DriftStepImport
<1>6. Read => DriftAt(h, n)'
  BY <1>1, DriftStepRead
<1>7. ASSUME NEW a \in DOMAIN config, Change(a)
      PROVE  DriftAt(h, n)'
  BY <1>1, <1>7, DriftStepChange
<1>8. ASSUME Delete
      PROVE  DriftAt(h, n)'
  <2>1. /\ UNCHANGED <<published, releases, types, config>>
        /\ record' = NoRecord /\ (object' = NoObject \/ object' = object)
    BY <1>8 DEF Delete, naming
  <2>2. DOMAIN NoObject.fields = {}
    BY DEF NoObject, NoAttrs
  <2>. QED
    BY <1>1, <2>1, <2>2, DriftStepOther
<1>9. Next \/ UNCHANGED vars
  OBVIOUS
<1>10. (\E name \in DOMAIN types : Create(name) \/ Import(name)) => DriftAt(h, n)'
  BY <1>4, <1>5
<1>11. (\E a \in DOMAIN config : Change(a)) => DriftAt(h, n)'
  BY <1>7
<1>12. n \in Nat /\ n + 1 \in Nat
  OBVIOUS
<1>13. DriftAt(h, n)' \/ DriftAt(h, n + 1)'
  <2>. HIDE DEF DriftAt
  <2>. QED
    BY <1>2, <1>3, <1>6, <1>8, <1>9, <1>10, <1>11, Zenon DEF Next
<1>. QED
  BY <1>12, <1>13 DEF DriftInv

(* State says what configuration says, whatever was created, imported,     *)
(* changed in place or read since, over every history of releases in which *)
(* every type fits its API and every field that is configured comes back:  *)
(* no plan repeats itself (stateFrom, shortNameFromOwnID, bodyToSchema,    *)
(* and the masks, bodies and setters of patch.go).                         *)
THEOREM NothingEverDrifts ==
  ASSUME EverythingFits, EveryRequestFits, EveryFieldFits
  PROVE  Spec => []NothingDrifts
<1>1. CatalogInv /\ LifeInv /\ DriftInv /\ [Next]_vars => DriftInv'
  BY DriftStep
<1>2. DriftInv => NothingDrifts
  BY DEF DriftInv, DriftAt, HeldIn, NothingDrifts, Covers
<1>. QED
  BY <1>1, <1>2, DriftStarts, LifeInvariant, PTL DEF Spec
=============================================================================
