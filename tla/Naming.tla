------------------------------- MODULE Naming -------------------------------
(***************************************************************************)
(* The names of the types and the lock that keeps them (gen/names.go, and  *)
(* Build around it): a generation loads the lock, names the candidates     *)
(* that the lock does not know, saves the lock, and publishes what it      *)
(* built under those names.  The lock is a file: a generation that dies    *)
(* while it is written leaves it torn, and someone restores the one that   *)
(* was published with the last catalog.                                    *)
(*                                                                         *)
(* A name is a sequence of words; a candidate's resource is one as well.   *)
(* Two collections may share everything but their path, and then share a   *)
(* key: Publish is where that is caught.                                   *)
(***************************************************************************)
EXTENDS Naturals, Sequences, Maps

CONSTANTS
  Candidates,    \* the collections that may ever ask for a name
  Generations,   \* the sets of them that a generation may have to name
  GenericWords   \* resources too general for a short name (genericWords)

ASSUME NamingAssumption ==
  /\ Candidates \subseteq [service : STRING, scope : STRING, resource : Seq(STRING),
                            qualified : BOOLEAN, path : Seq(STRING)]
  /\ \A c \in Candidates : Len(c.resource) > 0 /\ (c.qualified <=> Len(c.resource) > 1)
  /\ Generations \subseteq SUBSET Candidates

VARIABLES
  lock,        \* the names in the lock's file, by candidate key
  torn,        \* the file is not what anybody meant to write
  phase,       \* of the generation: "idle", "naming", "saving", "built"
  candidates,  \* whom this generation names
  assigned,    \* the names it has given that are not in the lock yet
  published,   \* the lock as it was published with the last catalog
  served       \* the last catalog: a candidate for every name in it

naming == <<lock, torn, phase, candidates, assigned, published, served>>

Nothing == [n \in {} |-> n]

\* Candidate.key, the name in the lock.
Key(c) == <<c.service, c.scope, c.resource>>

Short(c) == c.resource
QualifiedName(c) ==
  IF c.scope = "" THEN <<c.service>> \o c.resource ELSE <<c.service, c.scope>> \o c.resource

Keys == {Key(c) : c \in Candidates}
NameWords == {Short(c) : c \in Candidates} \cup {QualifiedName(c) : c \in Candidates}

\* Names by key.
IsNaming(f) == DOMAIN f \subseteq Keys /\ f \in [DOMAIN f -> NameWords]
Bind(f, k, n) == [j \in DOMAIN f \cup {k} |-> IF j = k THEN n ELSE f[j]]

Injective(f) == \A j, k \in DOMAIN f : f[j] = f[k] => j = k

TypeOK ==
  /\ IsNaming(lock)
  /\ torn \in BOOLEAN
  /\ phase \in {"idle", "naming", "saving", "built"}
  /\ candidates \subseteq Candidates
  /\ IsNaming(assigned)
  /\ IsNaming(published)
  /\ DOMAIN served \subseteq NameWords /\ served \in [DOMAIN served -> Candidates]

\* LoadLock reads an absent file as an empty lock.
NamingInit ==
  /\ lock = Nothing
  /\ torn = FALSE
  /\ phase = "idle"
  /\ candidates = {}
  /\ assigned = Nothing
  /\ published = Nothing
  /\ served = Nothing

-----------------------------------------------------------------------------
(* Assign *)

Fresh == {c \in candidates : Key(c) \notin DOMAIN lock}

\* What everyone has: the lock's names and this call's.
Known == Extend(lock, assigned)

NameFor(c) == Known[Key(c)]

(* Mutant: only the lock's names count as taken. *)
TakenByOther_InTheLock(c, name) == \E k \in DOMAIN lock : lock[k] = name /\ k # Key(c)

TakenByOther(c, name) == \E k \in DOMAIN Known : Known[k] = name /\ k # Key(c)

\* Only those that may have the short name compete for it.
Wanted(c) == {d \in Fresh : d.scope = "" /\ ~d.qualified /\ d.resource = c.resource}
(* Mutant: only rivals that have no name yet are counted. *)
Contested_Unnamed(c) == \E d \in Wanted(c) : d # c /\ Key(d) \notin DOMAIN assigned

Contested(c) == \E d \in Wanted(c) : d # c

TakesShort(c) ==
  /\ c.scope = "" /\ ~c.qualified
  /\ ~Contested(c)
  /\ c.resource[1] \notin GenericWords
  /\ ~TakenByOther(c, Short(c))

\* nameFor
ChosenName(c) == IF TakesShort(c) THEN Short(c) ELSE QualifiedName(c)

\* A candidate the lock knows keeps its name; the others are named in turn.
Load(cs) ==
  /\ phase = "idle"
  /\ ~torn
  /\ phase' = "naming"
  /\ candidates' = cs
  /\ assigned' = Nothing
  /\ UNCHANGED <<lock, torn, published, served>>

NameNext(c) ==
  /\ phase = "naming"
  /\ c \in Fresh /\ Key(c) \notin DOMAIN assigned
  /\ ~TakenByOther(c, ChosenName(c))
  /\ assigned' = Bind(assigned, Key(c), ChosenName(c))
  /\ UNCHANGED <<lock, torn, phase, candidates, published, served>>

\* Both names taken: the whole call fails, and nothing of it is kept.
NameNone(c) ==
  /\ phase = "naming"
  /\ c \in Fresh /\ Key(c) \notin DOMAIN assigned
  /\ TakenByOther(c, ChosenName(c))
  /\ phase' = "idle"
  /\ candidates' = {}
  /\ assigned' = Nothing
  /\ UNCHANGED <<lock, torn, published, served>>

AllNamed == \A c \in Fresh : Key(c) \in DOMAIN assigned

-----------------------------------------------------------------------------
(* The file, and the catalog *)

\* Save truncates the file before it writes it.
SaveBegins ==
  /\ phase = "naming"
  /\ AllNamed
  /\ phase' = "saving"
  /\ torn' = TRUE
  /\ UNCHANGED <<lock, candidates, assigned, published, served>>

(* Mutant: the file is written with the names of this generation alone. *)
SaveEnds_OnlyThese ==
  /\ phase = "saving"
  /\ phase' = "built"
  /\ lock' = [k \in {Key(c) : c \in candidates} |-> Known[k]]
  /\ torn' = FALSE
  /\ assigned' = Nothing
  /\ UNCHANGED <<candidates, published, served>>

SaveEnds ==
  /\ phase = "saving"
  /\ phase' = "built"
  /\ lock' = Known
  /\ torn' = FALSE
  /\ assigned' = Nothing
  /\ UNCHANGED <<candidates, published, served>>

\* The types in built ship, unless two of them have one name
\* (checkNamesAreUnique).
Publish(built) ==
  /\ phase = "built"
  /\ \A c, d \in built : NameFor(c) = NameFor(d) => c = d
  /\ phase' = "idle"
  /\ published' = lock
  /\ served' = [n \in {NameFor(c) : c \in built} |-> CHOOSE c \in built : NameFor(c) = n]
  /\ candidates' = {}
  /\ UNCHANGED <<lock, torn, assigned>>

\* Build fails after the lock was saved, or the process dies at any point.
Abandon ==
  /\ phase # "idle"
  /\ phase' = "idle"
  /\ candidates' = {}
  /\ assigned' = Nothing
  /\ UNCHANGED <<lock, torn, published, served>>

\* LoadLock fails on a torn file until someone restores it.
Restore ==
  /\ phase = "idle"
  /\ torn
  /\ torn' = FALSE
  /\ lock' = published
  /\ UNCHANGED <<phase, candidates, assigned, published, served>>

Assigning == \E c \in Candidates : NameNext(c) \/ NameNone(c)

NamingNext ==
  \/ \E cs \in Generations : Load(cs)
  \/ Assigning
  \/ SaveBegins
  \/ SaveEnds
  \/ \E built \in SUBSET candidates : Publish(built)
  \/ Abandon
  \/ Restore

NamingSpec == NamingInit /\ [][NamingNext]_naming

-----------------------------------------------------------------------------
(* Properties *)

\* No two candidates have one name, in the lock or in the making: nameFor
\* looks at the lock, at the call's own names, and at the unnamed rivals.
NamesAreDistinct == Injective(Known)

\* What a catalog was published with stays in the lock and in every later
\* catalog's, whatever failed, died or was restored in between: a released
\* name never passes to another key.
ReleasedNamesAreKept ==
  [][\A k \in DOMAIN published :
       /\ k \in DOMAIN lock' /\ lock'[k] = published[k]
       /\ k \in DOMAIN published' /\ published'[k] = published[k]]_naming

\* Who is named short or in full does not hang on the order the candidates
\* are named in.
NamesIgnoreTheOrder ==
  phase = "naming" =>
    \A c \in Fresh : Key(c) \in DOMAIN assigned =>
      (assigned[Key(c)] = Short(c)) <=>
        /\ c.scope = "" /\ ~c.qualified
        /\ ~Contested(c) /\ c.resource[1] \notin GenericWords
        /\ \A k \in DOMAIN lock : lock[k] # Short(c)
=============================================================================
