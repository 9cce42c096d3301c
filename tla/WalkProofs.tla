------------------------------ MODULE WalkProofs ----------------------------
(***************************************************************************)
(* The walk of a directory scan finds every file it should, once, whatever   *)
(* the shape of the tree and whatever happens to other files meanwhile.      *)
(***************************************************************************)
EXTENDS ReportProofs, FiniteSetTheorems

Name == Path \cup Dir

closed(S) == \A d \in S \cap Dir : inside(d) \subseteq S

-----------------------------------------------------------------------------
(***************************************************************************)
(* below is the least closed set: what holds of n and is handed down from a  *)
(* directory to its names holds beneath n.                                  *)
(***************************************************************************)
LEMMA NamesTyped ==
    ASSUME NEW d \in Dir
    PROVE  inside(d) \subseteq Name
PROOF
<1>1. Entries[d] \in Seq(Name)
  BY ScanAssumption DEF Name
<1> QED BY <1>1 DEF inside

LEMMA BelowIn ==
    ASSUME NEW n, NEW S \in SUBSET Name, n \in S, closed(S)
    PROVE  below(n) \subseteq S
  BY DEF below, closed, Name

LEMMA BelowClosed ==
    ASSUME NEW n \in Name
    PROVE  n \in below(n) /\ closed(below(n)) /\ below(n) \subseteq Name
PROOF
<1>1. n \in below(n) /\ below(n) \subseteq Name
  BY DEF below, Name
<1>2. ASSUME NEW d \in below(n) \cap Dir, NEW m \in inside(d) PROVE m \in below(n)
  <2>1. m \in Name
    BY <1>2, NamesTyped
  <2>2. ASSUME NEW S \in SUBSET Name, n \in S, \A e \in S \cap Dir : inside(e) \subseteq S
        PROVE  m \in S
    <3>1. d \in S
      BY <1>2, <2>2 DEF below, Name
    <3> QED BY <1>2, <2>2, <3>1
  <2> QED BY <2>1, <2>2 DEF below, Name
<1> QED BY <1>1, <1>2 DEF closed

LEMMA BelowChild ==
    ASSUME NEW d \in Dir, NEW m \in inside(d)
    PROVE  below(m) \subseteq below(d)
PROOF
<1>1. closed(below(d)) /\ d \in below(d) /\ below(d) \subseteq Name
  BY BelowClosed DEF Name
<1>2. m \in below(d)
  BY <1>1 DEF closed
<1> QED BY <1>1, <1>2, BelowIn

LEMMA BelowSplits ==
    ASSUME NEW d \in Dir, NEW x \in below(d)
    PROVE  x = d \/ \E m \in inside(d) : x \in below(m)
PROOF
<1> DEFINE S == {d} \cup {y \in Name : \E m \in inside(d) : y \in below(m)}
<1>1. \A m \in inside(d) : m \in below(m) /\ closed(below(m)) /\ m \in Name /\ below(m) \subseteq Name
  BY NamesTyped, BelowClosed
<1>2. closed(S)
  <2> SUFFICES ASSUME NEW e \in S \cap Dir PROVE inside(e) \subseteq S
    BY DEF closed
  <2>1. CASE e = d
    BY <1>1, <2>1
  <2>2. CASE e # d
    <3>1. PICK m \in inside(d) : e \in below(m)
      BY <2>2
    <3>2. inside(e) \subseteq below(m)
      BY <1>1, <3>1 DEF closed
    <3> QED BY <1>1, <3>1, <3>2
  <2> QED BY <2>1, <2>2
<1>3. S \in SUBSET Name
  BY DEF Name
<1>4. below(d) \subseteq S
  BY <1>2, <1>3, BelowIn
<1> QED BY <1>4

LEMMA BelowParent ==
    ASSUME NEW n \in Name, NEW x \in below(n)
    PROVE  x = n \/ \E e \in Dir \cap below(n) : x \in inside(e)
PROOF
<1> DEFINE S == {n} \cup {y \in Name : \E e \in Dir \cap below(n) : y \in inside(e)}
<1>1. n \in below(n) /\ closed(below(n)) /\ below(n) \subseteq Name
  BY BelowClosed
<1>2. S \subseteq below(n)
  BY <1>1 DEF closed
<1>3. closed(S)
  <2> SUFFICES ASSUME NEW e \in S \cap Dir PROVE inside(e) \subseteq S
    BY DEF closed
  <2>1. e \in Dir \cap below(n) /\ inside(e) \subseteq Name
    BY <1>2, NamesTyped
  <2> QED BY <2>1
<1>4. S \in SUBSET Name
  OBVIOUS
<1>5. below(n) \subseteq S
  BY <1>3, <1>4, BelowIn
<1> QED BY <1>5

LEMMA BelowFile ==
    ASSUME NEW p \in Path
    PROVE  below(p) = {p}
PROOF
<1>1. closed({p}) /\ {p} \in SUBSET Name
  BY ScanAssumption DEF closed, Name
<1>2. below(p) \subseteq {p} /\ p \in below(p)
  BY <1>1, BelowIn, BelowClosed DEF Name
<1> QED BY <1>2

\* Two names of one directory have nothing beneath them in common.
LEMMA BelowDisjoint ==
    ASSUME NEW d \in Dir, NEW m \in inside(d), NEW n \in inside(d), m # n
    PROVE  below(m) \cap below(n) = {}
PROOF
<1> DEFINE S == {x \in below(m) : x \notin below(n)}
<1>1. m \in Name /\ n \in Name /\ d \notin below(m) /\ d \notin below(n)
  BY NamesTyped, TreeAssumption
<1>2. ASSUME NEW e \in Dir, inside(d) \cap inside(e) # {} PROVE e = d
  BY <1>2, TreeAssumption
<1>3. \A e, f \in Dir : inside(e) \cap inside(f) # {} => e = f
  BY TreeAssumption
<1>4. m \in S
  <2>1. m \in below(m)
    BY <1>1, BelowClosed
  <2>2. m \notin below(n)
    <3> SUFFICES ASSUME m \in below(n) PROVE FALSE
      OBVIOUS
    <3>1. PICK e \in Dir \cap below(n) : m \in inside(e)
      BY <1>1, BelowParent
    <3>2. e = d
      BY <1>2, <3>1
    <3> QED BY <1>1, <3>1, <3>2
  <2> QED BY <2>1, <2>2
<1>5. closed(S)
  <2> SUFFICES ASSUME NEW e \in S \cap Dir, NEW y \in inside(e) PROVE y \in S
    BY DEF closed
  <2>1. y \in below(m)
    BY <1>1, BelowClosed DEF closed
  <2>2. y \notin below(n)
    <3> SUFFICES ASSUME y \in below(n) PROVE FALSE
      OBVIOUS
    <3>1. CASE y = n
      <4>1. e = d
        BY <1>2, <3>1
      <4> QED BY <1>1, <4>1
    <3>2. CASE \E f \in Dir \cap below(n) : y \in inside(f)
      <4>1. PICK f \in Dir \cap below(n) : y \in inside(f)
        BY <3>2
      <4>2. e = f
        BY <1>3, <4>1
      <4> QED BY <4>1, <4>2
    <3> QED BY <1>1, <3>1, <3>2, BelowParent
  <2> QED BY <2>1, <2>2
<1>6. S \in SUBSET Name
  BY <1>1, BelowClosed
<1>7. below(m) \subseteq S
  BY <1>4, <1>5, <1>6, BelowIn
<1> QED BY <1>7

-----------------------------------------------------------------------------
(***************************************************************************)
(* A listing has the names of a directory that are there, each once.         *)
(***************************************************************************)
LEMMA Listing ==
    ASSUME FileTypes, NEW d \in Dir, NEW s \in listings(d)
    PROVE  /\ s \in Seq(Name)
           /\ \A i \in DOMAIN s : s[i] \in inside(d)
           /\ \A i, j \in DOMAIN s : s[i] = s[j] => i = j
           /\ \A m \in inside(d) : (m \in Path => exists(m)) => \E i \in DOMAIN s : s[i] = m
PROOF
<1> DEFINE E == Entries[d]
           P == listed(d)
           n == Cardinality(P)
<1>1. E \in Seq(Name)
  BY ScanAssumption DEF Name
<1>2. Len(E) \in Nat /\ P \subseteq 1..Len(E) /\ P \subseteq DOMAIN E
  <2>1. P \subseteq DOMAIN E
    BY DEF listed
  <2> HIDE DEF E, P
  <2> QED BY <1>1, <2>1, LenProperties
<1>3. IsFiniteSet(P) /\ n \in Nat
  <2>1. IsFiniteSet(1..Len(E))
    BY <1>2, FS_Interval
  <2>2. IsFiniteSet(P)
    BY <1>2, <2>1, FS_Subset
  <2> QED BY <2>2, FS_CardinalityType
<1>4. PICK at \in [1..n -> P] : /\ \A i, j \in 1..n : i < j => at[i] < at[j]
                                /\ s = [i \in 1..n |-> E[at[i]]]
  BY DEF listings
<1>5. \A i, j \in 1..n : at[i] = at[j] => i = j
  <2> SUFFICES ASSUME NEW i \in 1..n, NEW j \in 1..n, at[i] = at[j], i # j PROVE FALSE
    OBVIOUS
  <2>1. i < j \/ j < i
    BY <1>3
  <2>2. at[i] < at[j] \/ at[j] < at[i]
    BY <1>4, <2>1
  <2>3. at[i] \in Nat /\ at[j] \in Nat
    BY <1>2, <1>4
  <2> QED BY <2>2, <2>3
<1>6. ASSUME NEW k \in P PROVE \E i \in 1..n : at[i] = k
  <2>1. at \in Injection(1..n, P)
    BY <1>4, <1>5 DEF Injection, IsInjective
  <2>2. IsFiniteSet(1..n) /\ Cardinality(1..n) = n
    BY <1>3, FS_Interval
  <2>3. at \in Surjection(1..n, P)
    BY <1>3, <2>1, <2>2, FS_Injection
  <2> QED BY <1>6, <2>3 DEF Surjection
<1> HIDE DEF E, P, n
<1>7. DOMAIN s = 1..n /\ \A i \in 1..n : s[i] = E[at[i]] /\ at[i] \in DOMAIN E
  BY <1>2, <1>4
<1>8. \A i \in DOMAIN s : s[i] \in inside(d) /\ s[i] \in Name
  <2>1. inside(d) = {E[k] : k \in DOMAIN E} /\ inside(d) \subseteq Name
    BY NamesTyped DEF inside, E
  <2> QED BY <1>7, <2>1
<1>9. s \in Seq(Name)
  <2>1. s \in [1..n -> Name]
    BY <1>4, <1>7, <1>8
  <2> QED BY <1>3, <2>1
<1>10. ASSUME NEW i \in DOMAIN s, NEW j \in DOMAIN s, s[i] = s[j] PROVE i = j
  <2>1. \A k, l \in DOMAIN E : E[k] = E[l] => k = l
    BY TreeAssumption DEF E
  <2>2. at[i] = at[j]
    BY <1>7, <1>10, <2>1
  <2> QED BY <1>5, <1>7, <2>2
<1>11. ASSUME NEW m \in inside(d), m \in Path => exists(m)
       PROVE  \E i \in DOMAIN s : s[i] = m
  <2>1. PICK k \in DOMAIN E : E[k] = m
    BY DEF inside, E
  <2>2. k \in P
    BY <1>11, <2>1 DEF listed, P, E
  <2>3. PICK i \in 1..n : at[i] = k
    BY <1>6, <2>2
  <2> QED BY <1>7, <2>1, <2>3
<1> QED BY <1>8, <1>9, <1>10, <1>11

-----------------------------------------------------------------------------
(***************************************************************************)
(* What is ahead of the walk: span.                                          *)
(***************************************************************************)
LEMMA SpanFile ==
    ASSUME NEW p \in Path
    PROVE  span(job, p) = {p}
  BY BelowFile, ScanAssumption DEF span

LEMMA SpanSkips ==
    ASSUME NEW d \in Dir, ~descends(d)
    PROVE  span(job, d) = {d}
  BY DEF span, descends

LEMMA ChildIsNot ==
    ASSUME NEW d \in Dir, NEW m \in inside(d)
    PROVE  m # d
PROOF
<1>1. d \notin below(m) /\ m \in Name
  BY NamesTyped, TreeAssumption
<1> QED BY <1>1, BelowClosed

LEMMA SpanDescends ==
    ASSUME NEW d \in Dir, descends(d)
    PROVE  /\ \A m \in inside(d) : span(job, m) \subseteq span(job, d)
           /\ \A m, n \in inside(d) : m # n => span(job, m) \cap span(job, n) = {}
           /\ \A x \in span(job, d) : x = d \/ \E m \in inside(d) : x \in span(job, m)
PROOF
<1>1. CASE job.recursive
  BY <1>1, BelowChild, BelowDisjoint, BelowSplits DEF span
<1>2. CASE ~job.recursive
  <2>1. d = job.rest[1] /\ span(job, d) = {d} \cup inside(d)
    BY <1>2 DEF descends, span
  <2>2. \A m \in inside(d) : span(job, m) = {m}
    BY <1>2, <2>1, ChildIsNot DEF span
  <2> QED BY <2>1, <2>2
<1> QED BY <1>1, <1>2

LEMMA SpanScope ==
    ASSUME NEW p \in Path, job.rest[1] \in Name
    PROVE  inScope(p) => p \in span(job, job.rest[1])
PROOF
<1> DEFINE r == job.rest[1]
<1>1. CASE r = p
  BY <1>1, SpanFile
<1>2. CASE r \in Dir /\ p \in inside(r)
  BY <1>2, BelowClosed DEF span, closed
<1>3. CASE job.recursive /\ p \in below(r)
  BY <1>3 DEF span
<1> QED BY <1>1, <1>2, <1>3 DEF inScope

-----------------------------------------------------------------------------
(***************************************************************************)
(* The inductive invariant: what is still to be visited from two entries of  *)
(* todo is disjoint, and disjoint from the targets; and a wanted file is a   *)
(* target or still to be visited.                                           *)
(***************************************************************************)
wanted(p) == p \notin touched /\ inScope(p) /\ isELF(p)

collected(p) == \E i \in DOMAIN paths : paths[i] = p

pending(p) == \E k \in DOMAIN todo : p \in span(job, todo[k])

NoRepeat == \A i, k \in DOMAIN paths : paths[i] = paths[k] => i = k

Apart == \A k, l \in DOMAIN todo : k # l => span(job, todo[k]) \cap span(job, todo[l]) = {}

NotAgain == \A i \in DOMAIN paths, k \in DOMAIN todo : paths[i] \notin span(job, todo[k])

Covered == \A p \in Path : wanted(p) => collected(p) \/ pending(p)

Visiting == todo \in Seq(Name) /\ Apart /\ NotAgain /\ Covered

IWalk ==
    dirScan => /\ NoRepeat
               /\ phase = "walk" => Visiting
               /\ walked => \A p \in Path : wanted(p) => collected(p)

LEMMA Popped ==
    ASSUME NEW t \in Seq(Name), t # <<>>
    PROVE  /\ Head(t) = t[1] /\ 1 \in DOMAIN t /\ Head(t) \in Name
           /\ Tail(t) \in Seq(Name)
           /\ \A k \in DOMAIN Tail(t) : k + 1 \in DOMAIN t /\ k + 1 # 1 /\ Tail(t)[k] = t[k + 1]
           /\ \A l \in DOMAIN t : l # 1 => l - 1 \in DOMAIN Tail(t) /\ Tail(t)[l - 1] = t[l]
PROOF
<1>1. /\ Len(t) \in Nat \ {0} /\ DOMAIN t = 1..Len(t) /\ \A i \in DOMAIN t : t[i] \in Name
      /\ Tail(t) \in Seq(Name) /\ Len(Tail(t)) = Len(t) - 1
      /\ DOMAIN Tail(t) = 1..(Len(t) - 1) /\ Head(t) = t[1]
      /\ \A k \in 1..(Len(t) - 1) : Tail(t)[k] = t[k + 1]
  BY HeadTailProperties
<1> QED BY <1>1

\* u is s followed by what is behind the head of t, entry by entry.
replaces(u, s, t) ==
    /\ u \in Seq(Name)
    /\ \A k \in DOMAIN s : k \in DOMAIN u /\ u[k] = s[k]
    /\ \A l \in DOMAIN t : l # 1 => \E k \in DOMAIN u : u[k] = t[l]
    /\ \A k \in DOMAIN u : \/ k \in DOMAIN s /\ u[k] = s[k]
                           \/ /\ k + 1 - Len(s) \in DOMAIN t /\ k + 1 - Len(s) # 1
                              /\ u[k] = t[k + 1 - Len(s)]

LEMMA Replaced ==
    ASSUME NEW t \in Seq(Name), t # <<>>, NEW s \in Seq(Name), NEW u, u = s \o Tail(t)
    PROVE  replaces(u, s, t)
PROOF
<1> DEFINE r == Tail(t)
<1>1. /\ r \in Seq(Name) /\ DOMAIN r = 1..Len(r) /\ DOMAIN s = 1..Len(s)
      /\ Len(r) \in Nat /\ Len(s) \in Nat
      /\ \A k \in DOMAIN r : k + 1 \in DOMAIN t /\ k + 1 # 1 /\ r[k] = t[k + 1]
      /\ \A l \in DOMAIN t : l # 1 => l - 1 \in DOMAIN r /\ r[l - 1] = t[l]
  BY Popped
<1> HIDE DEF r
<1>2. /\ u \in Seq(Name) /\ DOMAIN u = 1..(Len(s) + Len(r))
      /\ \A k \in 1..(Len(s) + Len(r)) : u[k] = IF k <= Len(s) THEN s[k] ELSE r[k - Len(s)]
  BY <1>1, ConcatProperties DEF r
<1>3. \A k \in DOMAIN s : k \in DOMAIN u /\ u[k] = s[k]
  BY <1>1, <1>2
<1>4. ASSUME NEW l \in DOMAIN t, l # 1 PROVE \E k \in DOMAIN u : u[k] = t[l]
  <2>1. l - 1 \in 1..Len(r) /\ r[l - 1] = t[l]
    BY <1>1, <1>4
  <2>2. PICK m \in 1..Len(r) : r[m] = t[l]
    BY <2>1
  <2>3. m + Len(s) \in DOMAIN u /\ u[m + Len(s)] = r[m]
    <3>1. /\ m + Len(s) \in 1..(Len(s) + Len(r)) /\ ~(m + Len(s) <= Len(s))
          /\ (m + Len(s)) - Len(s) = m
      BY <1>1
    <3> QED BY <1>2, <3>1
  <2> QED BY <2>2, <2>3
<1>5. ASSUME NEW k \in DOMAIN u
      PROVE  \/ k \in DOMAIN s /\ u[k] = s[k]
             \/ /\ k + 1 - Len(s) \in DOMAIN t /\ k + 1 - Len(s) # 1
                /\ u[k] = t[k + 1 - Len(s)]
  <2>1. CASE k <= Len(s)
    BY <1>1, <1>2, <2>1
  <2>2. CASE ~(k <= Len(s))
    <3>1. PICK m \in 1..Len(r) : k = m + Len(s)
      <4>1. k - Len(s) \in 1..Len(r) /\ k = (k - Len(s)) + Len(s)
        BY <1>1, <1>2, <2>2
      <4> QED BY <4>1
    <3>2. u[k] = r[m] /\ m + 1 = k + 1 - Len(s)
      BY <1>1, <1>2, <3>1
    <3> QED BY <1>1, <3>2
  <2> QED BY <2>1, <2>2
<1> QED BY <1>2, <1>3, <1>4, <1>5 DEF replaces

-----------------------------------------------------------------------------
(***************************************************************************)
(* One step of the walk.                                                    *)
(***************************************************************************)
LEMMA WantedKept ==
    ASSUME UNCHANGED <<job, files, disk, touched>>
    PROVE  \A p \in Path : wanted(p)' <=> wanted(p)
  BY DEF wanted, inScope, isELF, canOpen, exists

LEMMA Descends ==
    ASSUME FileTypes, Visiting, walking, Head(todo) \in Dir, descends(Head(todo)),
           NEW s \in listings(Head(todo)), todo' = s \o Tail(todo),
           UNCHANGED <<job, paths, files, disk, touched>>
    PROVE  Visiting'
PROOF
<1> DEFINE d == Head(todo)
<1>1. todo \in Seq(Name) /\ todo # <<>> /\ Apart /\ NotAgain /\ Covered
  BY DEF Visiting, walking
<1>2. d = todo[1] /\ 1 \in DOMAIN todo
  BY <1>1, Popped
<1>3. /\ s \in Seq(Name) /\ \A i \in DOMAIN s : s[i] \in inside(d)
      /\ \A i, j \in DOMAIN s : s[i] = s[j] => i = j
      /\ \A m \in inside(d) : (m \in Path => exists(m)) => \E i \in DOMAIN s : s[i] = m
  BY Listing
<1>4. /\ \A m \in inside(d) : span(job, m) \subseteq span(job, d)
      /\ \A m, n \in inside(d) : m # n => span(job, m) \cap span(job, n) = {}
      /\ \A x \in span(job, d) : x = d \/ \E m \in inside(d) : x \in span(job, m)
  BY SpanDescends
<1>5. /\ todo' \in Seq(Name)
      /\ \A k \in DOMAIN s : k \in DOMAIN todo' /\ todo'[k] = s[k]
      /\ \A l \in DOMAIN todo : l # 1 => \E k \in DOMAIN todo' : todo'[k] = todo[l]
      /\ \A k \in DOMAIN todo' :
            \/ k \in DOMAIN s /\ todo'[k] = s[k]
            \/ /\ k + 1 - Len(s) \in DOMAIN todo /\ k + 1 - Len(s) # 1
               /\ todo'[k] = todo[k + 1 - Len(s)]
  <2>1. replaces(todo', s, todo)
    BY <1>1, <1>3, Replaced
  <2> QED BY <2>1 DEF replaces
<1>6. Apart'
  <2> SUFFICES ASSUME NEW k \in DOMAIN todo', NEW l \in DOMAIN todo', k # l
               PROVE  span(job, todo'[k]) \cap span(job, todo'[l]) = {}
    BY DEF Apart
  <2>1. CASE k \in DOMAIN s /\ l \in DOMAIN s
    BY <1>3, <1>4, <1>5, <2>1
  <2>a. ASSUME NEW m \in DOMAIN s, NEW n \in DOMAIN todo, n # 1
        PROVE  span(job, s[m]) \cap span(job, todo[n]) = {}
    <3>1. span(job, s[m]) \subseteq span(job, todo[1])
      BY <1>2, <1>3, <1>4
    <3>2. span(job, todo[1]) \cap span(job, todo[n]) = {}
      BY <1>1, <1>2, <2>a DEF Apart
    <3> QED BY <3>1, <3>2
  <2>2. CASE k \in DOMAIN s /\ l \notin DOMAIN s
    BY <1>5, <2>a, <2>2
  <2>3. CASE k \notin DOMAIN s /\ l \in DOMAIN s
    <3>1. span(job, todo'[l]) \cap span(job, todo'[k]) = {}
      BY <1>5, <2>a, <2>3
    <3> QED BY <3>1
  <2>4. CASE k \notin DOMAIN s /\ l \notin DOMAIN s
    <3>1. /\ k + 1 - Len(s) \in DOMAIN todo /\ todo'[k] = todo[k + 1 - Len(s)]
          /\ l + 1 - Len(s) \in DOMAIN todo /\ todo'[l] = todo[l + 1 - Len(s)]
      BY <1>5, <2>4
    <3>2. k + 1 - Len(s) # l + 1 - Len(s)
      <4>1. k \in Int /\ l \in Int /\ Len(s) \in Int
        BY <1>3, <1>5
      <4> QED BY <4>1
    <3> QED BY <1>1, <3>1, <3>2 DEF Apart
  <2> QED BY <2>1, <2>2, <2>3, <2>4
<1>7. NotAgain'
  <2> SUFFICES ASSUME NEW i \in DOMAIN paths, NEW k \in DOMAIN todo'
               PROVE  paths[i] \notin span(job, todo'[k])
    BY DEF NotAgain
  <2>1. CASE k \in DOMAIN s
    <3>1. span(job, todo'[k]) \subseteq span(job, todo[1])
      BY <1>2, <1>3, <1>4, <1>5, <2>1
    <3> QED BY <1>1, <1>2, <3>1 DEF NotAgain
  <2>2. CASE k \notin DOMAIN s
    BY <1>1, <1>5, <2>2 DEF NotAgain
  <2> QED BY <2>1, <2>2
<1>8. Covered'
  <2> SUFFICES ASSUME NEW p \in Path, wanted(p), ~collected(p)
               PROVE  \E k \in DOMAIN todo' : p \in span(job, todo'[k])
    BY WantedKept DEF Covered, collected, pending
  <2>1. PICK l \in DOMAIN todo : p \in span(job, todo[l])
    BY <1>1 DEF Covered, pending
  <2>2. CASE l # 1
    <3>1. PICK k \in DOMAIN todo' : todo'[k] = todo[l]
      BY <1>5, <2>2
    <3> QED BY <2>1, <3>1
  <2>3. CASE l = 1
    <3>1. p # d
      BY ScanAssumption
    <3>2. PICK m \in inside(d) : p \in span(job, m)
      BY <1>2, <1>4, <2>1, <2>3, <3>1
    <3>3. m \in Path => exists(m)
      <4> SUFFICES ASSUME m \in Path PROVE exists(m)
        OBVIOUS
      <4>1. m = p
        BY <3>2, SpanFile
      <4> QED BY <4>1 DEF wanted, isELF, canOpen
    <3>4. PICK i \in DOMAIN s : s[i] = m
      BY <1>3, <3>3
    <3>5. i \in DOMAIN todo' /\ todo'[i] = m
      BY <1>5, <3>4
    <3> QED BY <3>2, <3>5
  <2> QED BY <2>2, <2>3
<1> QED BY <1>5, <1>6, <1>7, <1>8 DEF Visiting

\* What is popped and not descended into leads nowhere else.
LEMMA Pops ==
    ASSUME Visiting, walking, todo' = Tail(todo), UNCHANGED job
    PROVE  /\ todo' \in Seq(Name) /\ Apart'
           /\ \A k \in DOMAIN todo' : k + 1 \in DOMAIN todo /\ k + 1 # 1 /\ todo'[k] = todo[k + 1]
           /\ \A p : pending(p) => p \in span(job, Head(todo)) \/ pending(p)'
PROOF
<1>1. todo \in Seq(Name) /\ todo # <<>> /\ Apart
  BY DEF Visiting, walking
<1>2. /\ Head(todo) = todo[1] /\ 1 \in DOMAIN todo /\ todo' \in Seq(Name)
      /\ \A k \in DOMAIN todo' : k + 1 \in DOMAIN todo /\ k + 1 # 1 /\ todo'[k] = todo[k + 1]
      /\ \A l \in DOMAIN todo : l # 1 => l - 1 \in DOMAIN todo' /\ todo'[l - 1] = todo[l]
  BY <1>1, Popped
<1>3. Apart'
  <2> SUFFICES ASSUME NEW k \in DOMAIN todo', NEW l \in DOMAIN todo', k # l
               PROVE  span(job, todo'[k]) \cap span(job, todo'[l]) = {}
    BY DEF Apart
  <2>1. k \in Int /\ l \in Int
    BY <1>2
  <2>2. k + 1 # l + 1
    BY <2>1
  <2>3. /\ k + 1 \in DOMAIN todo /\ todo'[k] = todo[k + 1]
        /\ l + 1 \in DOMAIN todo /\ todo'[l] = todo[l + 1]
    BY <1>2
  <2> QED BY <1>1, <2>2, <2>3 DEF Apart
<1>4. ASSUME NEW p, pending(p), p \notin span(job, Head(todo)) PROVE pending(p)'
  <2>1. PICK l \in DOMAIN todo : p \in span(job, todo[l])
    BY <1>4 DEF pending
  <2>2. l # 1
    BY <1>2, <1>4, <2>1
  <2>3. l - 1 \in DOMAIN todo' /\ todo'[l - 1] = todo[l]
    BY <1>2, <2>2
  <2> QED BY <2>1, <2>3 DEF pending
<1> QED BY <1>2, <1>3, <1>4

LEMMA Skips ==
    ASSUME Visiting, walking, Head(todo) \in Dir, ~descends(Head(todo)), todo' = Tail(todo),
           UNCHANGED <<job, paths, files, disk, touched>>
    PROVE  Visiting'
PROOF
<1>1. NotAgain /\ Covered
  BY DEF Visiting
<1>2. span(job, Head(todo)) = {Head(todo)}
  BY SpanSkips
<1>3. NotAgain'
  BY <1>1, Pops DEF NotAgain
<1>4. Covered'
  <2> SUFFICES ASSUME NEW p \in Path, wanted(p), ~collected(p) PROVE pending(p)'
    BY WantedKept DEF Covered, collected
  <2>1. pending(p) /\ p # Head(todo)
    BY <1>1, ScanAssumption DEF Covered
  <2> QED BY <1>2, <2>1, Pops
<1> QED BY <1>3, <1>4, Pops DEF Visiting

LEMMA Collects ==
    ASSUME RunTypes, NoRepeat, Visiting, VisitFile
    PROVE  NoRepeat' /\ Visiting'
PROOF
<1> DEFINE h == Head(todo)
<1>1. /\ walking /\ h \in Path /\ todo' = Tail(todo) /\ UNCHANGED <<job, files, disk, touched>>
      /\ paths' = IF isELF(h) THEN Append(paths, h) ELSE paths
  BY DEF VisitFile, fsVars
<1>2. /\ todo \in Seq(Name) /\ todo # <<>> /\ NotAgain /\ Covered /\ Apart
      /\ paths \in Seq(Path) /\ Len(paths) \in Nat /\ DOMAIN paths = 1..Len(paths)
  BY <1>1 DEF Visiting, walking, RunTypes
<1>3. span(job, h) = {h} /\ h = todo[1] /\ 1 \in DOMAIN todo
  BY <1>1, <1>2, SpanFile, Popped
<1>4. \A i \in DOMAIN paths : paths[i] # h
  BY <1>2, <1>3 DEF NotAgain
<1>5. /\ \A i \in DOMAIN paths : i \in DOMAIN paths' /\ paths'[i] = paths[i]
      /\ isELF(h) => \E i \in DOMAIN paths' : paths'[i] = h
      /\ \A i \in DOMAIN paths' : \/ i \in DOMAIN paths /\ paths'[i] = paths[i]
                                  \/ i = Len(paths) + 1 /\ paths'[i] = h
  <2>1. CASE isELF(h)
    <3> HIDE DEF h
    <3>1. /\ DOMAIN paths' = 1..(Len(paths) + 1) /\ paths'[Len(paths) + 1] = h
          /\ \A i \in 1..Len(paths) : paths'[i] = paths[i]
      BY <1>1, <1>2, <2>1, AppendOne
    <3>2. \A i \in 1..(Len(paths) + 1) : i \in 1..Len(paths) \/ i = Len(paths) + 1
      BY <1>2
    <3>3. Len(paths) + 1 \in DOMAIN paths'
      BY <1>2, <3>1
    <3> QED BY <1>2, <3>1, <3>2, <3>3
  <2>2. CASE ~isELF(h)
    BY <1>1, <2>2
  <2> QED BY <2>1, <2>2
<1> HIDE DEF h
<1>6. NoRepeat'
  BY <1>4, <1>5 DEF NoRepeat
<1>7. NotAgain'
  <2> SUFFICES ASSUME NEW i \in DOMAIN paths', NEW k \in DOMAIN todo'
               PROVE  paths'[i] \notin span(job, todo'[k])
    BY <1>1 DEF NotAgain
  <2>1. k + 1 \in DOMAIN todo /\ k + 1 # 1 /\ todo'[k] = todo[k + 1]
    BY <1>1, Pops
  <2>2. CASE i \in DOMAIN paths /\ paths'[i] = paths[i]
    BY <1>2, <2>1, <2>2 DEF NotAgain
  <2>3. CASE paths'[i] = h
    <3>1. span(job, todo[1]) \cap span(job, todo[k + 1]) = {}
      BY <1>2, <1>3, <2>1 DEF Apart
    <3> QED BY <1>3, <2>1, <2>3, <3>1
  <2> QED BY <1>5, <2>2, <2>3
<1>8. Covered'
  <2> SUFFICES ASSUME NEW p \in Path, wanted(p), ~collected(p)' PROVE pending(p)'
    BY <1>1, WantedKept DEF Covered
  <2>1. ~collected(p)
    BY <1>5 DEF collected
  <2>2. pending(p)
    BY <1>2, <2>1 DEF Covered
  <2>3. p # h
    BY <1>5 DEF collected, wanted
  <2> QED BY <1>1, <1>3, <2>2, <2>3, Pops DEF h
<1> QED BY <1>1, <1>6, <1>7, <1>8, Pops DEF Visiting

LEMMA WalkInit == Init => IWalk
PROOF
<1> SUFFICES ASSUME Init PROVE IWalk
  OBVIOUS
<1>1. paths = <<>> /\ phase = "start" /\ exit = NotExited
  BY DEF Init
<1> QED BY <1>1 DEF IWalk, NoRepeat, walked, NotExited

LEMMA WalkNext == ITypes /\ IWalk /\ [Next]_vars => IWalk'
PROOF
<1> SUFFICES ASSUME ITypes, IWalk, [Next]_vars, dirScan'
             PROVE  /\ NoRepeat'
                    /\ phase' = "walk" => Visiting'
                    /\ walked' => (\A p \in Path : wanted(p) => collected(p))'
  BY DEF IWalk
<1>a. RunTypes /\ CheckTypes /\ FileTypes /\ Started
  BY DEF ITypes, TypeOK
<1>b. job' = job
  BY JobKept
<1>c. dirScan /\ usable' /\ usable /\ job.cmd = "dir" /\ job.rest[1] \in Name
  <2>1. dirScan
    BY <1>b DEF dirScan, usable, scans
  <2> QED BY <1>a, <1>b, <2>1, JobAssumption DEF dirScan, usable, scans, RunTypes, Name
<1>d. /\ NoRepeat
      /\ phase = "walk" => Visiting
      /\ walked => \A p \in Path : wanted(p) => collected(p)
  BY <1>c DEF IWalk
<1>e. /\ walked <=> phase \in {"check", "parse", "run", "gate"} \/ exit \in {0, 2}
      /\ walked' <=> phase' \in {"check", "parse", "run", "gate"} \/ exit' \in {0, 2}
      /\ exit = NotExited <=> phase # "exit"
  BY <1>a, <1>b, <1>c DEF walked, RunTypes
\* A step that neither walks nor touches a file.
<1>f. ASSUME UNCHANGED <<paths, files, disk, touched>>, phase' # "walk", walked' => walked
      PROVE  /\ NoRepeat'
             /\ phase' = "walk" => Visiting'
             /\ walked' => (\A p \in Path : wanted(p) => collected(p))'
  <2>1. \A p \in Path : wanted(p)' <=> wanted(p)
    BY <1>b, <1>f, WantedKept
  <2> QED BY <1>d, <1>f, <2>1 DEF NoRepeat, collected
\* A step of the walk itself.
<1>g. ASSUME phase' = "walk", exit' = NotExited, NoRepeat', Visiting'
      PROVE  /\ NoRepeat'
             /\ phase' = "walk" => Visiting'
             /\ walked' => (\A p \in Path : wanted(p) => collected(p))'
  BY <1>e, <1>g DEF NotExited
<1>1. CASE Usage \/ StartFile \/ ReadList
  BY <1>1, <1>c DEF Usage, StartFile, ReadList
<1>2. CASE StartFails \/ ReadDirFails
  <2>1. phase' = "exit" /\ exit' = 1 /\ UNCHANGED <<paths, files, disk, touched>>
    BY <1>2 DEF StartFails, ReadDirFails, return, fsVars
  <2> QED BY <1>e, <1>f, <2>1
<1>3. CASE StartDir
  <2> DEFINE r == job.rest[1]
  <2>1. /\ phase = "start" /\ phase' = "walk" /\ todo' = <<r>> /\ paths' = <<>>
        /\ UNCHANGED <<exit, files, disk, touched>>
    BY <1>3, <1>a DEF StartDir, Started, fsVars
  <2>2. /\ todo' \in Seq(Name) /\ \A k \in DOMAIN todo' : k = 1
        /\ 1 \in DOMAIN todo' /\ todo'[1] = r
    BY <1>c, <2>1
  <2>3. Apart' /\ NotAgain' /\ NoRepeat'
    BY <2>1, <2>2 DEF Apart, NotAgain, NoRepeat
  <2>4. Covered'
    <3> SUFFICES ASSUME NEW p \in Path, wanted(p) PROVE pending(p)'
      BY <1>b, <2>1, WantedKept DEF Covered
    <3>1. p \in span(job, r)
      BY <1>c, SpanScope DEF wanted
    <3> QED BY <1>b, <2>2, <3>1 DEF pending
  <2> QED BY <1>e, <1>g, <2>1, <2>2, <2>3, <2>4 DEF Visiting
<1>4. CASE VisitDir
  <2>1. /\ walking /\ phase = "walk" /\ phase' = "walk" /\ Head(todo) \in Dir
        /\ UNCHANGED <<exit, paths, files, disk, touched>>
    BY <1>4 DEF VisitDir, walking, fsVars
  <2>2. NoRepeat'
    BY <1>d, <2>1 DEF NoRepeat
  <2>3. CASE ~descends(Head(todo))
    <3>1. todo' = Tail(todo)
      BY <1>4, <2>3 DEF VisitDir
    <3>2. Visiting'
      BY <1>b, <1>d, <2>1, <2>3, <3>1, Skips
    <3> QED BY <1>e, <1>g, <2>1, <2>2, <3>2
  <2>4. CASE descends(Head(todo))
    <3>1. PICK s \in listings(Head(todo)) : todo' = s \o Tail(todo)
      BY <1>4, <2>4 DEF VisitDir
    <3>2. Visiting'
      BY <1>a, <1>b, <1>d, <2>1, <2>4, <3>1, Descends
    <3> QED BY <1>e, <1>g, <2>1, <2>2, <3>2
  <2> QED BY <2>3, <2>4
<1>5. CASE VisitFile
  <2>1. phase = "walk" /\ phase' = "walk" /\ exit' = exit
    BY <1>5 DEF VisitFile, walking
  <2>2. NoRepeat' /\ Visiting'
    BY <1>5, <1>a, <1>d, <2>1, Collects
  <2> QED BY <1>e, <1>g, <2>1, <2>2
<1>6. CASE WalkDone
  <2>1. /\ phase = "walk" /\ phase' = "check" /\ todo = <<>>
        /\ UNCHANGED <<paths, files, disk, touched>>
    BY <1>6 DEF WalkDone, fsVars
  <2>2. \A p : ~pending(p)
    BY <2>1 DEF pending
  <2>3. \A p \in Path : wanted(p) => collected(p)
    BY <1>d, <2>1, <2>2 DEF Visiting, Covered
  <2>4. \A p \in Path : wanted(p)' <=> wanted(p)
    BY <1>b, <2>1, WantedKept
  <2> QED BY <1>d, <2>1, <2>3, <2>4 DEF NoRepeat, collected
<1>7. CASE NoBinaries \/ OpenFails \/ Open \/ ParseFails \/ Parse \/ RunCheck \/ Return \/ Gate
  <2>1. /\ phase \in {"check", "parse", "run", "gate"} /\ phase' # "walk"
        /\ UNCHANGED <<paths, files, disk, touched>>
    BY <1>7
    DEF NoBinaries, OpenFails, Open, ParseFails, Parse, RunCheck, Return, Gate,
        checking, return, fsVars
  <2> QED BY <1>e, <1>f, <2>1
<1>8. CASE PrintReports \/ PrintReportsFails
  <2>1. /\ phase = "check" /\ phase' # "walk" /\ UNCHANGED <<paths, files, disk, touched>>
    BY <1>8 DEF PrintReports, PrintReportsFails, printing, return, fsVars
  <2> QED BY <1>e, <1>f, <2>1
<1>9. CASE Writer
  <2>1. UNCHANGED <<phase, todo, paths, exit>>
    BY <1>9, WriterKeepsProc DEF procVars
  <2>2. ASSUME NEW p \in Path, wanted(p)' PROVE wanted(p)
    <3>1. p \notin touched' /\ isELF(p)' /\ inScope(p)'
      BY <2>2 DEF wanted
    <3>2. /\ p \notin touched /\ files'[p] = files[p]
          /\ exists(p) => disk'[files[p]] = disk[files[p]]
      BY <1>9, <1>a, <3>1, UntouchedKept
    <3>3. isELF(p)
      BY <3>1, <3>2 DEF isELF, canOpen, exists
    <3> QED BY <1>b, <3>1, <3>2, <3>3 DEF wanted, inScope
  <2>3. walked' <=> walked
    BY <1>e, <2>1
  <2>4. Visiting => Visiting'
    BY <1>b, <2>1, <2>2 DEF Visiting, Apart, NotAgain, Covered, collected, pending
  <2> QED BY <1>d, <2>1, <2>2, <2>3, <2>4 DEF NoRepeat, collected
<1>10. CASE UNCHANGED vars
  <2>1. UNCHANGED <<phase, todo, paths, exit, files, disk, touched>>
    BY <1>10 DEF vars, procVars, fsVars
  <2>2. \A p \in Path : wanted(p)' <=> wanted(p)
    BY <1>b, <2>1, WantedKept
  <2>3. walked' <=> walked
    BY <1>e, <2>1
  <2>4. Visiting => Visiting'
    BY <1>b, <2>1, <2>2 DEF Visiting, Apart, NotAgain, Covered, collected, pending
  <2> QED BY <1>d, <2>1, <2>2, <2>3, <2>4 DEF NoRepeat, collected
<1> QED
  BY <1>1, <1>2, <1>3, <1>4, <1>5, <1>6, <1>7, <1>8, <1>9, <1>10 DEF Next, scc

(***************************************************************************)
(* A directory scan that gets past its walk has every readable ELF file in   *)
(* its scope that nobody touched as a target, and has it once.               *)
(***************************************************************************)
THEOREM CollectedTheorem == Spec => []StableElfCollected
PROOF
<1>1. ASSUME ITypes, IWalk PROVE StableElfCollected
  <2> SUFFICES ASSUME walked, NEW p \in Path \ touched, inScope(p), isELF(p)
               PROVE  Cardinality({i \in DOMAIN paths : paths[i] = p}) = 1
    BY DEF StableElfCollected
  <2>1. dirScan /\ wanted(p)
    BY DEF walked, dirScan, wanted
  <2>2. NoRepeat /\ collected(p)
    BY <1>1, <2>1 DEF IWalk
  <2>3. PICK i \in DOMAIN paths : paths[i] = p
    BY <2>2 DEF collected
  <2>4. {k \in DOMAIN paths : paths[k] = p} = {i}
    BY <2>2, <2>3 DEF NoRepeat
  <2> QED BY <2>4, FS_Singleton
<1>2. ITypes /\ IWalk => StableElfCollected
  BY <1>1
<1> QED BY <1>2, TypesInit, TypesNext, WalkInit, WalkNext, PTL DEF Spec

-----------------------------------------------------------------------------
(***************************************************************************)
(* Nothing goes back.  A visited name is ahead of the walk no more: it is    *)
(* not beneath its own names, and apart from the other entries of todo.      *)
(***************************************************************************)
IDirWalk == phase = "walk" => dirScan

LEMMA DirWalkNext == IDirWalk /\ [Next]_vars => IDirWalk'
PROOF
<1> SUFFICES ASSUME IDirWalk, [Next]_vars PROVE IDirWalk'
  OBVIOUS
<1>1. job' = job
  BY JobKept
<1>2. dirScan' <=> dirScan
  BY <1>1 DEF dirScan, usable, scans
<1>3. phase' = "walk" => phase = "walk" \/ dirScan
  <2>1. CASE scc
    BY <2>1
    DEF scc, Usage, StartFile, ReadList, StartFails, StartDir, VisitDir, ReadDirFails, VisitFile,
        WalkDone, NoBinaries, OpenFails, Open, ParseFails, Parse, RunCheck, Return,
        PrintReports, PrintReportsFails, Gate, return, walking, checking, dirScan
  <2>2. CASE Writer \/ UNCHANGED vars
    BY <2>2, WriterKeepsProc DEF vars, procVars
  <2> QED BY <2>1, <2>2 DEF Next
<1> QED BY <1>2, <1>3 DEF IDirWalk

\* What stands in todo after a visit: names of the visited directory, beneath
\* which it is not, and what stood behind it.
follow(h, n) == n \in Name /\ span(job, n) \subseteq span(job, h) /\ h \notin span(job, n)

LEMMA VisitShrinks ==
    ASSUME Visiting, walking, job' = job,
           \A k \in DOMAIN todo' : \/ follow(Head(todo), todo'[k])
                                   \/ \E l \in DOMAIN todo : l # 1 /\ todo'[k] = todo[l]
    PROVE  toVisit' \subseteq toVisit /\ toVisit' # toVisit
PROOF
<1> DEFINE h == Head(todo)
<1>1. todo \in Seq(Name) /\ todo # <<>> /\ Apart
  BY DEF Visiting, walking
<1>2. h = todo[1] /\ 1 \in DOMAIN todo /\ h \in Name
  BY <1>1, Popped
<1>3. h \in span(job, h)
  BY <1>2, BelowClosed DEF span
<1>4. toVisit' = UNION {span(job, todo'[k]) : k \in DOMAIN todo'}
  BY DEF toVisit
<1>5. h \in toVisit
  BY <1>2, <1>3 DEF toVisit
<1>6. ASSUME NEW k \in DOMAIN todo'
      PROVE  span(job, todo'[k]) \subseteq toVisit /\ h \notin span(job, todo'[k])
  <2>1. CASE follow(h, todo'[k])
    BY <1>2, <2>1 DEF follow, toVisit
  <2>2. CASE \E l \in DOMAIN todo : l # 1 /\ todo'[k] = todo[l]
    <3>1. PICK l \in DOMAIN todo : l # 1 /\ todo'[k] = todo[l]
      BY <2>2
    <3>2. span(job, todo[1]) \cap span(job, todo[l]) = {}
      BY <1>1, <1>2, <3>1 DEF Apart
    <3> QED BY <1>2, <1>3, <3>1, <3>2 DEF toVisit
  <2> QED BY <2>1, <2>2
<1>7. toVisit' \subseteq toVisit /\ h \notin toVisit'
  BY <1>4, <1>6
<1> QED BY <1>5, <1>7

LEMMA WalkGoesOn ==
    ASSUME FileTypes, Visiting, job' = job, VisitDir \/ VisitFile
    PROVE  toVisit' \subseteq toVisit /\ toVisit' # toVisit
PROOF
<1> DEFINE h == Head(todo)
<1>1. walking /\ todo \in Seq(Name) /\ todo # <<>>
  BY DEF VisitDir, VisitFile, walking, Visiting
<1>2. CASE todo' = Tail(todo)
  <2>1. \A k \in DOMAIN todo' : k + 1 \in DOMAIN todo /\ k + 1 # 1 /\ todo'[k] = todo[k + 1]
    BY <1>1, <1>2, Pops
  <2> QED BY <1>1, <2>1, VisitShrinks
<1>3. CASE h \in Dir /\ descends(h) /\ \E s \in listings(h) : todo' = s \o Tail(todo)
  <2>1. PICK s \in listings(h) : todo' = s \o Tail(todo)
    BY <1>3
  <2>2. s \in Seq(Name) /\ \A i \in DOMAIN s : s[i] \in inside(h)
    BY <1>3, Listing
  <2>3. ASSUME NEW m \in inside(h) PROVE follow(h, m)
    <3>1. m \in Name /\ m # h /\ h \notin below(m)
      BY <1>3, NamesTyped, ChildIsNot, TreeAssumption
    <3>2. span(job, m) \subseteq span(job, h)
      BY <1>3, SpanDescends
    <3>3. h \notin span(job, m)
      <4>1. CASE job.recursive
        BY <3>1, <4>1 DEF span
      <4>2. CASE ~job.recursive
        <5>1. h = job.rest[1]
          BY <1>3, <4>2 DEF descends
        <5> QED BY <3>1, <4>2, <5>1 DEF span
      <4> QED BY <4>1, <4>2
    <3> QED BY <3>1, <3>2, <3>3 DEF follow
  <2>4. replaces(todo', s, todo)
    BY <1>1, <2>1, <2>2, Replaced
  <2>5. ASSUME NEW k \in DOMAIN todo'
        PROVE  \/ follow(h, todo'[k])
               \/ \E l \in DOMAIN todo : l # 1 /\ todo'[k] = todo[l]
    BY <2>2, <2>3, <2>4 DEF replaces
  <2> QED BY <1>1, <2>5, VisitShrinks
<1> QED BY <1>2, <1>3 DEF VisitDir, VisitFile

(***************************************************************************)
(* No step of scc goes back: later stages, fewer names to visit, more        *)
(* reports, later statements.  For every forest, command line and target     *)
(* list, in-place patches included.                                          *)
(***************************************************************************)
THEOREM NeverBackTheorem == Spec => NeverBack
PROOF
<1>1. ASSUME ITypes, IWalk, IDirWalk, [Next]_vars
      PROVE  [goesOn]_procVars
  <2>1. RunTypes /\ CheckTypes /\ FileTypes
    BY <1>1 DEF ITypes, TypeOK
  <2>2. job' = job
    BY <1>1, JobKept
  <2>3. CASE Usage \/ StartFile \/ ReadList \/ StartFails \/ StartDir
    <3>1. phase = "start" /\ phase' \in {"walk", "check", "exit"}
      BY <2>3 DEF Usage, StartFile, ReadList, StartFails, StartDir, return
    <3>2. stage' > stage
      BY <3>1 DEF stage
    <3> QED BY <3>2 DEF goesOn
  <2>4. CASE ReadDirFails \/ WalkDone
    BY <2>4 DEF ReadDirFails, WalkDone, walking, return, goesOn, stage
  <2>5. CASE VisitDir \/ VisitFile
    <3>1. phase = "walk" /\ phase' = "walk"
      BY <2>5 DEF VisitDir, VisitFile, walking
    <3>2. Visiting
      BY <1>1, <3>1 DEF IWalk, IDirWalk
    <3>3. toVisit' \subseteq toVisit /\ toVisit' # toVisit
      BY <2>1, <2>2, <2>5, <3>2, WalkGoesOn
    <3> QED BY <3>1, <3>3 DEF goesOn, stage
  <2>6. CASE NoBinaries \/ PrintReports \/ PrintReportsFails \/ Gate
    BY <2>6
    DEF NoBinaries, PrintReports, PrintReportsFails, Gate, printing, return, goesOn, stage
  <2>7. CASE OpenFails \/ ParseFails \/ Return
    <3>1. /\ phase \in {"check", "parse", "run"} /\ phase' = "check" /\ paths' = paths
          /\ \E r : reports' = Append(reports, r)
      BY <2>7 DEF OpenFails, ParseFails, Return, checking
    <3>2. Len(reports') > Len(reports)
      <4>1. reports \in Seq(Report)
        BY <2>1 DEF RunTypes
      <4>2. Len(reports) \in Nat /\ \A r : Len(Append(reports, r)) = Len(reports) + 1
        BY <4>1
      <4> QED BY <3>1, <4>2
    <3> QED BY <3>1, <3>2 DEF goesOn, stage
  <2>8. CASE Open \/ Parse \/ RunCheck
    <3>1. /\ phase \in {"check", "parse", "run"} /\ phase' \in {"parse", "run"}
          /\ paths' = paths /\ reports' = reports
      BY <2>8 DEF Open, Parse, RunCheck, checking
    <3>2. turn' > turn
      <4>1. step \in Nat /\ step + 1 + 1 > step + 1 /\ step + 1 \in Nat
        BY <2>1, LastStepIs13 DEF CheckTypes
      <4> QED BY <2>8, <4>1 DEF Open, Parse, RunCheck, checking, turn
    <3> QED BY <3>1, <3>2 DEF goesOn, stage
  <2>9. CASE Writer \/ UNCHANGED vars
    <3>1. UNCHANGED procVars
      BY <2>9, WriterKeepsProc DEF vars
    <3> QED BY <3>1
  <2> QED
    BY <1>1, <2>3, <2>4, <2>5, <2>6, <2>7, <2>8, <2>9 DEF Next, scc
<1>2. Init => IDirWalk
  BY DEF Init, IDirWalk
<1>3. ITypes /\ IWalk /\ IDirWalk /\ [Next]_vars => [goesOn]_procVars
  BY <1>1
<1> QED
  BY <1>2, <1>3, DirWalkNext, TypesInit, TypesNext, WalkInit, WalkNext, PTL DEF Spec, NeverBack
=============================================================================
