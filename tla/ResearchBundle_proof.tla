------------------------ MODULE ResearchBundle_proof ------------------------
(***************************************************************************)
(* The proofs of ResearchBundle: the plan of a source search, its run, and *)
(* the publication of its bundle.  What AtomicOutput_proof shows of        *)
(* run_atomic_output holds of the calls of the integration: whatever the   *)
(* search does meanwhile, publication takes steps of AtomicOutput only.    *)
(***************************************************************************)
EXTENDS ResearchBundle, FiniteSetTheorems, WellFoundedInduction, TLAPS

(* Sums and least elements *)

\* A set in which an order is well-founded has a minimal element in every part.
LEMMA MinimalIn ==
  ASSUME NEW S, NEW R, IsWellFoundedOn(R, S), NEW T \in SUBSET S, T # {}
  PROVE  \E x \in T : \A y \in T : <<y, x>> \notin R
<1>1. T \subseteq S
  OBVIOUS
<1> QED
  BY <1>1, WFMin, SMT

\* The order of the natural numbers is well-founded.
LEMMA NatOrder == \E R : IsWellFoundedOn(R, Nat) /\ \A x, y \in Nat : x < y => <<x, y>> \in R
<1>1. IsWellFoundedOn(OpToRel(<, Nat), Nat)
  BY NatLessThanWellFounded
<1>2. \A x, y \in Nat : x < y => <<x, y>> \in OpToRel(<, Nat)
  BY DEF OpToRel
<1> WITNESS OpToRel(<, Nat)
<1> QED
  BY <1>1, <1>2, Zenon

\* A set of natural numbers that is not empty has a least element.
LEMMA Least ==
  ASSUME NEW S \in SUBSET Nat, S # {}
  PROVE  \E m \in S : \A k \in S : m <= k
<1>1. PICK R : IsWellFoundedOn(R, Nat) /\ \A x, y \in Nat : x < y => <<x, y>> \in R
  BY NatOrder
<1>2. PICK m \in S : \A k \in S : <<k, m>> \notin R
  BY <1>1, MinimalIn, Zenon
<1>3. ASSUME NEW k \in S PROVE m <= k
  <2>1. m \in Nat /\ k \in Nat
    OBVIOUS
  <2>2. ~(k < m)
    BY <1>1, <1>2, <2>1
  <2> QED
    BY <2>1, <2>2
<1> QED
  BY <1>3

Sums(f, n) ==
  /\ f \in [n..Len(Reserves) -> Nat] /\ f[Len(Reserves)] = 0
  /\ \A w \in n..(Len(Reserves) - 1) : f[w] = Reserves[w + 1] + f[w + 1]

\* The sums of the reserves of the later waves exist, from every wave on.
LEMMA SumsFrom ==
  ASSUME NEW n \in 0..Len(Reserves)
  PROVE  \E f : Sums(f, n)
<1> DEFINE L == Len(Reserves)
           missing == {k \in 0..L : \A f : ~Sums(f, L - k)}
<1>1. L \in Nat /\ \A w \in 1..L : Reserves[w] \in Nat
  BY LimitsAssumption
<1>2. missing = {}
  <2> SUFFICES ASSUME missing # {} PROVE FALSE
    OBVIOUS
  <2>0. missing \in SUBSET Nat
    BY <1>1
  <2>1. PICK m \in missing : \A k \in missing : m <= k
    <3> HIDE DEF missing
    <3> QED
      BY <2>0, Least
  <2>2. m \in 0..L
    OBVIOUS
  <2>3. CASE m = 0
    <3>1. Sums([w \in L..L |-> 0], L)
      BY <1>1 DEF Sums
    <3> QED
      BY <1>1, <2>3, <3>1
  <2>4. CASE m > 0
    <3>1. m - 1 \in 0..L /\ m - 1 \notin missing
      <4>1. m - 1 \in 0..L /\ ~(m <= m - 1)
        BY <1>1, <2>2, <2>4
      <4> QED
        BY <2>1, <4>1
    <3>2. PICK f : Sums(f, L - (m - 1))
      BY <3>1
    <3> DEFINE v == L - m
               g == [w \in v..L |-> IF w = v THEN Reserves[v + 1] + f[v + 1] ELSE f[w]]
    <3>3. v \in Nat /\ v + 1 = L - (m - 1) /\ v + 1 \in 1..L
      BY <1>1, <2>2, <2>4
    <3> HIDE DEF v
    <3>4. f \in [(v + 1)..L -> Nat] /\ f[L] = 0
      BY <3>2, <3>3 DEF Sums
    <3>5. g \in [v..L -> Nat]
      <4>1. \A w \in v..L : w = v \/ w \in (v + 1)..L
        BY <1>1, <3>3
      <4>2. Reserves[v + 1] \in Nat /\ f[v + 1] \in Nat
        BY <1>1, <3>3, <3>4
      <4>3. \A w \in v..L : (IF w = v THEN Reserves[v + 1] + f[v + 1] ELSE f[w]) \in Nat
        BY <3>4, <4>1, <4>2
      <4> QED
        BY <4>3
    <3>6. g[L] = 0
      BY <1>1, <3>3, <3>4
    <3>7. ASSUME NEW w \in v..(L - 1) PROVE g[w] = Reserves[w + 1] + g[w + 1]
      <4>1. CASE w = v
        BY <1>1, <3>3, <4>1
      <4>2. CASE w # v
        <5>1. w \in (v + 1)..(L - 1) /\ w \in v..L /\ w + 1 \in v..L /\ w + 1 # v
          BY <1>1, <3>3, <4>2
        <5>2. f[w] = Reserves[w + 1] + f[w + 1]
          BY <3>2, <3>3, <5>1 DEF Sums
        <5> QED
          BY <4>2, <5>1, <5>2
      <4> QED
        BY <4>1, <4>2
    <3>8. Sums(g, v)
      BY <3>5, <3>6, <3>7 DEF Sums
    <3> QED
      BY <3>8 DEF v
  <2> QED
    BY <1>1, <2>2, <2>3, <2>4
<1>3. L - n \in 0..L /\ L - (L - n) = n
  BY <1>1
<1> QED
  BY <1>2, <1>3

\* The recursive definition of what is kept for later waves.
LEMMA LaterReserves ==
  /\ \A w \in 0..Len(Reserves) : LaterReserve[w] \in Nat
  /\ \A w \in Waves : LaterReserve[w - 1] = Reserves[w] + LaterReserve[w]
<1> DEFINE L == Len(Reserves)
           Rec(f) == f = [w \in 0..L |-> IF w = L THEN 0 ELSE Reserves[w + 1] + f[w + 1]]
<1>1. L \in Nat /\ 0 \in 0..L /\ L \in 0..L
  BY LimitsAssumption
<1>2. PICK g : Sums(g, 0)
  BY <1>1, SumsFrom
<1>3. Rec(g)
  <2>1. g = [w \in 0..L |-> g[w]]
    BY <1>2 DEF Sums
  <2>2. \A w \in 0..L : g[w] = IF w = L THEN 0 ELSE Reserves[w + 1] + g[w + 1]
    BY <1>1, <1>2 DEF Sums
  <2> QED
    BY <2>1, <2>2
<1>4. Rec(LaterReserve)
  <2> HIDE DEF Rec
  <2>1. Rec(CHOOSE f : Rec(f))
    BY <1>3
  <2> QED
    BY <2>1, Zenon DEF LaterReserve, Rec
<1>5. \A f : Rec(f) => \A w \in 0..L : f[w] = IF w = L THEN 0 ELSE Reserves[w + 1] + f[w + 1]
  OBVIOUS
<1> DEFINE f == LaterReserve
<1>6. \A w \in 0..L : f[w] = IF w = L THEN 0 ELSE Reserves[w + 1] + f[w + 1]
  BY <1>4, <1>5
<1> HIDE DEF f, Rec
<1> DEFINE odd == {k \in 0..L : f[L - k] # g[L - k]}
<1>7. odd = {}
  <2> SUFFICES ASSUME odd # {} PROVE FALSE
    OBVIOUS
  <2>0. odd \in SUBSET Nat
    BY <1>1
  <2>1. PICK m \in odd : \A k \in odd : m <= k
    <3> HIDE DEF odd
    <3> QED
      BY <2>0, Least
  <2>2. m \in 0..L /\ f[L - m] # g[L - m]
    OBVIOUS
  <2>3. f[L] = 0 /\ g[L] = 0
    BY <1>1, <1>2, <1>6 DEF Sums
  <2>4. m > 0
    BY <1>1, <2>2, <2>3
  <2>5. m - 1 \in 0..L /\ m - 1 \notin odd
    BY <1>1, <2>1, <2>2, <2>4
  <2>6. f[L - (m - 1)] = g[L - (m - 1)]
    BY <2>5
  <2> DEFINE v == L - m
  <2>7. v \in 0..(L - 1) /\ v \in 0..L /\ v # L /\ v + 1 = L - (m - 1)
    BY <1>1, <2>2, <2>4
  <2> HIDE DEF v
  <2>8. f[v] = Reserves[v + 1] + f[v + 1] /\ g[v] = Reserves[v + 1] + g[v + 1]
    BY <1>2, <1>6, <2>7 DEF Sums
  <2> QED
    BY <2>2, <2>6, <2>7, <2>8 DEF v
<1>8. \A w \in 0..L : f[w] = g[w]
  <2> TAKE w \in 0..L
  <2>1. L - w \in 0..L /\ L - (L - w) = w
    BY <1>1
  <2> QED
    BY <1>7, <2>1
<1>9. \A w \in 0..L : f[w] \in Nat
  BY <1>2, <1>8 DEF Sums
<1>10. ASSUME NEW w \in Waves PROVE f[w - 1] = Reserves[w] + f[w]
  <2>1. w - 1 \in 0..L /\ w - 1 # L /\ (w - 1) + 1 = w
    BY <1>1 DEF Waves
  <2> QED
    BY <1>6, <2>1
<1> QED
  BY <1>9, <1>10 DEF f

-----------------------------------------------------------------------------
(* The plan. *)

PlanTypes ==
  /\ catalog \in Catalogs /\ plan \in [Waves -> Seq(Sources)]
  /\ undecided \subseteq Sources /\ deferred \subseteq Sources

Planned(s) == s \in Rng(plan[catalog.wave[s]])

\* Every source is decided once, in the order of the waves.
PlanOnce ==
  /\ \A w \in Waves : \A i \in DOMAIN plan[w] :
       catalog.wave[plan[w][i]] = w /\ plan[w][i] \notin undecided \cup deferred
  /\ \A w \in Waves : \A i, j \in DOMAIN plan[w] : plan[w][i] = plan[w][j] => i = j
  /\ undecided \cap deferred = {}
  /\ \A t \in Sources \ undecided, u \in undecided : catalog.wave[t] <= catalog.wave[u]
  /\ pc # "plan" => undecided = {} /\ deferred = {}

\* While sources are undecided, the waves up to any wave stay below its ceiling.
PlanFits ==
  ~catalog.subset =>
    /\ Cardinality(Used(Waves)) <= MaxDomains
    /\ undecided # {} => \A w \in Waves : Cardinality(Used(1..w)) <= Ceiling(w)
    /\ \A s \in Sources \ undecided : ~Planned(s) =>
         Cardinality(Used({catalog.wave[s]}) \cup DomainsOf(s)) > Reserves[catalog.wave[s]]
    /\ \A s \in Sources \ (undecided \cup deferred) : ~Planned(s) => ~Fits(s, MaxDomains)

\* What CatalogsAssumption says of the catalog of this run.
LEMMA CatalogTypes ==
  ASSUME catalog \in Catalogs
  PROVE  /\ catalog.wave \in [Sources -> Waves]
         /\ \A s \in Sources : catalog.routes[s] \in Seq(DomainsOf(s)) /\ Len(catalog.routes[s]) > 0
         /\ catalog.subset \in BOOLEAN /\ catalog.requests \in Nat
         /\ catalog.connector \in DOMAIN Connectors
<1>1. \A s \in Sources : catalog.routes[s] \in Seq(Rng(catalog.routes[s])) \ {<<>>}
  BY CatalogsAssumption
<1>2. \A s \in Sources : Len(catalog.routes[s]) > 0
  BY <1>1
<1> QED
  BY CatalogsAssumption, <1>1, <1>2 DEF DomainsOf

\* A sequence has finitely many elements.
LEMMA FiniteRange ==
  ASSUME NEW S, NEW q \in Seq(S)
  PROVE  IsFiniteSet(Rng(q))
<1>1. Len(q) \in Nat /\ q \in [1..Len(q) -> Rng(q)]
  BY DEF Rng
<1>2. q \in Surjection(1..Len(q), Rng(q))
  BY <1>1 DEF Surjection, Rng
<1>3. IsFiniteSet(1..Len(q))
  BY <1>1, FS_Interval
<1> QED
  BY <1>2, <1>3, FS_Surjection

\* Every source has finitely many domains, and so have all of them.
LEMMA FiniteDomains ==
  ASSUME catalog \in Catalogs
  PROVE  /\ \A s \in Sources : IsFiniteSet(DomainsOf(s))
         /\ IsFiniteSet(UNION {DomainsOf(s) : s \in Sources})
<1>1. \A s \in Sources : IsFiniteSet(DomainsOf(s))
  <2> TAKE s \in Sources
  <2>1. catalog.routes[s] \in Seq(DomainsOf(s))
    BY CatalogTypes
  <2> QED
    BY <2>1, FiniteRange DEF DomainsOf
<1> DEFINE all == {DomainsOf(s) : s \in Sources}
           of == [s \in Sources |-> DomainsOf(s)]
<1>2. of \in Surjection(Sources, all)
  BY DEF Surjection
<1>3. IsFiniteSet(Sources)
  BY LimitsAssumption, FS_Interval DEF Sources
<1>4. IsFiniteSet(all)
  <2> HIDE DEF all, of
  <2> QED
    BY <1>2, <1>3, FS_Surjection
<1>5. \A D \in all : IsFiniteSet(D)
  BY <1>1
<1>6. IsFiniteSet(UNION all)
  <2> HIDE DEF all
  <2> QED
    BY <1>4, <1>5, FS_UNION
<1> QED
  BY <1>1, <1>6

\* A domain is used when a planned source has it.
LEMMA InUsed ==
  \A W : \A x : x \in Used(W) <=> \E w \in W : \E i \in DOMAIN plan[w] : x \in DomainsOf(plan[w][i])
BY DEF Used, Rng

\* The planned waves use finitely many domains, which can be counted.
LEMMA FiniteUsed ==
  ASSUME PlanTypes, NEW W \in SUBSET Waves
  PROVE  IsFiniteSet(Used(W)) /\ Cardinality(Used(W)) \in Nat
<1>1. Used(W) \subseteq UNION {DomainsOf(s) : s \in Sources}
  <2> SUFFICES ASSUME NEW x \in Used(W) PROVE \E s \in Sources : x \in DomainsOf(s)
    OBVIOUS
  <2>1. PICK w \in W : \E i \in DOMAIN plan[w] : x \in DomainsOf(plan[w][i])
    BY InUsed
  <2>2. plan[w] \in Seq(Sources)
    BY DEF PlanTypes
  <2>3. \A i \in DOMAIN plan[w] : plan[w][i] \in Sources
    BY <2>2
  <2> QED
    BY <2>1, <2>3
<1>2. IsFiniteSet(UNION {DomainsOf(s) : s \in Sources})
  BY FiniteDomains DEF PlanTypes
<1>3. IsFiniteSet(Used(W))
  BY <1>1, <1>2, FS_Subset
<1> QED
  BY <1>3, FS_CardinalityType

\* More domains count for more.
LEMMA Growth ==
  ASSUME PlanTypes, NEW s \in Sources, NEW W \in SUBSET Waves, NEW V \in SUBSET Waves, W \subseteq V
  PROVE  /\ Used(W) \subseteq Used(V)
         /\ IsFiniteSet(Used(W) \cup DomainsOf(s)) /\ Cardinality(Used(W) \cup DomainsOf(s)) \in Nat
         /\ Cardinality(Used(W) \cup DomainsOf(s)) <= Cardinality(Used(V) \cup DomainsOf(s))
<1>1. Used(W) \subseteq Used(V)
  BY InUsed
<1>2. IsFiniteSet(Used(W)) /\ IsFiniteSet(Used(V)) /\ IsFiniteSet(DomainsOf(s))
  BY FiniteUsed, FiniteDomains DEF PlanTypes
<1>3. IsFiniteSet(Used(W) \cup DomainsOf(s)) /\ IsFiniteSet(Used(V) \cup DomainsOf(s))
  BY <1>2, FS_Union
<1>4. Used(W) \cup DomainsOf(s) \in SUBSET (Used(V) \cup DomainsOf(s))
  BY <1>1
<1> QED
  BY <1>1, <1>3, <1>4, FS_Subset, FS_CardinalityType

\* A sequence with one element more.
LEMMA Appended ==
  ASSUME NEW S, NEW q \in Seq(S), NEW e \in S
  PROVE  /\ Append(q, e) \in Seq(S) /\ Len(Append(q, e)) = Len(q) + 1
         /\ DOMAIN q = 1..Len(q) /\ DOMAIN Append(q, e) = 1..(Len(q) + 1)
         /\ Len(q) \in Nat
         /\ \A i \in 1..Len(q) : Append(q, e)[i] = q[i]
         /\ Append(q, e)[Len(q) + 1] = e
         /\ Rng(Append(q, e)) = Rng(q) \cup {e}
<1>1. /\ Append(q, e) \in Seq(S) /\ Len(Append(q, e)) = Len(q) + 1
      /\ DOMAIN q = 1..Len(q) /\ DOMAIN Append(q, e) = 1..(Len(q) + 1)
      /\ Len(q) \in Nat
      /\ \A i \in 1..Len(q) : Append(q, e)[i] = q[i]
      /\ Append(q, e)[Len(q) + 1] = e
  OBVIOUS
<1>2. \A i \in 1..(Len(q) + 1) : i \in 1..Len(q) \/ i = Len(q) + 1
  BY <1>1
<1>3. 1..Len(q) \subseteq 1..(Len(q) + 1) /\ Len(q) + 1 \in 1..(Len(q) + 1)
  BY <1>1
<1>4. Rng(Append(q, e)) = Rng(q) \cup {e}
  <2>1. \A x : x \in Rng(Append(q, e)) <=> \E i \in 1..(Len(q) + 1) : Append(q, e)[i] = x
    BY <1>1 DEF Rng
  <2>2. \A x : x \in Rng(q) <=> \E i \in 1..Len(q) : q[i] = x
    BY <1>1 DEF Rng
  <2>3. \A x : x \in Rng(Append(q, e)) <=> x \in Rng(q) \/ x = e
    BY <1>1, <1>2, <1>3, <2>1, <2>2, Zenon
  <2> QED
    BY <2>3
<1> QED
  BY <1>1, <1>4

\* A source that is taken adds its domains to those of its wave.
LEMMA TakeUses ==
  ASSUME PlanTypes, NEW s \in Sources, Take(s), catalog' = catalog
  PROVE  /\ plan' \in [Waves -> Seq(Sources)]
         /\ \A w \in Waves : plan'[w] = IF w = catalog.wave[s] THEN Append(plan[w], s) ELSE plan[w]
         /\ \A t \in Sources : DomainsOf(t)' = DomainsOf(t)
         /\ \A t \in Sources : Planned(t)' <=> Planned(t) \/ t = s
         /\ \A W \in SUBSET Waves :
              Used(W)' = Used(W) \cup (IF catalog.wave[s] \in W THEN DomainsOf(s) ELSE {})
<1> DEFINE v == catalog.wave[s]
<1>1. \A t \in Sources : catalog.wave[t] \in Waves
  BY CatalogTypes DEF PlanTypes
<1>2. plan[v] \in Seq(Sources)
  BY <1>1 DEF PlanTypes
<1>3. \A w \in Waves : plan'[w] = IF w = v THEN Append(plan[w], s) ELSE plan[w]
  BY <1>1 DEF PlanTypes, Take
<1>4. plan' \in [Waves -> Seq(Sources)]
  <2>1. Append(plan[v], s) \in Seq(Sources)
    BY <1>2
  <2> QED
    BY <1>1, <2>1 DEF PlanTypes, Take
<1>5. \A t \in Sources : DomainsOf(t)' = DomainsOf(t)
  BY DEF DomainsOf
<1>6. \A w \in Waves : Rng(plan'[w]) = IF w = v THEN Rng(plan[w]) \cup {s} ELSE Rng(plan[w])
  <2>1. Rng(Append(plan[v], s)) = Rng(plan[v]) \cup {s}
    BY <1>2, Appended
  <2> QED
    BY <1>3, <2>1
<1>7. ASSUME NEW t \in Sources PROVE Planned(t)' <=> Planned(t) \/ t = s
  BY <1>1, <1>6 DEF Planned
<1>8. ASSUME NEW W \in SUBSET Waves
      PROVE  Used(W)' = Used(W) \cup (IF v \in W THEN DomainsOf(s) ELSE {})
  <2>1. \A x : x \in Used(W) <=> \E w \in W : \E t \in Rng(plan[w]) : x \in Rng(catalog.routes[t])
    BY DEF Used, DomainsOf
  <2>2. \A x : x \in Used(W)' <=> \E w \in W : \E t \in Rng(plan'[w]) : x \in Rng(catalog.routes[t])
    BY DEF Used, DomainsOf
  <2>3. \A w \in W : w \in Waves
    OBVIOUS
  <2>4. \A x : x \in Used(W)' <=> x \in Used(W) \/ (v \in W /\ x \in Rng(catalog.routes[s]))
    <3> TAKE x
    <3> HIDE DEF v
    <3>1. ASSUME NEW w \in W
          PROVE  (\E t \in Rng(plan'[w]) : x \in Rng(catalog.routes[t]))
                   <=> \/ \E t \in Rng(plan[w]) : x \in Rng(catalog.routes[t])
                       \/ w = v /\ x \in Rng(catalog.routes[s])
      <4>1. Rng(plan'[w]) = IF w = v THEN Rng(plan[w]) \cup {s} ELSE Rng(plan[w])
        BY <1>6, <2>3
      <4>2. CASE w = v
        BY <4>1, <4>2
      <4>3. CASE w # v
        BY <4>1, <4>3
      <4> QED
        BY <4>2, <4>3
    <3> QED
      BY <2>1, <2>2, <3>1
  <2> QED
    BY <2>4 DEF DomainsOf
<1> QED
  BY <1>3, <1>4, <1>5, <1>7, <1>8

\* What LimitsAssumption says of the waves and of the cap on domains.
LEMMA WaveTypes == Len(Reserves) \in Nat /\ Waves = 1..Len(Reserves) /\ MaxDomains \in Nat
BY LimitsAssumption DEF Waves

\* The ceilings of neighbouring waves differ by the reserve of the later one.
LEMMA Ceilings ==
  /\ \A w \in Waves : Ceiling(w) \in Int /\ Reserves[w] \in Nat
  /\ \A w \in Waves : w > 1 => w - 1 \in Waves /\ Ceiling(w - 1) = Ceiling(w) - Reserves[w]
  /\ 1 \in Waves => Ceiling(1) - Reserves[1] >= 0
  /\ \A w \in Waves : Ceiling(w) <= MaxDomains
<1>1. /\ \A w \in 0..Len(Reserves) : LaterReserve[w] \in Nat
      /\ \A w \in Waves : LaterReserve[w - 1] = Reserves[w] + LaterReserve[w]
  BY LaterReserves
<1>2. /\ LaterReserve[0] <= MaxDomains /\ LaterReserve[0] \in Nat
      /\ \A w \in Waves : w \in 0..Len(Reserves) /\ Reserves[w] \in Nat
  BY LimitsAssumption, WaveTypes, <1>1
<1>3. \A w \in Waves : w \in Nat /\ (w > 1 => w - 1 \in Waves)
  BY WaveTypes
<1>4. \A w \in Waves : Ceiling(w) \in Int /\ Reserves[w] \in Nat /\ Ceiling(w) <= MaxDomains
  BY <1>1, <1>2, WaveTypes DEF Ceiling
<1>5. \A w \in Waves : w > 1 => w - 1 \in Waves /\ Ceiling(w - 1) = Ceiling(w) - Reserves[w]
  BY <1>1, <1>2, <1>3, WaveTypes DEF Ceiling
<1>6. 1 \in Waves => Ceiling(1) - Reserves[1] >= 0
  <2> SUFFICES ASSUME 1 \in Waves PROVE Ceiling(1) - Reserves[1] >= 0
    OBVIOUS
  <2>1. LaterReserve[0] = Reserves[1] + LaterReserve[1] /\ LaterReserve[1] \in Nat
    <3>1. LaterReserve[1 - 1] = Reserves[1] + LaterReserve[1]
      BY <1>1
    <3> QED
      BY <1>1, <1>2, <3>1
  <2> QED
    BY <1>2, <2>1, WaveTypes DEF Ceiling
<1> QED
  BY <1>4, <1>5, <1>6

\* Ceilings rise from wave to wave: LaterReserve falls.
LEMMA CeilingsRise == \A v, w \in Waves : v <= w => Ceiling(v) <= Ceiling(w)
<1> SUFFICES ASSUME NEW v \in Waves PROVE \A w \in Waves : v <= w => Ceiling(v) <= Ceiling(w)
  OBVIOUS
<1> DEFINE bad == {w \in Waves : v <= w /\ ~(Ceiling(v) <= Ceiling(w))}
<1>1. bad \in SUBSET Nat
  BY WaveTypes
<1>2. bad = {}
  <2> SUFFICES ASSUME bad # {} PROVE FALSE
    OBVIOUS
  <2>1. PICK m \in bad : \A k \in bad : m <= k
    <3> HIDE DEF bad
    <3> QED
      BY <1>1, Least
  <2>2. m \in Waves /\ v <= m /\ ~(Ceiling(v) <= Ceiling(m))
    OBVIOUS
  <2>3. v \in Nat /\ m \in Nat /\ v >= 1 /\ Ceiling(v) \in Int
    BY <2>2, WaveTypes, Ceilings
  <2>4. v < m
    BY <2>2, <2>3
  <2>5. m - 1 \in Waves /\ Ceiling(m - 1) = Ceiling(m) - Reserves[m] /\ Ceiling(m) \in Int /\ Reserves[m] \in Nat
    BY <2>2, <2>3, <2>4, Ceilings
  <2>6. v <= m - 1 /\ ~(Ceiling(v) <= Ceiling(m - 1)) /\ ~(m <= m - 1)
    BY <2>2, <2>3, <2>4, <2>5
  <2> QED
    BY <2>1, <2>5, <2>6
<1> QED
  BY <1>2

\* Two sets together have at most as many elements as both counted apart.
LEMMA AtMostBoth ==
  ASSUME NEW S, NEW T, IsFiniteSet(S), IsFiniteSet(T)
  PROVE  IsFiniteSet(S \cup T) /\ Cardinality(S \cup T) <= Cardinality(S) + Cardinality(T)
<1>1. IsFiniteSet(S \cap T)
  BY FS_Intersection
<1>2. Cardinality(S \cap T) \in Nat /\ Cardinality(S) \in Nat /\ Cardinality(T) \in Nat
  BY <1>1, FS_CardinalityType
<1>3. IsFiniteSet(S \cup T) /\ Cardinality(S \cup T) = Cardinality(S) + Cardinality(T) - Cardinality(S \cap T)
  BY FS_Union, Zenon
<1> QED
  BY <1>2, <1>3

\* What is deferred would have found its own wave's reserve used up.
LEMMA DeferredAtReserve ==
  ASSUME PlanTypes, PlanOnce, PlanFits, ~catalog.subset,
         NEW s \in undecided, First(s, undecided), ~Fits(s, Ceiling(catalog.wave[s]))
  PROVE  Cardinality(Used({catalog.wave[s]}) \cup DomainsOf(s)) > Reserves[catalog.wave[s]]
<1> DEFINE w == catalog.wave[s]
           before == Used(1..(w - 1))
<1>1. s \in Sources /\ w \in Waves /\ w \in Nat /\ w >= 1
  BY CatalogTypes, WaveTypes DEF PlanTypes
<1>2. 1..(w - 1) \in SUBSET Waves /\ {w} \in SUBSET Waves
  BY <1>1, WaveTypes
<1>3. ASSUME NEW v \in Waves, NEW i \in DOMAIN plan[v] PROVE v <= w
  <2>1. plan[v] \in Seq(Sources)
    BY DEF PlanTypes
  <2>2. plan[v][i] \in Sources \ undecided /\ catalog.wave[plan[v][i]] = v
    BY <2>1 DEF PlanOnce
  <2> QED
    BY <2>2 DEF PlanOnce
<1>4. Used(Waves) \subseteq before \cup Used({w})
  <2> SUFFICES ASSUME NEW x \in Used(Waves) PROVE x \in before \cup Used({w})
    OBVIOUS
  <2>1. PICK v \in Waves : \E i \in DOMAIN plan[v] : x \in DomainsOf(plan[v][i])
    BY InUsed
  <2>2. v <= w /\ v \in Nat /\ v >= 1
    BY <1>3, <2>1, WaveTypes
  <2>3. v \in 1..(w - 1) \/ v \in {w}
    BY <1>1, <2>2
  <2> QED
    BY <2>1, <2>3, InUsed
<1>5. /\ IsFiniteSet(before) /\ Cardinality(before) \in Nat
      /\ IsFiniteSet(Used({w}) \cup DomainsOf(s)) /\ Cardinality(Used({w}) \cup DomainsOf(s)) \in Nat
  <2>1. IsFiniteSet(before) /\ Cardinality(before) \in Nat
    BY <1>2, FiniteUsed
  <2> QED
    BY <1>1, <1>2, <2>1, Growth
<1>6. Cardinality(before) <= Ceiling(w) - Reserves[w]
  <2>1. CASE w = 1
    <3>1. before = {}
      BY <2>1, InUsed
    <3> QED
      BY <1>1, <2>1, <3>1, FS_EmptySet, Ceilings
  <2>2. CASE w > 1
    <3>1. w - 1 \in Waves /\ Ceiling(w - 1) = Ceiling(w) - Reserves[w]
      BY <1>1, <2>2, Ceilings
    <3>2. Cardinality(Used(1..(w - 1))) <= Ceiling(w - 1)
      BY <3>1 DEF PlanFits
    <3> QED
      BY <3>1, <3>2
  <2> QED
    BY <1>1, <2>1, <2>2
<1> DEFINE own == Used({w}) \cup DomainsOf(s)
<1>7. Cardinality(before \cup own) <= Cardinality(before) + Cardinality(own) /\ IsFiniteSet(before \cup own)
  BY <1>5, AtMostBoth
<1>8. Used(Waves) \cup DomainsOf(s) \in SUBSET (before \cup own)
  BY <1>4
<1>9. /\ Cardinality(Used(Waves) \cup DomainsOf(s)) <= Cardinality(before \cup own)
      /\ Cardinality(before \cup own) \in Nat /\ Cardinality(Used(Waves) \cup DomainsOf(s)) \in Nat
  <2> HIDE DEF own, before
  <2> QED
    BY <1>7, <1>8, FS_Subset, FS_CardinalityType
<1>10. Cardinality(Used(Waves) \cup DomainsOf(s)) > Ceiling(w)
  BY <1>1, <1>9, Ceilings DEF Fits
<1>11. Ceiling(w) \in Int /\ Reserves[w] \in Nat
  BY <1>1, Ceilings
<1>12. Cardinality(own) > Reserves[w]
  <2> HIDE DEF own, before, w
  <2> QED
    BY <1>5, <1>6, <1>7, <1>9, <1>10, <1>11 DEF own
<1> QED
  BY <1>12

\* Before anything is planned the invariant of the plan holds.
LEMMA InitPlan == Init => PlanTypes /\ PlanOnce /\ PlanFits
<1> SUFFICES ASSUME Init PROVE PlanTypes /\ PlanOnce /\ PlanFits
  OBVIOUS
<1>1. PlanTypes
  BY DEF Init, PlanTypes
<1>2. \A w \in Waves : DOMAIN plan[w] = {}
  BY DEF Init
<1>3. PlanOnce
  BY <1>2 DEF Init, PlanOnce
<1>4. ASSUME NEW W \in SUBSET Waves PROVE Cardinality(Used(W)) = 0
  <2>1. Used(W) = {}
    BY <1>2, InUsed
  <2> QED
    BY <2>1, FS_EmptySet
<1>5. \A w \in Waves : 0 <= Ceiling(w)
  <2> TAKE w \in Waves
  <2>1. 1 \in Waves /\ 1 <= w
    BY WaveTypes
  <2>2. Ceiling(1) <= Ceiling(w) /\ Ceiling(1) - Reserves[1] >= 0 /\ Reserves[1] \in Nat
        /\ Ceiling(1) \in Int /\ Ceiling(w) \in Int
    BY <2>1, CeilingsRise, Ceilings
  <2> QED
    BY <2>2
<1>6. PlanFits
  <2>1. Cardinality(Used(Waves)) <= MaxDomains
    BY <1>4, WaveTypes
  <2>2. \A w \in Waves : 1..w \in SUBSET Waves
    BY WaveTypes
  <2>3. \A w \in Waves : Cardinality(Used(1..w)) <= Ceiling(w)
    BY <1>4, <1>5, <2>2
  <2>4. undecided = Sources
    BY DEF Init
  <2> QED
    BY <2>1, <2>3, <2>4 DEF PlanFits
<1> QED
  BY <1>1, <1>3, <1>6

\* Taking a source, whichever list it comes from.
LEMMA TakenOnce ==
  ASSUME PlanTypes, PlanOnce, NEW s \in undecided \cup deferred, Take(s), catalog' = catalog, pc' = pc,
         \/ s \in undecided /\ undecided' = undecided \ {s} /\ deferred' = deferred
         \/ s \in deferred /\ undecided' = undecided /\ deferred' = deferred \ {s},
         \A t \in undecided' : catalog.wave[s] <= catalog.wave[t]
  PROVE  PlanTypes' /\ PlanOnce'
<1> DEFINE v == catalog.wave[s]
<1>1. s \in Sources /\ v \in Waves
  BY CatalogTypes DEF PlanTypes
<1>2. plan' \in [Waves -> Seq(Sources)] /\ \A w \in Waves : plan'[w] = IF w = v THEN Append(plan[w], s) ELSE plan[w]
  BY <1>1, TakeUses
<1>3. PlanTypes'
  BY <1>2 DEF PlanTypes
<1>4. ASSUME NEW w \in Waves, NEW i \in DOMAIN plan'[w]
      PROVE  \/ i \in DOMAIN plan[w] /\ plan'[w][i] = plan[w][i]
             \/ w = v /\ i = Len(plan[v]) + 1 /\ plan'[w][i] = s
  <2>1. plan[w] \in Seq(Sources)
    BY DEF PlanTypes
  <2>2. CASE w = v
    <3>1. plan'[w] = Append(plan[w], s)
      BY <1>2, <2>2
    <3>2. /\ DOMAIN plan[w] = 1..Len(plan[w]) /\ Len(plan[w]) \in Nat
          /\ DOMAIN plan'[w] = 1..(Len(plan[w]) + 1)
          /\ \A k \in 1..Len(plan[w]) : plan'[w][k] = plan[w][k]
          /\ plan'[w][Len(plan[w]) + 1] = s
      BY <1>1, <2>1, <3>1, Appended
    <3>3. i \in 1..Len(plan[w]) \/ i = Len(plan[w]) + 1
      BY <3>2
    <3> QED
      BY <2>2, <3>2, <3>3
  <2>3. CASE w # v
    BY <1>2, <2>3
  <2> QED
    BY <2>2, <2>3
<1>5. ASSUME NEW w \in Waves, NEW i \in DOMAIN plan'[w]
      PROVE  catalog.wave[plan'[w][i]] = w /\ plan'[w][i] \notin undecided' \cup deferred'
  <2>1. s \notin undecided' \cup deferred' /\ undecided' \cup deferred' \subseteq undecided \cup deferred
    BY DEF PlanOnce
  <2> QED
    BY <1>4, <2>1 DEF PlanOnce
<1>6. ASSUME NEW w \in Waves, NEW i \in DOMAIN plan'[w], NEW j \in DOMAIN plan'[w], plan'[w][i] = plan'[w][j]
      PROVE  i = j
  <2>1. \A k \in DOMAIN plan[w] : plan[w][k] # s
    BY DEF PlanOnce
  <2>2. \/ i \in DOMAIN plan[w] /\ plan'[w][i] = plan[w][i]
        \/ w = v /\ i = Len(plan[v]) + 1 /\ plan'[w][i] = s
    BY <1>4
  <2>3. \/ j \in DOMAIN plan[w] /\ plan'[w][j] = plan[w][j]
        \/ w = v /\ j = Len(plan[v]) + 1 /\ plan'[w][j] = s
    BY <1>4
  <2>4. \A k, l \in DOMAIN plan[w] : plan[w][k] = plan[w][l] => k = l
    BY DEF PlanOnce
  <2> HIDE DEF v
  <2> QED
    BY <1>6, <2>1, <2>2, <2>3, <2>4, Zenon
<1>7. undecided' \cap deferred' = {} /\ (pc' # "plan" => undecided' = {} /\ deferred' = {})
  BY DEF PlanOnce
<1>8. \A t \in Sources \ undecided', u \in undecided' : catalog.wave[t] <= catalog.wave[u]
  BY DEF PlanOnce
<1> QED
  BY <1>3, <1>5, <1>6, <1>7, <1>8 DEF PlanOnce

\* The facts of the plan after a step.
UsedCounts ==
  \A W \in SUBSET Waves :
    Cardinality(Used(W)) \in Nat /\ Cardinality(Used(W)) <= Cardinality(Used(Waves))

\* The domains of any waves can be counted, and are no more than those of all.
LEMMA Counts == PlanTypes => UsedCounts
<1> SUFFICES ASSUME PlanTypes, NEW W \in SUBSET Waves
             PROVE  Cardinality(Used(W)) \in Nat /\ Cardinality(Used(W)) <= Cardinality(Used(Waves))
  BY DEF UsedCounts
<1>1. Used(W) \in SUBSET Used(Waves)
  BY InUsed
<1> QED
  BY <1>1, FiniteUsed, FS_Subset

\* The same after a step.
LEMMA CountsNext == PlanTypes' => UsedCounts'
BY Counts, PTL

\* Taking a source leaves a place where another one does not fit no less full.
LEMMA TakenMore ==
  ASSUME PlanTypes, NEW s \in Sources, Take(s), catalog' = catalog, NEW t \in Sources,
         NEW W \in SUBSET Waves
  PROVE  /\ Cardinality(Used(W) \cup DomainsOf(t)) <= Cardinality(Used(W)' \cup DomainsOf(t)')
         /\ Cardinality(Used(W)' \cup DomainsOf(t)') \in Nat /\ Cardinality(Used(W) \cup DomainsOf(t)) \in Nat
<1>1. /\ DomainsOf(t)' = DomainsOf(t) /\ Used(W) \subseteq Used(W)'
      /\ Used(W)' \subseteq Used(W) \cup DomainsOf(s)
  BY TakeUses
<1>2. IsFiniteSet((Used(W) \cup DomainsOf(s)) \cup DomainsOf(t))
  BY Growth, FiniteDomains, FS_Union DEF PlanTypes
<1>3. IsFiniteSet(Used(W)' \cup DomainsOf(t)')
  <2>1. Used(W)' \cup DomainsOf(t)' \in SUBSET ((Used(W) \cup DomainsOf(s)) \cup DomainsOf(t))
    BY <1>1
  <2> QED
    BY <1>2, <2>1, FS_Subset
<1>4. Used(W) \cup DomainsOf(t) \in SUBSET (Used(W)' \cup DomainsOf(t)')
  BY <1>1
<1> QED
  BY <1>3, <1>4, FS_Subset, FS_CardinalityType

\* The first pass of the plan (_apply_default_wave_domain_reserves) keeps the invariant.
LEMMA ChoosePlans ==
  ASSUME PlanTypes, PlanOnce, PlanFits, Choose
  PROVE  PlanTypes' /\ PlanOnce' /\ PlanFits'
<1>1. PICK s \in Sources :
        /\ First(s, undecided) /\ undecided' = undecided \ {s}
        /\ IF catalog.subset \/ Fits(s, Ceiling(catalog.wave[s]))
           THEN Take(s) /\ deferred' = deferred
           ELSE deferred' = deferred \cup {s} /\ plan' = plan
  BY DEF Choose
<1>2. catalog' = catalog /\ pc' = pc /\ pc = "plan"
  BY DEF Choose, search
<1> DEFINE v == catalog.wave[s]
<1>3. s \in undecided /\ v \in Waves /\ \A t \in Sources : catalog.wave[t] \in Waves
  BY <1>1, CatalogTypes DEF First, PlanTypes
<1>4. \A t \in undecided : v <= catalog.wave[t]
  <2> TAKE t \in undecided
  <2>1. t \in Sources /\ catalog.wave[t] \in Nat /\ v \in Nat
    BY <1>3, WaveTypes DEF PlanTypes
  <2> QED
    BY <1>1, <2>1 DEF First, Earlier
<1>5. CASE catalog.subset \/ Fits(s, Ceiling(v))
  <2>1. Take(s) /\ deferred' = deferred
    BY <1>1, <1>5
  <2>2. PlanTypes' /\ PlanOnce'
    BY <1>1, <1>2, <1>3, <1>4, <2>1, TakenOnce
  <2>3. /\ \A t \in Sources : DomainsOf(t)' = DomainsOf(t)
        /\ \A t \in Sources : Planned(t)' <=> Planned(t) \/ t = s
        /\ \A W \in SUBSET Waves :
             Used(W)' = Used(W) \cup (IF v \in W THEN DomainsOf(s) ELSE {})
    BY <1>2, <1>3, <2>1, TakeUses
  <2>4. ASSUME ~catalog.subset PROVE Cardinality(Used(Waves)') <= Ceiling(v)
    <3>1. Used(Waves)' = Used(Waves) \cup DomainsOf(s)
      BY <1>3, <2>3
    <3> QED
      BY <1>5, <2>4, <3>1 DEF Fits
  <2>5. ASSUME ~catalog.subset PROVE Cardinality(Used(Waves)') <= MaxDomains
    <3>1. Ceiling(v) \in Int /\ Ceiling(v) <= MaxDomains /\ MaxDomains \in Int
      BY <1>3, Ceilings, WaveTypes
    <3>2. Cardinality(Used(Waves)') \in Nat
      BY <2>2, CountsNext DEF UsedCounts
    <3> QED
      BY <2>4, <2>5, <3>1, <3>2
  <2>6. ASSUME ~catalog.subset, NEW w \in Waves PROVE Cardinality(Used(1..w)') <= Ceiling(w)
    <3>1. 1..w \in SUBSET Waves
      BY WaveTypes
    <3>2. CASE v <= w
      <4>1. Ceiling(v) <= Ceiling(w) /\ Ceiling(v) \in Int /\ Ceiling(w) \in Int
        BY <1>3, <3>2, CeilingsRise, Ceilings
      <4>2. Cardinality(Used(1..w)') <= Cardinality(Used(Waves)') /\ Cardinality(Used(Waves)') \in Nat
            /\ Cardinality(Used(1..w)') \in Nat
        BY <2>2, <3>1, CountsNext DEF UsedCounts
      <4> QED
        BY <2>4, <2>6, <4>1, <4>2
    <3>3. CASE ~(v <= w)
      <4>1. v \notin 1..w
        BY <1>3, <3>3, WaveTypes
      <4>2. Used(1..w)' = Used(1..w)
        BY <2>3, <3>1, <4>1
      <4> QED
        BY <1>3, <2>6, <4>2 DEF PlanFits
    <3> QED
      BY <3>2, <3>3
  <2>7. PlanFits'
    <3> SUFFICES ASSUME ~catalog.subset PROVE PlanFits'
      BY <1>2 DEF PlanFits
    <3>1. ASSUME NEW t \in Sources \ undecided', ~Planned(t)'
          PROVE  Cardinality(Used({catalog.wave[t]})' \cup DomainsOf(t)') > Reserves[catalog.wave[t]]
      <4>1. t # s /\ ~Planned(t) /\ t \notin undecided
        BY <1>1, <2>3, <3>1
      <4>2. PICK u \in Waves : u = catalog.wave[t]
        BY <1>3
      <4>3. Cardinality(Used({u}) \cup DomainsOf(t)) > Reserves[u]
        BY <4>1, <4>2 DEF PlanFits
      <4>4. Cardinality(Used({u})' \cup DomainsOf(t)') > Reserves[u]
        <5>1. {u} \in SUBSET Waves /\ Reserves[u] \in Nat
          BY Ceilings
        <5>2. /\ Cardinality(Used({u}) \cup DomainsOf(t)) <= Cardinality(Used({u})' \cup DomainsOf(t)')
              /\ Cardinality(Used({u})' \cup DomainsOf(t)') \in Nat
              /\ Cardinality(Used({u}) \cup DomainsOf(t)) \in Nat
          BY <1>2, <2>1, <5>1, TakenMore
        <5> QED
          BY <4>3, <5>1, <5>2
      <4> QED
        BY <1>2, <4>2, <4>4
    <3>2. ASSUME NEW t \in Sources \ (undecided' \cup deferred'), ~Planned(t)'
          PROVE  ~Fits(t, MaxDomains)'
      <4>1. t # s /\ ~Planned(t) /\ t \notin undecided \cup deferred
        BY <1>1, <2>1, <2>3, <3>2
      <4>2. ~(Cardinality(Used(Waves) \cup DomainsOf(t)) <= MaxDomains)
        BY <4>1 DEF PlanFits, Fits
      <4>3. /\ Cardinality(Used(Waves) \cup DomainsOf(t)) <= Cardinality(Used(Waves)' \cup DomainsOf(t)')
            /\ Cardinality(Used(Waves)' \cup DomainsOf(t)') \in Nat
            /\ Cardinality(Used(Waves) \cup DomainsOf(t)) \in Nat
        BY <1>2, <2>1, TakenMore
      <4> QED
        BY <4>2, <4>3, WaveTypes DEF Fits
    <3> QED
      BY <1>2, <2>5, <2>6, <3>1, <3>2 DEF PlanFits
  <2> QED
    BY <2>2, <2>7
<1>6. CASE ~(catalog.subset \/ Fits(s, Ceiling(v)))
  <2>1. deferred' = deferred \cup {s} /\ plan' = plan
    BY <1>1, <1>6
  <2>2. PlanTypes' /\ PlanOnce'
    BY <1>1, <1>2, <1>3, <1>4, <2>1 DEF PlanTypes, PlanOnce
  <2>3. /\ \A t \in Sources : DomainsOf(t)' = DomainsOf(t)
        /\ \A t \in Sources : Planned(t)' <=> Planned(t)
        /\ \A W \in SUBSET Waves : Used(W)' = Used(W)
    BY <1>2, <2>1 DEF DomainsOf, Planned, Used
  <2>4. Cardinality(Used({v}) \cup DomainsOf(s)) > Reserves[v]
    BY <1>1, <1>3, <1>6, DeferredAtReserve
  <2>5. PlanFits'
    <3>1. ASSUME NEW t \in Sources \ undecided', ~Planned(t)'
          PROVE  Cardinality(Used({catalog.wave[t]})' \cup DomainsOf(t)') > Reserves[catalog.wave[t]]
      <4>1. t = s \/ t \notin undecided
        BY <1>1
      <4>2. PICK u \in Waves : u = catalog.wave[t]
        BY <1>3
      <4>3. Used({u})' = Used({u}) /\ DomainsOf(t)' = DomainsOf(t) /\ ~Planned(t)
        BY <2>3, <3>1
      <4>4. Cardinality(Used({u}) \cup DomainsOf(t)) > Reserves[u]
        BY <1>6, <2>4, <4>1, <4>2, <4>3 DEF PlanFits
      <4> QED
        BY <1>2, <4>2, <4>3, <4>4
    <3>2. ASSUME NEW t \in Sources \ (undecided' \cup deferred'), ~Planned(t)'
          PROVE  ~Fits(t, MaxDomains)'
      <4>1. t \notin undecided \cup deferred /\ ~Planned(t)
        BY <1>1, <2>1, <2>3, <3>2
      <4>2. ~Fits(t, MaxDomains)
        BY <1>6, <4>1 DEF PlanFits
      <4> QED
        BY <2>3, <4>2 DEF Fits
    <3>3. Cardinality(Used(Waves)') <= MaxDomains
      BY <1>6, <2>3 DEF PlanFits
    <3>4. ASSUME NEW w \in Waves PROVE Cardinality(Used(1..w)') <= Ceiling(w)
      <4>1. 1..w \in SUBSET Waves
        BY WaveTypes
      <4> QED
        BY <1>3, <1>6, <2>3, <4>1 DEF PlanFits
    <3> QED
      BY <1>2, <3>1, <3>2, <3>3, <3>4 DEF PlanFits
  <2> QED
    BY <2>2, <2>5
<1> QED
  BY <1>5, <1>6

\* The second pass, over the deferred sources, keeps it as well.
LEMMA FillPlans ==
  ASSUME PlanTypes, PlanOnce, PlanFits, Fill
  PROVE  PlanTypes' /\ PlanOnce' /\ PlanFits'
<1>1. PICK s \in Sources :
        /\ s \in deferred /\ deferred' = deferred \ {s}
        /\ IF Fits(s, MaxDomains) THEN Take(s) ELSE plan' = plan
  BY DEF Fill, First
<1>2. catalog' = catalog /\ pc' = pc /\ undecided' = undecided /\ undecided = {}
  BY DEF Fill, search
<1>3. \A t \in Sources : catalog.wave[t] \in Waves
  BY CatalogTypes DEF PlanTypes
<1>4. CASE Fits(s, MaxDomains)
  <2>1. Take(s)
    BY <1>1, <1>4
  <2>2. PlanTypes' /\ PlanOnce'
    BY <1>1, <1>2, <2>1, TakenOnce
  <2>3. /\ \A t \in Sources : Planned(t)' <=> Planned(t) \/ t = s
        /\ Used(Waves)' = Used(Waves) \cup DomainsOf(s)
    BY <1>2, <1>3, <2>1, TakeUses
  <2>4. Cardinality(Used(Waves)') <= MaxDomains
    BY <1>4, <2>3 DEF Fits
  <2>5. PlanFits'
    <3>1. ASSUME ~catalog.subset, NEW t \in Sources \ undecided', ~Planned(t)'
          PROVE  Cardinality(Used({catalog.wave[t]})' \cup DomainsOf(t)') > Reserves[catalog.wave[t]]
      <4>1. t # s /\ ~Planned(t) /\ t \notin undecided
        BY <1>2, <2>3, <3>1
      <4>2. PICK u \in Waves : u = catalog.wave[t]
        BY <1>3
      <4>3. Cardinality(Used({u}) \cup DomainsOf(t)) > Reserves[u]
        BY <3>1, <4>1, <4>2 DEF PlanFits
      <4>4. {u} \in SUBSET Waves /\ Reserves[u] \in Nat
        BY Ceilings
      <4>5. /\ Cardinality(Used({u}) \cup DomainsOf(t)) <= Cardinality(Used({u})' \cup DomainsOf(t)')
            /\ Cardinality(Used({u})' \cup DomainsOf(t)') \in Nat
            /\ Cardinality(Used({u}) \cup DomainsOf(t)) \in Nat
        BY <1>2, <2>1, <4>4, TakenMore
      <4>6. Cardinality(Used({u})' \cup DomainsOf(t)') > Reserves[u]
        BY <4>3, <4>4, <4>5
      <4> QED
        BY <1>2, <4>2, <4>6
    <3>2. ASSUME ~catalog.subset, NEW t \in Sources \ (undecided' \cup deferred'), ~Planned(t)'
          PROVE  ~Fits(t, MaxDomains)'
      <4>1. t # s /\ ~Planned(t) /\ t \notin undecided \cup deferred
        BY <1>1, <1>2, <2>3, <3>2
      <4>2. ~(Cardinality(Used(Waves) \cup DomainsOf(t)) <= MaxDomains)
        BY <3>2, <4>1 DEF PlanFits, Fits
      <4>3. /\ Cardinality(Used(Waves) \cup DomainsOf(t)) <= Cardinality(Used(Waves)' \cup DomainsOf(t)')
            /\ Cardinality(Used(Waves)' \cup DomainsOf(t)') \in Nat
            /\ Cardinality(Used(Waves) \cup DomainsOf(t)) \in Nat
        BY <1>2, <2>1, TakenMore
      <4> QED
        BY <4>2, <4>3, WaveTypes DEF Fits
    <3> QED
      BY <1>2, <2>4, <3>1, <3>2 DEF PlanFits
  <2> QED
    BY <2>2, <2>5
<1>5. CASE ~Fits(s, MaxDomains)
  <2>1. plan' = plan
    BY <1>1, <1>5
  <2>2. PlanTypes' /\ PlanOnce'
    BY <1>1, <1>2, <2>1 DEF PlanTypes, PlanOnce
  <2>3. /\ \A t \in Sources : Planned(t)' <=> Planned(t)
        /\ \A t : DomainsOf(t)' = DomainsOf(t)
        /\ \A W : Used(W)' = Used(W)
    BY <1>2, <2>1 DEF Planned, DomainsOf, Used
  <2>4. PlanFits'
    <3>1. ASSUME ~catalog.subset, NEW t \in Sources \ undecided', ~Planned(t)'
          PROVE  Cardinality(Used({catalog.wave[t]})' \cup DomainsOf(t)') > Reserves[catalog.wave[t]]
      <4>1. PICK u \in Waves : u = catalog.wave[t]
        BY <1>3
      <4>2. Cardinality(Used({u}) \cup DomainsOf(t)) > Reserves[u]
        BY <1>2, <2>3, <3>1, <4>1 DEF PlanFits
      <4>3. Used({u})' = Used({u}) /\ DomainsOf(t)' = DomainsOf(t)
        BY <2>3
      <4> QED
        BY <1>2, <4>1, <4>2, <4>3
    <3>2. ASSUME ~catalog.subset, NEW t \in Sources \ (undecided' \cup deferred'), ~Planned(t)'
          PROVE  ~Fits(t, MaxDomains)'
      <4>1. t = s \/ t \notin undecided \cup deferred
        BY <1>1, <1>2, <3>2
      <4>2. ~Fits(t, MaxDomains)
        BY <1>5, <2>3, <3>2, <4>1 DEF PlanFits
      <4> QED
        BY <2>3, <4>2 DEF Fits
    <3>3. ~catalog.subset => Cardinality(Used(Waves)') <= MaxDomains
      BY <2>3 DEF PlanFits
    <3> QED
      BY <1>2, <3>1, <3>2, <3>3 DEF PlanFits
  <2> QED
    BY <2>2, <2>4
<1> QED
  BY <1>4, <1>5

\* Once the run has begun, the plan stays as it is.
LEMMA PlanStays ==
  ASSUME PlanTypes, PlanOnce, PlanFits, UNCHANGED planned, pc = "plan" => (undecided = {} /\ deferred = {}) \/ pc' = pc
  PROVE  PlanTypes' /\ PlanOnce' /\ PlanFits'
<1>1. catalog' = catalog /\ plan' = plan /\ undecided' = undecided /\ deferred' = deferred
  BY DEF planned
<1>2. PlanTypes'
  BY <1>1 DEF PlanTypes
<1>3. PlanOnce'
  BY <1>1 DEF PlanOnce
<1>4. PlanFits'
  BY <1>1 DEF PlanFits, Used, Planned, DomainsOf, Fits
<1> QED
  BY <1>2, <1>3, <1>4

\* Every step of the search keeps the invariant of the plan.
LEMMA NextPlan ==
  ASSUME PlanTypes, PlanOnce, PlanFits, [Next]_vars
  PROVE  PlanTypes' /\ PlanOnce' /\ PlanFits'
<1>1. CASE Choose
  BY <1>1, ChoosePlans
<1>2. CASE Fill
  BY <1>2, FillPlans
<1>3. CASE BeginRun
  <2>1. UNCHANGED planned /\ undecided = {} /\ deferred = {}
    BY <1>3 DEF BeginRun, progress
  <2> QED
    BY <2>1, PlanStays
<1>4. CASE UNCHANGED vars
  <2>1. UNCHANGED planned /\ pc' = pc
    BY <1>4 DEF vars, planned
  <2> QED
    BY <2>1, PlanStays
<1>5. ASSUME \/ BeginWave \/ BeginSource \/ EndWave \/ BudgetStop \/ Attempt \/ AppendFails
             \/ Sleep \/ SleeperFails \/ NextRoute \/ EndSource \/ Finish
      PROVE  UNCHANGED planned /\ pc # "plan"
  BY <1>5 DEF BeginWave, BeginSource, EndWave, BudgetStop, Attempt, AppendFails, Sleep, SleeperFails,
              NextRoute, EndSource, Finish, progress
<1>6. CASE \/ BeginWave \/ BeginSource \/ EndWave \/ BudgetStop \/ Attempt \/ AppendFails
           \/ Sleep \/ SleeperFails \/ NextRoute \/ EndSource \/ Finish
  BY <1>5, <1>6, PlanStays
<1> QED
  BY <1>1, <1>2, <1>3, <1>4, <1>6 DEF Next

PlanInv == PlanTypes /\ PlanOnce /\ PlanFits

\* Once everything is decided, the plan keeps to the cap and to the reserves.
LEMMA PlanKept == PlanInv => PlanKeepsReserves
<1> SUFFICES ASSUME PlanInv, pc # "plan", ~catalog.subset
             PROVE  /\ Cardinality(Used(Waves)) <= MaxDomains
                    /\ \A s \in Sources : ~Planned(s) =>
                         /\ ~Fits(s, MaxDomains)
                         /\ Cardinality(Used({catalog.wave[s]}) \cup DomainsOf(s))
                              > Reserves[catalog.wave[s]]
  BY DEF PlanKeepsReserves, Planned
<1>1. undecided = {} /\ deferred = {}
  BY DEF PlanInv, PlanOnce
<1> QED
  BY <1>1 DEF PlanInv, PlanFits

-----------------------------------------------------------------------------
Trying == pc \in {"attempt", "sleep"}
Underway == Trying \/ pc = "route"

\* The sources up to the one where the run is.
Reached(s) ==
  \E t \in DOMAIN plan[catalog.wave[s]] :
    /\ plan[catalog.wave[s]][t] = s
    /\ \/ catalog.wave[s] < at.wave
       \/ catalog.wave[s] = at.wave /\ (t < at.turn \/ (t = at.turn /\ pc # "source"))

\* Where the run is in its plan.
Places ==
  /\ pc = "source" \/ Underway => at.wave \in Waves /\ at.turn > 0
  /\ pc \in {"wave", "done"} => at.turn = 0
  /\ pc = "plan" => rows = <<>> /\ circuits = {} /\ at.turn = 0
  /\ Underway => at.turn \in DOMAIN plan[at.wave] /\ at.route \in 1..Len(catalog.routes[Source])
  /\ Trying => Len(routes) = at.route - 1
  /\ pc = "route" => Len(routes) = at.route
  /\ pc = "sleep" => at.attempt < MaxAttempts

\* The attempts so far are behind the next one.
Behind(r) ==
  /\ r.source \in Sources /\ Reached(r.source) /\ r.wave = catalog.wave[r.source]
  /\ r.route \in Nat /\ r.strategy \in Strategies /\ r.attempt \in 1..MaxAttempts
  /\ r.disposition \in OpensCircuit => r.source \in circuits
  /\ Underway /\ r.source = Source => r.route <= at.route
  /\ Trying /\ r.source = Source /\ r.route = at.route =>
       \/ r.strategy < at.strategy
       \/ r.strategy = at.strategy /\ r.attempt < at.attempt
       \/ r.strategy = at.strategy /\ r.attempt = at.attempt /\ pc = "sleep"

Follows ==
  /\ rows \in Seq(Rng(rows)) /\ routes \in Seq(Rng(routes))
  /\ \A i \in DOMAIN rows : Behind(rows[i])
  /\ \A s \in circuits : Reached(s)
  /\ Trying => Source \notin circuits

\* The budgets, and the rows that they leave room for.
Counted ==
  /\ IsFiniteSet(domains)
  /\ Len(rows) + (IF pc = "sleep" THEN 1 ELSE 0) <= 2 * Attempts
  /\ file = rows \/ (pc = "dead" /\ file = Append(rows, Torn))

\* Sources are left at once, and attempts are never repeated.
Once ==
  \A i, j \in DOMAIN rows : i < j =>
    /\ rows[i].disposition \in OpensCircuit => rows[i].source # rows[j].source
    /\ rows[i].event = "CAPTURE" /\ rows[j].event = "CAPTURE" =>
         \E f \in {"source", "route", "strategy", "attempt"} : rows[i][f] # rows[j][f]

Within == Attempts <= catalog.requests /\ Cardinality(domains) <= MaxDomains

RunInv == TypeOK /\ Places /\ Follows /\ Counted /\ Once /\ Within

\* The invariant of the run implies its types, and that sources fail over.
LEMMA FromRun == RunInv => TypeOK /\ SourcesFailOver
BY DEF RunInv, SourcesFailOver, Once, Within

-----------------------------------------------------------------------------
(* Facts of a source that is under way. *)

\* The source that is under way is planned for its wave, and its domain is its own.
LEMMA CurrentSource ==
  ASSUME PlanInv, TypeOK, Places, Underway
  PROVE  /\ Source \in Sources /\ catalog.wave[Source] = at.wave
         /\ at.turn \in DOMAIN plan[at.wave] /\ at.wave \in Waves
         /\ Domain \in DomainsOf(Source)
         /\ \A t \in DOMAIN plan[at.wave] : plan[at.wave][t] = Source => t = at.turn
<1>1. at.wave \in Waves /\ at.turn \in DOMAIN plan[at.wave]
  BY DEF Places
<1>2. plan[at.wave] \in Seq(Sources)
  BY <1>1 DEF TypeOK
<1>3. Source \in Sources
  BY <1>1, <1>2 DEF Source
<1>4. catalog.wave[Source] = at.wave
  BY <1>1 DEF PlanInv, PlanOnce, Source
<1>5. Domain \in DomainsOf(Source)
  <2>1. catalog.routes[Source] \in Seq(DomainsOf(Source)) /\ at.route \in 1..Len(catalog.routes[Source])
    BY <1>3, CatalogTypes DEF TypeOK, Places
  <2> QED
    BY <2>1 DEF Domain
<1> QED
  BY <1>1, <1>3, <1>4, <1>5 DEF PlanInv, PlanOnce, Source

\* What holds of every answer to strategy k.
AnswerFits(r, k) == r.proof \in 0..k /\ r.content \in BOOLEAN

\* Every answer that a connector may give fits.
LEMMA AnswerTypes ==
  ASSUME TypeOK, NEW r \in Connector.answers[at.strategy]
  PROVE  AnswerFits(r, at.strategy)
<1>1. at.strategy \in Strategies
  BY DEF TypeOK
<1>2. Connector.answers[at.strategy] \subseteq Answers(at.strategy)
  BY <1>1, CatalogTypes, ConnectorsAssumption DEF TypeOK, Connector
<1>3. r \in Answers(at.strategy)
  BY <1>2
<1> QED
  BY <1>3 DEF Answers, AnswerFits

\* So does the failure that stands for bytes that could not be written.
LEMMA UnsavedFits == \A k \in Strategies : AnswerFits(Unsaved, k)
BY DEF Unsaved, Failure, AnswerFits, Strategies

\* A row more.
LEMMA OneMore ==
  ASSUME NEW q, q \in Seq(Rng(q)), NEW e
  PROVE  /\ Append(q, e) \in Seq(Rng(Append(q, e))) /\ Len(Append(q, e)) = Len(q) + 1
         /\ DOMAIN q = 1..Len(q) /\ DOMAIN Append(q, e) = 1..(Len(q) + 1)
         /\ Len(q) \in Nat
         /\ \A i \in 1..Len(q) : Append(q, e)[i] = q[i]
         /\ Append(q, e)[Len(q) + 1] = e
         /\ Rng(Append(q, e)) = Rng(q) \cup {e}
<1> DEFINE S == Rng(q) \cup {e}
<1>1. q \in Seq(S) /\ e \in S
  OBVIOUS
<1> HIDE DEF S
<1>2. Rng(Append(q, e)) = Rng(q) \cup {e} /\ Append(q, e) \in Seq(S)
  BY <1>1, Appended
<1>3. S = Rng(q) \cup {e}
  BY DEF S
<1> QED
  BY <1>1, <1>2, <1>3, Appended

\* The attempts in a ledger can be counted.
LEMMA FiniteCaptures ==
  ASSUME NEW q, q \in Seq(Rng(q))
  PROVE  /\ IsFiniteSet(Captures(q)) /\ Cardinality(Captures(q)) \in Nat
         /\ Captures(q) \subseteq DOMAIN q
<1>1. DOMAIN q = 1..Len(q) /\ Len(q) \in Nat
  OBVIOUS
<1>2. Captures(q) \in SUBSET (1..Len(q)) /\ IsFiniteSet(1..Len(q))
  BY <1>1, FS_Interval DEF Captures
<1> QED
  BY <1>1, <1>2, FS_Subset, FS_CardinalityType

\* A row counts as an attempt unless it is a control row.
LEMMA CapturesGrow ==
  ASSUME NEW q, q \in Seq(Rng(q)), NEW e
  PROVE  Cardinality(Captures(Append(q, e)))
           = IF e.event = "CAPTURE" THEN Cardinality(Captures(q)) + 1 ELSE Cardinality(Captures(q))
<1> DEFINE n == Len(q) + 1
<1>1. /\ DOMAIN q = 1..Len(q) /\ DOMAIN Append(q, e) = 1..n /\ Len(q) \in Nat
      /\ \A i \in 1..Len(q) : Append(q, e)[i] = q[i]
      /\ Append(q, e)[n] = e
  BY OneMore
<1>2. \A i : i \in 1..n <=> i \in 1..Len(q) \/ i = n
  BY <1>1
<1>3. n \notin Captures(q) /\ IsFiniteSet(Captures(q))
  BY <1>1, FiniteCaptures DEF Captures
<1> HIDE DEF n
<1>4. Captures(Append(q, e)) = IF e.event = "CAPTURE" THEN Captures(q) \cup {n} ELSE Captures(q)
  BY <1>1, <1>2 DEF Captures
<1> QED
  BY <1>3, <1>4, FS_AddElement

-----------------------------------------------------------------------------
(* The run goes on. *)

Onward ==
  \/ at.wave < at'.wave
  \/ /\ at.wave = at'.wave
     /\ at.turn < at'.turn \/ (at.turn = at'.turn /\ (pc # "source" => pc' # "source"))

\* Every source has its wave.
LEMMA WaveOf ==
  ASSUME PlanInv
  PROVE  \A s \in Sources : catalog.wave[s] \in Waves /\ catalog.wave[s] \in Nat
BY CatalogTypes, WaveTypes DEF PlanInv, PlanTypes

\* The types of the place where the run is.
LEMMA AtTypes ==
  ASSUME TypeOK
  PROVE  /\ at.wave \in Nat /\ at.turn \in Nat /\ at.route \in Nat
         /\ at.strategy \in Nat /\ at.strategy \in 1..4 /\ at.attempt \in 1..2
         /\ \A w \in Waves : DOMAIN plan[w] \subseteq Nat /\ DOMAIN plan[w] = 1..Len(plan[w]) /\ Len(plan[w]) \in Nat
<1>1. at.wave \in 1..(Len(Reserves) + 1) /\ Len(Reserves) \in Nat
  BY WaveTypes DEF TypeOK
<1>2. \A w \in Waves : plan[w] \in Seq(Sources)
  BY DEF TypeOK
<1>3. \A w \in Waves : DOMAIN plan[w] \subseteq Nat /\ DOMAIN plan[w] = 1..Len(plan[w]) /\ Len(plan[w]) \in Nat
  BY <1>2
<1>4. at.turn \in Nat /\ at.route \in Nat /\ at.strategy \in 1..4 /\ at.attempt \in 1..2
  BY DEF TypeOK, Strategies, MaxAttempts
<1> QED
  BY <1>1, <1>3, <1>4

\* As the run goes on, the sources that it has reached stay reached.
LEMMA ReachedStays ==
  ASSUME PlanInv, TypeOK, UNCHANGED planned, Onward, at'.wave \in Nat, at'.turn \in Nat,
         NEW s \in Sources, Reached(s)
  PROVE  Reached(s)'
<1>1. plan' = plan /\ catalog' = catalog
  BY DEF planned
<1> DEFINE w == catalog.wave[s]
<1>2. PICK t \in DOMAIN plan[w] :
        /\ plan[w][t] = s
        /\ w < at.wave \/ (w = at.wave /\ (t < at.turn \/ (t = at.turn /\ pc # "source")))
  BY DEF Reached
<1>3. w \in Waves /\ w \in Nat /\ at.wave \in Nat /\ at.turn \in Nat
  BY WaveOf, AtTypes
<1>4. t \in Nat
  BY <1>3, AtTypes
<1>5. w < at'.wave \/ (w = at'.wave /\ (t < at'.turn \/ (t = at'.turn /\ pc' # "source")))
  <2> HIDE DEF w
  <2> QED
    BY <1>2, <1>3, <1>4 DEF Onward
<1> QED
  BY <1>1, <1>2, <1>5 DEF Reached

\* Nothing is written, and no source is under way.
LEMMA Resting ==
  ASSUME PlanInv, TypeOK, Follows, UNCHANGED planned, rows' = rows, circuits' = circuits,
         routes' \in Seq(Rng(routes')), Onward, at'.wave \in Nat, at'.turn \in Nat, ~Underway'
  PROVE  Follows'
<1>1. catalog' = catalog
  BY DEF planned
<1>2. ASSUME NEW i \in DOMAIN rows PROVE Behind(rows[i])'
  <2>1. Behind(rows[i]) /\ rows[i].source \in Sources /\ Reached(rows[i].source)
    BY DEF Follows, Behind
  <2>2. Reached(rows[i].source)'
    <3>1. PICK s \in Sources : s = rows[i].source
      BY <2>1
    <3>2. Reached(s)'
      BY <2>1, <3>1, ReachedStays
    <3> QED
      BY <3>1, <3>2
  <2>3. ~Trying'
    BY DEF Underway
  <2> QED
    BY <1>1, <2>1, <2>2, <2>3 DEF Behind
<1>3. ASSUME NEW s \in circuits PROVE Reached(s)'
  BY <1>3, ReachedStays DEF Follows, TypeOK
<1>4. ~Trying'
  BY DEF Underway
<1> QED
  BY <1>2, <1>3, <1>4 DEF Follows

\* Steps that write no row and open no domain keep the counts.
LEMMA Unwritten ==
  ASSUME Counted, Once, Within, UNCHANGED <<rows, file, domains>>, catalog' = catalog,
         pc' # "sleep", pc # "dead", rows \in Seq(Rng(rows))
  PROVE  Counted' /\ Once' /\ Within'
<1>1. Attempts' = Attempts /\ Attempts \in Nat /\ Len(rows) \in Nat
  BY FiniteCaptures DEF Attempts
<1>2. Counted'
  BY <1>1 DEF Counted
<1>3. Once'
  BY DEF Once
<1>4. Within'
  BY <1>1 DEF Within
<1> QED
  BY <1>2, <1>3, <1>4

\* The invariant of the run holds before the plan is made.
LEMMA InitRun == Init => RunInv
<1> SUFFICES ASSUME Init PROVE RunInv
  OBVIOUS
<1>1. catalog \in Catalogs /\ catalog.requests \in Nat /\ Len(Reserves) \in Nat
  BY CatalogTypes, WaveTypes DEF Init
<1>2. TypeOK
  <2>1. at \in [wave : 1..(Len(Reserves) + 1), turn : Nat, route : Nat, strategy : Strategies,
                attempt : 1..MaxAttempts, delay : {0, 1}, before : Nat, start : Nat]
    BY <1>1 DEF Init, At, Strategies, MaxAttempts
  <2>2. plan \in [Waves -> Seq(Sources)]
    BY DEF Init
  <2>3. elapsed \in Nat
    BY LimitsAssumption DEF Init
  <2> QED
    BY <1>1, <2>1, <2>2, <2>3 DEF Init, TypeOK
<1>3. rows = <<>> /\ DOMAIN rows = {} /\ circuits = {} /\ pc = "plan"
  BY DEF Init
<1>4. Places
  BY <1>3 DEF Init, Places, Underway, Trying, At
<1>5. Follows
  BY <1>3 DEF Init, Follows, Trying
<1>6. Captures(rows) = {} /\ Attempts = 0
  BY <1>3, FS_EmptySet DEF Captures, Attempts
<1>7. Counted /\ Within
  <2>1. domains = {} /\ file = rows /\ Len(rows) = 0
    BY <1>3 DEF Init
  <2>2. Counted
    BY <1>3, <1>6, <2>1, FS_EmptySet DEF Counted
  <2>3. Within
    BY <1>1, <1>6, <2>1, FS_EmptySet, WaveTypes DEF Within
  <2> QED
    BY <2>2, <2>3
<1>8. Once
  BY <1>3 DEF Once
<1> QED
  BY <1>2, <1>4, <1>5, <1>7, <1>8 DEF RunInv

\* While the plan is made, the run has not begun.
LEMMA PlanningRuns ==
  ASSUME PlanInv, PlanInv', RunInv, Choose \/ Fill \/ BeginRun
  PROVE  RunInv'
<1>1. /\ pc = "plan" /\ rows = <<>> /\ circuits = {} /\ at.turn = 0 /\ DOMAIN rows = {}
      /\ pc' \in {"plan", "wave"} /\ catalog' = catalog
      /\ UNCHANGED <<at, rows, file, zeros, routes, sources, waves, advanced, circuits, domains,
                     elapsed, stop, status>>
  BY DEF Choose, Fill, BeginRun, search, progress, planned, results, RunInv, Places
<1>2. TypeOK'
  BY <1>1 DEF RunInv, TypeOK, PlanInv, PlanTypes
<1>3. Places'
  BY <1>1 DEF RunInv, Places, Underway, Trying
<1>4. Follows'
  BY <1>1 DEF RunInv, Follows, Trying
<1>5. Counted' /\ Once' /\ Within'
  BY <1>1, Unwritten DEF RunInv, Follows
<1> QED
  BY <1>2, <1>3, <1>4, <1>5 DEF RunInv

\* Beginning a wave, or listing one that the budget stopped, keeps it.
LEMMA BeginWaveRuns ==
  ASSUME PlanInv, RunInv, BeginWave
  PROVE  RunInv'
<1>1. TypeOK /\ Places /\ Follows
  BY DEF RunInv
<1>2. /\ UNCHANGED <<rows, file, zeros, routes, advanced, circuits, domains, elapsed, stop, status>>
      /\ UNCHANGED planned /\ catalog' = catalog /\ plan' = plan
      /\ undecided' = undecided /\ deferred' = deferred /\ pc = "wave" /\ at.wave \in Waves
  BY DEF BeginWave, progress, planned
<1>3. at.turn = 0 /\ Attempts \in Nat /\ at.wave \in Nat /\ at.wave + 1 \in 1..(Len(Reserves) + 1)
      /\ at.wave \in 1..(Len(Reserves) + 1)
  BY <1>1, <1>2, FiniteCaptures, WaveTypes DEF Places, Follows, Attempts
<1>4. \/ pc' = "source" /\ at' = At(at.wave, 1, Attempts, Attempts)
      \/ pc' = "wave" /\ at' = At(at.wave + 1, 0, 0, 0)
  BY DEF BeginWave
<1>5. /\ at' \in [wave : 1..(Len(Reserves) + 1), turn : Nat, route : Nat, strategy : Strategies,
                  attempt : 1..MaxAttempts, delay : {0, 1}, before : Nat, start : Nat]
      /\ Onward
      /\ pc' = "source" => at'.wave = at.wave /\ at'.turn = 1
      /\ pc' = "wave" => at'.turn = 0
  BY <1>3, <1>4 DEF At, Strategies, MaxAttempts, Onward
<1>6. TypeOK'
  BY <1>1, <1>2, <1>4, <1>5 DEF TypeOK
<1>7. Places'
  BY <1>2, <1>4, <1>5 DEF Places, Underway, Trying
<1>8. Follows'
  <2>1. at'.wave \in Nat /\ at'.turn \in Nat
    BY <1>5, WaveTypes
  <2>2. ~Underway'
    BY <1>4 DEF Underway, Trying
  <2> QED
    BY <1>1, <1>2, <1>5, <2>1, <2>2, Resting DEF Follows
<1>9. Counted' /\ Once' /\ Within'
  BY <1>2, <1>4, Unwritten DEF RunInv, Follows
<1> QED
  BY <1>6, <1>7, <1>8, <1>9 DEF RunInv

AtSet == [wave : 1..(Len(Reserves) + 1), turn : Nat, route : Nat, strategy : Strategies,
          attempt : 1..MaxAttempts, delay : {0, 1}, before : Nat, start : Nat]

\* The source that is begun has not been reached, and has no rows.
LEMMA NewSource ==
  ASSUME PlanInv, RunInv, BeginSource
  PROVE  /\ at.turn \in DOMAIN plan[at.wave] /\ at.wave \in Waves
         /\ Source' = Source /\ Source \in Sources /\ catalog.wave[Source] = at.wave
         /\ \A t \in DOMAIN plan[at.wave] : plan[at.wave][t] = Source => t = at.turn
         /\ ~Reached(Source)
         /\ \A i \in DOMAIN rows : rows[i].source # Source
<1>1. /\ TypeOK /\ Places /\ Follows /\ pc = "source" /\ at.turn <= Len(plan[at.wave])
      /\ plan' = plan /\ at' = At(at.wave, at.turn, at.before, Attempts)
  BY DEF RunInv, BeginSource, progress, planned
<1>2. at.wave \in Waves /\ at.turn \in Nat /\ at.turn > 0 /\ at.wave \in Nat
  BY <1>1, AtTypes DEF Places
<1>3. at.turn \in DOMAIN plan[at.wave]
  BY <1>1, <1>2, AtTypes
<1>4. plan[at.wave] \in Seq(Sources)
  BY <1>1, <1>2 DEF TypeOK
<1>5. Source' = Source
  BY <1>1 DEF Source, At
<1>6. /\ Source \in Sources /\ catalog.wave[Source] = at.wave
      /\ \A t \in DOMAIN plan[at.wave] : plan[at.wave][t] = Source => t = at.turn
  BY <1>2, <1>3, <1>4 DEF PlanInv, PlanOnce, Source
<1>7. ~Reached(Source)
  BY <1>1, <1>2, <1>6 DEF Reached
<1>8. \A i \in DOMAIN rows : rows[i].source # Source
  BY <1>1, <1>7 DEF Follows, Behind
<1> QED
  BY <1>2, <1>3, <1>5, <1>6, <1>7, <1>8

\* Beginning a source keeps it: no row has that source, no circuit of it is open.
LEMMA BeginSourceRuns ==
  ASSUME PlanInv, RunInv, BeginSource
  PROVE  RunInv'
<1>1. TypeOK /\ Places /\ Follows
  BY DEF RunInv
<1>2. /\ UNCHANGED <<rows, file, sources, waves, advanced, circuits, domains, elapsed, stop, status>>
      /\ UNCHANGED planned /\ catalog' = catalog /\ plan' = plan
      /\ undecided' = undecided /\ deferred' = deferred /\ pc = "source" /\ pc' = "attempt"
      /\ at.turn <= Len(plan[at.wave]) /\ routes' = <<>> /\ zeros' = {}
      /\ at' = At(at.wave, at.turn, at.before, Attempts)
  BY DEF BeginSource, progress, planned, results
<1>3. /\ Attempts \in Nat /\ at.wave \in Waves /\ at \in AtSet /\ at.turn \in Nat /\ at.turn > 0
      /\ at.wave \in Nat
  BY <1>1, <1>2, FiniteCaptures, AtTypes DEF Places, Follows, Attempts, TypeOK, AtSet
<1>4. at' \in AtSet /\ at'.wave = at.wave /\ at'.turn = at.turn /\ at'.route = 1
  BY <1>2, <1>3 DEF At, AtSet, Strategies, MaxAttempts
<1>5. TypeOK'
  BY <1>1, <1>2, <1>4 DEF TypeOK, AtSet
<1>6. at.turn \in DOMAIN plan[at.wave]
  BY NewSource
<1>7. /\ Source' = Source /\ Source \in Sources /\ catalog.wave[Source] = at.wave
      /\ \A t \in DOMAIN plan[at.wave] : plan[at.wave][t] = Source => t = at.turn
  BY NewSource
<1>8. ~Reached(Source)
  BY NewSource
<1>9. Len(catalog.routes[Source]) > 0 /\ Len(catalog.routes[Source]) \in Nat
  BY <1>7, CatalogTypes DEF PlanInv, PlanTypes
<1>10. Places'
  <2>1. at'.route \in 1..Len(catalog.routes[Source])
    BY <1>4, <1>9
  <2>2. Len(routes') = at'.route - 1
    BY <1>2, <1>4
  <2> QED
    BY <1>2, <1>3, <1>4, <1>6, <1>7, <2>1, <2>2 DEF Places, Underway, Trying
<1>11. Onward
  BY <1>2, <1>4 DEF Onward
<1>12. \A s \in Sources : Reached(s) => Reached(s)'
  BY <1>1, <1>2, <1>3, <1>4, <1>11, ReachedStays
<1>13. ASSUME NEW i \in DOMAIN rows PROVE Behind(rows[i])'
  <2>1. Behind(rows[i]) /\ Reached(rows[i].source) /\ rows[i].source # Source /\ rows[i].source \in Sources
    BY <1>1, <1>8 DEF Follows, Behind
  <2>2. Reached(rows[i].source)'
    <3>1. PICK s \in Sources : s = rows[i].source
      BY <2>1
    <3> QED
      BY <1>2, <1>12, <2>1, <3>1
  <2> QED
    BY <1>2, <1>7, <2>1, <2>2 DEF Behind
<1>14. Follows'
  <2>1. \A s \in circuits : Reached(s)' /\ s # Source
    BY <1>1, <1>8, <1>12 DEF Follows, TypeOK
  <2>2. routes' \in Seq(Rng(routes'))
    BY <1>2
  <2> QED
    BY <1>1, <1>2, <1>7, <1>13, <2>1, <2>2 DEF Follows
<1>15. Counted' /\ Once' /\ Within'
  BY <1>1, <1>2, Unwritten DEF RunInv, Follows
<1> QED
  BY <1>5, <1>10, <1>14, <1>15 DEF RunInv

\* Ending a wave, after its last source or when the budget stops it, keeps it.
LEMMA EndWaveRuns ==
  ASSUME PlanInv, RunInv, EndWave \/ BudgetStop
  PROVE  RunInv'
<1>1. TypeOK /\ Places /\ Follows
  BY DEF RunInv
<1>2. /\ UNCHANGED <<rows, file, zeros, routes, advanced, circuits, domains, elapsed, status>>
      /\ UNCHANGED planned /\ catalog' = catalog /\ plan' = plan
      /\ undecided' = undecided /\ deferred' = deferred /\ pc \in {"source", "attempt"} /\ pc' = "wave"
      /\ at' = At(at.wave + 1, 0, 0, 0)
  BY DEF EndWave, BudgetStop, progress, planned
<1>3. stop' \in {"NONE", "DOMAINS", "REQUESTS", "WALL"}
  BY <1>1 DEF EndWave, BudgetStop, Exhausted, TypeOK
<1>4. at.wave \in Waves /\ at.wave \in Nat /\ at.wave + 1 \in 1..(Len(Reserves) + 1)
  BY <1>1, <1>2, WaveTypes DEF Places, Underway, Trying
<1>5. at' \in AtSet /\ Onward /\ at'.turn = 0 /\ at'.wave \in Nat
  BY <1>2, <1>4 DEF At, AtSet, Strategies, MaxAttempts, Onward
<1>6. TypeOK'
  BY <1>1, <1>2, <1>3, <1>5 DEF TypeOK, AtSet
<1>7. ~Underway' /\ ~Trying'
  BY <1>2 DEF Underway, Trying
<1>8. Places'
  BY <1>2, <1>5, <1>7 DEF Places
<1>9. Follows'
  BY <1>1, <1>2, <1>5, <1>7, Resting DEF Follows
<1>10. Counted' /\ Once' /\ Within'
  BY <1>1, <1>2, Unwritten DEF RunInv, Follows
<1> QED
  BY <1>6, <1>8, <1>9, <1>10 DEF RunInv

\* Ending a source keeps it.
LEMMA EndSourceRuns ==
  ASSUME PlanInv, RunInv, EndSource
  PROVE  RunInv'
<1>1. TypeOK /\ Places /\ Follows
  BY DEF RunInv
<1>2. /\ UNCHANGED <<rows, file, zeros, routes, waves, circuits, domains, elapsed, stop, status>>
      /\ UNCHANGED planned /\ catalog' = catalog /\ plan' = plan
      /\ undecided' = undecided /\ deferred' = deferred /\ pc = "route" /\ pc' = "source"
      /\ at' = [at EXCEPT !.turn = @ + 1]
      /\ advanced' = advanced \/ advanced' = advanced \cup {Source}
  BY DEF EndSource, progress, planned
<1>3. Underway /\ at \in AtSet
  BY <1>1, <1>2 DEF Underway, TypeOK, AtSet
<1>4. Source \in Sources /\ at.wave \in Waves
  BY <1>1, <1>3, CurrentSource
<1>5. at' \in AtSet /\ Onward /\ at'.turn > 0 /\ at'.wave = at.wave /\ at'.wave \in Nat /\ at'.turn \in Nat
  <2>1. at.turn \in Nat /\ at.turn + 1 \in Nat /\ at.wave \in Nat
    BY <1>3, <1>4, WaveTypes DEF AtSet
  <2>2. at' \in AtSet /\ at'.turn = at.turn + 1 /\ at'.wave = at.wave
    BY <1>2, <1>3, <2>1 DEF AtSet
  <2> QED
    BY <2>1, <2>2 DEF Onward
<1>6. TypeOK'
  BY <1>1, <1>2, <1>4, <1>5 DEF TypeOK, AtSet
<1>7. ~Underway' /\ ~Trying'
  BY <1>2 DEF Underway, Trying
<1>8. Places'
  BY <1>2, <1>4, <1>5, <1>7 DEF Places
<1>9. Follows'
  BY <1>1, <1>2, <1>5, <1>7, Resting DEF Follows
<1>10. Counted' /\ Once' /\ Within'
  BY <1>1, <1>2, Unwritten DEF RunInv, Follows
<1> QED
  BY <1>6, <1>8, <1>9, <1>10 DEF RunInv

\* Making the report keeps it.
LEMMA FinishRuns ==
  ASSUME PlanInv, RunInv, Finish
  PROVE  RunInv'
<1>1. TypeOK /\ Places /\ Follows
  BY DEF RunInv
<1>2. /\ UNCHANGED <<at, rows, file, zeros, routes, sources, waves, advanced, circuits, domains, elapsed>>
      /\ UNCHANGED planned /\ catalog' = catalog /\ plan' = plan
      /\ undecided' = undecided /\ deferred' = deferred /\ pc = "wave" /\ pc' \in {"dead", "done"}
  BY DEF Finish, planned
<1>3. stop' \in {"NONE", "DOMAINS", "REQUESTS", "WALL"} /\ status' \in {"NONE", "COMPLETE", "DEGRADED", "FAILED"}
  BY <1>1 DEF Finish, TypeOK
<1>4. TypeOK'
  BY <1>1, <1>2, <1>3 DEF TypeOK
<1>5. ~Underway' /\ ~Trying' /\ Onward /\ at'.wave \in Nat /\ at'.turn \in Nat
  BY <1>1, <1>2, AtTypes DEF Underway, Trying, Onward
<1>6. Places'
  BY <1>1, <1>2, <1>5 DEF Places
<1>7. Follows'
  BY <1>1, <1>2, <1>5, Resting DEF Follows
<1>8. Counted' /\ Once' /\ Within'
  BY <1>1, <1>2, Unwritten DEF RunInv, Follows
<1> QED
  BY <1>4, <1>6, <1>7, <1>8 DEF RunInv

\* The search goes on with the same source.
LEMMA SameSource ==
  ASSUME PlanInv, TypeOK, Places, UNCHANGED planned, Underway, pc' # "source",
         at'.wave = at.wave, at'.turn = at.turn
  PROVE  /\ Source' = Source /\ Source \in Sources /\ Reached(Source) /\ Reached(Source)'
         /\ catalog.wave[Source] = at.wave
         /\ \A s \in Sources : Reached(s) => Reached(s)'
<1>1. /\ Source \in Sources /\ catalog.wave[Source] = at.wave
      /\ at.turn \in DOMAIN plan[at.wave] /\ at.wave \in Waves
  BY CurrentSource
<1>2. plan' = plan /\ catalog' = catalog
  BY DEF planned
<1>3. Source' = Source
  BY <1>2 DEF Source
<1>4. Reached(Source)
  BY <1>1 DEF Reached, Source, Underway, Trying
<1>5. \A s \in Sources : Reached(s) => Reached(s)'
  BY AtTypes, ReachedStays DEF Onward
<1>6. Reached(Source)'
  <2>1. PICK s \in Sources : s = Source
    BY <1>1
  <2> QED
    BY <1>2, <1>3, <1>4, <1>5, <2>1
<1> QED
  BY <1>1, <1>3, <1>4, <1>5, <1>6

\* A row that is written only in part keeps it: the process ends.
LEMMA AppendFailsRuns ==
  ASSUME PlanInv, RunInv, AppendFails
  PROVE  RunInv'
<1>1. TypeOK /\ Places /\ Follows /\ Counted
  BY DEF RunInv
<1>2. /\ UNCHANGED <<at, rows, zeros, routes, sources, waves, advanced, circuits, domains, elapsed, stop, status>>
      /\ UNCHANGED planned /\ catalog' = catalog /\ plan' = plan
      /\ undecided' = undecided /\ deferred' = deferred /\ pc \in {"attempt", "sleep"} /\ pc' = "dead"
      /\ file' = Append(file, Torn)
  BY DEF AppendFails, progress, planned, results
<1>3. file' = Append(rows, Torn) /\ Len(file') = Len(rows) + 1 /\ Len(rows) \in Nat /\ Attempts' = Attempts
  <2>1. file' = Append(rows, Torn)
    BY <1>1, <1>2 DEF Counted
  <2> QED
    BY <1>1, <1>2, <2>1 DEF Follows, Attempts
<1>4. TypeOK'
  BY <1>1, <1>2, <1>3 DEF TypeOK
<1>5. ~Underway' /\ ~Trying' /\ Onward /\ at'.wave \in Nat /\ at'.turn \in Nat
  BY <1>1, <1>2, AtTypes DEF Underway, Trying, Onward
<1>6. Places'
  BY <1>1, <1>2, <1>5 DEF Places
<1>7. Follows'
  BY <1>1, <1>2, <1>5, Resting DEF Follows
<1>8. Counted'
  BY <1>1, <1>2, <1>3, FiniteCaptures DEF Counted, Follows, Attempts
<1>9. Once' /\ Within'
  BY <1>2, <1>3 DEF RunInv, Once, Within
<1> QED
  BY <1>4, <1>6, <1>7, <1>8, <1>9 DEF RunInv

\* The fields of a place that has moved on with its source.
LEMMA Moved ==
  ASSUME at \in AtSet, NEW k \in Nat, NEW n \in 1..4, NEW a \in 1..2, NEW d \in {0, 1},
         at' = [at EXCEPT !.route = k, !.strategy = n, !.attempt = a, !.delay = d]
  PROVE  /\ at' \in AtSet /\ at'.wave = at.wave /\ at'.turn = at.turn /\ at'.route = k
         /\ at'.strategy = n /\ at'.attempt = a
BY DEF AtSet, MaxAttempts, Strategies

\* Sleeping before a retry keeps it: the attempt after it is a new one.
LEMMA SleepRuns ==
  ASSUME PlanInv, RunInv, Sleep
  PROVE  RunInv'
<1>1. TypeOK /\ Places /\ Follows
  BY DEF RunInv
<1>2. /\ UNCHANGED <<rows, file, zeros, routes, sources, waves, advanced, circuits, domains, stop, status>>
      /\ UNCHANGED planned /\ catalog' = catalog /\ plan' = plan
      /\ undecided' = undecided /\ deferred' = deferred /\ pc = "sleep" /\ pc' = "attempt"
      /\ at' = [at EXCEPT !.attempt = @ + 1, !.delay = 0] /\ elapsed' = elapsed + at.delay
  BY DEF Sleep, progress, planned, results
<1>3. at \in AtSet /\ at.attempt < MaxAttempts /\ at.attempt \in 1..MaxAttempts
  BY <1>1, <1>2 DEF TypeOK, AtSet, Places
<1>4. /\ at' \in AtSet /\ at'.wave = at.wave /\ at'.turn = at.turn /\ at'.route = at.route
      /\ at'.strategy = at.strategy /\ at'.attempt = at.attempt + 1
  <2>1. at.attempt + 1 \in 1..2 /\ at.route \in Nat /\ at.strategy \in 1..4
    BY <1>3 DEF AtSet, MaxAttempts, Strategies
  <2>2. at' = [at EXCEPT !.route = at.route, !.strategy = at.strategy, !.attempt = at.attempt + 1, !.delay = 0]
    BY <1>2, <1>3 DEF AtSet
  <2> QED
    BY <1>3, <2>1, <2>2, Moved
<1>5. elapsed' \in Nat
  BY <1>1, <1>2, <1>3 DEF TypeOK, AtSet
<1>6. TypeOK'
  BY <1>1, <1>2, <1>4, <1>5 DEF TypeOK, AtSet
<1>7. Trying /\ Trying' /\ Underway /\ Underway'
  BY <1>2 DEF Trying, Underway
<1>8. /\ Source' = Source /\ Source \in Sources /\ \A s \in Sources : Reached(s) => Reached(s)'
  BY <1>1, <1>2, <1>4, <1>7, SameSource
<1>9. Places'
  BY <1>1, <1>2, <1>4, <1>7, <1>8 DEF Places
<1>10. ASSUME NEW i \in DOMAIN rows PROVE Behind(rows[i])'
  <2>1. Behind(rows[i]) /\ rows[i].source \in Sources
    BY <1>1 DEF Follows, Behind
  <2>2. Reached(rows[i].source)'
    <3>1. PICK s \in Sources : s = rows[i].source
      BY <2>1
    <3> QED
      BY <1>2, <1>8, <2>1, <3>1 DEF Behind
  <2> QED
    BY <1>2, <1>3, <1>4, <1>7, <1>8, <2>1, <2>2 DEF Behind
<1>11. Follows'
  BY <1>1, <1>2, <1>7, <1>8, <1>10 DEF Follows, TypeOK
<1>12. Counted' /\ Once' /\ Within'
  BY <1>1, <1>2, Unwritten DEF RunInv, Follows
<1> QED
  BY <1>6, <1>9, <1>11, <1>12 DEF RunInv

\* Going on to the next route keeps it: no row has that route.
LEMMA NextRouteRuns ==
  ASSUME PlanInv, RunInv, NextRoute
  PROVE  RunInv'
<1>1. TypeOK /\ Places /\ Follows
  BY DEF RunInv
<1>2. /\ UNCHANGED <<rows, file, routes, sources, waves, advanced, circuits, domains, elapsed, stop, status>>
      /\ UNCHANGED planned /\ catalog' = catalog /\ plan' = plan
      /\ undecided' = undecided /\ deferred' = deferred /\ pc = "route" /\ pc' = "attempt"
      /\ at' = [at EXCEPT !.route = @ + 1, !.strategy = 1, !.attempt = 1, !.delay = 0]
      /\ zeros' = {} /\ Source \notin circuits /\ Len(routes) < Len(catalog.routes[Source])
  BY DEF NextRoute, progress, planned, results, RoutesLeft
<1>3. at \in AtSet /\ Len(routes) = at.route /\ at.route \in 1..Len(catalog.routes[Source])
  BY <1>1, <1>2 DEF TypeOK, AtSet, Places, Underway
<1>4. /\ at' \in AtSet /\ at'.wave = at.wave /\ at'.turn = at.turn /\ at'.route = at.route + 1
      /\ at'.strategy = 1 /\ at'.attempt = 1
  <2>1. at.route + 1 \in Nat /\ 1 \in 1..4 /\ 1 \in 1..2 /\ 0 \in {0, 1}
    BY <1>3 DEF AtSet
  <2>2. at' = [at EXCEPT !.route = at.route + 1, !.strategy = 1, !.attempt = 1, !.delay = 0]
    BY <1>2
  <2> QED
    BY <1>3, <2>1, <2>2, Moved
<1>5. TypeOK'
  BY <1>1, <1>2, <1>4 DEF TypeOK, AtSet
<1>6. ~Trying /\ Trying' /\ Underway /\ Underway'
  BY <1>2 DEF Trying, Underway
<1>7. /\ Source' = Source /\ Source \in Sources /\ \A s \in Sources : Reached(s) => Reached(s)'
  BY <1>1, <1>2, <1>4, <1>6, SameSource
<1>8. Places'
  <2>1. Len(catalog.routes[Source]) \in Nat
    BY <1>7, CatalogTypes DEF PlanInv, PlanTypes
  <2>2. at'.route \in 1..Len(catalog.routes[Source]) /\ Len(routes) = at'.route - 1
    BY <1>2, <1>3, <1>4, <2>1
  <2> QED
    BY <1>1, <1>2, <1>4, <1>6, <1>7, <2>2 DEF Places
<1>9. ASSUME NEW i \in DOMAIN rows PROVE Behind(rows[i])'
  <2>1. Behind(rows[i]) /\ rows[i].source \in Sources
    BY <1>1 DEF Follows, Behind
  <2>2. Reached(rows[i].source)'
    <3>1. PICK s \in Sources : s = rows[i].source
      BY <2>1
    <3> QED
      BY <1>2, <1>7, <2>1, <3>1 DEF Behind
  <2> QED
    BY <1>2, <1>3, <1>4, <1>6, <1>7, <2>1, <2>2 DEF Behind
<1>10. Follows'
  BY <1>1, <1>2, <1>6, <1>7, <1>9 DEF Follows, TypeOK
<1>11. Counted' /\ Once' /\ Within'
  BY <1>1, <1>2, Unwritten DEF RunInv, Follows
<1> QED
  BY <1>5, <1>8, <1>10, <1>11 DEF RunInv

\* A row is written for the attempt that is made.
LEMMA Written ==
  ASSUME PlanInv, RunInv, Trying, NEW row, Write(row),
         row.source = Source, row.route = at.route, row.strategy = at.strategy,
         row.attempt = at.attempt, row.event = "CAPTURE" => pc = "attempt"
  PROVE  /\ rows' \in Seq(Rng(rows')) /\ Len(rows) \in Nat /\ Len(rows') = Len(rows) + 1
         /\ DOMAIN rows = 1..Len(rows) /\ DOMAIN rows' = 1..(Len(rows) + 1)
         /\ \A i \in 1..Len(rows) : rows'[i] = rows[i] /\ Behind(rows[i])
         /\ rows'[Len(rows) + 1] = row
         /\ file' = rows' /\ Once'
         /\ Attempts \in Nat
         /\ Attempts' = IF row.event = "CAPTURE" THEN Attempts + 1 ELSE Attempts
<1>1. TypeOK /\ Places /\ Follows /\ Counted /\ Once
  BY DEF RunInv
<1>2. rows' = Append(rows, row) /\ file' = Append(file, row)
  BY DEF Write
<1>3. file' = rows'
  BY <1>1, <1>2 DEF Counted, Trying
<1>4. /\ rows' \in Seq(Rng(rows')) /\ Len(rows) \in Nat /\ Len(rows') = Len(rows) + 1
      /\ DOMAIN rows = 1..Len(rows) /\ DOMAIN rows' = 1..(Len(rows) + 1)
      /\ \A i \in 1..Len(rows) : rows'[i] = rows[i]
      /\ rows'[Len(rows) + 1] = row
  BY <1>1, <1>2, OneMore DEF Follows
<1>5. Attempts \in Nat /\ Attempts' = IF row.event = "CAPTURE" THEN Attempts + 1 ELSE Attempts
  BY <1>1, <1>2, CapturesGrow, FiniteCaptures DEF Follows, Attempts
<1>6. \A i \in 1..Len(rows) : Behind(rows[i])
  BY <1>1, <1>4 DEF Follows
<1>7. ASSUME NEW i \in DOMAIN rows', NEW j \in DOMAIN rows', i < j
      PROVE  /\ rows'[i].disposition \in OpensCircuit => rows'[i].source # rows'[j].source
             /\ rows'[i].event = "CAPTURE" /\ rows'[j].event = "CAPTURE" =>
                  \E f \in {"source", "route", "strategy", "attempt"} : rows'[i][f] # rows'[j][f]
  <2>1. i \in 1..Len(rows) /\ rows'[i] = rows[i]
    BY <1>4, <1>7
  <2>2. CASE j \in 1..Len(rows)
    BY <1>1, <1>4, <1>7, <2>1, <2>2 DEF Once
  <2>3. CASE j = Len(rows) + 1
    <3>1. rows'[j] = row /\ Behind(rows[i])
      BY <1>4, <1>6, <2>1, <2>3
    <3>2. rows[i].disposition \in OpensCircuit => rows[i].source # row.source
      BY <1>1, <3>1 DEF Behind, Follows
    <3>3. ASSUME row.event = "CAPTURE", rows[i].source = row.source, rows[i].route = row.route,
                 rows[i].strategy = row.strategy, rows[i].attempt = row.attempt
          PROVE  FALSE
      <4>1. pc = "attempt" /\ at.strategy \in Nat /\ at.attempt \in Nat
        BY <1>1, <3>3, AtTypes
      <4> QED
        BY <3>1, <3>3, <4>1 DEF Behind
    <3> QED
      BY <2>1, <3>1, <3>2, <3>3
  <2> QED
    BY <1>4, <2>2, <2>3
<1>8. Once'
  BY <1>7 DEF Once
<1> QED
  BY <1>3, <1>4, <1>5, <1>6, <1>8

\* A sleeper that fails keeps it: the control row counts as no attempt.
LEMMA SleeperFailsRuns ==
  ASSUME PlanInv, RunInv, SleeperFails
  PROVE  RunInv'
<1>1. TypeOK /\ Places /\ Follows /\ Counted /\ Within
  BY DEF RunInv
<1> DEFINE last == rows[Len(rows)]
           row == Row("CONTROL", last.answer, "STOP_SLEEPER_FAILURE", last.completed, last.completed)
<1>2. /\ UNCHANGED <<at, zeros, sources, waves, advanced, circuits, domains, elapsed, stop, status>>
      /\ UNCHANGED planned /\ catalog' = catalog /\ plan' = plan
      /\ undecided' = undecided /\ deferred' = deferred /\ pc = "sleep" /\ pc' = "route"
      /\ Write(row) /\ \E out : routes' = Append(routes, out)
  BY DEF SleeperFails, EndRoute, progress, planned, results
<1>3. /\ row.source = Source /\ row.route = at.route /\ row.strategy = at.strategy
      /\ row.attempt = at.attempt /\ row.event = "CONTROL" /\ row.wave = at.wave
      /\ row.disposition \notin OpensCircuit
  BY DEF Row, OpensCircuit
<1> HIDE DEF row
<1>4. Trying /\ ~Trying' /\ Underway /\ Underway' /\ Onward
  BY <1>1, <1>2, AtTypes DEF Trying, Underway, Onward
<1>5. /\ rows' \in Seq(Rng(rows')) /\ Len(rows) \in Nat /\ Len(rows') = Len(rows) + 1
      /\ DOMAIN rows = 1..Len(rows) /\ DOMAIN rows' = 1..(Len(rows) + 1)
      /\ \A i \in 1..Len(rows) : rows'[i] = rows[i] /\ Behind(rows[i])
      /\ rows'[Len(rows) + 1] = row
      /\ file' = rows' /\ Once' /\ Attempts' = Attempts /\ Attempts \in Nat
  BY <1>2, <1>3, <1>4, Written
<1>6. routes' \in Seq(Rng(routes')) /\ Len(routes') = Len(routes) + 1
  BY <1>1, <1>2, OneMore DEF Follows
<1>7. /\ Source' = Source /\ Source \in Sources /\ Reached(Source)' /\ catalog.wave[Source] = at.wave
      /\ \A s \in Sources : Reached(s) => Reached(s)'
  BY <1>1, <1>2, <1>4, SameSource
<1>8. Counted'
  BY <1>1, <1>2, <1>5 DEF Counted
<1>9. catalog.requests \in Nat
  BY <1>1, CatalogTypes DEF TypeOK
<1>10. TypeOK'
  <2>1. Len(rows') <= 2 * catalog.requests
    BY <1>1, <1>2, <1>5, <1>9 DEF Counted, Within
  <2>2. Len(file') <= Len(rows') + 1
    BY <1>5
  <2> QED
    BY <1>1, <1>2, <2>1, <2>2 DEF TypeOK
<1>11. Places'
  BY <1>1, <1>2, <1>4, <1>6, <1>7, AtTypes DEF Places
<1>12. ASSUME NEW i \in DOMAIN rows' PROVE Behind(rows[i])'
  <2>1. CASE i \in 1..Len(rows)
    <3>1. Behind(rows[i]) /\ rows[i].source \in Sources /\ rows'[i] = rows[i]
      BY <1>5, <2>1 DEF Behind
    <3>2. Reached(rows[i].source)'
      <4>1. PICK s \in Sources : s = rows[i].source
        BY <3>1
      <4> QED
        BY <1>2, <1>7, <3>1, <4>1 DEF Behind
    <3> QED
      BY <1>2, <1>4, <1>7, <3>1, <3>2 DEF Behind
  <2>2. CASE i = Len(rows) + 1
    <3>1. /\ rows'[i] = row /\ at'.route = at.route /\ at.route \in Nat
          /\ at.strategy \in Strategies /\ at.attempt \in 1..MaxAttempts
      BY <1>1, <1>2, <1>5, <2>2 DEF TypeOK
    <3> QED
      BY <1>2, <1>3, <1>4, <1>7, <3>1 DEF Behind
  <2> QED
    BY <1>5, <2>1, <2>2
<1>13. Follows'
  BY <1>1, <1>2, <1>4, <1>5, <1>6, <1>7, <1>12 DEF Follows, TypeOK
<1>14. Within'
  BY <1>1, <1>2, <1>5 DEF Within
<1> QED
  BY <1>5, <1>8, <1>10, <1>11, <1>13, <1>14 DEF RunInv

\* A retry is decided on the first attempt only, and not beyond the time left.
LEMMA RetryIsFirst ==
  ASSUME NEW r, NEW delay, NEW now, Decided(r, delay, now) = "RETRY_TRANSIENT"
  PROVE  MayRetry(at.attempt)
<1>1. Disposition(r, at.attempt, at.strategy) = "RETRY_TRANSIENT"
  BY DEF Decided
<1>2. Unclassified(r, at.strategy) # "RETRY_TRANSIENT"
  BY DEF Unclassified
<1> QED
  BY <1>1, <1>2 DEF Disposition

\* How the search goes on after an attempt.
LEMMA Ways ==
  ASSUME NEW r, NEW d, NEW delay, Follow(r, d, delay)
  PROVE  /\ circuits' = IF d \in OpensCircuit THEN circuits \cup {Source} ELSE circuits
         /\ zeros' = zeros \/ (CountsAsZero(r) /\ zeros' = zeros \cup {r.proof})
         /\ \/ /\ d = "RETRY_TRANSIENT" /\ pc' = "sleep" /\ at' = [at EXCEPT !.delay = delay]
               /\ routes' = routes /\ circuits' = circuits
            \/ /\ d \in Goes /\ at.strategy < 4 /\ pc' = pc /\ routes' = routes /\ circuits' = circuits
               /\ at' = [at EXCEPT !.strategy = @ + 1, !.attempt = 1]
            \/ pc' = "route" /\ at' = at /\ \E out : routes' = Append(routes, out)
<1>1. d \in Goes \/ d = "RETRY_TRANSIENT" => d \notin OpensCircuit
  BY DEF Goes, OpensCircuit
<1> QED
  BY <1>1 DEF Follow, EndRoute

\* What an attempt records, when, and how the search goes on.
Records(r, d, delay, attempted, completed) ==
  /\ AnswerFits(r, at.strategy) /\ Write(Row("CAPTURE", r, d, attempted, completed)) /\ Follow(r, d, delay)
  /\ d = Decided(r, delay, completed) \/ (r = Unsaved /\ d = "NEXT_REJECTED_STRATEGY")
  /\ attempted \in Nat /\ completed \in Nat
  /\ elapsed <= attempted /\ attempted <= completed /\ completed <= elapsed'

\* An attempt is recorded, with the answer that came or as a failure.
LEMMA AttemptMade ==
  ASSUME TypeOK, Attempt
  PROVE  /\ elapsed' \in Nat /\ elapsed <= elapsed'
         /\ \E r, d, attempted, completed : \E delay \in {0, 1} : Records(r, d, delay, attempted, completed)
<1> DEFINE made(answer, saved) == IF saved THEN answer ELSE Unsaved
           decided(answer, delay, saved, completed) ==
             IF saved THEN Decided(made(answer, saved), delay, completed) ELSE "NEXT_REJECTED_STRATEGY"
<1>1. elapsed' \in Nat /\ elapsed <= elapsed' /\ elapsed \in Nat
  <2>1. elapsed' \in elapsed..(elapsed + Connector.longest)
    BY DEF Attempt
  <2>2. Connector.longest \in Nat
    BY CatalogTypes, ConnectorsAssumption DEF TypeOK, Connector
  <2> QED
    BY <2>1, <2>2 DEF TypeOK
<1>2. PICK answer \in Connector.answers[at.strategy], delay \in {0, 1}, saved \in BOOLEAN,
           attempted \in elapsed..elapsed', completed \in elapsed..elapsed' :
        /\ attempted <= completed
        /\ Write(Row("CAPTURE", made(answer, saved), decided(answer, delay, saved, completed), attempted, completed))
        /\ Follow(made(answer, saved), decided(answer, delay, saved, completed), delay)
  BY DEF Attempt
<1>3. AnswerFits(made(answer, saved), at.strategy)
  <2>1. AnswerFits(answer, at.strategy)
    BY AnswerTypes
  <2>2. AnswerFits(Unsaved, at.strategy)
    BY UnsavedFits DEF TypeOK
  <2> QED
    BY <2>1, <2>2
<1>4. \/ decided(answer, delay, saved, completed) = Decided(made(answer, saved), delay, completed)
      \/ made(answer, saved) = Unsaved /\ decided(answer, delay, saved, completed) = "NEXT_REJECTED_STRATEGY"
  OBVIOUS
<1>5. /\ attempted \in Nat /\ completed \in Nat
      /\ elapsed <= attempted /\ attempted <= completed /\ completed <= elapsed'
  BY <1>1, <1>2
<1> HIDE DEF made, decided
<1>6. Records(made(answer, saved), decided(answer, delay, saved, completed), delay, attempted, completed)
  BY <1>2, <1>3, <1>4, <1>5 DEF Records
<1> QED
  BY <1>1, <1>6

\* An attempt keeps it: the row is new, and the budgets had room for it.
LEMMA AttemptRuns ==
  ASSUME PlanInv, RunInv, Attempt
  PROVE  RunInv'
<1>1. TypeOK /\ Places /\ Follows /\ Counted /\ Within
  BY DEF RunInv
<1>0. PICK r, d, attempted, completed : \E delay \in {0, 1} : Records(r, d, delay, attempted, completed)
  BY <1>1, AttemptMade
<1>made. PICK delay \in {0, 1} : Records(r, d, delay, attempted, completed)
  BY <1>0
<1>2. /\ AnswerFits(r, at.strategy) /\ Write(Row("CAPTURE", r, d, attempted, completed)) /\ Follow(r, d, delay)
      /\ d = Decided(r, delay, completed) \/ (r = Unsaved /\ d = "NEXT_REJECTED_STRATEGY")
  BY <1>made DEF Records
<1>3. d = "RETRY_TRANSIENT" => at.attempt < MaxAttempts
  BY <1>2, RetryIsFirst DEF MayRetry
<1>4. /\ UNCHANGED <<sources, waves, advanced, stop, status>>
      /\ UNCHANGED planned /\ catalog' = catalog /\ plan' = plan
      /\ undecided' = undecided /\ deferred' = deferred /\ pc = "attempt"
      /\ Exhausted = "NONE" /\ domains' = domains \cup {Domain}
  BY DEF Attempt, progress, planned, results
<1>5. elapsed' \in Nat
  BY <1>1, AttemptMade
<1> DEFINE row == Row("CAPTURE", r, d, attempted, completed)
<1>6. /\ row.source = Source /\ row.route = at.route /\ row.strategy = at.strategy
      /\ row.attempt = at.attempt /\ row.event = "CAPTURE" /\ row.wave = at.wave
      /\ row.disposition = d
  BY DEF Row
<1>7. Write(row)
  BY <1>2
<1> HIDE DEF row
<1>8. Trying /\ Underway /\ at \in AtSet
  BY <1>1, <1>4 DEF Trying, Underway, TypeOK, AtSet
<1>9. /\ rows' \in Seq(Rng(rows')) /\ Len(rows) \in Nat /\ Len(rows') = Len(rows) + 1
      /\ DOMAIN rows = 1..Len(rows) /\ DOMAIN rows' = 1..(Len(rows) + 1)
      /\ \A i \in 1..Len(rows) : rows'[i] = rows[i] /\ Behind(rows[i])
      /\ rows'[Len(rows) + 1] = row
      /\ file' = rows' /\ Once' /\ Attempts' = Attempts + 1 /\ Attempts \in Nat
  BY <1>4, <1>6, <1>7, <1>8, Written
<1>10. /\ circuits' = IF d \in OpensCircuit THEN circuits \cup {Source} ELSE circuits
       /\ zeros' = zeros \/ (CountsAsZero(r) /\ zeros' = zeros \cup {r.proof})
       /\ \/ /\ d = "RETRY_TRANSIENT" /\ pc' = "sleep" /\ at' = [at EXCEPT !.delay = delay]
             /\ routes' = routes /\ circuits' = circuits
          \/ /\ d \in Goes /\ at.strategy < 4 /\ pc' = pc /\ routes' = routes /\ circuits' = circuits
             /\ at' = [at EXCEPT !.strategy = @ + 1, !.attempt = 1]
          \/ pc' = "route" /\ at' = at /\ \E out : routes' = Append(routes, out)
  BY <1>2, Ways
\* The place after the attempt.
<1>11. /\ at' \in AtSet /\ at'.wave = at.wave /\ at'.turn = at.turn /\ at'.route = at.route
       /\ pc' \in {"sleep", "attempt", "route"}
       /\ pc' = "sleep" => /\ at'.strategy = at.strategy /\ at'.attempt = at.attempt
                           /\ at.attempt < MaxAttempts
       /\ pc' = "attempt" => at'.strategy = at.strategy + 1 /\ at'.attempt = 1
       /\ pc' # "route" => circuits' = circuits /\ routes' = routes
       /\ pc' = "route" => \E out : routes' = Append(routes, out)
  <2>1. at.route \in Nat /\ at.strategy \in 1..4 /\ at.attempt \in 1..2 /\ at.delay \in {0, 1} /\ 1 \in 1..2
    BY <1>8 DEF AtSet, Strategies, MaxAttempts
  <2>2. CASE /\ d = "RETRY_TRANSIENT" /\ pc' = "sleep" /\ at' = [at EXCEPT !.delay = delay]
             /\ routes' = routes /\ circuits' = circuits
    <3>1. at' = [at EXCEPT !.route = at.route, !.strategy = at.strategy, !.attempt = at.attempt, !.delay = delay]
      BY <1>8, <2>2 DEF AtSet
    <3>2. /\ at' \in AtSet /\ at'.wave = at.wave /\ at'.turn = at.turn /\ at'.route = at.route
          /\ at'.strategy = at.strategy /\ at'.attempt = at.attempt
      BY <1>8, <2>1, <3>1, Moved
    <3> QED
      BY <1>3, <2>2, <3>2
  <2>3. CASE /\ d \in Goes /\ at.strategy < 4 /\ pc' = pc /\ routes' = routes /\ circuits' = circuits
             /\ at' = [at EXCEPT !.strategy = @ + 1, !.attempt = 1]
    <3>1. at' = [at EXCEPT !.route = at.route, !.strategy = at.strategy + 1, !.attempt = 1, !.delay = at.delay]
      BY <1>8, <2>3 DEF AtSet
    <3>2. at.strategy + 1 \in 1..4
      BY <2>1, <2>3
    <3>3. /\ at' \in AtSet /\ at'.wave = at.wave /\ at'.turn = at.turn /\ at'.route = at.route
          /\ at'.strategy = at.strategy + 1 /\ at'.attempt = 1
      BY <1>8, <2>1, <3>1, <3>2, Moved
    <3> QED
      BY <1>4, <2>3, <3>3
  <2>4. CASE pc' = "route" /\ at' = at /\ \E out : routes' = Append(routes, out)
    BY <1>8, <2>4
  <2> QED
    BY <1>10, <2>2, <2>3, <2>4
<1>12. Onward /\ Underway'
  BY <1>1, <1>4, <1>11, AtTypes DEF Onward, Underway, Trying
<1>13. /\ Source' = Source /\ Source \in Sources /\ Reached(Source)' /\ catalog.wave[Source] = at.wave
       /\ \A s \in Sources : Reached(s) => Reached(s)'
  BY <1>1, <1>4, <1>8, <1>11, SameSource
<1>14. /\ routes' \in Seq(Rng(routes'))
       /\ Len(routes') = IF pc' = "route" THEN Len(routes) + 1 ELSE Len(routes)
  <2>1. routes \in Seq(Rng(routes))
    BY <1>1 DEF Follows
  <2>2. CASE pc' = "route"
    <3>1. PICK out : routes' = Append(routes, out)
      BY <1>11, <2>2
    <3> QED
      BY <2>1, <2>2, <3>1, OneMore
  <2>3. CASE pc' # "route"
    BY <1>11, <2>1, <2>3
  <2> QED
    BY <2>2, <2>3
<1>15. catalog.requests \in Nat /\ Attempts < catalog.requests
       /\ (Domain \in domains \/ Cardinality(domains) < MaxDomains)
  <2>1. catalog.requests \in Nat
    BY <1>1, CatalogTypes DEF TypeOK
  <2>2. IsFiniteSet(domains) /\ Cardinality(domains) \in Nat
    BY <1>1, FS_CardinalityType DEF Counted
  <2> QED
    BY <1>4, <1>9, <2>1, <2>2, WaveTypes DEF Exhausted
<1>16. Within' /\ IsFiniteSet(domains')
  <2>1. IsFiniteSet(domains) /\ Cardinality(domains) \in Nat
    BY <1>1, FS_CardinalityType DEF Counted
  <2>2. IsFiniteSet(domains') /\ Cardinality(domains') <= MaxDomains
    <3>1. CASE Domain \in domains
      <4>1. domains' = domains
        BY <1>4, <3>1
      <4> QED
        BY <1>1, <2>1, <4>1 DEF Within
    <3>2. CASE Domain \notin domains
      <4>1. IsFiniteSet(domains') /\ Cardinality(domains') = Cardinality(domains) + 1
        BY <1>4, <2>1, <3>2, FS_AddElement
      <4> QED
        BY <1>15, <2>1, <3>2, <4>1, WaveTypes
    <3> QED
      BY <3>1, <3>2
  <2> QED
    BY <1>4, <1>9, <1>15, <2>2 DEF Within
<1>17. Counted'
  BY <1>1, <1>4, <1>9, <1>16 DEF Counted
<1>18. zeros' \subseteq Strategies
  <2>1. CountsAsZero(r) => r.proof \in Strategies
    BY <1>1, <1>2, AtTypes DEF CountsAsZero, AnswerFits, Strategies
  <2> QED
    BY <1>1, <1>10, <2>1 DEF TypeOK
<1>19. TypeOK'
  <2>1. Len(rows') <= 2 * catalog.requests
    BY <1>1, <1>4, <1>9, <1>15 DEF Counted
  <2>2. Len(file') <= Len(rows') + 1
    BY <1>9
  <2>3. circuits' \subseteq Sources
    BY <1>1, <1>10, <1>13 DEF TypeOK
  <2>4. catalog' \in Catalogs /\ plan' \in [Waves -> Seq(Sources)]
        /\ undecided' \subseteq Sources /\ deferred' \subseteq Sources /\ advanced' \subseteq Sources
        /\ stop' \in {"NONE", "DOMAINS", "REQUESTS", "WALL"}
        /\ status' \in {"NONE", "COMPLETE", "DEGRADED", "FAILED"}
    BY <1>1, <1>4 DEF TypeOK
  <2> QED
    BY <1>4, <1>5, <1>11, <1>18, <2>1, <2>2, <2>3, <2>4 DEF TypeOK, AtSet
<1>20. Places'
  <2>1. /\ at.wave \in Waves /\ at.turn > 0 /\ at.turn \in DOMAIN plan[at.wave]
        /\ at.route \in 1..Len(catalog.routes[Source]) /\ Len(routes) = at.route - 1
    BY <1>1, <1>8 DEF Places
  <2>2. Len(routes) + 1 = at.route
    BY <1>8, <2>1 DEF AtSet
  <2> QED
    BY <1>4, <1>11, <1>13, <1>14, <2>1, <2>2 DEF Places, Trying, Underway
<1>21. ASSUME NEW i \in DOMAIN rows' PROVE Behind(rows[i])'
  <2>0. at.strategy \in 1..4 /\ at.attempt \in 1..2 /\ at.route \in Nat
    BY <1>1, AtTypes
  <2>1. CASE i \in 1..Len(rows)
    <3>1. Behind(rows[i]) /\ rows[i].source \in Sources /\ rows'[i] = rows[i]
      BY <1>9, <2>1 DEF Behind
    <3>2. Reached(rows[i].source)'
      <4>1. PICK s \in Sources : s = rows[i].source
        BY <3>1
      <4> QED
        BY <1>4, <1>13, <3>1, <4>1 DEF Behind
    <3>3. rows[i].disposition \in OpensCircuit => rows[i].source \in circuits'
      BY <1>10, <3>1 DEF Behind
    <3> QED
      BY <1>4, <1>8, <1>11, <1>13, <2>0, <3>1, <3>2, <3>3 DEF Behind, Trying, Strategies
  <2>2. CASE i = Len(rows) + 1
    <3>1. rows'[i] = row /\ at.strategy \in Strategies /\ at.attempt \in 1..MaxAttempts
      BY <1>9, <2>0, <2>2 DEF Strategies, MaxAttempts
    <3>2. row.disposition \in OpensCircuit => Source \in circuits'
      BY <1>6, <1>10
    <3> QED
      BY <1>4, <1>6, <1>11, <1>13, <2>0, <3>1, <3>2 DEF Behind, Trying
  <2> QED
    BY <1>9, <2>1, <2>2
<1>22. Follows'
  <2>1. \A s \in circuits' : Reached(s)'
    BY <1>1, <1>10, <1>13 DEF Follows, TypeOK
  <2>2. Trying' => Source' \notin circuits'
    BY <1>1, <1>8, <1>11, <1>13 DEF Follows, Trying
  <2> QED
    BY <1>9, <1>14, <1>21, <2>1, <2>2 DEF Follows
<1> QED
  BY <1>9, <1>16, <1>17, <1>19, <1>20, <1>22 DEF RunInv

\* Every step of the search keeps the invariant of the run.
LEMMA NextRuns ==
  ASSUME PlanInv, PlanInv', RunInv, [Next]_vars
  PROVE  RunInv'
<1>1. CASE UNCHANGED vars
  <2>1. UNCHANGED <<catalog, plan, undecided, deferred, pc, at, rows, file, zeros, routes,
                    advanced, circuits, domains, elapsed, stop, status>>
    BY <1>1 DEF vars
  <2>2. TypeOK'
    BY <2>1 DEF RunInv, TypeOK
  <2>3. Source' = Source /\ Attempts' = Attempts /\ Trying' = Trying /\ Underway' = Underway
    BY <2>1 DEF Source, Attempts, Trying, Underway
  <2>4. Places'
    BY <2>1, <2>3 DEF RunInv, Places
  <2>5. ASSUME NEW s PROVE Reached(s)' <=> Reached(s)
    BY <2>1 DEF Reached
  <2>6. Follows'
    BY <2>1, <2>3, <2>5 DEF RunInv, Follows, Behind
  <2>7. Counted' /\ Once' /\ Within'
    BY <2>1, <2>3 DEF RunInv, Counted, Once, Within
  <2> QED
    BY <2>2, <2>4, <2>6, <2>7 DEF RunInv
<1> QED
  BY <1>1, PlanningRuns, BeginWaveRuns, BeginSourceRuns, EndWaveRuns, AttemptRuns, AppendFailsRuns,
     SleepRuns, SleeperFailsRuns, NextRouteRuns, EndSourceRuns, FinishRuns DEF Next

-----------------------------------------------------------------------------
(* The report, as it comes about. *)

\* The rows of the current route.
Current == Net(rows, Source, at.route)

\* An attempt that may be one of the four of a complete zero result.
EmptyPage(row) == row.disposition = "NEXT_EMPTY_STRATEGY" /\ CountsAsZero(row.answer)

\* The row that ended a route, and how.
RouteEnded(q, s, k) ==
  \/ q[Max(OfRoute(q, s, k))].event = "CONTROL"
  \/ ~Unfinished(q[Max(Net(q, s, k))])

\* The ledger, whatever is under way.
LedgerOK ==
  /\ RowsInOrder(rows)
  /\ \A i \in DOMAIN rows :
       rows[i].route > 0 /\ RouteOrdered(rows, Net(rows, rows[i].source, rows[i].route))
  /\ domains = {rows[i].domain : i \in Captures(rows)}

\* The rows of the current source come last, and those of its current route.
Latest ==
  Underway => \A i, j \in DOMAIN rows : i < j /\ rows[i].source = Source =>
    /\ rows[j].source = Source
    /\ rows[i].route = at.route => rows[j].route = at.route

\* The next attempt continues the last one.
Continued ==
  /\ pc = "attempt" =>
       \/ OfRoute(rows, Source, at.route) = {} /\ at.strategy = 1 /\ at.attempt = 1
       \/ Len(rows) \in Current /\ Continues(rows[Len(rows)], at)
  /\ pc = "sleep" =>
       /\ Len(rows) \in Current /\ rows[Len(rows)].disposition = "RETRY_TRANSIENT"
       /\ rows[Len(rows)].strategy = at.strategy /\ rows[Len(rows)].attempt = at.attempt
       /\ rows[Len(rows)].domain = Domain

\* The strategies of the route that are through, and their pages without results.
Pages ==
  Trying =>
    /\ zeros = {rows[i].answer.proof : i \in {j \in Current : EmptyPage(rows[j])}}
    /\ \A i \in Current :
         /\ rows[i].disposition \in Goes => rows[i].strategy < at.strategy
         /\ EmptyPage(rows[i]) => rows[i].answer.proof \in 1..rows[i].strategy
    /\ \A i, j \in Current :
         i < j /\ rows[i].disposition \in Goes => rows[i].strategy < rows[j].strategy

\* The routes that are through ended as their rows say.
Outcomes ==
  Underway => \A k \in 1..Len(routes) :
    /\ k \in RoutesOf(rows, Source) /\ RouteEnded(rows, Source, k)
    /\ routes[k] = Recomputed(rows, Source, k)

\* The attempts of this source and of this wave.
Tally ==
  /\ Underway => Attempts = at.start + Cardinality(OfSource(rows, Source) \cap Captures(rows))
  /\ pc = "source" \/ Underway =>
       Attempts = at.before + Cardinality({i \in Captures(rows) : rows[i].wave = at.wave})

\* A source whose turn is over.
Passed(s) ==
  \E t \in DOMAIN plan[catalog.wave[s]] :
    /\ plan[catalog.wave[s]][t] = s
    /\ catalog.wave[s] < at.wave \/ (catalog.wave[s] = at.wave /\ t < at.turn)

\* A source in the report.
SourceOK(src) ==
  /\ src.source \in Sources /\ Passed(src.source) /\ src.wave = catalog.wave[src.source]
  /\ src.routes \in Nat /\ src.routes > 0 /\ src.completed <= src.routes /\ src.cut \in BOOLEAN
  /\ src.attempts = Cardinality(OfSource(rows, src.source) \cap Captures(rows))
  /\ IF src.cut THEN CutReconciles(src, rows) ELSE SourceReconciles(src, rows)

\* A source that has been reported.
Told(s) == \E src \in Rng(sources) : src.source = s

\* The sources in the report: each once, and none missing that has been left.
SourcesOK ==
  /\ sources \in Seq(Rng(sources))
  /\ \A i, j \in DOMAIN sources : i # j => sources[i].source # sources[j].source
  /\ \A src \in Rng(sources) : SourceOK(src)
  /\ \A i \in DOMAIN rows : Told(rows[i].source) \/ (Underway /\ rows[i].source = Source)
  /\ pc = "source" \/ Underway =>
       \A t \in DOMAIN plan[at.wave] : t < at.turn => Told(plan[at.wave][t])
  /\ advanced = {s.source : s \in {t \in Rng(sources) : t.after = "decision"}}

\* The waves in the report; after a stop the rest of them is stopped, too.
WavesOK ==
  /\ waves \in Seq(Rng(waves)) /\ Len(waves) = at.wave - 1 /\ (pc = "plan" => at.wave = 1)
  /\ pc = "done" => at.wave = Len(Reserves) + 1
  /\ \A w \in DOMAIN waves : waves[w].ids = Rng(plan[w]) /\ WaveReconciles(Report, rows, w)

\* What a stop leaves behind.
StopOK ==
  LET cut == {s \in Rng(sources) : s.cut}
  IN /\ pc = "source" \/ Underway => stop = "NONE"
     /\ \A w, v \in DOMAIN waves : w \in Stopped(Report) /\ w < v => v \in Stopped(Report)
     /\ IF Stopped(Report) # {} THEN Len(waves) \in Stopped(Report) /\ stop # "NONE" /\ \E c \in cut : cut = {c}
        ELSE /\ cut = {}
             /\ stop # "NONE" => pc = "done" /\ stop = "WALL" /\ elapsed >= MaxWall

\* The verdict on the run.
StatusOK ==
  pc = "done" => status =
    IF /\ sources # <<>> /\ stop = "NONE"
       /\ \A s \in Rng(sources) : s.status \in Complete
       /\ catalog.subset \/ Cardinality(domains) >= MaxDomains
    THEN "COMPLETE"
    ELSE IF sources # <<>> /\ rows # <<>> THEN "DEGRADED" ELSE "FAILED"

\* A run that is not dead is all of this at once.
ReportInv ==
  pc # "dead" =>
    /\ LedgerOK /\ Latest /\ Continued /\ Pages /\ Outcomes /\ Tally
    /\ SourcesOK /\ WavesOK /\ StopOK /\ StatusOK

-----------------------------------------------------------------------------
(* Facts of ledgers and reports. *)

\* A number of a set that no other of it exceeds is its maximum.
LEMMA MaxIs ==
  ASSUME NEW S \in SUBSET Nat, NEW m \in S, \A y \in S : y <= m
  PROVE  Max(S) = m
<1>1. PICK x \in S : x = Max(S) /\ \A y \in S : x >= y
  BY DEF Max
<1>2. x \in Nat /\ m \in Nat /\ x >= m /\ x <= m
  BY <1>1
<1> QED
  BY <1>1, <1>2

\* A finite set of numbers that is not empty has a maximum.
LEMMA Greatest ==
  ASSUME NEW n \in Nat, NEW S \in SUBSET (1..n), S # {}
  PROVE  Max(S) \in S /\ \A y \in S : y <= Max(S)
<1> DEFINE T == {n - x : x \in S}
<1>1. T \in SUBSET Nat /\ T # {}
  <2>1. \A x \in S : n - x \in Nat
    OBVIOUS
  <2> QED
    BY <2>1
<1>2. PICK m \in T : \A k \in T : m <= k
  BY <1>1, Least
<1>3. PICK g \in S : m = n - g
  BY <1>2
<1>4. ASSUME NEW y \in S PROVE y <= g
  <2>1. n - y \in T /\ m <= n - y
    BY <1>2
  <2> QED
    BY <1>3, <2>1
<1>5. S \in SUBSET Nat
  OBVIOUS
<1> QED
  BY <1>3, <1>4, <1>5, MaxIs

\* The rows of a source, of a route, and the attempts among them.
LEMMA Parts ==
  ASSUME NEW q, q \in Seq(Rng(q)), NEW s, NEW k
  PROVE  /\ Len(q) \in Nat /\ DOMAIN q = 1..Len(q)
         /\ \A i : i \in Captures(q) <=> i \in 1..Len(q) /\ q[i].event = "CAPTURE"
         /\ \A i : i \in OfSource(q, s) <=> i \in 1..Len(q) /\ q[i].source = s
         /\ \A i : i \in OfRoute(q, s, k) <=> i \in 1..Len(q) /\ q[i].source = s /\ q[i].route = k
         /\ \A i : i \in Net(q, s, k) <=> /\ i \in 1..Len(q) /\ q[i].source = s /\ q[i].route = k
                                          /\ q[i].event = "CAPTURE"
BY DEF Captures, OfSource, OfRoute, Net

\* p is q with one row more.
Longer(q, row, p) ==
  /\ q \in Seq(Rng(q)) /\ p \in Seq(Rng(p))
  /\ Len(q) \in Nat /\ Len(p) = Len(q) + 1
  /\ DOMAIN q = 1..Len(q) /\ DOMAIN p = 1..(Len(q) + 1)
  /\ \A i \in 1..Len(q) : p[i] = q[i]
  /\ p[Len(q) + 1] = row

\* Where the row that is added to a ledger belongs.
LEMMA LongerParts ==
  ASSUME NEW q, NEW row, NEW p, Longer(q, row, p), NEW s, NEW k
  PROVE  /\ Captures(p) = Captures(q) \cup (IF row.event = "CAPTURE" THEN {Len(q) + 1} ELSE {})
         /\ OfSource(p, s) = OfSource(q, s) \cup (IF row.source = s THEN {Len(q) + 1} ELSE {})
         /\ OfRoute(p, s, k) =
              OfRoute(q, s, k) \cup (IF row.source = s /\ row.route = k THEN {Len(q) + 1} ELSE {})
         /\ Net(p, s, k) =
              Net(q, s, k) \cup (IF row.source = s /\ row.route = k /\ row.event = "CAPTURE"
                                 THEN {Len(q) + 1} ELSE {})
<1>1. \A i : i \in 1..(Len(q) + 1) <=> i \in 1..Len(q) \/ i = Len(q) + 1
  BY DEF Longer
<1>2. q \in Seq(Rng(q)) /\ p \in Seq(Rng(p)) /\ Len(p) = Len(q) + 1
  BY DEF Longer
<1>3. \A i \in 1..Len(q) : p[i] = q[i]
  BY DEF Longer
<1>4. p[Len(q) + 1] = row
  BY DEF Longer
<1>0. DOMAIN q = 1..Len(q) /\ DOMAIN p = 1..(Len(q) + 1) /\ Len(q) + 1 \notin 1..Len(q)
  BY DEF Longer
<1>5. Captures(p) = Captures(q) \cup (IF row.event = "CAPTURE" THEN {Len(q) + 1} ELSE {})
  BY <1>0, <1>1, <1>3, <1>4 DEF Captures
<1>6. OfSource(p, s) = OfSource(q, s) \cup (IF row.source = s THEN {Len(q) + 1} ELSE {})
  BY <1>0, <1>1, <1>3, <1>4 DEF OfSource
<1>7. OfRoute(p, s, k) =
        OfRoute(q, s, k) \cup (IF row.source = s /\ row.route = k THEN {Len(q) + 1} ELSE {})
  BY <1>1, <1>2, <1>3, <1>4, Parts
<1>8. Net(p, s, k) =
        Net(q, s, k) \cup (IF row.source = s /\ row.route = k /\ row.event = "CAPTURE"
                           THEN {Len(q) + 1} ELSE {})
  BY <1>1, <1>2, <1>3, <1>4, Parts
<1> QED
  BY <1>5, <1>6, <1>7, <1>8

\* A row of another route.
LEMMA Elsewhere ==
  ASSUME NEW q, NEW row, NEW p, Longer(q, row, p), NEW s, NEW k
  PROVE  /\ row.source # s => OfSource(p, s) = OfSource(q, s)
         /\ row.source # s \/ row.route # k =>
              OfRoute(p, s, k) = OfRoute(q, s, k) /\ Net(p, s, k) = Net(q, s, k)
         /\ row.event # "CAPTURE" => Captures(p) = Captures(q) /\ Net(p, s, k) = Net(q, s, k)
<1>1. /\ Captures(p) = Captures(q) \cup (IF row.event = "CAPTURE" THEN {Len(q) + 1} ELSE {})
      /\ OfSource(p, s) = OfSource(q, s) \cup (IF row.source = s THEN {Len(q) + 1} ELSE {})
      /\ OfRoute(p, s, k) =
           OfRoute(q, s, k) \cup (IF row.source = s /\ row.route = k THEN {Len(q) + 1} ELSE {})
      /\ Net(p, s, k) =
           Net(q, s, k) \cup (IF row.source = s /\ row.route = k /\ row.event = "CAPTURE"
                              THEN {Len(q) + 1} ELSE {})
  BY LongerParts
<1>2. row.source # s => OfSource(p, s) = OfSource(q, s)
  BY <1>1
<1>3. row.source # s \/ row.route # k =>
        OfRoute(p, s, k) = OfRoute(q, s, k) /\ Net(p, s, k) = Net(q, s, k)
  BY <1>1
<1>4. row.event # "CAPTURE" => Captures(p) = Captures(q) /\ Net(p, s, k) = Net(q, s, k)
  BY <1>1
<1> QED
  BY <1>2, <1>3, <1>4

\* What is recomputed of a route depends on its own rows alone.
LEMMA SameRoute ==
  ASSUME NEW q, NEW p, NEW s, NEW k, q \in Seq(Rng(q)),
         OfRoute(p, s, k) = OfRoute(q, s, k), Net(p, s, k) = Net(q, s, k),
         \A i \in 1..Len(q) : p[i] = q[i], Net(q, s, k) # {}
  PROVE  /\ Recomputed(p, s, k) = Recomputed(q, s, k)
         /\ RouteEnded(p, s, k) <=> RouteEnded(q, s, k)
         /\ RouteOrdered(p, Net(p, s, k)) <=> RouteOrdered(q, Net(q, s, k))
<1> DEFINE N == Net(q, s, k)
           R == OfRoute(q, s, k)
<1>1. N \in SUBSET (1..Len(q)) /\ R \in SUBSET (1..Len(q)) /\ N # {} /\ R # {} /\ Len(q) \in Nat
  BY Parts
<1>2. Max(N) \in 1..Len(q) /\ Max(R) \in 1..Len(q)
  BY <1>1, Greatest
<1>3. p[Max(N)] = q[Max(N)] /\ p[Max(R)] = q[Max(R)]
  BY <1>2
<1>4. \A i \in N : p[i] = q[i]
  BY <1>1
<1>5. Net(p, s, k) = N /\ OfRoute(p, s, k) = R
  OBVIOUS
<1> HIDE DEF N, R
<1>6. LastOfStrategies(p, N) = LastOfStrategies(q, N)
  BY <1>4 DEF LastOfStrategies
<1>7. ZeroComplete(p, N) <=> ZeroComplete(q, N)
  <2> DEFINE L == LastOfStrategies(q, N)
  <2>1. \A i \in L : p[i] = q[i]
    BY <1>4 DEF LastOfStrategies
  <2>2. LastOfStrategies(p, N) = L
    BY <1>6
  <2> HIDE DEF L
  <2>3. {p[i].answer.proof : i \in L} = {q[i].answer.proof : i \in L}
    BY <2>1
  <2>4. LastOfStrategies(q, N) = L
    BY DEF L
  <2> QED
    BY <2>1, <2>2, <2>3, <2>4 DEF ZeroComplete
<1>8. Recomputed(p, s, k) = Recomputed(q, s, k)
  BY <1>3, <1>5, <1>7 DEF Recomputed, N, R
<1>9. RouteEnded(p, s, k) <=> RouteEnded(q, s, k)
  BY <1>3, <1>5 DEF RouteEnded, N, R
<1>10. RouteOrdered(p, N) <=> RouteOrdered(q, N)
  <2>1. ASSUME NEW i \in N, {j \in N : j < i} # {}
        PROVE  p[Max({j \in N : j < i})] = q[Max({j \in N : j < i})]
    <3>1. {j \in N : j < i} \in SUBSET (1..Len(q)) /\ {j \in N : j < i} # {}
      BY <1>1, <2>1
    <3>2. Max({j \in N : j < i}) \in {j \in N : j < i}
      BY <1>1, <3>1, Greatest
    <3>3. Max({j \in N : j < i}) \in N
      BY <3>2
    <3> QED
      BY <1>4, <3>3
  <2> QED
    BY <1>4, <2>1 DEF RouteOrdered
<1> QED
  BY <1>5, <1>8, <1>9, <1>10 DEF N

\* Attempts are counted by source and by wave.
CountOf(q, s) == Cardinality(OfSource(q, s) \cap Captures(q))
CountIn(q, w) == Cardinality({i \in Captures(q) : q[i].wave = w})

\* A source has one attempt more exactly when the row added is one of its attempts.
LEMMA SourceTally ==
  ASSUME NEW q, NEW row, NEW p, Longer(q, row, p), NEW s
  PROVE  /\ CountOf(q, s) \in Nat
         /\ CountOf(p, s) =
              CountOf(q, s) + (IF row.source = s /\ row.event = "CAPTURE" THEN 1 ELSE 0)
<1> DEFINE n == Len(q) + 1
           A == OfSource(q, s) \cap Captures(q)
<1>1. /\ Captures(p) = Captures(q) \cup (IF row.event = "CAPTURE" THEN {n} ELSE {})
      /\ OfSource(p, s) = OfSource(q, s) \cup (IF row.source = s THEN {n} ELSE {})
  BY LongerParts
<1>2. q \in Seq(Rng(q)) /\ Len(q) \in Nat /\ DOMAIN q = 1..Len(q) /\ n \notin 1..Len(q)
  BY DEF Longer
<1>3. IsFiniteSet(Captures(q)) /\ Captures(q) \subseteq 1..Len(q) /\ OfSource(q, s) \subseteq 1..Len(q)
  BY <1>2, FiniteCaptures DEF OfSource
<1> HIDE DEF n
<1>4. IsFiniteSet(A) /\ n \notin A
  BY <1>2, <1>3, FS_Subset
<1>5. OfSource(p, s) \cap Captures(p) = IF row.source = s /\ row.event = "CAPTURE" THEN A \cup {n} ELSE A
  BY <1>1, <1>2, <1>3
<1>6. Cardinality(A) \in Nat /\ Cardinality(A \cup {n}) = Cardinality(A) + 1
  BY <1>4, FS_CardinalityType, FS_AddElement
<1> HIDE DEF A
<1>7. CASE row.source = s /\ row.event = "CAPTURE"
  BY <1>5, <1>6, <1>7 DEF CountOf, A
<1>8. CASE ~(row.source = s /\ row.event = "CAPTURE")
  <2>1. OfSource(p, s) \cap Captures(p) = A
    BY <1>5, <1>8
  <2>2. CountOf(q, s) = Cardinality(A)
    BY DEF CountOf, A
  <2>3. CountOf(p, s) = Cardinality(A)
    BY <2>1 DEF CountOf
  <2> QED
    BY <1>6, <1>8, <2>2, <2>3
<1> QED
  BY <1>7, <1>8

\* A wave has one attempt more exactly when the row added is one of its attempts.
LEMMA WaveTally ==
  ASSUME NEW q, NEW row, NEW p, Longer(q, row, p), NEW w
  PROVE  /\ CountIn(q, w) \in Nat
         /\ CountIn(p, w) =
              CountIn(q, w) + (IF row.wave = w /\ row.event = "CAPTURE" THEN 1 ELSE 0)
<1> DEFINE n == Len(q) + 1
           B == {i \in Captures(q) : q[i].wave = w}
<1>1. Captures(p) = Captures(q) \cup (IF row.event = "CAPTURE" THEN {n} ELSE {})
  BY LongerParts
<1>2. /\ q \in Seq(Rng(q)) /\ Len(q) \in Nat /\ DOMAIN q = 1..Len(q) /\ p[n] = row
      /\ \A i \in 1..Len(q) : p[i] = q[i]
      /\ n \notin 1..Len(q)
  BY DEF Longer
<1>3. IsFiniteSet(Captures(q)) /\ Captures(q) \subseteq 1..Len(q)
  BY <1>2, FiniteCaptures
<1> HIDE DEF n
<1>4. IsFiniteSet(B) /\ n \notin B
  BY <1>2, <1>3, FS_Subset
<1>5. {i \in Captures(p) : p[i].wave = w} = IF row.wave = w /\ row.event = "CAPTURE" THEN B \cup {n} ELSE B
  BY <1>1, <1>2, <1>3
<1>6. Cardinality(B) \in Nat /\ Cardinality(B \cup {n}) = Cardinality(B) + 1
  BY <1>4, FS_CardinalityType, FS_AddElement
<1> HIDE DEF B
<1>7. CASE row.wave = w /\ row.event = "CAPTURE"
  BY <1>5, <1>6, <1>7 DEF CountIn, B
<1>8. CASE ~(row.wave = w /\ row.event = "CAPTURE")
  <2>1. {i \in Captures(p) : p[i].wave = w} = B
    BY <1>5, <1>8
  <2>2. CountIn(q, w) = Cardinality(B)
    BY DEF CountIn, B
  <2>3. CountIn(p, w) = Cardinality(B)
    BY <2>1 DEF CountIn
  <2> QED
    BY <1>6, <1>8, <2>2, <2>3
<1> QED
  BY <1>7, <1>8

\* Every route that has rows is in order.
AllOrdered(q) ==
  \A i \in 1..Len(q) : q[i].route > 0 /\ RouteOrdered(q, Net(q, q[i].source, q[i].route))

\* A source that is through is not touched by the rows of another.
LEMMA OtherSource ==
  ASSUME NEW q, NEW row, NEW p, Longer(q, row, p), AllOrdered(q), NEW src,
         row.source # src.source
  PROVE  /\ SourceReconciles(src, q) => SourceReconciles(src, p)
         /\ CutReconciles(src, q) => CutReconciles(src, p)
<1> DEFINE s == src.source
           R == RoutesOf(q, s)
<1>1. q \in Seq(Rng(q)) /\ (\A i \in 1..Len(q) : p[i] = q[i]) /\ Len(q) \in Nat /\ DOMAIN q = 1..Len(q)
  BY DEF Longer
<1>2. OfSource(p, s) = OfSource(q, s) /\ OfSource(q, s) \subseteq 1..Len(q)
  <2>1. OfSource(p, s) = OfSource(q, s)
    BY Elsewhere
  <2> QED
    BY <1>1, <2>1 DEF OfSource
<1>3. RoutesOf(p, s) = R
  BY <1>1, <1>2 DEF RoutesOf
<1>4. ASSUME NEW k \in R
      PROVE  Recomputed(p, s, k) = Recomputed(q, s, k) /\ (RouteEnded(p, s, k) <=> RouteEnded(q, s, k))
  <2>1. PICK i \in 1..Len(q) : q[i].source = s /\ q[i].route = k
    BY <1>1 DEF RoutesOf, OfSource
  <2>2. Net(q, s, k) # {}
    BY <2>1 DEF AllOrdered, RouteOrdered
  <2>3. OfRoute(p, s, k) = OfRoute(q, s, k) /\ Net(p, s, k) = Net(q, s, k)
    BY Elsewhere
  <2> QED
    BY <1>1, <2>2, <2>3, SameRoute
<1>5. CutReconciles(src, q) => CutReconciles(src, p)
  BY <1>3 DEF CutReconciles
<1>6. SourceReconciles(src, q) => SourceReconciles(src, p)
  <2> SUFFICES ASSUME SourceReconciles(src, q) PROVE SourceReconciles(src, p)
    OBVIOUS
  <2>1. R = 1..src.routes /\ src.routes > 0
    BY DEF SourceReconciles
  <2>2. {k \in R : Recomputed(p, s, k).covered} = {k \in R : Recomputed(q, s, k).covered}
    BY <1>4
  <2>3. {Recomputed(p, s, k).status : k \in R} = {Recomputed(q, s, k).status : k \in R}
    BY <1>4
  <2>4. [k \in R |-> Recomputed(p, s, k).strategies] = [k \in R |-> Recomputed(q, s, k).strategies]
    BY <1>4
  <2>5. (\A k \in R : Recomputed(p, s, k).covered) <=> (\A k \in R : Recomputed(q, s, k).covered)
    BY <1>4
  <2>6. \A k \in R : RouteEnded(p, s, k)
    BY <1>4 DEF SourceReconciles, RouteEnded
  <2>7. /\ src.completed = Cardinality({k \in R : Recomputed(p, s, k).covered})
        /\ src.strategies = [k \in R |-> Recomputed(p, s, k).strategies]
        /\ src.status = SourceStatus({Recomputed(p, s, k).status : k \in R}, \A k \in R : Recomputed(p, s, k).covered)
        /\ src.after = IF \A k \in R : Recomputed(p, s, k).covered THEN "decision" ELSE "none"
    BY <2>1, <2>2, <2>3, <2>4, <2>5 DEF SourceReconciles
  <2> QED
    BY <1>3, <2>1, <2>6, <2>7 DEF SourceReconciles, RouteEnded
<1> QED
  BY <1>5, <1>6

\* A wave that is through depends on its own sources and attempts alone.
LEMMA SameWave ==
  ASSUME NEW w, NEW a, NEW b, NEW q, NEW p,
         a.waves[w] = b.waves[w], w \in Stopped(a) <=> w \in Stopped(b),
         w - 1 \in Stopped(a) <=> w - 1 \in Stopped(b),
         {s \in Rng(a.sources) : s.wave = w} = {s \in Rng(b.sources) : s.wave = w},
         {i \in Captures(q) : q[i].wave = w} = {i \in Captures(p) : p[i].wave = w},
         WaveReconciles(a, q, w)
  PROVE  WaveReconciles(b, p, w)
BY DEF WaveReconciles

\* A row that goes on where the last one ended keeps the order.
LEMMA InOrder ==
  ASSUME NEW q, NEW row, NEW p, Longer(q, row, p), RowsInOrder(q),
         \A i \in 1..Len(q) : q[i].wave <= row.wave,
         \A i, j \in 1..Len(q) : i < j /\ q[i].source = row.source =>
           /\ q[j].source = row.source
           /\ q[i].route = row.route => q[j].route = row.route,
         row.event # "CAPTURE" => Len(q) > 0 /\ BindsTo(q[Len(q)], row)
  PROVE  RowsInOrder(p)
<1> DEFINE n == Len(q) + 1
<1>1. /\ Len(q) \in Nat /\ DOMAIN q = 1..Len(q) /\ DOMAIN p = 1..n
      /\ p[n] = row /\ \A i \in 1..Len(q) : p[i] = q[i]
  BY DEF Longer
<1>2. \A i \in 1..n : i \in 1..Len(q) \/ i = n
  BY <1>1
<1>3. \A i, j \in 1..n : i < j => i \in 1..Len(q) /\ (j \in 1..Len(q) \/ j = n)
  BY <1>1
<1>4. ASSUME NEW i \in 1..n, NEW j \in 1..n, i < j
      PROVE  p[i].wave <= p[j].wave
  <2>1. CASE j \in 1..Len(q)
    BY <1>1, <1>3, <1>4, <2>1 DEF RowsInOrder
  <2>2. CASE j = n
    BY <1>1, <1>3, <1>4, <2>2
  <2> QED
    BY <1>3, <1>4, <2>1, <2>2
<1>5. ASSUME NEW i \in 1..n, NEW j \in 1..n, NEW k \in 1..n, i < j, j < k, p[i].source = p[k].source
      PROVE  p[j].source = p[i].source /\ (p[i].route = p[k].route => p[j].route = p[i].route)
  <2>1. i \in 1..Len(q) /\ j \in 1..Len(q) /\ p[i] = q[i] /\ p[j] = q[j]
    BY <1>1, <1>5
  <2>2. CASE k \in 1..Len(q)
    BY <1>1, <1>5, <2>1, <2>2 DEF RowsInOrder
  <2>3. CASE k = n
    BY <1>1, <1>5, <2>1, <2>3
  <2> QED
    BY <1>3, <1>5, <2>2, <2>3
<1>6. ASSUME NEW i \in 1..n
      PROVE  p[i].event # "CAPTURE" => i > 1 /\ BindsTo(p[i - 1], p[i])
  <2>1. CASE i \in 1..Len(q)
    <3>1. p[i] = q[i] /\ (i > 1 => i - 1 \in 1..Len(q) /\ p[i - 1] = q[i - 1])
      BY <1>1, <2>1
    <3>2. q[i].event # "CAPTURE" => i > 1 /\ BindsTo(q[i - 1], q[i])
      BY <1>1, <2>1 DEF RowsInOrder, Captures
    <3> QED
      BY <3>1, <3>2
  <2>2. CASE i = n
    <3>1. p[i] = row
      BY <1>1, <2>2
    <3>2. Len(q) > 0 => i > 1 /\ i - 1 = Len(q) /\ p[i - 1] = q[Len(q)]
      BY <1>1, <2>2
    <3> QED
      BY <3>1, <3>2
  <2> QED
    BY <1>2, <2>1, <2>2
<1>7. \A i \in DOMAIN p \ Captures(p) : i > 1 /\ BindsTo(p[i - 1], p[i])
  BY <1>1, <1>6 DEF Captures
<1> QED
  BY <1>1, <1>4, <1>5, <1>7 DEF RowsInOrder

\* An attempt that begins a route or continues it keeps every route in order.
LEMMA OrderedOn ==
  ASSUME NEW q, NEW row, NEW p, Longer(q, row, p), AllOrdered(q), row.route > 0,
         IF row.event = "CAPTURE"
         THEN \/ Net(q, row.source, row.route) = {} /\ row.strategy = 1 /\ row.attempt = 1
              \/ Len(q) \in Net(q, row.source, row.route) /\ Continues(q[Len(q)], row)
         ELSE Len(q) \in Net(q, row.source, row.route)
  PROVE  AllOrdered(p)
<1> DEFINE n == Len(q) + 1
           N == Net(q, row.source, row.route)
           M == Net(p, row.source, row.route)
<1>1. /\ Len(q) \in Nat /\ DOMAIN q = 1..Len(q) /\ DOMAIN p = 1..n /\ Len(p) = n
      /\ p[n] = row /\ (\A i \in 1..Len(q) : p[i] = q[i]) /\ q \in Seq(Rng(q))
  BY DEF Longer
<1>2. ASSUME NEW i \in 1..Len(q), p[i].source # row.source \/ p[i].route # row.route
      PROVE  RouteOrdered(p, Net(p, p[i].source, p[i].route))
  <2> DEFINE s == q[i].source
             k == q[i].route
  <2>1. row.source # s \/ row.route # k
    BY <1>1, <1>2
  <2>2. OfRoute(p, s, k) = OfRoute(q, s, k) /\ Net(p, s, k) = Net(q, s, k)
    BY <2>1, Elsewhere
  <2>3. RouteOrdered(q, Net(q, s, k))
    BY DEF AllOrdered
  <2>4. Net(q, s, k) # {}
    BY <2>3 DEF RouteOrdered
  <2>5. RouteOrdered(p, Net(p, s, k))
    BY <1>1, <2>2, <2>3, <2>4, SameRoute
  <2> QED
    BY <1>1, <2>5
<1>3. N \in SUBSET (1..Len(q)) /\ \A i \in N : q[i].source = row.source /\ q[i].route = row.route
  BY <1>1, Parts
<1>4. N # {} => RouteOrdered(q, N)
  BY <1>3 DEF AllOrdered
<1>5. M = IF row.event = "CAPTURE" THEN N \cup {n} ELSE N
  <2>1. M = N \cup (IF row.source = row.source /\ row.route = row.route /\ row.event = "CAPTURE"
                    THEN {n} ELSE {})
    BY LongerParts
  <2> HIDE DEF M, N, n
  <2> QED
    BY <2>1
<1> HIDE DEF N, M
<1>6. M # {}
  BY <1>3, <1>5 DEF N
<1>7. ASSUME NEW i \in M
      PROVE  LET earlier == {j \in M : j < i} IN
             IF earlier = {} THEN p[i].strategy = 1 /\ p[i].attempt = 1
             ELSE Continues(p[Max(earlier)], p[i])
  <2> DEFINE E == {j \in N : j < i}
  <2>1. CASE i \in N
    <3>1. i \in 1..Len(q) /\ p[i] = q[i] /\ n \notin N
      BY <1>1, <1>3, <2>1
    <3>2. {j \in M : j < i} = E
      BY <1>1, <1>5, <3>1
    <3>3. IF E = {} THEN q[i].strategy = 1 /\ q[i].attempt = 1 ELSE Continues(q[Max(E)], q[i])
      BY <1>4, <2>1 DEF RouteOrdered
    <3>4. ASSUME E # {} PROVE p[Max(E)] = q[Max(E)]
      <4>1. E \in SUBSET (1..Len(q))
        BY <1>3
      <4>2. Max(E) \in E
        BY <1>1, <3>4, <4>1, Greatest
      <4>3. Max(E) \in 1..Len(q)
        BY <4>1, <4>2
      <4> QED
        BY <1>1, <4>3
    <3> HIDE DEF E
    <3> QED
      BY <3>1, <3>2, <3>3, <3>4
  <2>2. CASE i = n /\ i \notin N
    <3>1. row.event = "CAPTURE" /\ p[i] = row
      BY <1>1, <1>5, <2>2
    <3>2. {j \in M : j < i} = N
      <4>1. (\A j \in N : j < n) /\ ~(n < n)
        BY <1>1, <1>3
      <4>2. M = N \cup {n}
        BY <1>5, <3>1
      <4> HIDE DEF n
      <4> QED
        BY <2>2, <4>1, <4>2
    <3>3. CASE N = {}
      BY <3>1, <3>2, <3>3 DEF N
    <3>4. CASE N # {}
      <4>1. Len(q) \in N /\ Continues(q[Len(q)], row)
        BY <3>1, <3>4 DEF N
      <4>2. N \in SUBSET Nat /\ \A y \in N : y <= Len(q)
        BY <1>1, <1>3
      <4>3. Max(N) = Len(q) /\ p[Len(q)] = q[Len(q)]
        BY <1>1, <1>3, <4>1, <4>2, MaxIs
      <4> QED
        BY <3>1, <3>2, <3>4, <4>1, <4>3
    <3> QED
      BY <3>3, <3>4
  <2> QED
    BY <1>5, <2>1, <2>2
<1>8. RouteOrdered(p, M)
  BY <1>6, <1>7 DEF RouteOrdered
<1>9. ASSUME NEW i \in 1..n
      PROVE  p[i].route > 0 /\ RouteOrdered(p, Net(p, p[i].source, p[i].route))
  <2>1. p[i].route > 0
    BY <1>1, <1>9 DEF AllOrdered
  <2>2. CASE p[i].source = row.source /\ p[i].route = row.route
    BY <1>8, <2>1, <2>2 DEF M
  <2>3. CASE ~(p[i].source = row.source /\ p[i].route = row.route)
    <3>1. i \in 1..Len(q)
      BY <1>1, <2>3
    <3> QED
      BY <1>2, <2>1, <2>3, <3>1
  <2> QED
    BY <2>2, <2>3
<1> QED
  BY <1>1, <1>9 DEF AllOrdered

\* The pages of a route: Z are the proofs of the empty ones.
PagesOK(q, N, Z) ==
  /\ Z = {q[i].answer.proof : i \in {j \in N : EmptyPage(q[j])}}
  /\ Z \subseteq Strategies
  /\ \A i \in N : q[i].strategy \in Strategies /\ (EmptyPage(q[i]) => q[i].answer.proof \in 1..q[i].strategy)
  /\ \A i, j \in N : i < j /\ q[i].disposition \in Goes => q[i].strategy < q[j].strategy

\* Four proofs are those of the four strategies, each on its last page.
LEMMA FourPages ==
  ASSUME NEW q, NEW N \in SUBSET Nat, NEW Z, PagesOK(q, N, Z)
  PROVE  ZeroComplete(q, N) <=> Cardinality(Z) = 4
<1> DEFINE L == LastOfStrategies(q, N)
           Y == {q[i].answer.proof : i \in L}
<1>1. \A A \in SUBSET Strategies : Cardinality(A) = 4 <=> A = Strategies
  <2>1. IsFiniteSet(Strategies) /\ Cardinality(Strategies) = 4
    <3>1. 1 \in Int /\ 4 \in Int /\ ~(1 > 4) /\ 4 - 1 + 1 = 4
      OBVIOUS
    <3>2. IsFiniteSet(1..4) /\ Cardinality(1..4) = IF 1 > 4 THEN 0 ELSE 4 - 1 + 1
      BY <3>1, FS_Interval
    <3> QED
      BY <3>1, <3>2 DEF Strategies
  <2> QED
    BY <2>1, FS_Subset
<1>2. L \subseteq N /\ \A i \in L, j \in N : j > i => q[j].strategy # q[i].strategy
  BY DEF LastOfStrategies
<1>3. \A i \in N : i \in L <=> \A j \in N : j > i => q[j].strategy # q[i].strategy
  BY DEF LastOfStrategies
<1>4. /\ Z = {q[i].answer.proof : i \in {j \in N : EmptyPage(q[j])}}
      /\ Z \subseteq Strategies
      /\ \A i \in N : q[i].strategy \in Strategies /\ (EmptyPage(q[i]) => q[i].answer.proof \in 1..q[i].strategy)
      /\ \A i, j \in N : i < j /\ q[i].disposition \in Goes => q[i].strategy < q[j].strategy
  BY DEF PagesOK
<1>5. \A i : EmptyPage(q[i]) <=> q[i].disposition = "NEXT_EMPTY_STRATEGY" /\ CountsAsZero(q[i].answer)
  BY DEF EmptyPage
<1>6. ZeroComplete(q, N) <=> /\ \A k \in Strategies : \E i \in L : q[i].strategy = k
                             /\ \A i \in L : EmptyPage(q[i])
                             /\ Cardinality(Y) = 4
  BY <1>5 DEF ZeroComplete
<1> HIDE DEF L
<1>7. ASSUME ZeroComplete(q, N) PROVE Cardinality(Z) = 4
  <2>1. Cardinality(Y) = 4 /\ \A i \in L : EmptyPage(q[i])
    BY <1>6, <1>7
  <2>2. Y \subseteq Z
    BY <1>2, <1>4, <2>1
  <2>3. Y = Strategies
    BY <1>1, <1>4, <2>1, <2>2
  <2>4. Z = Strategies
    BY <1>4, <2>2, <2>3
  <2> QED
    BY <1>1, <2>4
<1>8. ASSUME Cardinality(Z) = 4 PROVE ZeroComplete(q, N)
  <2>1. \A k \in Strategies : \E i \in N : EmptyPage(q[i]) /\ q[i].answer.proof = k
    <3>1. Z = Strategies
      BY <1>1, <1>4, <1>8
    <3> QED
      BY <1>4, <3>1
  <2>2. \A i, j \in N : EmptyPage(q[i]) /\ i < j => q[i].strategy < q[j].strategy
    BY <1>4, <1>5 DEF Goes
\* No two pages of one strategy count, so the proof of strategy 4 is its own,
\* then that of strategy 3, and so on.
  <2>3. ASSUME NEW i \in N, NEW j \in N, EmptyPage(q[i]), EmptyPage(q[j]), q[i].strategy = q[j].strategy
        PROVE  q[i].answer.proof = q[j].answer.proof
    <3>1. i \in Nat /\ j \in Nat /\ q[i].strategy \in 1..4
      BY <1>4 DEF Strategies
    <3>2. ~(i < j) /\ ~(j < i)
      BY <2>2, <2>3, <3>1
    <3>3. i = j
      BY <3>1, <3>2
    <3> QED
      BY <3>3
  <2> DEFINE Own(k) == \E i \in N : EmptyPage(q[i]) /\ q[i].answer.proof = k /\ q[i].strategy = k
  <2>4. ASSUME NEW k \in Strategies, \A m \in Strategies : m > k => Own(m)
        PROVE  Own(k)
    <3>1. PICK i \in N : EmptyPage(q[i]) /\ q[i].answer.proof = k
      BY <2>1
    <3>2. q[i].strategy \in Strategies /\ k \in 1..q[i].strategy
      BY <1>4, <3>1
    <3>3. CASE q[i].strategy > k
      <4>1. PICK j \in N : /\ EmptyPage(q[j]) /\ q[j].answer.proof = q[i].strategy
                           /\ q[j].strategy = q[i].strategy
        BY <2>4, <3>2, <3>3
      <4>2. k = q[i].strategy
        BY <2>3, <3>1, <4>1
      <4> QED
        BY <3>3, <4>2 DEF Strategies
    <3>4. CASE ~(q[i].strategy > k)
      <4>1. q[i].strategy = k
        BY <3>2, <3>4 DEF Strategies
      <4> QED
        BY <3>1, <4>1
    <3> QED
      BY <3>3, <3>4
  <2>5. \A k \in Strategies :
          \E i \in N : EmptyPage(q[i]) /\ q[i].answer.proof = k /\ q[i].strategy = k
    <3> HIDE DEF Own
    <3>1. Strategies = {1, 2, 3, 4}
      BY DEF Strategies
    <3>2. Own(4)
      BY <2>4, <3>1
    <3>3. Own(3)
      BY <2>4, <3>1, <3>2
    <3>4. Own(2)
      BY <2>4, <3>1, <3>2, <3>3
    <3>5. Own(1)
      BY <2>4, <3>1, <3>2, <3>3, <3>4
    <3> QED
      BY <3>1, <3>2, <3>3, <3>4, <3>5 DEF Own
  <2>6. ASSUME NEW i \in N, EmptyPage(q[i]) PROVE i \in L
    <3>1. ASSUME NEW j \in N, j > i PROVE q[j].strategy # q[i].strategy
      <4>1. q[i].strategy < q[j].strategy /\ q[i].strategy \in 1..4
        BY <1>4, <2>2, <2>6, <3>1 DEF Strategies
      <4> QED
        BY <4>1
    <3> QED
      BY <1>3, <3>1
  <2>7. ASSUME NEW i \in L PROVE EmptyPage(q[i])
    <3>1. i \in N /\ q[i].strategy \in Strategies
      BY <1>2, <1>4
    <3>2. PICK j \in N : EmptyPage(q[j]) /\ q[j].strategy = q[i].strategy
      BY <2>5, <3>1
    <3>3. ~(j > i)
      BY <1>2, <3>2
    <3>4. ~(j < i)
      <4>1. j < i => q[j].strategy < q[i].strategy
        BY <2>2, <3>1, <3>2
      <4> QED
        BY <3>1, <3>2, <4>1 DEF Strategies
    <3>5. i = j
      BY <3>1, <3>3, <3>4
    <3> QED
      BY <3>2, <3>5
  <2>8. Y = Strategies
    <3>1. Y \subseteq Strategies
      BY <1>2, <1>4, <2>7
    <3>2. \A k \in Strategies : k \in Y
      BY <2>5, <2>6
    <3> QED
      BY <3>1, <3>2
  <2>9. \A k \in Strategies : \E i \in L : q[i].strategy = k
    BY <2>5, <2>6
  <2> QED
    BY <1>1, <1>6, <2>7, <2>8, <2>9
<1> QED
  BY <1>7, <1>8

\* The outcome of a route whose last row is attempt n.
OutcomeOf(q, N, n) ==
  IF ZeroComplete(q, N)
  THEN [status |-> "ZERO_RESULT", covered |-> TRUE, strategies |-> q[n].strategy]
  ELSE [status |-> StatusOf(q[n].answer, q[n].disposition),
        covered |-> q[n].disposition = "STOP_QUALIFIED", strategies |-> q[n].strategy]

\* The outcome of a route that ended with an attempt, and not with a failed sleep.
LEMMA RecomputedIs ==
  ASSUME NEW q, NEW s, NEW k, NEW n, Max(Net(q, s, k)) = n, Max(OfRoute(q, s, k)) = n,
         q[n].event = "CAPTURE", q[n].disposition # "STOP_SLEEPER_FAILURE"
  PROVE  Recomputed(q, s, k) = OutcomeOf(q, Net(q, s, k), n)
<1> DEFINE r == q[n].answer
           d == q[n].disposition
           out == IF d = "STOP_QUALIFIED" THEN "QUALIFIED"
                  ELSE IF d = "STOP_CAPTURE_PENDING_PARSER" \/ (d = "STOP_ADAPTER_QUARANTINED" /\ r.content)
                  THEN "CAPTURED_PENDING_PARSER"
                  ELSE IF d = "STOP_HARD_BLOCK" THEN r.state
                  ELSE IF d \in {"STOP_RATE_LIMITED", "STOP_RETRY_BUDGET"} /\ r.code = "RATE_LIMIT"
                  THEN "BLOCKED" ELSE "ERROR"
<1>1. StatusOf(r, d) = out
  <2>1. \A x, y : y # "STOP_SLEEPER_FAILURE" => StatusOf(x, y) =
          IF y = "STOP_QUALIFIED" THEN "QUALIFIED"
          ELSE IF y = "STOP_CAPTURE_PENDING_PARSER" \/ (y = "STOP_ADAPTER_QUARANTINED" /\ x.content)
          THEN "CAPTURED_PENDING_PARSER"
          ELSE IF y = "STOP_HARD_BLOCK" THEN x.state
          ELSE IF y \in {"STOP_RATE_LIMITED", "STOP_RETRY_BUDGET"} /\ x.code = "RATE_LIMIT"
          THEN "BLOCKED" ELSE "ERROR"
    BY DEF StatusOf
  <2> QED
    BY <2>1
<1>2. Recomputed(q, s, k) =
        IF ZeroComplete(q, Net(q, s, k))
        THEN [status |-> "ZERO_RESULT", covered |-> TRUE, strategies |-> q[n].strategy]
        ELSE [status |-> out, covered |-> d = "STOP_QUALIFIED", strategies |-> q[n].strategy]
  BY DEF Recomputed
<1> QED
  BY <1>1, <1>2 DEF OutcomeOf

-----------------------------------------------------------------------------
(* The report goes on. *)

\* The invariant of the report, of a run that is not dead.
Alive ==
  /\ LedgerOK /\ Latest /\ Continued /\ Pages /\ Outcomes /\ Tally
  /\ SourcesOK /\ WavesOK /\ StopOK /\ StatusOK

\* The disposition that the run decides on fits the answer it was decided from
\* exactly if the answer agrees with itself.
LEMMA DispositionsFit ==
  ASSUME NEW r, NEW k, AnswerFits(r, k), NEW delay, NEW now, NEW d,
         d = Decided(r, delay, now) \/ (r = Unsaved /\ d = "NEXT_REJECTED_STRATEGY")
  PROVE  (DispositionFits(r, d) <=> Coherent(r)) /\ d # "STOP_SLEEPER_FAILURE"
<1> DEFINE e == Disposition(r, at.attempt, at.strategy)
<1>1. CASE r = Unsaved /\ d = "NEXT_REJECTED_STRATEGY"
  <2>1. Classify(r) = "NONE"
    BY <1>1 DEF Classify, Unsaved, Failure
  <2>2. Coherent(r)
    BY <2>1 DEF Coherent
  <2>3. DispositionFits(r, d)
    BY <1>1 DEF DispositionFits
  <2> QED
    BY <1>1, <2>2, <2>3
<1>2. CASE d = Decided(r, delay, now)
  <2>1. d = e \/ (e = "RETRY_TRANSIENT" /\ d = "STOP_RETRY_BUDGET")
    BY <1>2 DEF Decided
  <2>2. Classify(r) \in {"RATE_LIMITED", "QUARANTINE", "HARD_BLOCK", "TRANSIENT", "NONE"}
    BY DEF Classify
  <2>3. CASE Classify(r) = "RATE_LIMITED"
    <3>1. e = "STOP_RATE_LIMITED" /\ r.code = "RATE_LIMIT"
      BY <2>3 DEF Disposition, Classify
    <3>2. Coherent(r) <=> r.state = "BLOCKED" /\ ~r.content
      BY <2>3 DEF Coherent
    <3> HIDE DEF e
    <3> QED
      BY <2>1, <3>1, <3>2 DEF DispositionFits
  <2>4. CASE Classify(r) = "QUARANTINE"
    <3>1. e = "STOP_ADAPTER_QUARANTINED"
      BY <2>4 DEF Disposition
    <3>2. Coherent(r) <=> NamesParser(r)
      BY <2>4 DEF Coherent
    <3> HIDE DEF e
    <3> QED
      BY <2>1, <3>1, <3>2 DEF DispositionFits
  <2>5. CASE Classify(r) = "HARD_BLOCK"
    <3>1. e = "STOP_HARD_BLOCK"
      BY <2>5 DEF Disposition
    <3>2. Coherent(r) <=> RefusalShaped(r) /\ ~r.content
      BY <2>5 DEF Coherent
    <3> HIDE DEF e
    <3> QED
      BY <2>1, <3>1, <3>2 DEF DispositionFits
  <2>6. CASE Classify(r) = "TRANSIENT" /\ ~ExplicitEmpty(r)
    <3>1. e \in {"RETRY_TRANSIENT", "STOP_TRANSIENT_SOURCE_FAILOVER"}
      BY <2>6 DEF Disposition
    <3>2. r.state = "ERROR"
      BY <2>6 DEF Classify
    <3>3. Coherent(r) <=> ~r.content
      BY <2>6 DEF Coherent
    <3> HIDE DEF e
    <3> QED
      BY <2>1, <3>1, <3>2, <3>3 DEF DispositionFits
  <2>7. CASE Classify(r) = "NONE" \/ (Classify(r) = "TRANSIENT" /\ ExplicitEmpty(r))
    <3>1. e = Unclassified(r, at.strategy) /\ Coherent(r)
      BY <2>7 DEF Disposition, Coherent
    <3>2. r.state \notin {"BLOCKED", "AUTH_REQUIRED"}
      BY <2>7 DEF Classify
    <3>3. \/ e = "STOP_QUALIFIED" /\ r.state = "AVAILABLE" /\ r.query = "QUALIFIED" /\ r.content /\ r.flags = {}
          \/ e = "NEXT_EMPTY_STRATEGY" /\ ExplicitEmpty(r)
          \/ e = "STOP_CAPTURE_PENDING_PARSER" /\ r.content
          \/ e \in {"STOP_STRATEGIES_EXHAUSTED", "NEXT_REJECTED_STRATEGY"}
      BY <3>1 DEF Unclassified
    <3> HIDE DEF e
    <3>4. d = e
      BY <2>1, <3>3
    <3>5. DispositionFits(r, d)
      BY <3>2, <3>3, <3>4 DEF DispositionFits
    <3> QED
      BY <3>1, <3>3, <3>4, <3>5
  <2> QED
    BY <2>2, <2>3, <2>4, <2>5, <2>6, <2>7
<1> QED
  BY <1>1, <1>2

\* A source that the run has left stays behind it.
LEMMA PassedStays ==
  ASSUME PlanInv, TypeOK, UNCHANGED planned, at'.wave \in Nat, at'.turn \in Nat,
         at.wave < at'.wave \/ (at.wave = at'.wave /\ at.turn <= at'.turn),
         NEW s \in Sources, Passed(s)
  PROVE  Passed(s)'
<1>1. plan' = plan /\ catalog' = catalog
  BY DEF planned
<1> DEFINE w == catalog.wave[s]
<1>2. PICK t \in DOMAIN plan[w] :
        plan[w][t] = s /\ (w < at.wave \/ (w = at.wave /\ t < at.turn))
  BY DEF Passed
<1>3. w \in Waves /\ w \in Nat /\ at.wave \in Nat /\ at.turn \in Nat
  BY WaveOf, AtTypes
<1>4. t \in Nat
  BY <1>3, AtTypes
<1>5. w < at'.wave \/ (w = at'.wave /\ t < at'.turn)
  <2> HIDE DEF w
  <2> QED
    BY <1>2, <1>3, <1>4
<1> QED
  BY <1>1, <1>2, <1>5 DEF Passed

\* The source that is under way is not behind.
LEMMA NotPassed ==
  ASSUME PlanInv, TypeOK, Places, Underway
  PROVE  ~Passed(Source)
<1>1. /\ Source \in Sources /\ catalog.wave[Source] = at.wave /\ at.wave \in Waves
      /\ \A t \in DOMAIN plan[at.wave] : plan[at.wave][t] = Source => t = at.turn
  BY CurrentSource
<1>2. at.wave \in Nat /\ at.turn \in Nat
  BY AtTypes
<1> QED
  BY <1>1, <1>2 DEF Passed

\* The reports of sources stay true while no row and no report is added.
LEMMA SourcesStay ==
  ASSUME PlanInv, TypeOK, SourcesOK, UNCHANGED planned, rows' = rows, sources' = sources,
         advanced' = advanced, at'.wave \in Nat, at'.turn \in Nat,
         at.wave < at'.wave \/ (at.wave = at'.wave /\ at.turn <= at'.turn),
         \A i \in DOMAIN rows : Told(rows[i].source) \/ (Underway' /\ rows[i].source = Source'),
         pc' = "source" \/ Underway' =>
           \A t \in DOMAIN plan[at'.wave] : t < at'.turn => Told(plan[at'.wave][t])
  PROVE  SourcesOK'
<1>1. plan' = plan /\ catalog' = catalog
  BY DEF planned
<1>2. ASSUME NEW src \in Rng(sources) PROVE SourceOK(src)'
  <2>1. SourceOK(src)
    BY DEF SourcesOK
  <2>2. src.source \in Sources /\ Passed(src.source)
    BY <2>1 DEF SourceOK
  <2>3. Passed(src.source)'
    <3>1. PICK s \in Sources : s = src.source
      BY <2>2
    <3>2. Passed(s)'
      BY <2>2, <3>1, PassedStays
    <3> QED
      BY <3>1, <3>2
  <2> QED
    BY <1>1, <2>1, <2>3 DEF SourceOK
<1>3. ASSUME NEW s PROVE Told(s)' <=> Told(s)
  BY DEF Told
<1> QED
  BY <1>1, <1>2, <1>3 DEF SourcesOK

\* The reports of waves stay true while a wave is under way.
LEMMA WavesStay ==
  ASSUME WavesOK, StopOK, rows' = rows, sources' = sources, waves' = waves, UNCHANGED planned,
         stop = "NONE", stop' = stop, at'.wave = at.wave,
         pc' \in {"source", "attempt", "sleep", "route"}
  PROVE  WavesOK' /\ StopOK'
<1>1. plan' = plan /\ catalog' = catalog /\ Report'.waves = Report.waves /\ Report'.sources = Report.sources
  BY DEF planned, Report
<1>2. Stopped(Report') = Stopped(Report)
  BY <1>1 DEF Stopped
<1>3. ASSUME NEW w \in DOMAIN waves PROVE WaveReconciles(Report', rows', w)
  BY <1>1, <1>2, <1>3, SameWave DEF WavesOK
<1>4. WavesOK'
  BY <1>1, <1>3 DEF WavesOK
<1>5. StopOK'
  BY <1>2 DEF StopOK
<1> QED
  BY <1>4, <1>5

\* Nothing is said of a route while none is under way.
LEMMA Idle ==
  ASSUME pc' \in {"plan", "wave", "source", "done"}
  PROVE  Latest' /\ Continued' /\ Pages' /\ Outcomes' /\ ~Underway'
<1>1. ~Underway' /\ ~Trying'
  BY DEF Underway, Trying
<1> QED
  BY <1>1 DEF Latest, Continued, Pages, Outcomes

\* Between two waves nothing has been reported of the next one.
LEMMA BetweenWaves ==
  ASSUME PlanInv, RunInv, SourcesOK, pc \in {"plan", "wave"}
  PROVE  /\ \A i \in DOMAIN rows : rows[i].wave # at.wave
         /\ \A src \in Rng(sources) : src.wave # at.wave /\ src.wave < at.wave
<1>1. TypeOK /\ Places /\ Follows /\ at.turn = 0 /\ at.wave \in Nat
  BY AtTypes DEF RunInv, Places
<1>2. \A w \in Waves : \A t \in DOMAIN plan[w] : t \in Nat /\ t >= 1
  BY <1>1, AtTypes
<1>3. ASSUME NEW i \in DOMAIN rows PROVE rows[i].wave # at.wave
  <2>1. Behind(rows[i])
    BY <1>1 DEF Follows
  <2>2. PICK s \in Sources : s = rows[i].source /\ Reached(s) /\ rows[i].wave = catalog.wave[s]
    BY <2>1 DEF Behind
  <2>3. catalog.wave[s] \in Waves /\ catalog.wave[s] \in Nat
    BY WaveOf
  <2>4. catalog.wave[s] < at.wave
    BY <1>1, <1>2, <2>2, <2>3 DEF Reached
  <2> QED
    BY <1>1, <2>2, <2>3, <2>4
<1>4. ASSUME NEW src \in Rng(sources) PROVE src.wave # at.wave /\ src.wave < at.wave
  <2>1. SourceOK(src)
    BY DEF SourcesOK
  <2>2. PICK s \in Sources : s = src.source /\ Passed(s) /\ src.wave = catalog.wave[s]
    BY <2>1 DEF SourceOK
  <2>3. catalog.wave[s] \in Waves /\ catalog.wave[s] \in Nat
    BY WaveOf
  <2>4. catalog.wave[s] < at.wave
    BY <1>1, <1>2, <2>2, <2>3 DEF Passed
  <2> QED
    BY <1>1, <2>2, <2>3, <2>4
<1> QED
  BY <1>3, <1>4

\* Planning, and the start of the run, keep the invariant of the report.
LEMMA PlanningReports ==
  ASSUME PlanInv, PlanInv', RunInv, RunInv', Alive, Choose \/ Fill \/ BeginRun
  PROVE  Alive'
<1>1. /\ pc = "plan" /\ rows = <<>> /\ DOMAIN rows = {} /\ pc' \in {"plan", "wave"} /\ catalog' = catalog
      /\ UNCHANGED <<at, rows, zeros, routes, sources, waves, advanced, circuits, domains, elapsed, stop, status>>
  BY DEF Choose, Fill, BeginRun, search, progress, planned, results, RunInv, Places
<1>2. Rng(sources) = {}
  <2>1. at.wave = 1 /\ \A src \in Rng(sources) : src.wave < at.wave
    BY <1>1, BetweenWaves DEF Alive, WavesOK
  <2>2. \A src \in Rng(sources) : src.wave \in Nat /\ src.wave >= 1
    <3>1. \A src \in Rng(sources) : src.source \in Sources /\ src.wave = catalog.wave[src.source]
      BY DEF Alive, SourcesOK, SourceOK
    <3>2. \A s \in Sources : catalog.wave[s] \in Nat /\ catalog.wave[s] >= 1
      BY WaveOf, WaveTypes
    <3> QED
      BY <3>1, <3>2
  <2> QED
    BY <2>1, <2>2
<1>3. Latest' /\ Continued' /\ Pages' /\ Outcomes' /\ ~Underway' /\ pc' # "source" /\ pc' # "done"
  BY <1>1, Idle
<1>4. LedgerOK' /\ Tally' /\ StatusOK'
  BY <1>1, <1>3 DEF Alive, LedgerOK, Tally, StatusOK
<1>5. SourcesOK'
  BY <1>1, <1>2, <1>3 DEF Alive, SourcesOK, Told
<1>6. Report'.waves = waves /\ Report.waves = waves /\ waves = <<>> /\ DOMAIN waves = {}
  <2>1. waves \in Seq(Rng(waves)) /\ Len(waves) = 0
    BY <1>1 DEF Alive, WavesOK
  <2>2. waves = <<>>
    BY <2>1
  <2> QED
    BY <1>1, <2>2 DEF Report
<1>7. WavesOK'
  BY <1>1, <1>3, <1>6 DEF Alive, WavesOK
<1>8. Stopped(Report') = Stopped(Report)
  BY <1>6 DEF Stopped
<1>9. StopOK'
  BY <1>1, <1>3, <1>8 DEF Alive, StopOK
<1> QED
  BY <1>3, <1>4, <1>5, <1>7, <1>9 DEF Alive

\* A wave more in the report.
LEMMA StoppedGrows ==
  ASSUME WavesOK, at.wave \in Nat, NEW wave, waves' = Append(waves, wave)
  PROVE  /\ waves' \in Seq(Rng(waves')) /\ Len(waves') = at.wave /\ Len(waves) = at.wave - 1
         /\ DOMAIN waves = 1..(at.wave - 1) /\ DOMAIN waves' = 1..at.wave
         /\ \A w \in DOMAIN waves : waves'[w] = waves[w]
         /\ waves'[at.wave] = wave /\ at.wave >= 1
         /\ Report.waves = waves /\ Report'.waves = waves'
         /\ Report.sources = sources /\ Report'.sources = sources'
         /\ Stopped(Report) \subseteq 1..(at.wave - 1)
         /\ Stopped(Report') =
              Stopped(Report) \cup (IF wave.status = "BUDGET_STOPPED" THEN {at.wave} ELSE {})
<1>1. waves \in Seq(Rng(waves)) /\ Len(waves) = at.wave - 1 /\ Len(waves) \in Nat
  BY DEF WavesOK
<1>2. /\ waves' \in Seq(Rng(waves')) /\ Len(waves') = Len(waves) + 1
      /\ DOMAIN waves = 1..Len(waves) /\ DOMAIN waves' = 1..(Len(waves) + 1)
      /\ \A w \in 1..Len(waves) : waves'[w] = waves[w]
      /\ waves'[Len(waves) + 1] = wave
  BY <1>1, OneMore
<1>3. Len(waves) + 1 = at.wave /\ at.wave >= 1
  BY <1>1
<1>4. /\ waves' \in Seq(Rng(waves')) /\ Len(waves') = at.wave
      /\ DOMAIN waves = 1..(at.wave - 1) /\ DOMAIN waves' = 1..at.wave
      /\ \A w \in DOMAIN waves : waves'[w] = waves[w]
      /\ waves'[at.wave] = wave
  BY <1>1, <1>2, <1>3
<1>5. /\ Report.waves = waves /\ Report'.waves = waves'
      /\ Report.sources = sources /\ Report'.sources = sources'
  BY DEF Report
<1>6. \A w : w \in 1..at.wave <=> w \in 1..(at.wave - 1) \/ w = at.wave
  BY <1>3
<1>7. Stopped(Report') =
        Stopped(Report) \cup (IF wave.status = "BUDGET_STOPPED" THEN {at.wave} ELSE {})
  BY <1>4, <1>5, <1>6 DEF Stopped
<1>8. Stopped(Report) \subseteq 1..(at.wave - 1)
  BY <1>4, <1>5 DEF Stopped
<1> QED
  BY <1>1, <1>3, <1>4, <1>5, <1>7, <1>8

\* A true report of the wave that ends keeps the reports of waves true.
LEMMA WaveAdded ==
  ASSUME WavesOK, at.wave \in Nat, NEW wave, waves' = Append(waves, wave), rows' = rows,
         UNCHANGED planned, at'.wave = at.wave + 1, pc' = "wave",
         \A w \in 1..(at.wave - 1) :
           {s \in Rng(sources') : s.wave = w} = {s \in Rng(sources) : s.wave = w},
         wave.ids = Rng(plan[at.wave]), WaveReconciles(Report', rows', at.wave)
  PROVE  WavesOK'
<1>1. plan' = plan
  BY DEF planned
<1>2. /\ waves' \in Seq(Rng(waves')) /\ Len(waves') = at.wave /\ Len(waves) = at.wave - 1
      /\ DOMAIN waves = 1..(at.wave - 1) /\ DOMAIN waves' = 1..at.wave
      /\ \A w \in DOMAIN waves : waves'[w] = waves[w]
      /\ waves'[at.wave] = wave /\ at.wave >= 1
      /\ Report.waves = waves /\ Report'.waves = waves'
      /\ Report.sources = sources /\ Report'.sources = sources'
      /\ Stopped(Report) \subseteq 1..(at.wave - 1)
      /\ Stopped(Report') =
           Stopped(Report) \cup (IF wave.status = "BUDGET_STOPPED" THEN {at.wave} ELSE {})
  BY StoppedGrows
<1>3. ASSUME NEW w \in 1..(at.wave - 1) PROVE WaveReconciles(Report', rows', w) /\ waves'[w].ids = Rng(plan[w])
  <2>1. w # at.wave /\ w - 1 # at.wave
    OBVIOUS
  <2>2. (w \in Stopped(Report) <=> w \in Stopped(Report')) /\ (w - 1 \in Stopped(Report) <=> w - 1 \in Stopped(Report'))
    BY <1>2, <2>1
  <2>3. waves[w] = waves'[w] /\ WaveReconciles(Report, rows, w) /\ waves[w].ids = Rng(plan[w])
    BY <1>2 DEF WavesOK
  <2>4. Report.waves[w] = Report'.waves[w]
    BY <1>2, <2>3
  <2>5. {s \in Rng(Report.sources) : s.wave = w} = {s \in Rng(Report'.sources) : s.wave = w}
    BY <1>2
  <2>6. WaveReconciles(Report', rows', w)
    BY <2>2, <2>3, <2>4, <2>5, SameWave
  <2> QED
    BY <2>3, <2>6
<1>4. \A w \in 1..at.wave : w \in 1..(at.wave - 1) \/ w = at.wave
  BY <1>2
<1>5. \A w \in DOMAIN waves' : waves'[w].ids = Rng(plan'[w]) /\ WaveReconciles(Report', rows', w)
  BY <1>1, <1>2, <1>3, <1>4
<1> QED
  BY <1>2, <1>5 DEF WavesOK

\* The start of a wave, or its report as stopped, keeps the invariant.
LEMMA BeginWaveReports ==
  ASSUME PlanInv, RunInv, RunInv', Alive, BeginWave
  PROVE  Alive'
<1>1. TypeOK /\ LedgerOK /\ SourcesOK /\ WavesOK /\ StopOK /\ Follows
  BY DEF RunInv, Alive
<1>2. /\ UNCHANGED <<rows, file, zeros, routes, sources, advanced, circuits, domains, elapsed, stop, status>>
      /\ UNCHANGED planned /\ pc = "wave" /\ at.wave \in Waves /\ catalog' = catalog /\ plan' = plan
  BY DEF BeginWave, progress, planned
<1>3. at.wave \in Nat /\ at.turn \in Nat /\ Attempts \in Nat /\ Attempts' = Attempts /\ at.turn = 0
  BY <1>1, <1>2, AtTypes, FiniteCaptures DEF Follows, Attempts, RunInv, Places
<1>4. (\A i \in DOMAIN rows : rows[i].wave # at.wave) /\ (\A src \in Rng(sources) : src.wave # at.wave)
  BY <1>1, <1>2, BetweenWaves
<1>5. {i \in Captures(rows) : rows[i].wave = at.wave} = {}
  BY <1>4 DEF Captures
<1>6. Latest' /\ Continued' /\ Pages' /\ Outcomes' /\ ~Underway' /\ pc' \in {"source", "wave"}
  <2>1. pc' \in {"source", "wave"}
    BY <1>2 DEF BeginWave
  <2> QED
    BY <2>1, Idle
<1>7. LedgerOK' /\ StatusOK'
  BY <1>1, <1>2, <1>6 DEF LedgerOK, StatusOK
<1>8. \A i \in DOMAIN rows : Told(rows[i].source)
  BY <1>1, <1>2 DEF SourcesOK, Underway, Trying
<1>9. CASE stop = "NONE"
  <2>1. pc' = "source" /\ waves' = waves /\ at' = At(at.wave, 1, Attempts, Attempts)
    BY <1>9 DEF BeginWave
  <2>2. at'.wave = at.wave /\ at'.turn = 1 /\ at'.before = Attempts
    BY <2>1 DEF At
  <2>3. \A t \in DOMAIN plan[at.wave] : t \in Nat /\ t >= 1
    BY <1>1, <1>2, AtTypes
  <2>4. SourcesOK'
    BY <1>1, <1>2, <1>3, <1>8, <2>2, <2>3, SourcesStay
  <2>5. WavesOK' /\ StopOK'
    BY <1>1, <1>2, <1>9, <2>1, <2>2, WavesStay
  <2>6. Tally'
    <3>1. {i \in Captures(rows') : rows'[i].wave = at'.wave} = {}
      BY <1>2, <1>5, <2>2
    <3>2. Cardinality({i \in Captures(rows') : rows'[i].wave = at'.wave}) = 0
      BY <3>1, FS_EmptySet
    <3>3. Attempts' = at'.before + 0
      BY <1>3, <2>2
    <3> QED
      BY <1>6, <3>2, <3>3 DEF Tally
  <2> QED
    BY <1>6, <1>7, <2>4, <2>5, <2>6 DEF Alive
<1>10. CASE stop # "NONE"
  <2> DEFINE wave == WaveResult("BUDGET_STOPPED", 0, Rng(plan[at.wave]))
  <2>1. pc' = "wave" /\ waves' = Append(waves, wave) /\ at' = At(at.wave + 1, 0, 0, 0)
    BY <1>10 DEF BeginWave
  <2>2. at'.wave = at.wave + 1 /\ at'.turn = 0
    BY <2>1 DEF At
  <2>3. /\ wave.ids = Rng(plan[at.wave]) /\ wave.attempts = 0 /\ wave.degraded = wave.ids
        /\ wave.status = "BUDGET_STOPPED"
    BY DEF WaveResult
  <2> HIDE DEF wave
  <2>4. SourcesOK'
    BY <1>1, <1>2, <1>3, <1>6, <1>8, <2>1, <2>2, SourcesStay
  <2>5. /\ waves' \in Seq(Rng(waves')) /\ Len(waves') = at.wave /\ Len(waves) = at.wave - 1
        /\ DOMAIN waves = 1..(at.wave - 1) /\ DOMAIN waves' = 1..at.wave
        /\ waves'[at.wave] = wave
        /\ Report'.waves = waves' /\ Report'.sources = sources'
        /\ Stopped(Report') = Stopped(Report) \cup {at.wave}
    BY <1>1, <1>3, <2>1, <2>3, StoppedGrows
  <2>6. Stopped(Report) # {} /\ at.wave - 1 \in Stopped(Report)
    BY <1>1, <1>2, <1>10, <2>5 DEF StopOK
  <2>7. WaveReconciles(Report', rows', at.wave)
    <3>1. {s \in Rng(Report'.sources) : s.wave = at.wave} = {}
      BY <1>2, <1>4, <2>5
    <3>2. {i \in Captures(rows') : rows'[i].wave = at.wave} = {}
      BY <1>2, <1>5
    <3>3. Report'.waves[at.wave] = wave
      BY <2>5
    <3>4. at.wave \in Stopped(Report') /\ at.wave - 1 \in Stopped(Report')
      BY <2>5, <2>6
    <3>5. wave.attempts = Cardinality({i \in Captures(rows') : rows'[i].wave = at.wave})
      BY <2>3, <3>2, FS_EmptySet
    <3>6. {s.source : s \in {t \in Rng(Report'.sources) : t.wave = at.wave}} = {}
      BY <3>1
    <3> QED
      BY <2>3, <3>1, <3>3, <3>4, <3>5, <3>6 DEF WaveReconciles
  <2>8. WavesOK'
    BY <1>1, <1>2, <1>3, <2>1, <2>2, <2>3, <2>7, WaveAdded
  <2>9. StopOK'
    <3>1. \A w, v \in 1..at.wave : w < v => w \in 1..(at.wave - 1) /\ (v \in 1..(at.wave - 1) \/ v = at.wave)
      BY <1>3
    <3>2. ASSUME NEW w \in DOMAIN waves', NEW v \in DOMAIN waves', w \in Stopped(Report'), w < v
          PROVE  v \in Stopped(Report')
      BY <1>1, <2>5, <3>1, <3>2 DEF StopOK
    <3> QED
      BY <1>1, <1>2, <1>6, <1>10, <2>1, <2>5, <2>6, <3>2 DEF StopOK
  <2>10. Tally'
    BY <1>6, <2>1 DEF Tally
  <2> QED
    BY <1>6, <1>7, <2>4, <2>8, <2>9, <2>10 DEF Alive
<1> QED
  BY <1>9, <1>10

\* The start of a source keeps it.
LEMMA BeginSourceReports ==
  ASSUME PlanInv, RunInv, RunInv', Alive, BeginSource
  PROVE  Alive'
<1>1. TypeOK /\ LedgerOK /\ SourcesOK /\ WavesOK /\ StopOK /\ Follows /\ Tally
  BY DEF RunInv, Alive
<1>2. /\ UNCHANGED <<rows, file, sources, waves, advanced, circuits, domains, elapsed, stop, status>>
      /\ UNCHANGED planned /\ plan' = plan /\ catalog' = catalog
      /\ pc = "source" /\ pc' = "attempt" /\ routes' = <<>> /\ zeros' = {}
      /\ at' = At(at.wave, at.turn, at.before, Attempts)
  BY DEF BeginSource, progress, planned, results
<1>3. /\ at.turn \in DOMAIN plan[at.wave] /\ Source' = Source
      /\ \A i \in DOMAIN rows : rows[i].source # Source
  BY NewSource
<1>4. /\ at'.wave = at.wave /\ at'.turn = at.turn /\ at'.route = 1 /\ at'.strategy = 1
      /\ at'.attempt = 1 /\ at'.before = at.before /\ at'.start = Attempts
  BY <1>2 DEF At
<1>5. OfSource(rows, Source) = {}
  BY <1>3 DEF OfSource
<1>6. OfRoute(rows, Source, 1) = {} /\ Net(rows, Source, 1) = {}
  BY <1>5 DEF OfRoute, Net
<1>7. Current' = {} /\ OfRoute(rows', Source', at'.route) = {}
  BY <1>2, <1>3, <1>4, <1>6 DEF Current
<1>8. Attempts \in Nat /\ Attempts' = Attempts
  BY <1>1, <1>2, FiniteCaptures DEF Follows, Attempts
<1>9. LedgerOK' /\ StatusOK'
  BY <1>1, <1>2 DEF LedgerOK, StatusOK
<1>10. Latest'
  BY <1>2, <1>3 DEF Latest
<1>11. Continued'
  BY <1>2, <1>4, <1>7 DEF Continued
<1>12. Pages'
  BY <1>2, <1>7 DEF Pages
<1>13. Outcomes'
  BY <1>2 DEF Outcomes
<1>14. Tally'
  <2>1. OfSource(rows', Source') \cap Captures(rows') = {}
    BY <1>2, <1>3, <1>5
  <2>2. Cardinality(OfSource(rows', Source') \cap Captures(rows')) = 0
    BY <2>1, FS_EmptySet
  <2> QED
    BY <1>1, <1>2, <1>4, <1>8, <2>2 DEF Tally
<1>15. SourcesOK'
  <2>1. at'.wave \in Nat /\ at'.turn \in Nat /\ at.turn <= at'.turn
    BY <1>1, <1>4, AtTypes
  <2>2. \A i \in DOMAIN rows : Told(rows[i].source)
    BY <1>1, <1>2 DEF SourcesOK, Underway, Trying
  <2>3. \A t \in DOMAIN plan[at'.wave] : t < at'.turn => Told(plan[at'.wave][t])
    BY <1>1, <1>2, <1>4 DEF SourcesOK
  <2> QED
    BY <1>1, <1>2, <1>4, <2>1, <2>2, <2>3, SourcesStay
<1>16. WavesOK' /\ StopOK'
  BY <1>1, <1>2, <1>4, WavesStay DEF StopOK
<1> QED
  BY <1>9, <1>10, <1>11, <1>12, <1>13, <1>14, <1>15, <1>16 DEF Alive

\* The sources that a wave reports are planned for it, and have been run.
LEMMA ReportedPlanned ==
  ASSUME PlanInv, TypeOK, SourcesOK, NEW src \in Rng(sources)
  PROVE  src.source \in Rng(plan[src.wave]) /\ src.wave \in Waves /\ src.source \in Sources
<1>1. SourceOK(src)
  BY DEF SourcesOK
<1>2. PICK s \in Sources : s = src.source /\ Passed(s) /\ src.wave = catalog.wave[s]
  BY <1>1 DEF SourceOK
<1> QED
  BY <1>2, WaveOf DEF Passed, Rng

\* The end of a wave keeps it: the report of the wave is what the ledger shows.
LEMMA EndWaveReports ==
  ASSUME PlanInv, RunInv, RunInv', Alive, EndWave
  PROVE  Alive'
<1>1. TypeOK /\ LedgerOK /\ SourcesOK /\ WavesOK /\ StopOK /\ Follows /\ Tally /\ Places
  BY DEF RunInv, Alive
<1> DEFINE bad == Degraded(sources)
           st == IF plan[at.wave] = <<>> THEN "EMPTY" ELSE IF bad = {} THEN "COMPLETE" ELSE "DEGRADED"
           wave == WaveResult(st, Attempts - at.before, bad)
           reported == {s \in Rng(sources) : s.wave = at.wave}
<1>2. /\ UNCHANGED <<rows, file, zeros, routes, sources, advanced, circuits, domains, elapsed, stop, status>>
      /\ UNCHANGED planned /\ plan' = plan /\ catalog' = catalog
      /\ pc = "source" /\ pc' = "wave" /\ at.turn > Len(plan[at.wave])
      /\ at' = At(at.wave + 1, 0, 0, 0) /\ waves' = Append(waves, wave)
  BY DEF EndWave, progress, planned
<1>3. at'.wave = at.wave + 1 /\ at'.turn = 0
  BY <1>2 DEF At
<1>4. /\ wave.ids = Rng(plan[at.wave]) /\ wave.attempts = Attempts - at.before /\ wave.degraded = bad
      /\ wave.status = st /\ wave.status # "BUDGET_STOPPED"
  BY DEF WaveResult
<1>5. bad = {s.source : s \in {t \in reported : t.status \notin Complete}}
  BY DEF Degraded
<1> HIDE DEF wave, bad
<1>6. at.wave \in Waves /\ at.wave \in Nat /\ at.turn \in Nat /\ at.before \in Nat
  BY <1>1, <1>2, AtTypes DEF Places, TypeOK
<1>7. Latest' /\ Continued' /\ Pages' /\ Outcomes' /\ ~Underway'
  BY <1>2, Idle
<1>8. LedgerOK' /\ StatusOK' /\ Tally'
  BY <1>1, <1>2, <1>7 DEF LedgerOK, StatusOK, Tally
<1>9. SourcesOK'
  <2>1. \A i \in DOMAIN rows : Told(rows[i].source)
    BY <1>1, <1>2 DEF SourcesOK, Underway, Trying
  <2> QED
    BY <1>1, <1>2, <1>3, <1>6, <1>7, <2>1, SourcesStay
<1>10. {s.source : s \in reported} = Rng(plan[at.wave])
  <2>1. \A s \in reported : s.source \in Rng(plan[at.wave])
    BY <1>1, ReportedPlanned
  <2>2. ASSUME NEW x \in Rng(plan[at.wave]) PROVE \E s \in reported : s.source = x
    <3>1. PICK t \in DOMAIN plan[at.wave] : plan[at.wave][t] = x
      BY DEF Rng
    <3>2. t < at.turn /\ catalog.wave[x] = at.wave
      BY <1>1, <1>2, <1>6, <3>1, AtTypes DEF PlanInv, PlanOnce
    <3>3. PICK s \in Rng(sources) : s.source = x
      BY <1>1, <1>2, <3>1, <3>2 DEF SourcesOK, Told
    <3>4. s.wave = at.wave
      BY <1>1, <3>2, <3>3 DEF SourcesOK, SourceOK
    <3> QED
      BY <3>3, <3>4
  <2> HIDE DEF reported
  <2> QED
    BY <2>1, <2>2
<1>11. Rng(plan[at.wave]) = {} <=> plan[at.wave] = <<>>
  <2>1. plan[at.wave] \in Seq(Sources)
    BY <1>1, <1>6 DEF TypeOK
  <2>2. plan[at.wave] = <<>> => Rng(plan[at.wave]) = {}
    BY DEF Rng
  <2>3. plan[at.wave] # <<>> => 1 \in DOMAIN plan[at.wave]
    BY <2>1
  <2> QED
    BY <2>2, <2>3 DEF Rng
<1>12. wave.attempts = Cardinality({i \in Captures(rows) : rows[i].wave = at.wave})
  <2> DEFINE n == Cardinality({i \in Captures(rows) : rows[i].wave = at.wave})
  <2>1. Attempts = at.before + n
    BY <1>1, <1>2 DEF Tally
  <2>2. IsFiniteSet(Captures(rows))
    BY <1>1, FiniteCaptures DEF Follows
  <2>3. IsFiniteSet({i \in Captures(rows) : rows[i].wave = at.wave})
    BY <2>2, FS_Subset
  <2>4. n \in Nat
    BY <2>3, FS_CardinalityType
  <2> HIDE DEF n
  <2>5. Attempts - at.before = n
    BY <1>6, <2>1, <2>4
  <2> QED
    BY <1>4, <2>5 DEF n
<1>13. /\ waves' \in Seq(Rng(waves')) /\ Len(waves') = at.wave
       /\ waves'[at.wave] = wave
       /\ Report'.waves = waves' /\ Report'.sources = sources'
       /\ Stopped(Report) \subseteq 1..(at.wave - 1) /\ DOMAIN waves' = 1..at.wave
       /\ Stopped(Report') = Stopped(Report) \cup {}
  BY <1>1, <1>2, <1>4, <1>6, StoppedGrows
<1>14. Stopped(Report) = {} /\ Stopped(Report') = {} /\ stop = "NONE"
  <2>1. stop = "NONE"
    BY <1>1, <1>2 DEF StopOK
  <2>2. Stopped(Report) = {}
    BY <1>1, <2>1 DEF StopOK
  <2> QED
    BY <1>13, <2>1, <2>2
<1>15. WaveReconciles(Report', rows', at.wave)
  <2>1. Report'.waves[at.wave] = wave /\ {s \in Rng(Report'.sources) : s.wave = at.wave} = reported
    BY <1>2, <1>13
  <2>2. st = IF Rng(plan[at.wave]) = {} THEN "EMPTY" ELSE IF bad = {} THEN "COMPLETE" ELSE "DEGRADED"
    BY <1>11
  <2> HIDE DEF reported, st
  <2> QED
    BY <1>2, <1>4, <1>5, <1>10, <1>12, <1>14, <2>1, <2>2 DEF WaveReconciles
<1>16. WavesOK'
  BY <1>1, <1>2, <1>3, <1>4, <1>6, <1>15, WaveAdded
<1>17. StopOK'
  BY <1>1, <1>2, <1>7, <1>14 DEF StopOK
<1> QED
  BY <1>7, <1>8, <1>9, <1>16, <1>17 DEF Alive

\* A source more in the report.
LEMMA SourceAdded ==
  ASSUME PlanInv, TypeOK, Places, Follows, Underway, SourcesOK, UNCHANGED planned, rows' = rows,
         NEW src, sources' = Append(sources, src), src.source = Source, SourceOK(src)',
         at'.wave \in Nat, at'.turn \in Nat, ~Underway',
         at.wave < at'.wave \/ (at.wave = at'.wave /\ at.turn <= at'.turn),
         pc' = "source" => at'.wave = at.wave /\ at'.turn = at.turn + 1,
         advanced' = IF src.after = "decision" THEN advanced \cup {Source} ELSE advanced
  PROVE  /\ SourcesOK'
         /\ Rng(sources') = Rng(sources) \cup {src}
<1>1. plan' = plan /\ catalog' = catalog
  BY DEF planned
<1>2. sources \in Seq(Rng(sources))
  BY DEF SourcesOK
<1>3. /\ sources' \in Seq(Rng(sources')) /\ Len(sources) \in Nat
      /\ DOMAIN sources = 1..Len(sources) /\ DOMAIN sources' = 1..(Len(sources) + 1)
      /\ \A i \in 1..Len(sources) : sources'[i] = sources[i]
      /\ sources'[Len(sources) + 1] = src
      /\ Rng(sources') = Rng(sources) \cup {src}
  BY <1>2, OneMore
<1>4. ASSUME NEW old \in Rng(sources) PROVE SourceOK(old)' /\ old.source # Source
  <2>1. SourceOK(old)
    BY DEF SourcesOK
  <2>2. PICK s \in Sources : s = old.source /\ Passed(s)
    BY <2>1 DEF SourceOK
  <2>3. Passed(s)'
    BY <2>2, PassedStays
  <2>4. s # Source
    BY <2>2, NotPassed
  <2> QED
    BY <1>1, <2>1, <2>2, <2>3, <2>4 DEF SourceOK
<1>5. \A i \in 1..Len(sources) : sources[i].source # Source
  BY <1>3, <1>4 DEF Rng
<1>6. ASSUME NEW i \in DOMAIN sources', NEW j \in DOMAIN sources', i # j
      PROVE  sources'[i].source # sources'[j].source
  <2>1. CASE i \in 1..Len(sources) /\ j \in 1..Len(sources)
    BY <1>3, <1>6, <2>1 DEF SourcesOK
  <2>2. CASE i \in 1..Len(sources) /\ j = Len(sources) + 1
    BY <1>3, <1>5, <2>2
  <2>3. CASE i = Len(sources) + 1 /\ j \in 1..Len(sources)
    BY <1>3, <1>5, <2>3
  <2> QED
    BY <1>3, <1>6, <2>1, <2>2, <2>3
<1>7. ASSUME NEW s PROVE Told(s)' <=> Told(s) \/ s = Source
  BY <1>3 DEF Told
<1>8. \A i \in DOMAIN rows : Told(rows[i].source)'
  BY <1>7 DEF SourcesOK
<1>9. ASSUME pc' = "source", NEW t \in DOMAIN plan[at.wave], t < at.turn + 1
      PROVE  \E told \in Rng(sources') : told.source = plan[at.wave][t]
  <2>1. at.turn \in Nat /\ t \in Nat
    BY CurrentSource, AtTypes
  <2>2. CASE t < at.turn
    BY <1>3, <2>2 DEF SourcesOK, Told
  <2>3. CASE t = at.turn
    BY <1>3, <2>3 DEF Source
  <2> QED
    BY <1>9, <2>1, <2>2, <2>3
<1>10. advanced' = {s.source : s \in {t \in Rng(sources') : t.after = "decision"}}
  <2>1. advanced = {s.source : s \in {t \in Rng(sources) : t.after = "decision"}}
    BY DEF SourcesOK
  <2>2. CASE src.after = "decision"
    <3>1. advanced' = advanced \cup {Source}
      BY <2>2
    <3> QED
      BY <1>3, <2>1, <2>2, <3>1
  <2>3. CASE src.after # "decision"
    <3>1. advanced' = advanced
      BY <2>3
    <3> QED
      BY <1>3, <2>1, <2>3, <3>1
  <2> QED
    BY <2>2, <2>3
<1>11. SourcesOK'
  <2>1. pc' = "source" => \A t \in DOMAIN plan'[at'.wave] :
          t < at'.turn => \E told \in Rng(sources') : told.source = plan'[at'.wave][t]
    BY <1>1, <1>9
  <2> QED
    BY <1>1, <1>3, <1>4, <1>6, <1>8, <1>10, <2>1 DEF SourcesOK, Told
<1> QED
  BY <1>3, <1>11

-----------------------------------------------------------------------------
\* The routes of a source that is under way.
LEMMA RoutesSoFar ==
  ASSUME PlanInv, TypeOK, Places, Follows, LedgerOK, Outcomes, Underway
  PROVE  \E m \in Nat : m <= at.route /\ RoutesOf(rows, Source) = 1..m
<1> DEFINE R == RoutesOf(rows, Source)
<1>1. at.route \in Nat /\ at.route >= 1 /\ Len(routes) \in {at.route - 1, at.route}
  BY AtTypes DEF Places, Underway, Trying
<1>2. ASSUME NEW k \in R PROVE k \in 1..at.route
  <2>1. PICK i \in DOMAIN rows : rows[i].source = Source /\ rows[i].route = k
    BY DEF RoutesOf, OfSource
  <2>2. k > 0 /\ k \in Nat /\ k <= at.route
    BY <2>1 DEF LedgerOK, Follows, Behind
  <2> QED
    BY <1>1, <2>2
<1>3. \A k \in 1..Len(routes) : k \in R
  BY DEF Outcomes
<1>4. \A k \in 1..(at.route - 1) : k \in 1..Len(routes)
  BY <1>1
<1>5. \A k \in 1..at.route : k \in 1..(at.route - 1) \/ k = at.route
  BY <1>1
<1> HIDE DEF R
<1>6. CASE at.route \in R
  <2>1. R = 1..at.route
    BY <1>2, <1>3, <1>4, <1>5, <1>6
  <2> QED
    BY <1>1, <2>1 DEF R
<1>7. CASE at.route \notin R
  <2>1. R = 1..(at.route - 1)
    <3>1. \A k \in R : k \in 1..(at.route - 1)
      BY <1>2, <1>5, <1>7
    <3>2. \A k \in 1..(at.route - 1) : k \in R
      BY <1>3, <1>4
    <3> QED
      BY <3>1, <3>2
  <2> QED
    BY <1>1, <2>1 DEF R
<1> QED
  BY <1>6, <1>7

\* The attempts of the source and of the wave, as differences.
LEMMA Differences ==
  ASSUME TypeOK, Follows, Tally, Underway
  PROVE  /\ Attempts - at.start = Cardinality(OfSource(rows, Source) \cap Captures(rows))
         /\ Attempts - at.before = Cardinality({i \in Captures(rows) : rows[i].wave = at.wave})
<1> DEFINE n == Cardinality(OfSource(rows, Source) \cap Captures(rows))
           m == Cardinality({i \in Captures(rows) : rows[i].wave = at.wave})
<1>1. Attempts = at.start + n /\ Attempts = at.before + m
  BY DEF Tally
<1>2. IsFiniteSet(Captures(rows))
  BY FiniteCaptures DEF Follows
<1>3. /\ IsFiniteSet(OfSource(rows, Source) \cap Captures(rows))
      /\ IsFiniteSet({i \in Captures(rows) : rows[i].wave = at.wave})
  BY <1>2, FS_Subset
<1>4. n \in Nat /\ m \in Nat
  BY <1>3, FS_CardinalityType
<1>5. at.start \in Nat /\ at.before \in Nat
  BY DEF TypeOK
<1> HIDE DEF n, m
<1>6. Attempts - at.start = n /\ Attempts - at.before = m
  BY <1>1, <1>4, <1>5
<1> QED
  BY <1>6 DEF n, m

\* There are as many numbers from 1 to m as m says.
LEMMA UpTo == \A m \in Nat : Cardinality(1..m) = m
<1> SUFFICES ASSUME NEW m \in Nat PROVE Cardinality(1..m) = m
  OBVIOUS
<1>1. 1 \in Int /\ m \in Int
  OBVIOUS
<1>2. Cardinality(1..m) = IF 1 > m THEN 0 ELSE m - 1 + 1
  BY <1>1, FS_Interval
<1> QED
  BY <1>2

\* A stop on the budget keeps it: the source that was cut and its wave are reported as such.
LEMMA BudgetStopReports ==
  ASSUME PlanInv, RunInv, RunInv', Alive, BudgetStop
  PROVE  Alive'
<1>1. /\ TypeOK /\ LedgerOK /\ Outcomes /\ SourcesOK /\ WavesOK /\ StopOK /\ Follows /\ Tally /\ Places
  BY DEF RunInv, Alive
<1> DEFINE wave == WaveResult("BUDGET_STOPPED", Attempts - at.before, Degraded(sources'))
<1>0. PICK src, me : src = CutSource /\ me = Source
  OBVIOUS
<1>2. /\ UNCHANGED <<rows, file, zeros, routes, advanced, circuits, domains, elapsed, status>>
      /\ UNCHANGED planned /\ plan' = plan /\ catalog' = catalog
      /\ pc = "attempt" /\ pc' = "wave" /\ stop' # "NONE"
      /\ at' = At(at.wave + 1, 0, 0, 0)
      /\ waves' = Append(waves, wave) /\ sources' = Append(sources, src)
  BY <1>0 DEF BudgetStop, progress, planned
<1>3. at'.wave = at.wave + 1 /\ at'.turn = 0 /\ Underway
  BY <1>2 DEF At, Underway, Trying
<1>4. /\ wave.ids = Rng(plan[at.wave]) /\ wave.attempts = Attempts - at.before
      /\ wave.degraded = Degraded(sources') /\ wave.status = "BUDGET_STOPPED"
  BY DEF WaveResult
<1>5. /\ src.source = me /\ src.source = Source /\ src.wave = at.wave /\ src.status = "ERROR" /\ src.cut = TRUE
      /\ src.routes = Len(catalog.routes[Source]) /\ src.attempts = Attempts - at.start
      /\ src.completed = 0 /\ src.strategies = <<>> /\ src.after = "before"
  BY <1>0 DEF CutSource
<1> HIDE DEF wave
<1>6. /\ Source \in Sources /\ catalog.wave[Source] = at.wave /\ at.turn \in DOMAIN plan[at.wave]
      /\ at.wave \in Waves /\ at.wave \in Nat /\ at.turn \in Nat
  BY <1>1, <1>3, CurrentSource, AtTypes
<1>7. Len(catalog.routes[Source]) \in Nat /\ Len(catalog.routes[Source]) > 0 /\ at.route <= Len(catalog.routes[Source])
  <2>0. catalog \in Catalogs
    BY <1>1 DEF TypeOK
  <2>1. Len(catalog.routes[Source]) \in Nat /\ Len(catalog.routes[Source]) > 0
    BY <1>6, <2>0, CatalogTypes
  <2> QED
    BY <1>1, <1>3, <2>1 DEF Places
<1>8. Latest' /\ Continued' /\ Pages' /\ Outcomes' /\ ~Underway'
  BY <1>2, Idle
<1>9. LedgerOK' /\ StatusOK' /\ Tally'
  BY <1>1, <1>2, <1>8 DEF LedgerOK, StatusOK, Tally
<1>10. SourceOK(src)'
  <2>0. me \in Sources /\ catalog.wave[me] = at.wave /\ me = plan[at.wave][at.turn]
    BY <1>0, <1>6 DEF Source
  <2>1. Passed(me)'
    BY <1>2, <1>3, <1>6, <2>0 DEF Passed
  <2>2. CutReconciles(src, rows)
    <3>1. PICK m \in Nat : m <= at.route /\ RoutesOf(rows, Source) = 1..m
      BY <1>1, <1>3, RoutesSoFar
    <3>2. Cardinality(RoutesOf(rows, Source)) = m
      BY <3>1, UpTo
    <3>3. m <= src.routes
      BY <1>5, <1>6, <1>7, <3>1, AtTypes, <1>1
    <3> QED
      BY <1>5, <3>1, <3>2, <3>3 DEF CutReconciles
  <2>3. src.attempts = Cardinality(OfSource(rows, Source) \cap Captures(rows))
    BY <1>1, <1>3, <1>5, Differences
  <2>4. src.completed <= src.routes
    BY <1>5, <1>7
  <2> QED
    BY <1>0, <1>2, <1>5, <1>7, <2>0, <2>1, <2>2, <2>3, <2>4 DEF SourceOK
<1>11. SourcesOK' /\ Rng(sources') = Rng(sources) \cup {src}
  <2>1. at'.wave \in Nat /\ at'.turn \in Nat /\ at.wave < at'.wave
    BY <1>3, <1>6
  <2>2. advanced' = IF src.after = "decision" THEN advanced \cup {Source} ELSE advanced
    BY <1>2, <1>5
  <2> QED
    BY <1>1, <1>2, <1>3, <1>5, <1>8, <1>10, <2>1, <2>2, SourceAdded
<1>12. /\ waves' \in Seq(Rng(waves')) /\ Len(waves') = at.wave
       /\ waves'[at.wave] = wave /\ DOMAIN waves' = 1..at.wave
       /\ Report'.waves = waves' /\ Report'.sources = sources' /\ Report.sources = sources
       /\ Stopped(Report) \subseteq 1..(at.wave - 1)
       /\ Stopped(Report') = Stopped(Report) \cup {at.wave}
  BY <1>1, <1>2, <1>4, <1>6, StoppedGrows
<1>13. Stopped(Report) = {} /\ Stopped(Report') = {at.wave} /\ {s \in Rng(sources) : s.cut} = {}
  <2>1. stop = "NONE"
    BY <1>1, <1>3 DEF StopOK
  <2>2. Stopped(Report) = {} /\ {s \in Rng(sources) : s.cut} = {}
    BY <1>1, <2>1 DEF StopOK
  <2> QED
    BY <1>12, <2>2
<1>14. WaveReconciles(Report', rows', at.wave)
  <2> DEFINE reported == {s \in Rng(sources') : s.wave = at.wave}
  <2>1. Report'.waves[at.wave] = wave /\ {s \in Rng(Report'.sources) : s.wave = at.wave} = reported
    BY <1>12
  <2>2. wave.attempts = Cardinality({i \in Captures(rows') : rows'[i].wave = at.wave})
    BY <1>1, <1>2, <1>3, <1>4, Differences
  <2>3. wave.degraded = {s.source : s \in {t \in reported : t.status \notin Complete}}
    BY <1>4 DEF Degraded
  <2>4. src \in reported /\ src.cut
    BY <1>5, <1>11
  <2>5. \A s \in reported : s.source \in wave.ids
    <3>1. src.source \in wave.ids
      BY <1>4, <1>5, <1>6 DEF Source, Rng
    <3>2. \A s \in Rng(sources) : s.wave = at.wave => s.source \in wave.ids
      BY <1>1, <1>4, ReportedPlanned
    <3> QED
      BY <1>11, <3>1, <3>2
  <2>6. at.wave \in Stopped(Report') /\ at.wave - 1 \notin Stopped(Report')
    BY <1>6, <1>13
  <2> HIDE DEF reported
  <2>7. {s.source : s \in reported} \subseteq wave.ids
    BY <2>5
  <2> QED
    BY <2>1, <2>2, <2>3, <2>4, <2>6, <2>7 DEF WaveReconciles
<1>15. WavesOK'
  <2>1. \A w \in 1..(at.wave - 1) :
           {s \in Rng(sources') : s.wave = w} = {s \in Rng(sources) : s.wave = w}
    <3>1. \A w \in 1..(at.wave - 1) : w # src.wave
      BY <1>5, <1>6
    <3> QED
      BY <1>11, <3>1
  <2> QED
    BY <1>1, <1>2, <1>3, <1>4, <1>6, <1>14, <2>1, WaveAdded
<1>16. StopOK'
  <2>1. {s \in Rng(sources') : s.cut} = {src}
    BY <1>5, <1>11, <1>13
  <2>2. \A w, v \in DOMAIN waves' : w \in Stopped(Report') /\ w < v => v \in Stopped(Report')
    BY <1>6, <1>12, <1>13
  <2>3. src \in {s \in Rng(sources') : s.cut}
    BY <2>1
  <2>4. \E c \in {s \in Rng(sources') : s.cut} : {s \in Rng(sources') : s.cut} = {c}
    BY <2>1, <2>3
  <2> QED
    BY <1>2, <1>8, <1>12, <1>13, <2>2, <2>4 DEF StopOK
<1> QED
  BY <1>8, <1>9, <1>11, <1>15, <1>16 DEF Alive

\* A source reports what its routes ended with.
Summarises(src, out) ==
  /\ src.status = SourceStatus({r.status : r \in Rng(out)}, \A r \in Rng(out) : r.covered)
  /\ src.routes = Len(out)
  /\ src.completed = Cardinality({k \in DOMAIN out : out[k].covered})
  /\ src.strategies = [k \in DOMAIN out |-> out[k].strategies]
  /\ src.after = IF \A r \in Rng(out) : r.covered THEN "decision" ELSE "none"

\* A source whose report summarises the outcomes of its routes agrees with the ledger.
LEMMA RoutesReconcile ==
  ASSUME NEW q, NEW src, NEW out, out \in Seq(Rng(out)), Len(out) > 0,
         RoutesOf(q, src.source) = 1..Len(out),
         \A k \in 1..Len(out) :
           RouteEnded(q, src.source, k) /\ out[k] = Recomputed(q, src.source, k),
         Summarises(src, out)
  PROVE  SourceReconciles(src, q)
<1> DEFINE R == RoutesOf(q, src.source)
           o(k) == Recomputed(q, src.source, k)
<1>1. DOMAIN out = R /\ R = 1..src.routes /\ src.routes > 0
  BY DEF Summarises
<1>2. \A k \in R : out[k] = o(k) /\ RouteEnded(q, src.source, k)
  OBVIOUS
<1>3. \A r : r \in Rng(out) <=> \E k \in R : r = o(k)
  BY <1>1, <1>2 DEF Rng
<1> HIDE DEF R, o
<1>4. {k \in DOMAIN out : out[k].covered} = {k \in R : o(k).covered}
  BY <1>1, <1>2
<1>5. [k \in DOMAIN out |-> out[k].strategies] = [k \in R |-> o(k).strategies]
  BY <1>1, <1>2
<1>6. {r.status : r \in Rng(out)} = {o(k).status : k \in R}
  BY <1>3
<1>7. (\A r \in Rng(out) : r.covered) <=> (\A k \in R : o(k).covered)
  BY <1>3
<1>8. /\ src.completed = Cardinality({k \in R : o(k).covered})
      /\ src.strategies = [k \in 1..src.routes |-> o(k).strategies]
      /\ src.after = IF \A k \in R : o(k).covered THEN "decision" ELSE "none"
  BY <1>1, <1>4, <1>5, <1>7 DEF Summarises
<1>9. src.status = SourceStatus({o(k).status : k \in R}, \A k \in R : o(k).covered)
  BY <1>6, <1>7 DEF Summarises, SourceStatus
<1> QED
  BY <1>1, <1>2, <1>8, <1>9 DEF SourceReconciles, RouteEnded, R, o

\* The end of a source keeps the invariant.
LEMMA EndSourceReports ==
  ASSUME PlanInv, RunInv, RunInv', Alive, EndSource
  PROVE  Alive'
<1>1. /\ TypeOK /\ LedgerOK /\ Outcomes /\ SourcesOK /\ WavesOK /\ StopOK /\ Follows /\ Tally /\ Places
  BY DEF RunInv, Alive
<1> DEFINE covered == \A r \in Rng(routes) : r.covered
           made == [source |-> Source, wave |-> at.wave, cut |-> FALSE,
                    status |-> SourceStatus({r.status : r \in Rng(routes)}, covered),
                    routes |-> Len(routes), attempts |-> Attempts - at.start,
                    completed |-> Cardinality({k \in DOMAIN routes : routes[k].covered}),
                    strategies |-> [k \in DOMAIN routes |-> routes[k].strategies],
                    after |-> IF covered THEN "decision" ELSE "none"]
<1>0. PICK src, me : src = made /\ me = Source
  OBVIOUS
<1>2. /\ UNCHANGED <<rows, file, zeros, routes, waves, circuits, domains, elapsed, stop, status>>
      /\ UNCHANGED planned /\ plan' = plan /\ catalog' = catalog
      /\ pc = "route" /\ pc' = "source" /\ at' = [at EXCEPT !.turn = @ + 1]
      /\ sources' = Append(sources, src)
      /\ advanced' = IF covered THEN advanced \cup {Source} ELSE advanced
  BY <1>0 DEF EndSource, progress, planned
<1>3. /\ src.source = me /\ src.source = Source /\ src.wave = at.wave /\ src.cut = FALSE
      /\ src.status = SourceStatus({r.status : r \in Rng(routes)}, covered)
      /\ src.routes = Len(routes) /\ src.attempts = Attempts - at.start
      /\ src.completed = Cardinality({k \in DOMAIN routes : routes[k].covered})
      /\ src.strategies = [k \in DOMAIN routes |-> routes[k].strategies]
      /\ src.after = IF covered THEN "decision" ELSE "none"
  BY <1>0
<1>4. Underway /\ at \in AtSet
  BY <1>1, <1>2 DEF Underway, TypeOK, AtSet
<1>5. /\ Source \in Sources /\ catalog.wave[Source] = at.wave /\ at.turn \in DOMAIN plan[at.wave]
      /\ at.wave \in Waves /\ at.wave \in Nat /\ at.turn \in Nat
  BY <1>1, <1>4, CurrentSource, AtTypes
<1>6. at'.wave = at.wave /\ at'.turn = at.turn + 1 /\ at'.before = at.before
  BY <1>2, <1>4 DEF AtSet
<1>7. Latest' /\ Continued' /\ Pages' /\ Outcomes' /\ ~Underway'
  BY <1>2, Idle
<1>8. LedgerOK' /\ StatusOK'
  BY <1>1, <1>2 DEF LedgerOK, StatusOK
<1>9. Tally'
  <2>1. Attempts' = Attempts
    BY <1>2 DEF Attempts
  <2> QED
    BY <1>1, <1>2, <1>4, <1>6, <1>7, <2>1 DEF Tally
<1>10. routes \in Seq(Rng(routes)) /\ Len(routes) = at.route /\ Len(routes) \in Nat /\ Len(routes) > 0
  <2>1. routes \in Seq(Rng(routes)) /\ Len(routes) = at.route /\ at.route >= 1
    BY <1>1, <1>2, <1>4, AtTypes DEF Follows, Places
  <2> QED
    BY <2>1
<1>11. RoutesOf(rows, Source) = 1..Len(routes)
  <2>1. PICK m \in Nat : m <= at.route /\ RoutesOf(rows, Source) = 1..m
    BY <1>1, <1>4, RoutesSoFar
  <2>2. Len(routes) \in RoutesOf(rows, Source)
    BY <1>1, <1>4, <1>10 DEF Outcomes
  <2>3. m = Len(routes)
    BY <1>10, <2>1, <2>2
  <2> QED
    BY <2>1, <2>3
<1>12. SourceReconciles(src, rows)
  <2>1. \A k \in 1..Len(routes) : RouteEnded(rows, src.source, k) /\ routes[k] = Recomputed(rows, src.source, k)
    BY <1>1, <1>3, <1>4 DEF Outcomes
  <2>2. RoutesOf(rows, src.source) = 1..Len(routes)
    BY <1>3, <1>11
  <2>3. Summarises(src, routes)
    BY <1>3 DEF Summarises
  <2> HIDE DEF covered, made
  <2> QED
    BY <1>10, <2>1, <2>2, <2>3, RoutesReconcile
<1>13. src.completed <= src.routes /\ src.routes \in Nat /\ src.routes > 0
  <2> DEFINE C == {k \in DOMAIN routes : routes[k].covered}
  <2>1. DOMAIN routes = 1..Len(routes) /\ C \subseteq 1..Len(routes)
    BY <1>10
  <2>2. IsFiniteSet(1..Len(routes)) /\ Cardinality(1..Len(routes)) = Len(routes)
    <3>1. 1 \in Int /\ Len(routes) \in Int
      BY <1>10
    <3>2. IsFiniteSet(1..Len(routes))
      BY <3>1, FS_Interval
    <3> QED
      BY <1>10, <3>2, UpTo
  <2>3. Cardinality(C) <= Len(routes)
    BY <2>1, <2>2, FS_Subset
  <2> QED
    BY <1>3, <1>10, <2>3
<1> HIDE DEF covered, made
<1>14. SourceOK(src)'
  <2>0. me \in Sources /\ catalog.wave[me] = at.wave /\ me = plan[at.wave][at.turn]
    BY <1>0, <1>5 DEF Source
  <2>1. Passed(me)'
    BY <1>2, <1>5, <1>6, <2>0 DEF Passed
  <2>2. src.attempts = Cardinality(OfSource(rows, Source) \cap Captures(rows))
    BY <1>1, <1>3, <1>4, Differences
  <2> QED
    BY <1>0, <1>2, <1>3, <1>12, <1>13, <2>0, <2>1, <2>2 DEF SourceOK
<1>15. SourcesOK' /\ Rng(sources') = Rng(sources) \cup {src}
  <2>1. at'.wave \in Nat /\ at'.turn \in Nat /\ at.turn <= at'.turn
    BY <1>5, <1>6
  <2>2. advanced' = IF src.after = "decision" THEN advanced \cup {Source} ELSE advanced
    BY <1>2, <1>3
  <2> QED
    BY <1>1, <1>2, <1>3, <1>4, <1>6, <1>7, <1>14, <2>1, <2>2, SourceAdded
<1>16. Report'.waves = Report.waves /\ Report.waves = waves /\ Report'.sources = sources' /\ Report.sources = sources
  BY <1>2 DEF Report
<1>17. Stopped(Report') = Stopped(Report)
  BY <1>16 DEF Stopped
<1>18. WavesOK'
  <2>1. ASSUME NEW w \in DOMAIN waves PROVE WaveReconciles(Report', rows', w)
    <3>1. w # at.wave
      BY <1>1, <1>5 DEF WavesOK
    <3>2. {s \in Rng(sources') : s.wave = w} = {s \in Rng(sources) : s.wave = w}
      BY <1>3, <1>15, <3>1
    <3> QED
      BY <1>1, <1>2, <1>16, <1>17, <3>2, SameWave DEF WavesOK
  <2> QED
    BY <1>1, <1>2, <1>6, <2>1 DEF WavesOK
<1>19. StopOK'
  <2>1. {s \in Rng(sources') : s.cut} = {s \in Rng(sources) : s.cut}
    BY <1>3, <1>15
  <2> QED
    BY <1>1, <1>2, <1>4, <1>7, <1>16, <1>17, <2>1 DEF StopOK
<1> QED
  BY <1>7, <1>8, <1>9, <1>15, <1>18, <1>19 DEF Alive

\* Nothing is written, and the source stays.
LEMMA Unreported ==
  ASSUME PlanInv, RunInv, Alive, Underway, Underway', UNCHANGED planned,
         UNCHANGED <<rows, routes, sources, waves, advanced, domains, stop, status>>,
         at'.wave = at.wave, at'.turn = at.turn, at'.before = at.before, at'.start = at.start
  PROVE  /\ Source' = Source /\ LedgerOK' /\ Outcomes' /\ Tally'
         /\ SourcesOK' /\ WavesOK' /\ StopOK' /\ StatusOK'
<1>1. /\ TypeOK /\ LedgerOK /\ Outcomes /\ SourcesOK /\ WavesOK /\ StopOK /\ Tally /\ Places
  BY DEF RunInv, Alive
<1>2. /\ pc' \in {"attempt", "sleep", "route"} /\ pc' # "source" /\ pc' # "done"
  BY DEF Underway, Trying
<1>3. Source' = Source
  BY <1>1, <1>2, SameSource
<1>4. LedgerOK' /\ StatusOK'
  BY <1>1, <1>2 DEF LedgerOK, StatusOK
<1>5. Outcomes'
  BY <1>1, <1>3 DEF Outcomes
<1>6. Tally'
  <2>1. Attempts' = Attempts
    BY DEF Attempts
  <2> QED
    BY <1>1, <1>2, <1>3, <2>1 DEF Tally
<1>7. SourcesOK'
  <2>1. at'.wave \in Nat /\ at'.turn \in Nat /\ at.turn <= at'.turn /\ at.turn = at'.turn
    BY <1>1, AtTypes
  <2>2. \A i \in DOMAIN rows : Told(rows[i].source) \/ (Underway' /\ rows[i].source = Source')
    BY <1>1, <1>3 DEF SourcesOK
  <2>3. \A t \in DOMAIN plan[at'.wave] : t < at'.turn => Told(plan[at'.wave][t])
    BY <1>1, <2>1 DEF SourcesOK
  <2> QED
    BY <1>1, <2>1, <2>2, <2>3, SourcesStay
<1>8. WavesOK' /\ StopOK'
  <2>1. stop = "NONE"
    BY <1>1 DEF StopOK
  <2> QED
    BY <1>1, <1>2, <2>1, WavesStay
<1> QED
  BY <1>3, <1>4, <1>5, <1>6, <1>7, <1>8

\* A sleep before a retry keeps it.
LEMMA SleepReports ==
  ASSUME PlanInv, RunInv, RunInv', Alive, Sleep
  PROVE  Alive'
<1>1. TypeOK /\ Latest /\ Continued /\ Pages
  BY DEF RunInv, Alive
<1>2. /\ UNCHANGED <<rows, file, zeros, routes, sources, waves, advanced, circuits, domains, stop, status>>
      /\ UNCHANGED planned /\ pc = "sleep" /\ pc' = "attempt"
      /\ at' = [at EXCEPT !.attempt = @ + 1, !.delay = 0]
  BY DEF Sleep, progress, planned, results
<1>3. /\ at'.wave = at.wave /\ at'.turn = at.turn /\ at'.route = at.route /\ at'.before = at.before
      /\ at'.start = at.start /\ at'.strategy = at.strategy /\ at'.attempt = at.attempt + 1
  BY <1>1, <1>2 DEF TypeOK
<1>4. Trying /\ Underway /\ Trying' /\ Underway'
  BY <1>2 DEF Trying, Underway
<1>5. /\ Source' = Source /\ LedgerOK' /\ Outcomes' /\ Tally'
      /\ SourcesOK' /\ WavesOK' /\ StopOK' /\ StatusOK'
  BY <1>2, <1>3, <1>4, Unreported
<1>6. Current' = Current
  BY <1>2, <1>3, <1>5 DEF Current
<1>7. Latest'
  BY <1>1, <1>2, <1>3, <1>4, <1>5 DEF Latest
<1>8. Continued'
  <2>1. /\ Len(rows) \in Current /\ rows[Len(rows)].disposition = "RETRY_TRANSIENT"
        /\ rows[Len(rows)].strategy = at.strategy /\ rows[Len(rows)].attempt = at.attempt
    BY <1>1, <1>2 DEF Continued
  <2>2. Continues(rows[Len(rows)], at')
    BY <1>3, <2>1 DEF Continues
  <2> QED
    BY <1>2, <1>6, <2>1, <2>2 DEF Continued
<1>9. Pages'
  BY <1>1, <1>2, <1>3, <1>4, <1>6 DEF Pages
<1> QED
  BY <1>5, <1>7, <1>8, <1>9 DEF Alive

\* The step to the next route keeps it.
LEMMA NextRouteReports ==
  ASSUME PlanInv, RunInv, RunInv', Alive, NextRoute
  PROVE  Alive'
<1>1. TypeOK /\ Latest /\ Follows
  BY DEF RunInv, Alive
<1>2. /\ UNCHANGED <<rows, file, routes, sources, waves, advanced, circuits, domains, elapsed, stop, status>>
      /\ UNCHANGED planned /\ pc = "route" /\ pc' = "attempt" /\ zeros' = {}
      /\ at' = [at EXCEPT !.route = @ + 1, !.strategy = 1, !.attempt = 1, !.delay = 0]
  BY DEF NextRoute, progress, planned, results
<1>3. /\ at'.wave = at.wave /\ at'.turn = at.turn /\ at'.route = at.route + 1 /\ at'.before = at.before
      /\ at'.start = at.start /\ at'.strategy = 1 /\ at'.attempt = 1 /\ at.route \in Nat
  BY <1>1, <1>2 DEF TypeOK
<1>4. Underway /\ Underway'
  BY <1>2 DEF Trying, Underway
<1>5. /\ Source' = Source /\ LedgerOK' /\ Outcomes' /\ Tally'
      /\ SourcesOK' /\ WavesOK' /\ StopOK' /\ StatusOK'
  BY <1>2, <1>3, <1>4, Unreported
<1>6. \A i \in DOMAIN rows : rows[i].source = Source => rows[i].route # at.route + 1
  <2>1. \A i \in DOMAIN rows : rows[i].source = Source => rows[i].route \in Nat /\ rows[i].route <= at.route
    BY <1>1, <1>4 DEF Follows, Behind
  <2> QED
    BY <1>3, <2>1
<1>7. OfRoute(rows', Source', at'.route) = {} /\ Current' = {}
  <2>1. OfRoute(rows, Source, at.route + 1) = {}
    BY <1>6 DEF OfRoute, OfSource
  <2>2. OfRoute(rows', Source', at'.route) = {}
    BY <1>2, <1>3, <1>5, <2>1
  <2> QED
    BY <2>2 DEF Current, Net
<1>8. Latest'
  BY <1>1, <1>2, <1>3, <1>4, <1>5, <1>6 DEF Latest
<1>9. Continued'
  BY <1>2, <1>3, <1>7 DEF Continued
<1>10. Pages'
  BY <1>2, <1>7 DEF Pages
<1> QED
  BY <1>5, <1>8, <1>9, <1>10 DEF Alive

\* The end of the run keeps it: the status is the one that the validator expects.
LEMMA FinishReports ==
  ASSUME PlanInv, RunInv, RunInv', Alive, Finish
  PROVE  Alive'
<1>1. TypeOK /\ LedgerOK /\ SourcesOK /\ WavesOK /\ StopOK /\ Counted /\ Places
  BY DEF RunInv, Alive
<1>2. /\ UNCHANGED <<at, rows, file, zeros, routes, sources, waves, advanced, circuits, domains, elapsed>>
      /\ UNCHANGED planned /\ plan' = plan /\ catalog' = catalog /\ pc = "wave" /\ at.wave \notin Waves
  BY DEF Finish, planned
<1>3. file = rows
  BY <1>1, <1>2 DEF Counted
<1>4. /\ pc' = "done"
      /\ stop' = IF stop = "NONE" /\ elapsed >= MaxWall THEN "WALL" ELSE stop
      /\ status' =
           IF /\ sources # <<>> /\ \A s \in Rng(sources) : s.status \in Complete
              /\ stop' = "NONE" /\ (catalog.subset \/ Cardinality(domains) >= MaxDomains)
           THEN "COMPLETE"
           ELSE IF sources # <<>> /\ rows # <<>> THEN "DEGRADED" ELSE "FAILED"
  BY <1>3 DEF Finish
<1>5. at.wave = Len(Reserves) + 1 /\ at.wave \in Nat /\ at.turn \in Nat
  <2>1. at.wave \in 1..(Len(Reserves) + 1) /\ Len(Reserves) \in Nat /\ Waves = 1..Len(Reserves)
    BY <1>1, WaveTypes DEF TypeOK
  <2> QED
    BY <1>1, <1>2, <2>1, AtTypes
<1>6. Latest' /\ Continued' /\ Pages' /\ Outcomes' /\ ~Underway'
  BY <1>4, Idle
<1>7. LedgerOK' /\ Tally'
  BY <1>1, <1>2, <1>4, <1>6 DEF LedgerOK, Tally
<1>8. StatusOK'
  BY <1>2, <1>4 DEF StatusOK
<1>9. SourcesOK'
  <2>1. \A i \in DOMAIN rows : Told(rows[i].source)
    BY <1>1, <1>2 DEF SourcesOK, Underway, Trying
  <2>2. at'.wave = at.wave /\ at'.turn = at.turn /\ at.turn <= at'.turn
    BY <1>2, <1>5
  <2> QED
    BY <1>1, <1>2, <1>4, <1>5, <1>6, <2>1, <2>2, SourcesStay
<1>10. Report'.waves = Report.waves /\ Report.waves = waves /\ Report'.sources = Report.sources
  BY <1>2 DEF Report
<1>11. Stopped(Report') = Stopped(Report)
  BY <1>10 DEF Stopped
<1>12. WavesOK'
  <2>1. ASSUME NEW w \in DOMAIN waves PROVE WaveReconciles(Report', rows', w)
    BY <1>1, <1>2, <1>10, <1>11, SameWave DEF WavesOK
  <2> QED
    BY <1>1, <1>2, <1>4, <1>5, <2>1 DEF WavesOK
<1>13. StopOK'
  BY <1>1, <1>2, <1>4, <1>6, <1>11 DEF StopOK
<1> QED
  BY <1>6, <1>7, <1>8, <1>9, <1>12, <1>13 DEF Alive

-----------------------------------------------------------------------------
\* A row is written for the current route.
Recorded(row) ==
  /\ Longer(rows, row, rows') /\ Trying /\ Underway' /\ UNCHANGED planned
  /\ UNCHANGED <<sources, waves, advanced, stop, status>>
  /\ row.source = Source /\ row.wave = at.wave /\ row.route = at.route
  /\ at'.wave = at.wave /\ at'.turn = at.turn /\ at'.route = at.route
  /\ at'.before = at.before /\ at'.start = at.start
  /\ Attempts \in Nat
  /\ Attempts' = IF row.event = "CAPTURE" THEN Attempts + 1 ELSE Attempts

\* Where the run is when it writes a row.
LEMMA RecordedPlace ==
  ASSUME PlanInv, RunInv, NEW row, Recorded(row)
  PROVE  /\ Source' = Source /\ Source \in Sources /\ catalog.wave[Source] = at.wave
         /\ at.wave \in Waves /\ at.wave \in Nat /\ at.turn \in Nat /\ at.route \in Nat /\ at.route > 0
         /\ Underway /\ pc' \in {"attempt", "sleep", "route"}
         /\ plan' = plan /\ catalog' = catalog
         /\ Len(rows) \in Nat /\ Len(rows') = Len(rows) + 1
         /\ DOMAIN rows = 1..Len(rows) /\ DOMAIN rows' = 1..(Len(rows) + 1)
         /\ \A i \in 1..Len(rows) : rows'[i] = rows[i]
         /\ rows'[Len(rows) + 1] = row
         /\ rows \in Seq(Rng(rows)) /\ rows' \in Seq(Rng(rows'))
<1>1. TypeOK /\ Places /\ Underway /\ Trying /\ Underway' /\ UNCHANGED planned
  BY DEF RunInv, Recorded, Underway
<1>2. pc' \in {"attempt", "sleep", "route"} /\ plan' = plan /\ catalog' = catalog
  BY <1>1 DEF Underway, Trying, planned
<1>3. Source' = Source
  BY <1>1, <1>2, SameSource DEF Recorded
<1>4. at.route \in Nat /\ at.route > 0
  BY <1>1, AtTypes DEF Places
<1>5. Longer(rows, row, rows')
  BY DEF Recorded
<1>6. /\ Len(rows) \in Nat /\ Len(rows') = Len(rows) + 1
      /\ DOMAIN rows = 1..Len(rows) /\ DOMAIN rows' = 1..(Len(rows) + 1)
      /\ \A i \in 1..Len(rows) : rows'[i] = rows[i]
      /\ rows'[Len(rows) + 1] = row
      /\ rows \in Seq(Rng(rows)) /\ rows' \in Seq(Rng(rows'))
  BY <1>5 DEF Longer
<1> QED
  BY <1>1, <1>2, <1>3, <1>4, <1>6, CurrentSource, AtTypes

\* It is in order, if it continues the last one or belongs to it.
LEMMA RecordedLedger ==
  ASSUME PlanInv, RunInv, Alive, NEW row, Recorded(row),
         domains' = IF row.event = "CAPTURE" THEN domains \cup {row.domain} ELSE domains,
         IF row.event = "CAPTURE"
         THEN \/ OfRoute(rows, Source, at.route) = {} /\ row.strategy = 1 /\ row.attempt = 1
              \/ Len(rows) \in Current /\ Continues(rows[Len(rows)], row)
         ELSE Len(rows) \in Current /\ BindsTo(rows[Len(rows)], row)
  PROVE  LedgerOK'
<1>1. /\ TypeOK /\ Follows /\ LedgerOK /\ Latest
  BY DEF RunInv, Alive
<1>2. /\ Source' = Source /\ Source \in Sources /\ catalog.wave[Source] = at.wave
      /\ at.wave \in Nat /\ at.route > 0 /\ Underway
      /\ Len(rows) \in Nat /\ DOMAIN rows = 1..Len(rows) /\ DOMAIN rows' = 1..(Len(rows) + 1)
      /\ \A i \in 1..Len(rows) : rows'[i] = rows[i]
      /\ rows'[Len(rows) + 1] = row /\ rows \in Seq(Rng(rows))
  BY RecordedPlace
<1>3. Longer(rows, row, rows') /\ row.source = Source /\ row.wave = at.wave /\ row.route = at.route
  BY DEF Recorded
<1>4. Len(rows) \in Current => Len(rows) > 0
  BY <1>2, Parts DEF Current
<1>5. RowsInOrder(rows')
  <2>1. ASSUME NEW i \in 1..Len(rows) PROVE rows[i].wave <= row.wave
    <3>1. Behind(rows[i])
      BY <1>1, <1>2 DEF Follows
    <3>2. PICK s \in Sources : s = rows[i].source /\ Reached(s) /\ rows[i].wave = catalog.wave[s]
      BY <3>1 DEF Behind
    <3>3. catalog.wave[s] \in Nat
      BY WaveOf
    <3> QED
      BY <1>2, <1>3, <3>2, <3>3 DEF Reached
  <2>2. \A i, j \in 1..Len(rows) : i < j /\ rows[i].source = row.source =>
           /\ rows[j].source = row.source
           /\ rows[i].route = row.route => rows[j].route = row.route
    BY <1>1, <1>2, <1>3 DEF Latest
  <2>3. row.event # "CAPTURE" => Len(rows) > 0 /\ BindsTo(rows[Len(rows)], row)
    BY <1>4
  <2>4. RowsInOrder(rows)
    BY <1>1 DEF LedgerOK
  <2> QED
    BY <1>3, <2>1, <2>2, <2>3, <2>4, InOrder
<1>6. AllOrdered(rows')
  <2>1. AllOrdered(rows)
    BY <1>1, <1>2 DEF LedgerOK, AllOrdered
  <2>2. Current = Net(rows, row.source, row.route) /\ row.route > 0
    BY <1>2, <1>3 DEF Current
  <2>3. OfRoute(rows, Source, at.route) = {} => Net(rows, row.source, row.route) = {}
    BY <1>3 DEF Net
  <2> QED
    BY <1>3, <2>1, <2>2, <2>3, OrderedOn
<1>7. domains' = {rows'[i].domain : i \in Captures(rows')}
  <2> DEFINE n == Len(rows) + 1
  <2>1. Captures(rows') = Captures(rows) \cup (IF row.event = "CAPTURE" THEN {n} ELSE {})
    BY <1>3, LongerParts
  <2>2. domains = {rows[i].domain : i \in Captures(rows)}
    BY <1>1 DEF LedgerOK
  <2>3. \A i \in Captures(rows) : rows'[i] = rows[i]
    BY <1>2, FiniteCaptures
  <2>4. rows'[n] = row
    BY <1>2
  <2> HIDE DEF n
  <2>5. CASE row.event = "CAPTURE"
    <3>1. Captures(rows') = Captures(rows) \cup {n} /\ domains' = domains \cup {row.domain}
      BY <2>1, <2>5
    <3> QED
      BY <2>2, <2>3, <2>4, <3>1
  <2>6. CASE row.event # "CAPTURE"
    <3>1. Captures(rows') = Captures(rows) /\ domains' = domains
      BY <2>1, <2>6
    <3> QED
      BY <2>2, <2>3, <3>1
  <2> QED
    BY <2>5, <2>6
<1>8. \A i \in DOMAIN rows' :
        rows'[i].route > 0 /\ RouteOrdered(rows', Net(rows', rows'[i].source, rows'[i].route))
  <2>1. DOMAIN rows' = 1..Len(rows')
    BY <1>2, RecordedPlace
  <2> QED
    BY <1>6, <2>1 DEF AllOrdered
<1> QED
  BY <1>5, <1>7, <1>8 DEF LedgerOK

\* It comes last, and is counted.
LEMMA RecordedLast ==
  ASSUME PlanInv, RunInv, Alive, NEW row, Recorded(row)
  PROVE  Latest' /\ Tally' /\ StatusOK'
<1>1. /\ Latest /\ Tally
  BY DEF Alive
<1>2. /\ Source' = Source /\ Underway /\ Underway' /\ at.route \in Nat
      /\ Len(rows) \in Nat /\ DOMAIN rows = 1..Len(rows) /\ DOMAIN rows' = 1..(Len(rows) + 1)
      /\ \A i \in 1..Len(rows) : rows'[i] = rows[i]
      /\ rows'[Len(rows) + 1] = row /\ pc' # "done"
  BY RecordedPlace DEF Recorded
<1>3. /\ Longer(rows, row, rows') /\ row.source = Source /\ row.wave = at.wave /\ row.route = at.route
      /\ at'.wave = at.wave /\ at'.route = at.route /\ at'.before = at.before /\ at'.start = at.start
      /\ Attempts \in Nat
      /\ Attempts' = IF row.event = "CAPTURE" THEN Attempts + 1 ELSE Attempts
  BY DEF Recorded
<1>4. Latest'
  <2>1. \A i, j \in 1..(Len(rows) + 1) : i < j => i \in 1..Len(rows) /\ (j \in 1..Len(rows) \/ j = Len(rows) + 1)
    BY <1>2
  <2>2. ASSUME NEW i \in DOMAIN rows', NEW j \in DOMAIN rows', i < j, rows'[i].source = Source
        PROVE  /\ rows'[j].source = Source
               /\ rows'[i].route = at.route => rows'[j].route = at.route
    BY <1>1, <1>2, <1>3, <2>1, <2>2 DEF Latest
  <2> QED
    BY <1>2, <1>3, <2>2 DEF Latest
<1>5. Tally'
  <2> DEFINE n == CountOf(rows, Source)
             m == CountIn(rows, at.wave)
             N == CountOf(rows', Source)
             M == CountIn(rows', at.wave)
             e == IF row.event = "CAPTURE" THEN 1 ELSE 0
  <2>1. Attempts = at.start + n /\ Attempts = at.before + m
    BY <1>1, <1>2 DEF Tally, CountOf, CountIn
  <2>2. n \in Nat /\ m \in Nat /\ N = n + e /\ M = m + e
    BY <1>3, SourceTally, WaveTally
  <2>3. at.start \in Nat /\ at.before \in Nat
    BY DEF RunInv, TypeOK
  <2> HIDE DEF n, m, N, M
  <2>4. Attempts' = at.start + N /\ Attempts' = at.before + M
    BY <1>3, <2>1, <2>2, <2>3
  <2> QED
    BY <1>2, <1>3, <2>4 DEF Tally, N, M, CountOf, CountIn
<1>6. StatusOK'
  BY <1>2 DEF StatusOK
<1> QED
  BY <1>4, <1>5, <1>6

\* The sources and the waves that are through do not change.
LEMMA RecordedRest ==
  ASSUME PlanInv, RunInv, Alive, NEW row, Recorded(row)
  PROVE  SourcesOK' /\ WavesOK' /\ StopOK'
<1>1. /\ TypeOK /\ Places /\ LedgerOK /\ SourcesOK /\ WavesOK /\ StopOK
  BY DEF RunInv, Alive
<1>2. /\ Source' = Source /\ Underway /\ Underway' /\ at.wave \in Nat /\ at.turn \in Nat
      /\ Len(rows) \in Nat /\ DOMAIN rows = 1..Len(rows) /\ DOMAIN rows' = 1..(Len(rows) + 1)
      /\ \A i \in 1..Len(rows) : rows'[i] = rows[i]
      /\ rows'[Len(rows) + 1] = row
      /\ pc' \in {"attempt", "sleep", "route"} /\ plan' = plan /\ catalog' = catalog
  BY RecordedPlace DEF Recorded
<1>3. /\ Longer(rows, row, rows') /\ row.source = Source /\ row.wave = at.wave /\ row.route = at.route
      /\ at'.wave = at.wave /\ at'.turn = at.turn
      /\ UNCHANGED <<sources, waves, advanced, stop, status>> /\ UNCHANGED planned
  BY DEF Recorded
<1>4. AllOrdered(rows)
  BY <1>1, <1>2 DEF LedgerOK, AllOrdered
<1>5. ASSUME NEW src \in Rng(sources) PROVE SourceOK(src)'
  <2>1. SourceOK(src)
    BY <1>1 DEF SourcesOK
  <2>2. PICK s \in Sources : s = src.source /\ Passed(s)
    BY <2>1 DEF SourceOK
  <2>3. Passed(s)'
    BY <1>1, <1>2, <1>3, <2>2, PassedStays
  <2>4. row.source # src.source
    BY <1>1, <1>2, <1>3, <2>2, NotPassed
  <2>5. (SourceReconciles(src, rows) => SourceReconciles(src, rows'))
        /\ (CutReconciles(src, rows) => CutReconciles(src, rows'))
    BY <1>3, <1>4, <2>4, OtherSource
  <2>6. Cardinality(OfSource(rows', s) \cap Captures(rows')) = Cardinality(OfSource(rows, s) \cap Captures(rows))
    <3>1. /\ CountOf(rows, s) \in Nat
          /\ CountOf(rows', s) =
               CountOf(rows, s) + (IF row.source = s /\ row.event = "CAPTURE" THEN 1 ELSE 0)
      BY <1>3, SourceTally
    <3>2. CountOf(rows', s) = CountOf(rows, s)
      BY <2>2, <2>4, <3>1
    <3> QED
      BY <3>2 DEF CountOf
  <2> QED
    BY <1>2, <2>1, <2>2, <2>3, <2>5, <2>6 DEF SourceOK
<1>6. SourcesOK'
  <2>1. ASSUME NEW i \in DOMAIN rows'
        PROVE  (\E src \in Rng(sources') : src.source = rows'[i].source) \/ rows'[i].source = Source'
    <3>1. i \in 1..Len(rows) \/ i = Len(rows) + 1
      BY <1>2
    <3>2. i \in 1..Len(rows) => (\E src \in Rng(sources) : src.source = rows[i].source) \/ rows[i].source = Source
      BY <1>1, <1>2 DEF SourcesOK, Told
    <3> QED
      BY <1>2, <1>3, <3>1, <3>2
  <2>2. pc' # "source" /\ \A t \in DOMAIN plan[at.wave] : t < at.turn => Told(plan[at.wave][t])
    BY <1>1, <1>2 DEF SourcesOK
  <2> QED
    BY <1>1, <1>2, <1>3, <1>5, <2>1, <2>2 DEF SourcesOK, Told
<1>7. Report'.waves = Report.waves /\ Report.waves = waves /\ Report'.sources = Report.sources
  BY <1>3 DEF Report
<1>8. Stopped(Report') = Stopped(Report)
  BY <1>7 DEF Stopped
<1>9. WavesOK'
  <2>1. ASSUME NEW w \in DOMAIN waves PROVE WaveReconciles(Report', rows', w)
    <3>1. w # at.wave
      BY <1>1, <1>2 DEF WavesOK
    <3>2. Captures(rows') = Captures(rows) \cup (IF row.event = "CAPTURE" THEN {Len(rows) + 1} ELSE {})
      BY <1>3, LongerParts
    <3>3. \A i \in Captures(rows) : rows'[i] = rows[i]
      BY <1>2 DEF Captures
    <3>4. {i \in Captures(rows') : rows'[i].wave = w} = {i \in Captures(rows) : rows[i].wave = w}
      BY <1>2, <1>3, <3>1, <3>2, <3>3
    <3>5. WaveReconciles(Report, rows, w)
      BY <1>1 DEF WavesOK
    <3> QED
      BY <1>7, <1>8, <3>4, <3>5, SameWave
  <2> QED
    BY <1>1, <1>2, <1>3, <2>1 DEF WavesOK
<1>10. StopOK'
  BY <1>1, <1>2, <1>3, <1>8 DEF StopOK
<1> QED
  BY <1>6, <1>9, <1>10

\* The routes that are through do not change.
LEMMA RecordedRoutes ==
  ASSUME PlanInv, RunInv, Alive, NEW row, Recorded(row), NEW k \in 1..Len(routes)
  PROVE  /\ k \in RoutesOf(rows', Source) /\ RouteEnded(rows', Source, k)
         /\ routes[k] = Recomputed(rows', Source, k)
<1>1. /\ Places /\ LedgerOK /\ Outcomes /\ Trying
  BY DEF RunInv, Alive, Recorded
<1>2. /\ Underway /\ at.route \in Nat
      /\ Len(rows) \in Nat /\ DOMAIN rows = 1..Len(rows) /\ DOMAIN rows' = 1..(Len(rows) + 1)
      /\ \A i \in 1..Len(rows) : rows'[i] = rows[i]
      /\ rows \in Seq(Rng(rows))
  BY RecordedPlace
<1>3. Longer(rows, row, rows') /\ row.source = Source /\ row.route = at.route
  BY DEF Recorded
<1>4. k # at.route
  BY <1>1, <1>2 DEF Places
<1>5. OfRoute(rows', Source, k) = OfRoute(rows, Source, k) /\ Net(rows', Source, k) = Net(rows, Source, k)
  BY <1>3, <1>4, Elsewhere
<1>6. k \in RoutesOf(rows, Source) /\ RouteEnded(rows, Source, k) /\ routes[k] = Recomputed(rows, Source, k)
  BY <1>1, <1>2 DEF Outcomes
<1>7. PICK i \in 1..Len(rows) : rows[i].source = Source /\ rows[i].route = k
  BY <1>2, <1>6 DEF RoutesOf, OfSource
<1>8. Net(rows, Source, k) # {}
  BY <1>1, <1>2, <1>7 DEF LedgerOK, RouteOrdered
<1>9. Recomputed(rows', Source, k) = Recomputed(rows, Source, k) /\ (RouteEnded(rows', Source, k) <=> RouteEnded(rows, Source, k))
  BY <1>2, <1>5, <1>8, SameRoute
<1>10. k \in RoutesOf(rows', Source)
  <2>1. i \in DOMAIN rows' /\ rows'[i] = rows[i]
    BY <1>2, <1>7
  <2> QED
    BY <1>7, <2>1 DEF RoutesOf, OfSource
<1> QED
  BY <1>6, <1>9, <1>10

\* The row that is written is the last of its route.
LEMMA RecordedMax ==
  ASSUME PlanInv, RunInv, NEW row, Recorded(row)
  PROVE  /\ Max(OfRoute(rows', Source, at.route)) = Len(rows) + 1
         /\ row.event = "CAPTURE" => Max(Net(rows', Source, at.route)) = Len(rows) + 1
         /\ at.route \in RoutesOf(rows', Source)
<1> DEFINE n == Len(rows) + 1
           O == OfRoute(rows', Source, at.route)
           N == Net(rows', Source, at.route)
<1>1. /\ Len(rows) \in Nat /\ DOMAIN rows' = 1..n /\ rows'[n] = row
      /\ rows' \in Seq(Rng(rows')) /\ Len(rows') = n
  BY RecordedPlace
<1>2. row.source = Source /\ row.route = at.route
  BY DEF Recorded
<1>3. n \in Nat /\ n \in 1..n /\ \A i \in 1..n : i \in Nat /\ i <= n
  BY <1>1
<1>4. /\ \A i : i \in O <=> i \in 1..n /\ rows'[i].source = Source /\ rows'[i].route = at.route
      /\ \A i : i \in N <=> /\ i \in 1..n /\ rows'[i].source = Source /\ rows'[i].route = at.route
                            /\ rows'[i].event = "CAPTURE"
  BY <1>1, Parts
<1> HIDE DEF n, O, N
<1>5. O \in SUBSET Nat /\ n \in O /\ \A i \in O : i <= n
  BY <1>1, <1>2, <1>3, <1>4
<1>6. Max(O) = n
  BY <1>5, MaxIs
<1>7. ASSUME row.event = "CAPTURE" PROVE Max(N) = n
  <2>1. N \in SUBSET Nat /\ n \in N /\ \A i \in N : i <= n
    BY <1>1, <1>2, <1>3, <1>4, <1>7
  <2> QED
    BY <2>1, MaxIs
<1>8. at.route \in RoutesOf(rows', Source)
  BY <1>1, <1>2, <1>3 DEF RoutesOf, OfSource
<1> QED
  BY <1>6, <1>7, <1>8 DEF n, O, N

\* A route ends with the row that is written.
LEMMA RecordedEnd ==
  ASSUME PlanInv, RunInv, Alive, NEW row, Recorded(row), NEW out, routes' = Append(routes, out),
         RouteEnded(rows', Source, at.route), out = Recomputed(rows', Source, at.route)
  PROVE  Outcomes'
<1>1. /\ Len(routes) = at.route - 1 /\ routes \in Seq(Rng(routes)) /\ at.route \in Nat /\ Source' = Source
  BY RecordedPlace DEF RunInv, Places, Follows, Recorded
<1>2. /\ Len(routes') = Len(routes) + 1 /\ Len(routes) \in Nat
      /\ \A k \in 1..Len(routes) : routes'[k] = routes[k]
      /\ routes'[Len(routes) + 1] = out
  BY <1>1, OneMore
<1>3. Len(routes) + 1 = at.route
  BY <1>1
<1>4. ASSUME NEW k \in 1..Len(routes')
      PROVE  /\ k \in RoutesOf(rows', Source) /\ RouteEnded(rows', Source, k)
             /\ routes'[k] = Recomputed(rows', Source, k)
  <2>1. CASE k \in 1..Len(routes)
    BY <1>2, <2>1, RecordedRoutes
  <2>2. CASE k = at.route
    BY <1>2, <1>3, <2>2, RecordedMax
  <2>3. k \in 1..Len(routes) \/ k = at.route
    BY <1>2, <1>3
  <2> QED
    BY <2>1, <2>2, <2>3
<1> QED
  BY <1>1, <1>4 DEF Outcomes

\* A sleep that fails, and its control row, keep the invariant.
LEMMA SleeperFailsReports ==
  ASSUME PlanInv, RunInv, RunInv', Alive, SleeperFails
  PROVE  Alive'
<1>1. /\ TypeOK /\ Follows /\ Places /\ Continued /\ Tally
  BY DEF RunInv, Alive
<1> DEFINE answer == rows[Len(rows)].answer
<1>2. PICK row, out : /\ row = Row("CONTROL", answer, "STOP_SLEEPER_FAILURE",
                                    rows[Len(rows)].completed, rows[Len(rows)].completed)
                      /\ out = [status |-> StatusOf(answer, "STOP_SLEEPER_FAILURE"), covered |-> FALSE,
                                strategies |-> at.strategy]
  OBVIOUS
<1>3. /\ UNCHANGED <<at, zeros, sources, waves, advanced, circuits, domains, elapsed, stop, status>>
      /\ UNCHANGED planned /\ pc = "sleep" /\ pc' = "route"
      /\ Write(row) /\ routes' = Append(routes, out)
  BY <1>2 DEF SleeperFails, EndRoute, progress, planned, results
<1>4. /\ row.source = Source /\ row.route = at.route /\ row.strategy = at.strategy /\ row.domain = Domain
      /\ row.attempt = at.attempt /\ row.event = "CONTROL" /\ row.wave = at.wave
  BY <1>2 DEF Row
<1>5. Trying /\ Underway /\ Underway' /\ ~Trying'
  BY <1>3 DEF Trying, Underway
<1>6. /\ rows' \in Seq(Rng(rows')) /\ Len(rows) \in Nat /\ Len(rows') = Len(rows) + 1
      /\ DOMAIN rows = 1..Len(rows) /\ DOMAIN rows' = 1..(Len(rows) + 1)
      /\ \A i \in 1..Len(rows) : rows'[i] = rows[i] /\ Behind(rows[i])
      /\ rows'[Len(rows) + 1] = row
      /\ Attempts' = Attempts /\ Attempts \in Nat
  BY <1>3, <1>4, <1>5, Written
<1>7. Longer(rows, row, rows')
  BY <1>1, <1>6 DEF Longer, Follows
<1>8. Recorded(row)
  BY <1>3, <1>4, <1>5, <1>6, <1>7 DEF Recorded
<1>9. /\ Len(rows) \in Current /\ rows[Len(rows)].disposition = "RETRY_TRANSIENT"
      /\ rows[Len(rows)].strategy = at.strategy /\ rows[Len(rows)].attempt = at.attempt
      /\ rows[Len(rows)].domain = Domain
  BY <1>1, <1>3 DEF Continued
<1>10. /\ Len(rows) \in 1..Len(rows) /\ rows[Len(rows)].source = Source
       /\ rows[Len(rows)].route = at.route /\ rows[Len(rows)].event = "CAPTURE"
  <2>1. rows \in Seq(Rng(rows))
    BY <1>1 DEF Follows
  <2> QED
    BY <1>9, <2>1, Parts DEF Current
<1>11. BindsTo(rows[Len(rows)], row)
  <2>1. rows[Len(rows)].wave = at.wave
    BY <1>1, <1>5, <1>6, <1>10, CurrentSource DEF Behind
  <2> QED
    BY <1>4, <1>9, <1>10, <2>1 DEF BindsTo
<1>12. LedgerOK'
  BY <1>3, <1>4, <1>8, <1>9, <1>11, RecordedLedger
<1>13. Latest' /\ Tally' /\ StatusOK' /\ SourcesOK' /\ WavesOK' /\ StopOK'
  BY <1>8, RecordedLast, RecordedRest
<1>14. Continued' /\ Pages'
  BY <1>3, <1>5 DEF Continued, Pages
<1>15. rows'[Max(OfRoute(rows', Source, at.route))].event = "CONTROL"
  BY <1>4, <1>6, <1>8, RecordedMax
<1>16. Max(Net(rows', Source, at.route)) = Len(rows)
  <2>1. Net(rows', Source, at.route) = Current
    BY <1>4, <1>7, Elsewhere DEF Current
  <2>2. Current \in SUBSET Nat /\ \A i \in Current : i <= Len(rows)
    <3>1. rows \in Seq(Rng(rows))
      BY <1>1 DEF Follows
    <3>2. \A i \in Current : i \in 1..Len(rows)
      BY <3>1, Parts DEF Current
    <3> QED
      BY <1>6, <3>2
  <2> QED
    BY <1>9, <2>1, <2>2, MaxIs
<1>17. Recomputed(rows', Source, at.route) = out
  <2>1. StatusOf(answer, "STOP_SLEEPER_FAILURE") = IF answer.code = "RATE_LIMIT" THEN "BLOCKED" ELSE "ERROR"
    BY DEF StatusOf
  <2>2. rows'[Max(Net(rows', Source, at.route))] = rows[Len(rows)]
    BY <1>6, <1>10, <1>16
  <2> QED
    BY <1>2, <1>9, <1>15, <2>1, <2>2 DEF Recomputed
<1>18. Outcomes'
  <2>1. RouteEnded(rows', Source, at.route)
    BY <1>15 DEF RouteEnded
  <2> QED
    BY <1>3, <1>8, <1>17, <2>1, RecordedEnd
<1> QED
  BY <1>12, <1>13, <1>14, <1>18 DEF Alive

\* The pages of the route with the one that has come.
LEMMA RecordedPages ==
  ASSUME PlanInv, RunInv, RunInv', Alive, NEW row, Recorded(row), row.event = "CAPTURE",
         row.strategy = at.strategy, AnswerFits(row.answer, at.strategy),
         zeros' = IF EmptyPage(row) THEN zeros \cup {row.answer.proof} ELSE zeros
  PROVE  PagesOK(rows', Net(rows', Source, at.route), zeros')
<1> DEFINE n == Len(rows) + 1
           N == Net(rows', Source, at.route)
<1>1. /\ TypeOK /\ Follows /\ Trying /\ Pages /\ zeros' \subseteq Strategies
  BY DEF RunInv, Alive, Recorded, TypeOK
<1>2. /\ Len(rows) \in Nat /\ DOMAIN rows = 1..Len(rows) /\ rows \in Seq(Rng(rows))
      /\ \A i \in 1..Len(rows) : rows'[i] = rows[i]
      /\ rows'[n] = row
  BY RecordedPlace
<1>3. N = Current \cup {n}
  <2>1. Longer(rows, row, rows') /\ row.source = Source /\ row.route = at.route
    BY DEF Recorded
  <2>2. N = Net(rows, Source, at.route)
              \cup (IF row.source = Source /\ row.route = at.route /\ row.event = "CAPTURE" THEN {n} ELSE {})
    BY <2>1, LongerParts
  <2> HIDE DEF N, n
  <2> QED
    BY <2>1, <2>2 DEF Current
<1>4. \A i \in Current : i \in 1..Len(rows) /\ rows'[i] = rows[i] /\ i < n
  BY <1>2, Parts DEF Current
<1>5. at.strategy \in Strategies /\ at.strategy \in Nat
  BY <1>1, AtTypes DEF Strategies
<1>6. EmptyPage(row) => row.answer.proof \in 1..row.strategy
  BY <1>5 DEF EmptyPage, CountsAsZero, AnswerFits
<1>7. /\ zeros = {rows[i].answer.proof : i \in {j \in Current : EmptyPage(rows[j])}}
      /\ \A i \in Current : /\ rows[i].disposition \in Goes => rows[i].strategy < at.strategy
                            /\ EmptyPage(rows[i]) => rows[i].answer.proof \in 1..rows[i].strategy
      /\ \A i, j \in Current : i < j /\ rows[i].disposition \in Goes => rows[i].strategy < rows[j].strategy
  BY <1>1 DEF Pages
<1>8. \A i \in Current : rows[i].strategy \in Strategies
  BY <1>1, <1>2, <1>4 DEF Follows, Behind
<1>9. n \notin Current /\ n \in Nat
  BY <1>2, <1>4
<1> HIDE DEF n, N
<1>10. zeros' = {rows'[i].answer.proof : i \in {j \in N : EmptyPage(rows'[j])}}
  <2>1. CASE EmptyPage(row)
    <3>1. zeros' = zeros \cup {row.answer.proof}
      BY <2>1
    <3>2. {j \in N : EmptyPage(rows'[j])} = {j \in Current : EmptyPage(rows[j])} \cup {n}
      BY <1>2, <1>3, <1>4, <2>1
    <3> QED
      BY <1>2, <1>4, <1>7, <3>1, <3>2
  <2>2. CASE ~EmptyPage(row)
    <3>1. zeros' = zeros
      BY <2>2
    <3>2. {j \in N : EmptyPage(rows'[j])} = {j \in Current : EmptyPage(rows[j])}
      BY <1>2, <1>3, <1>4, <2>2
    <3> QED
      BY <1>4, <1>7, <3>1, <3>2
  <2> QED
    BY <2>1, <2>2
<1>11. \A i \in N : /\ rows'[i].strategy \in Strategies
                    /\ EmptyPage(rows'[i]) => rows'[i].answer.proof \in 1..rows'[i].strategy
  BY <1>2, <1>3, <1>4, <1>5, <1>6, <1>7, <1>8
<1>12. ASSUME NEW i \in N, NEW j \in N, i < j, rows'[i].disposition \in Goes
       PROVE  rows'[i].strategy < rows'[j].strategy
  <2>1. i \in Current
    BY <1>3, <1>4, <1>9, <1>12
  <2>2. CASE j \in Current
    BY <1>4, <1>7, <1>12, <2>1, <2>2
  <2>3. CASE j = n
    BY <1>2, <1>4, <1>7, <1>12, <2>1, <2>3
  <2> QED
    BY <1>3, <2>2, <2>3
<1> QED
  BY <1>1, <1>10, <1>11, <1>12 DEF PagesOK, N

\* What is recomputed of a route that ends with an attempt.
LEMMA RecordedOutcome ==
  ASSUME PlanInv, RunInv, RunInv', Alive, NEW row, Recorded(row), row.event = "CAPTURE",
         row.disposition # "STOP_SLEEPER_FAILURE",
         PagesOK(rows', Net(rows', Source, at.route), zeros')
  PROVE  Recomputed(rows', Source, at.route) =
           IF row.disposition \in Goes /\ Cardinality(zeros') = 4
           THEN [status |-> "ZERO_RESULT", covered |-> TRUE, strategies |-> row.strategy]
           ELSE [status |-> StatusOf(row.answer, row.disposition),
                 covered |-> row.disposition = "STOP_QUALIFIED", strategies |-> row.strategy]
<1> DEFINE n == Len(rows) + 1
           N == Net(rows', Source, at.route)
<1>1. /\ Max(OfRoute(rows', Source, at.route)) = n /\ Max(N) = n
      /\ rows'[n] = row /\ Len(rows) \in Nat /\ rows' \in Seq(Rng(rows')) /\ Len(rows') = n
  BY RecordedMax, RecordedPlace
<1>2. row.source = Source /\ row.route = at.route
  BY DEF Recorded
<1>3. N \in SUBSET (1..n) /\ n \in N
  <2>1. \A i : i \in N <=> /\ i \in 1..n /\ rows'[i].source = Source /\ rows'[i].route = at.route
                           /\ rows'[i].event = "CAPTURE"
    BY <1>1, Parts
  <2>2. n \in 1..n
    BY <1>1
  <2> HIDE DEF n, N
  <2> QED
    BY <1>1, <1>2, <2>1, <2>2
<1>4. n \in Nat /\ N \in SUBSET Nat /\ \A j \in N : ~(j > n)
  BY <1>1, <1>3
<1> HIDE DEF n, N
<1>5. ZeroComplete(rows', N) <=> Cardinality(zeros') = 4
  BY <1>4, FourPages DEF N
<1>6. ZeroComplete(rows', N) => row.disposition \in Goes
  <2>1. n \in LastOfStrategies(rows', N)
    BY <1>3, <1>4 DEF LastOfStrategies
  <2>2. ZeroComplete(rows', N) => rows'[n].disposition = "NEXT_EMPTY_STRATEGY"
    BY <2>1 DEF ZeroComplete
  <2> QED
    BY <1>1, <2>2 DEF Goes
<1>7. Recomputed(rows', Source, at.route) = OutcomeOf(rows', N, n)
  <2>1. Max(Net(rows', Source, at.route)) = n /\ Max(OfRoute(rows', Source, at.route)) = n
    BY <1>1 DEF N
  <2>2. rows'[n].event = "CAPTURE" /\ rows'[n].disposition # "STOP_SLEEPER_FAILURE"
    BY <1>1
  <2> QED
    BY <2>1, <2>2, RecomputedIs DEF N
<1> QED
  BY <1>1, <1>5, <1>6, <1>7 DEF OutcomeOf

\* An attempt keeps it, whatever the connector answers and the run decides.
LEMMA AttemptReports ==
  ASSUME PlanInv, RunInv, RunInv', Alive, Attempt
  PROVE  Alive'
<1>1. /\ TypeOK /\ Follows /\ Places /\ Continued /\ Pages
  BY DEF RunInv, Alive
<1>0. PICK r, d, attempted, completed : \E delay \in {0, 1} : Records(r, d, delay, attempted, completed)
  BY <1>1, AttemptMade
<1>made. PICK delay \in {0, 1} : Records(r, d, delay, attempted, completed)
  BY <1>0
<1>2. /\ AnswerFits(r, at.strategy) /\ Write(Row("CAPTURE", r, d, attempted, completed)) /\ Follow(r, d, delay)
      /\ d = Decided(r, delay, completed) \/ (r = Unsaved /\ d = "NEXT_REJECTED_STRATEGY")
  BY <1>made DEF Records
<1>3. PICK row : row = Row("CAPTURE", r, d, attempted, completed)
  OBVIOUS
<1>4. /\ UNCHANGED <<sources, waves, advanced, stop, status>>
      /\ UNCHANGED planned /\ catalog' = catalog /\ pc = "attempt" /\ domains' = domains \cup {Domain}
  BY DEF Attempt, progress, planned, results
<1>5. /\ row.source = Source /\ row.route = at.route /\ row.strategy = at.strategy
      /\ row.attempt = at.attempt /\ row.event = "CAPTURE" /\ row.wave = at.wave
      /\ row.disposition = d /\ row.answer = r /\ row.domain = Domain
  BY <1>3 DEF Row
<1>6. /\ zeros' = IF d = "NEXT_EMPTY_STRATEGY" /\ CountsAsZero(r) THEN zeros \cup {r.proof} ELSE zeros
      /\ \/ d = "RETRY_TRANSIENT" /\ pc' = "sleep" /\ at' = [at EXCEPT !.delay = delay] /\ routes' = routes
         \/ /\ d \in Goes /\ at.strategy < 4 /\ pc' = pc /\ routes' = routes
            /\ at' = [at EXCEPT !.strategy = @ + 1, !.attempt = 1]
         \/ /\ d # "RETRY_TRANSIENT" /\ ~(d \in Goes /\ at.strategy < 4) /\ pc' = "route" /\ at' = at
            /\ routes' = Append(routes,
                 IF d \in Goes /\ Cardinality(zeros') = 4
                 THEN [status |-> "ZERO_RESULT", covered |-> TRUE, strategies |-> at.strategy]
                 ELSE [status |-> StatusOf(r, d), covered |-> d = "STOP_QUALIFIED",
                       strategies |-> at.strategy])
  <2>1. Follow(r, d, delay)
    BY <1>2
  <2> QED
    BY <2>1 DEF Follow, EndRoute
<1>7. Trying /\ Underway /\ Underway' /\ at \in AtSet
  <2>1. pc' = "sleep" \/ pc' = pc \/ pc' = "route"
    BY <1>6, Zenon
  <2>2. at \in AtSet
    BY <1>1 DEF TypeOK, AtSet
  <2>3. pc = "attempt"
    BY <1>4
  <2> QED
    BY <2>1, <2>2, <2>3 DEF Trying, Underway
<1>8. /\ at'.wave = at.wave /\ at'.turn = at.turn /\ at'.route = at.route
      /\ at'.before = at.before /\ at'.start = at.start
  BY <1>6, <1>7 DEF AtSet
<1>9. /\ rows' \in Seq(Rng(rows')) /\ Len(rows) \in Nat /\ Len(rows') = Len(rows) + 1
      /\ DOMAIN rows = 1..Len(rows) /\ DOMAIN rows' = 1..(Len(rows) + 1)
      /\ \A i \in 1..Len(rows) : rows'[i] = rows[i] /\ Behind(rows[i])
      /\ rows'[Len(rows) + 1] = row
      /\ Attempts' = Attempts + 1 /\ Attempts \in Nat
  BY <1>2, <1>3, <1>4, <1>5, <1>7, Written
<1>10. Longer(rows, row, rows')
  BY <1>1, <1>9 DEF Longer, Follows
<1>11. Recorded(row)
  BY <1>4, <1>5, <1>7, <1>8, <1>9, <1>10 DEF Recorded
<1>12. d # "STOP_SLEEPER_FAILURE"
  BY <1>2, DispositionsFit
<1>13. LedgerOK'
  <2>1. \/ OfRoute(rows, Source, at.route) = {} /\ row.strategy = 1 /\ row.attempt = 1
        \/ Len(rows) \in Current /\ Continues(rows[Len(rows)], row)
    BY <1>1, <1>4, <1>5 DEF Continued, Continues
  <2> QED
    BY <1>4, <1>5, <1>11, <2>1, RecordedLedger
<1>14. Latest' /\ Tally' /\ StatusOK' /\ SourcesOK' /\ WavesOK' /\ StopOK'
  BY <1>11, RecordedLast, RecordedRest
<1>15. Source' = Source /\ Domain' = Domain
  BY <1>4, <1>8, <1>11, RecordedPlace DEF Domain
<1>16. PagesOK(rows', Net(rows', Source, at.route), zeros')
  <2>1. zeros' = IF EmptyPage(row) THEN zeros \cup {row.answer.proof} ELSE zeros
    BY <1>5, <1>6 DEF EmptyPage
  <2> QED
    BY <1>2, <1>5, <1>11, <2>1, RecordedPages
<1>17. Current' = Net(rows', Source, at.route)
  BY <1>8, <1>15 DEF Current
<1>18. Current' = Current \cup {Len(rows) + 1}
  <2> DEFINE n == Len(rows) + 1
  <2>1. Net(rows', Source, at.route) = Net(rows, Source, at.route)
              \cup (IF row.source = Source /\ row.route = at.route /\ row.event = "CAPTURE" THEN {n} ELSE {})
    BY <1>10, LongerParts
  <2> HIDE DEF n
  <2>2. Net(rows', Source, at.route) = Net(rows, Source, at.route) \cup {n}
    BY <1>5, <2>1
  <2> QED
    BY <1>17, <2>2 DEF Current, n
<1>19. Continued'
  <2>1. Len(rows') \in Current' /\ rows'[Len(rows')] = row
    BY <1>9, <1>18
  <2>2. CASE d = "RETRY_TRANSIENT" /\ pc' = "sleep" /\ at' = [at EXCEPT !.delay = delay]
    <3>1. at'.strategy = at.strategy /\ at'.attempt = at.attempt
      BY <1>7, <2>2 DEF AtSet
    <3> QED
      BY <1>5, <1>15, <2>1, <2>2, <3>1 DEF Continued
  <2>3. CASE d \in Goes /\ pc' = pc /\ at' = [at EXCEPT !.strategy = @ + 1, !.attempt = 1]
    <3>1. at'.strategy = at.strategy + 1 /\ at'.attempt = 1
      BY <1>7, <2>3 DEF AtSet
    <3>2. Continues(row, at')
      BY <1>5, <2>3, <3>1 DEF Continues
    <3> QED
      BY <1>4, <2>1, <2>3, <3>2 DEF Continued
  <2>4. CASE pc' = "route"
    BY <2>4 DEF Continued
  <2> QED
    BY <1>6, <2>2, <2>3, <2>4
<1>20. Pages'
  <2> SUFFICES ASSUME Trying' PROVE Pages'
    BY DEF Pages
  <2>1. /\ d \notin Goes => at'.strategy = at.strategy
        /\ d \in Goes => at'.strategy = at.strategy + 1
        /\ at.strategy \in Nat
    <3>1. pc' # "route" /\ at.strategy \in Nat /\ "RETRY_TRANSIENT" \notin Goes
      BY <1>1, AtTypes DEF Trying, Goes
    <3> QED
      BY <1>6, <1>7, <3>1 DEF AtSet
  <2>2. /\ zeros' = {rows'[i].answer.proof : i \in {j \in Current' : EmptyPage(rows'[j])}}
        /\ \A i \in Current' : EmptyPage(rows'[i]) => rows'[i].answer.proof \in 1..rows'[i].strategy
        /\ \A i, j \in Current' : i < j /\ rows'[i].disposition \in Goes => rows'[i].strategy < rows'[j].strategy
    BY <1>16, <1>17 DEF PagesOK
  <2>3. ASSUME NEW i \in Current', rows'[i].disposition \in Goes
        PROVE  rows'[i].strategy < at'.strategy
    <3>1. CASE i \in Current
      <4>1. i \in 1..Len(rows) /\ rows'[i] = rows[i]
        <5>1. rows \in Seq(Rng(rows))
          BY <1>1 DEF Follows
        <5>2. i \in 1..Len(rows)
          BY <3>1, <5>1, Parts DEF Current
        <5> QED
          BY <1>9, <5>2
      <4>2. rows[i].strategy < at.strategy
        BY <1>1, <1>7, <2>3, <3>1, <4>1 DEF Pages
      <4>3. rows[i].strategy \in Nat
        BY <1>9, <4>1 DEF Behind, Strategies
      <4> QED
        BY <2>1, <4>1, <4>2, <4>3
    <3>2. CASE i = Len(rows) + 1
      BY <1>5, <1>9, <2>1, <2>3, <3>2
    <3> QED
      BY <1>18, <3>1, <3>2
  <2> QED
    BY <2>2, <2>3 DEF Pages, EmptyPage
<1>21. Outcomes'
  <2>1. CASE routes' = routes
    BY <1>11, <1>15, <2>1, RecordedRoutes DEF Outcomes
  <2>2. CASE /\ d # "RETRY_TRANSIENT" /\ ~(d \in Goes /\ at.strategy < 4)
             /\ routes' = Append(routes,
                  IF d \in Goes /\ Cardinality(zeros') = 4
                  THEN [status |-> "ZERO_RESULT", covered |-> TRUE, strategies |-> at.strategy]
                  ELSE [status |-> StatusOf(r, d), covered |-> d = "STOP_QUALIFIED",
                        strategies |-> at.strategy])
    <3>1. PICK out : out = Recomputed(rows', Source, at.route)
      OBVIOUS
    <3>2. out = IF d \in Goes /\ Cardinality(zeros') = 4
                THEN [status |-> "ZERO_RESULT", covered |-> TRUE, strategies |-> at.strategy]
                ELSE [status |-> StatusOf(r, d), covered |-> d = "STOP_QUALIFIED",
                      strategies |-> at.strategy]
      BY <1>5, <1>11, <1>12, <1>16, <3>1, RecordedOutcome
    <3>3. routes' = Append(routes, out)
      BY <2>2, <3>2
    <3>4. rows'[Max(Net(rows', Source, at.route))] = row
      BY <1>5, <1>9, <1>11, RecordedMax
    <3>5. RouteEnded(rows', Source, at.route)
      BY <1>5, <2>2, <3>4 DEF RouteEnded, Unfinished
    <3> QED
      BY <1>11, <3>1, <3>3, <3>5, RecordedEnd
  <2> QED
    BY <1>6, <2>1, <2>2
<1> QED
  BY <1>13, <1>14, <1>19, <1>20, <1>21 DEF Alive

-----------------------------------------------------------------------------
\* Before anything is reported the invariant of the report holds.
LEMMA InitReport == Init => ReportInv
<1> SUFFICES ASSUME Init PROVE Alive
  BY DEF ReportInv, Alive
<1>1. /\ pc = "plan" /\ rows = <<>> /\ sources = <<>> /\ waves = <<>> /\ advanced = {} /\ domains = {}
      /\ stop = "NONE" /\ at.wave = 1 /\ DOMAIN rows = {}
  BY DEF Init, At
<1>2. ~Trying /\ ~Underway
  BY <1>1 DEF Trying, Underway
<1>3. Captures(rows) = {} /\ Rng(sources) = {} /\ Rng(waves) = {} /\ DOMAIN waves = {} /\ Len(waves) = 0
  BY <1>1 DEF Captures, Rng
<1>4. LedgerOK
  BY <1>1, <1>3 DEF LedgerOK, RowsInOrder
<1>5. Latest /\ Continued /\ Pages /\ Outcomes /\ Tally /\ StatusOK
  BY <1>1, <1>2 DEF Latest, Continued, Pages, Outcomes, Tally, StatusOK
<1>6. SourcesOK
  BY <1>1, <1>2, <1>3 DEF SourcesOK
<1>7. WavesOK
  BY <1>1, <1>3 DEF WavesOK
<1>8. Stopped(Report) = {}
  BY <1>1, <1>3 DEF Stopped, Report
<1>9. StopOK
  BY <1>1, <1>2, <1>3, <1>8 DEF StopOK
<1> QED
  BY <1>4, <1>5, <1>6, <1>7, <1>9 DEF Alive

\* Every step of the search keeps the invariant of the report.
LEMMA NextReports ==
  ASSUME PlanInv, PlanInv', RunInv, RunInv', ReportInv, [Next]_vars
  PROVE  ReportInv'
<1>1. CASE pc = "dead"
  <2>1. pc' = "dead"
    BY <1>1 DEF Next, Choose, Fill, BeginRun, BeginWave, BeginSource, EndWave, BudgetStop, Attempt,
       AppendFails, Sleep, SleeperFails, NextRoute, EndSource, Finish, vars
  <2> QED
    BY <2>1 DEF ReportInv
<1>2. CASE pc # "dead"
  <2>1. Alive
    BY <1>2 DEF ReportInv, Alive
  <2>2. CASE UNCHANGED vars
    <3>1. UNCHANGED <<catalog, plan, undecided, deferred, pc, at, rows, file, zeros, routes, sources, waves,
                      advanced, circuits, domains, elapsed, stop, status>>
      BY <2>2 DEF vars
    <3>2. /\ Source' = Source /\ Attempts' = Attempts /\ Trying' = Trying /\ Underway' = Underway
          /\ Domain' = Domain /\ Current' = Current /\ Report' = Report
      BY <3>1 DEF Source, Attempts, Trying, Underway, Domain, Current, Report
    <3>3. LedgerOK' /\ Latest' /\ Continued' /\ Pages' /\ Outcomes' /\ Tally' /\ StatusOK'
      BY <2>1, <3>1, <3>2 DEF Alive, LedgerOK, Latest, Continued, Pages, Outcomes, Tally, StatusOK
    <3>4. WavesOK' /\ StopOK'
      BY <2>1, <3>1, <3>2 DEF Alive, WavesOK, StopOK
    <3>5. ASSUME NEW s PROVE (Passed(s)' <=> Passed(s)) /\ (Told(s)' <=> Told(s)) /\ (SourceOK(s)' <=> SourceOK(s))
      BY <3>1 DEF Passed, Told, SourceOK
    <3>6. SourcesOK'
      BY <2>1, <3>1, <3>2, <3>5 DEF Alive, SourcesOK
    <3> QED
      BY <3>3, <3>4, <3>6 DEF ReportInv
  <2>3. CASE AppendFails
    BY <2>3 DEF AppendFails, ReportInv
  <2>4. CASE Next /\ ~AppendFails
    <3>1. Alive'
      BY <2>1, <2>4, PlanningReports, BeginWaveReports, BeginSourceReports, EndWaveReports,
         BudgetStopReports, AttemptReports, SleepReports, SleeperFailsReports, NextRouteReports,
         EndSourceReports, FinishReports DEF Next
    <3> QED
      BY <3>1 DEF Alive, ReportInv
  <2> QED
    BY <2>2, <2>3, <2>4
<1> QED
  BY <1>1, <1>2

-----------------------------------------------------------------------------
(* The times of the rows, and what their answers say. *)

\* The validator allows what the run decided of an answer exactly if the answer
\* agrees with itself.
Judged ==
  \A i \in Captures(rows) :
    DispositionFits(rows[i].answer, rows[i].disposition) <=> Coherent(rows[i].answer)

\* One row after the other, up to now; a control row takes no time.
Timely ==
  /\ \A i \in DOMAIN rows :
       /\ rows[i].attempted \in Nat /\ rows[i].completed \in Nat
       /\ rows[i].attempted <= rows[i].completed /\ rows[i].completed <= elapsed
       /\ rows[i].event # "CAPTURE" => rows[i].attempted = rows[i].completed
  /\ \A i, j \in DOMAIN rows : i < j => rows[i].completed <= rows[j].attempted

RowsInv == Judged /\ Timely

\* Before the first row there is nothing to say.
LEMMA InitRows == Init => RowsInv
BY DEF Init, RowsInv, Judged, Timely, Captures

\* Time that goes on without a row changes nothing.
LEMMA RowsRest ==
  ASSUME RowsInv, TypeOK, rows' = rows, elapsed' \in Nat, elapsed <= elapsed'
  PROVE  RowsInv'
<1>1. Captures(rows') = Captures(rows) /\ elapsed \in Nat
  BY DEF TypeOK
<1>2. Judged'
  BY <1>1 DEF RowsInv, Judged
<1>3. \A i \in DOMAIN rows : rows[i].completed <= elapsed'
  BY <1>1 DEF RowsInv, Timely
<1>4. Timely'
  BY <1>3 DEF RowsInv, Timely
<1> QED
  BY <1>2, <1>4 DEF RowsInv

\* A row that begins after the last one ended.
LEMMA RowAdded ==
  ASSUME RowsInv, TypeOK, Follows, NEW row, rows' = Append(rows, row),
         elapsed' \in Nat, elapsed <= elapsed',
         row.attempted \in Nat, row.completed \in Nat,
         \A i \in DOMAIN rows : rows[i].completed <= row.attempted,
         row.attempted <= row.completed, row.completed <= elapsed',
         row.event # "CAPTURE" => row.attempted = row.completed,
         row.event = "CAPTURE" => (DispositionFits(row.answer, row.disposition) <=> Coherent(row.answer))
  PROVE  RowsInv'
<1> DEFINE n == Len(rows) + 1
<1>1. /\ Len(rows) \in Nat /\ DOMAIN rows = 1..Len(rows) /\ DOMAIN rows' = 1..n
      /\ \A i \in 1..Len(rows) : rows'[i] = rows[i]
      /\ rows'[n] = row
  BY OneMore DEF Follows
<1>2. elapsed \in Nat /\ \A i \in 1..n : i \in 1..Len(rows) \/ i = n
  BY <1>1 DEF TypeOK
<1>3. \A i, j \in 1..n : i < j => i \in 1..Len(rows) /\ (j \in 1..Len(rows) \/ j = n)
  BY <1>1
<1> HIDE DEF n
<1>4. ASSUME NEW i \in Captures(rows')
      PROVE  DispositionFits(rows'[i].answer, rows'[i].disposition) <=> Coherent(rows'[i].answer)
  <2>1. i \in 1..n /\ rows'[i].event = "CAPTURE"
    BY <1>1 DEF Captures
  <2>2. CASE i \in 1..Len(rows)
    <3>1. i \in Captures(rows) /\ rows'[i] = rows[i]
      BY <1>1, <2>1, <2>2 DEF Captures
    <3> QED
      BY <3>1 DEF RowsInv, Judged
  <2>3. CASE i = n
    BY <1>1, <2>1, <2>3
  <2> QED
    BY <1>2, <2>1, <2>2, <2>3
<1>5. ASSUME NEW i \in 1..n
      PROVE  /\ rows'[i].attempted \in Nat /\ rows'[i].completed \in Nat
             /\ rows'[i].attempted <= rows'[i].completed /\ rows'[i].completed <= elapsed'
             /\ rows'[i].event # "CAPTURE" => rows'[i].attempted = rows'[i].completed
  <2>1. CASE i \in 1..Len(rows)
    BY <1>1, <1>2, <2>1 DEF RowsInv, Timely
  <2>2. CASE i = n
    BY <1>1, <2>2
  <2> QED
    BY <1>2, <2>1, <2>2
<1>6. ASSUME NEW i \in 1..n, NEW j \in 1..n, i < j
      PROVE  rows'[i].completed <= rows'[j].attempted
  <2>1. i \in 1..Len(rows) /\ rows'[i] = rows[i]
    BY <1>1, <1>3, <1>6
  <2>2. CASE j \in 1..Len(rows)
    BY <1>1, <1>6, <2>1, <2>2 DEF RowsInv, Timely
  <2>3. CASE j = n
    BY <1>1, <2>1, <2>3
  <2> QED
    BY <1>3, <1>6, <2>2, <2>3
<1> QED
  BY <1>1, <1>4, <1>5, <1>6 DEF RowsInv, Judged, Timely

\* An attempt is recorded with the times at which it began and ended.
LEMMA AttemptRows ==
  ASSUME RunInv, RowsInv, Attempt
  PROVE  RowsInv'
<1>1. TypeOK /\ Follows
  BY DEF RunInv
<1>2. elapsed' \in Nat /\ elapsed <= elapsed' /\ elapsed \in Nat
  BY <1>1, AttemptMade DEF TypeOK
<1>3. PICK r, d, attempted, completed : \E delay \in {0, 1} : Records(r, d, delay, attempted, completed)
  BY <1>1, AttemptMade
<1>4. PICK delay \in {0, 1} : Records(r, d, delay, attempted, completed)
  BY <1>3
<1>5. PICK row : row = Row("CAPTURE", r, d, attempted, completed)
  OBVIOUS
<1>6. /\ row.event = "CAPTURE" /\ row.answer = r /\ row.disposition = d
      /\ row.attempted = attempted /\ row.completed = completed
  BY <1>5 DEF Row
<1>7. rows' = Append(rows, row)
  BY <1>4, <1>5 DEF Records, Write
<1>8. /\ attempted \in Nat /\ completed \in Nat
      /\ elapsed <= attempted /\ attempted <= completed /\ completed <= elapsed'
  BY <1>4 DEF Records
<1>9. \A i \in DOMAIN rows : rows[i].completed <= attempted
  BY <1>2, <1>8 DEF RowsInv, Timely
<1>10. DispositionFits(r, d) <=> Coherent(r)
  <2>1. AnswerFits(r, at.strategy)
    BY <1>4 DEF Records
  <2>2. d = Decided(r, delay, completed) \/ (r = Unsaved /\ d = "NEXT_REJECTED_STRATEGY")
    BY <1>4 DEF Records
  <2> QED
    BY <2>1, <2>2, DispositionsFit
<1> QED
  BY <1>1, <1>2, <1>6, <1>7, <1>8, <1>9, <1>10, RowAdded

\* A failed sleep is recorded with the time at which its attempt ended.
LEMMA SleeperFailsRows ==
  ASSUME RunInv, ReportInv, RowsInv, SleeperFails
  PROVE  RowsInv'
<1> DEFINE last == rows[Len(rows)]
<1>1. TypeOK /\ Follows
  BY DEF RunInv
<1>2. PICK row : row = Row("CONTROL", last.answer, "STOP_SLEEPER_FAILURE", last.completed, last.completed)
  OBVIOUS
<1>3. pc = "sleep" /\ rows' = Append(rows, row) /\ elapsed' = elapsed
  BY <1>2 DEF SleeperFails, Write
<1>4. row.event = "CONTROL" /\ row.attempted = last.completed /\ row.completed = last.completed
  BY <1>2 DEF Row
<1>5. Len(rows) \in 1..Len(rows) /\ DOMAIN rows = 1..Len(rows) /\ Len(rows) \in Nat
  <2>1. Len(rows) \in Current
    BY <1>3 DEF ReportInv, Continued
  <2>2. rows \in Seq(Rng(rows))
    BY <1>1 DEF Follows
  <2> QED
    BY <2>1, <2>2, Parts DEF Current
<1>6. /\ last.attempted \in Nat /\ last.completed \in Nat
      /\ last.attempted <= last.completed /\ last.completed <= elapsed /\ elapsed \in Nat
  BY <1>1, <1>5 DEF RowsInv, Timely, TypeOK
<1> HIDE DEF last
<1>7. ASSUME NEW i \in DOMAIN rows PROVE rows[i].completed <= last.completed
  <2>1. rows[i].completed \in Nat
    BY DEF RowsInv, Timely
  <2>2. CASE i = Len(rows)
    BY <1>6, <2>2 DEF last
  <2>3. CASE i < Len(rows)
    <3>1. rows[i].completed <= last.attempted
      BY <1>5, <2>3 DEF RowsInv, Timely, last
    <3> QED
      BY <1>6, <2>1, <3>1
  <2> QED
    BY <1>5, <2>2, <2>3
<1>8. elapsed' \in Nat /\ elapsed <= elapsed' /\ row.completed <= elapsed' /\ row.attempted <= row.completed
  BY <1>3, <1>4, <1>6
<1> QED
  BY <1>1, <1>3, <1>4, <1>6, <1>7, <1>8, RowAdded

\* Every step of the search keeps what is said of the rows.
LEMMA NextRows ==
  ASSUME RunInv, RunInv', ReportInv, RowsInv, [Next]_vars
  PROVE  RowsInv'
<1>1. TypeOK /\ elapsed \in Nat /\ elapsed' \in Nat
  BY DEF RunInv, TypeOK
<1>2. CASE Attempt
  BY <1>2, AttemptRows
<1>3. CASE SleeperFails
  BY <1>3, SleeperFailsRows
<1>4. CASE Sleep
  <2>1. rows' = rows /\ elapsed' = elapsed + at.delay
    BY <1>4 DEF Sleep
  <2>2. at.delay \in {0, 1}
    BY <1>1 DEF TypeOK
  <2>3. elapsed <= elapsed'
    BY <1>1, <2>1, <2>2
  <2> QED
    BY <1>1, <2>1, <2>3, RowsRest
<1>5. CASE ~Attempt /\ ~SleeperFails /\ ~Sleep
  <2>1. rows' = rows /\ elapsed' = elapsed
    BY <1>5 DEF Next, Choose, Fill, BeginRun, BeginWave, BeginSource, EndWave, BudgetStop,
       AppendFails, NextRoute, EndSource, Finish, vars, search
  <2> QED
    BY <1>1, <2>1, RowsRest
<1> QED
  BY <1>2, <1>3, <1>4, <1>5

\* The times are as the validator wants them exactly if no attempt was too slow.
LEMMA TimesFitIs ==
  ASSUME RunInv, RowsInv
  PROVE  TimesFit(rows, elapsed, MaxWall) <=>
           \A i \in Captures(rows) : rows[i].completed <= rows[i].attempted + MaxWall
<1>1. /\ rows \in Seq(Rng(rows)) /\ elapsed \in Nat /\ MaxWall \in Nat
      /\ DOMAIN rows = 1..Len(rows) /\ Len(rows) \in Nat
  BY LimitsAssumption DEF RunInv, Follows, TypeOK
<1>2. \A i \in DOMAIN rows :
       /\ rows[i].attempted \in Nat /\ rows[i].completed \in Nat
       /\ rows[i].attempted <= rows[i].completed /\ rows[i].completed <= elapsed
       /\ rows[i].event # "CAPTURE" => rows[i].attempted = rows[i].completed
  BY DEF RowsInv, Timely
<1>3. \A i, j \in DOMAIN rows : i < j => rows[i].completed <= rows[j].attempted
  BY DEF RowsInv, Timely
<1>4. rows # <<>> => rows[Len(rows)].completed <= rows[1].attempted + elapsed
  <2> SUFFICES ASSUME rows # <<>> PROVE rows[Len(rows)].completed <= rows[1].attempted + elapsed
    OBVIOUS
  <2>1. 1 \in DOMAIN rows /\ Len(rows) \in DOMAIN rows
    BY <1>1
  <2>2. rows[1].attempted \in Nat /\ rows[Len(rows)].completed \in Nat /\ rows[Len(rows)].completed <= elapsed
    BY <1>2, <2>1
  <2> QED
    BY <1>1, <2>2
<1>5. (\A i \in DOMAIN rows : rows[i].completed <= rows[i].attempted + MaxWall) <=>
        \A i \in Captures(rows) : rows[i].completed <= rows[i].attempted + MaxWall
  <2>1. \A i \in DOMAIN rows : i \notin Captures(rows) => rows[i].completed <= rows[i].attempted + MaxWall
    BY <1>1, <1>2 DEF Captures
  <2>2. Captures(rows) \subseteq DOMAIN rows
    BY DEF Captures
  <2> QED
    BY <2>1, <2>2
<1> QED
  BY <1>2, <1>3, <1>4, <1>5 DEF TimesFit

-----------------------------------------------------------------------------
\* The invariants at the end of a run are what the validator asks for, but for
\* answers that contradict themselves and attempts that outlast the run.
LEMMA FromReport ==
  ASSUME PlanInv, RunInv, ReportInv, RowsInv
  PROVE  ReportReconciles
<1> SUFFICES ASSUME pc = "done"
             PROVE  /\ file = rows
                    /\ Reconciles(Report, rows, MaxWall, MaxDomains) <=>
                         \A i \in Captures(rows) :
                           Coherent(rows[i].answer) /\ rows[i].completed <= rows[i].attempted + MaxWall
  BY DEF ReportReconciles
<1>1. /\ TypeOK /\ Follows /\ Counted /\ Within
      /\ LedgerOK /\ SourcesOK /\ WavesOK /\ StopOK /\ StatusOK
  BY DEF RunInv, ReportInv
<1>2. file = rows
  BY <1>1 DEF Counted
<1>3. ~Underway /\ pc # "source"
  BY DEF Underway, Trying
<1>4. /\ Report.status = status /\ Report.waves = waves /\ Report.sources = sources
      /\ Report.advanced = advanced /\ Report.stop = stop /\ Report.elapsed = elapsed
      /\ Report.domains = domains /\ Report.subset = catalog.subset
  BY DEF Report
<1>5. DOMAIN waves = Waves /\ \A w \in Waves : waves[w].ids = Rng(plan[w]) /\ WaveReconciles(Report, rows, w)
  <2>1. Len(waves) = Len(Reserves) /\ waves \in Seq(Rng(waves))
    BY <1>1, WaveTypes DEF WavesOK
  <2>2. DOMAIN waves = Waves
    BY <2>1 DEF Waves
  <2> QED
    BY <1>1, <2>2 DEF WavesOK
<1>6. ASSUME NEW s \in Rng(sources)
      PROVE  /\ SourceOK(s) /\ s.wave \in Waves /\ s.source \in Rng(plan[s.wave]) /\ s.source \in Sources
             /\ s.routes >= 1 /\ s.completed <= s.routes
  <2>1. SourceOK(s)
    BY <1>1 DEF SourcesOK
  <2>2. s.wave \in Waves /\ s.source \in Rng(plan[s.wave]) /\ s.source \in Sources
    BY <1>1, ReportedPlanned
  <2>3. s.routes \in Nat /\ s.routes > 0 /\ s.completed <= s.routes
    BY <2>1 DEF SourceOK
  <2> QED
    BY <2>1, <2>2, <2>3
<1>7. WellShaped(Report, MaxDomains)
  <2>1. ASSUME NEW w \in Waves, NEW v \in Waves, w # v PROVE waves[w].ids \cap waves[v].ids = {}
    <3>1. \A x \in Waves : \A s \in Rng(plan[x]) : catalog.wave[s] = x
      BY DEF PlanInv, PlanOnce, Rng
    <3> QED
      BY <1>5, <2>1, <3>1
  <2>2. ASSUME NEW w \in Waves PROVE waves[w].degraded \subseteq waves[w].ids
    <3> DEFINE reported == {s \in Rng(sources) : s.wave = w}
               ids == {s.source : s \in reported}
               failed == {s.source : s \in {t \in reported : t.status \notin Complete}}
    <3>1. failed \subseteq ids
      OBVIOUS
    <3>2. /\ w \notin Stopped(Report) => ids = waves[w].ids /\ waves[w].degraded = failed
          /\ w \in Stopped(Report) /\ w - 1 \notin Stopped(Report) =>
               ids \subseteq waves[w].ids /\ waves[w].degraded = failed
          /\ w \in Stopped(Report) /\ w - 1 \in Stopped(Report) => waves[w].degraded = waves[w].ids
      BY <1>4, <1>5 DEF WaveReconciles
    <3> HIDE DEF ids, failed
    <3> QED
      BY <3>1, <3>2
  <2>3. \A s \in Rng(sources) :
          s.wave \in Waves /\ s.source \in waves[s.wave].ids /\ s.routes >= 1 /\ s.completed <= s.routes
    BY <1>5, <1>6
  <2>4. \A i, j \in DOMAIN sources : i # j => sources[i].source # sources[j].source
    BY <1>1 DEF SourcesOK
  <2>5. Cardinality(domains) <= MaxDomains
    BY <1>1 DEF Within
  <2> QED
    BY <1>4, <1>5, <2>1, <2>2, <2>3, <2>4, <2>5 DEF WellShaped
<1>8. ASSUME NEW i \in DOMAIN rows
      PROVE  \E s \in Rng(sources) : s.source = rows[i].source /\ s.wave = rows[i].wave
  <2>1. PICK s \in Rng(sources) : s.source = rows[i].source
    BY <1>1, <1>3 DEF SourcesOK, Told
  <2>2. rows[i].wave = catalog.wave[rows[i].source]
    BY <1>1 DEF Follows, Behind
  <2>3. s.wave = catalog.wave[s.source]
    BY <1>6 DEF SourceOK
  <2> QED
    BY <2>1, <2>2, <2>3
<1>9. StopReconciles(Report, MaxWall)
  <2> DEFINE cut == {s \in Rng(sources) : s.cut}
  <2>1. \A w, v \in DOMAIN waves : w \in Stopped(Report) /\ w < v => v \in Stopped(Report)
    BY <1>1 DEF StopOK
  <2>2. IF Stopped(Report) # {} THEN stop # "NONE" /\ \E c \in cut : cut = {c}
        ELSE cut = {} /\ (stop # "NONE" => stop = "WALL" /\ elapsed >= MaxWall)
    BY <1>1 DEF StopOK
  <2>3. (\E c \in cut : cut = {c}) => Cardinality(cut) = 1
    BY FS_Singleton
  <2> QED
    BY <1>4, <2>1, <2>2, <2>3 DEF StopReconciles
<1>10. ASSUME NEW s \in Rng(sources)
       PROVE  /\ s.attempts = Cardinality(OfSource(rows, s.source) \cap Captures(rows))
              /\ \A k \in RoutesOf(rows, s.source) : RouteOrdered(rows, Net(rows, s.source, k))
              /\ IF s.cut THEN CutReconciles(s, rows) ELSE SourceReconciles(s, rows)
  <2>1. ASSUME NEW k \in RoutesOf(rows, s.source) PROVE RouteOrdered(rows, Net(rows, s.source, k))
    <3>1. PICK i \in DOMAIN rows : rows[i].source = s.source /\ rows[i].route = k
      BY DEF RoutesOf, OfSource
    <3> QED
      BY <1>1, <3>1 DEF LedgerOK
  <2> QED
    BY <1>6, <2>1 DEF SourceOK
<1>11. RowsInOrder(rows) /\ domains = {rows[i].domain : i \in Captures(rows)}
       /\ advanced = {s.source : s \in {t \in Rng(sources) : t.after = "decision"}}
  BY <1>1 DEF LedgerOK, SourcesOK
<1>12. status =
         IF /\ sources # <<>> /\ stop = "NONE"
            /\ \A s \in Rng(sources) : s.status \in Complete
            /\ catalog.subset \/ Cardinality(domains) >= MaxDomains
         THEN "COMPLETE"
         ELSE IF sources # <<>> /\ rows # <<>> THEN "DEGRADED" ELSE "FAILED"
  BY <1>1 DEF StatusOK
<1>13. Reconciles(Report, rows, MaxWall, MaxDomains) <=>
         AnswersFit(rows) /\ TimesFit(rows, elapsed, MaxWall)
  BY <1>4, <1>5, <1>7, <1>8, <1>9, <1>10, <1>11, <1>12 DEF Reconciles
<1>14. AnswersFit(rows) <=> \A i \in Captures(rows) : Coherent(rows[i].answer)
  BY DEF AnswersFit, RowsInv, Judged
<1>15. TimesFit(rows, elapsed, MaxWall) <=>
         \A i \in Captures(rows) : rows[i].completed <= rows[i].attempted + MaxWall
  BY TimesFitIs
<1> QED
  BY <1>2, <1>13, <1>14, <1>15

-----------------------------------------------------------------------------
(* The publication of the bundle. *)

Facts == INSTANCE AtomicOutput_proof

\* Nothing is published at first.
LEMMA StartsEmpty == BundleInit => Facts!Init
BY DEF BundleInit, Output!Init, Output!Directories, Output!Absent,
       Facts!Init, Facts!Directories, Facts!Absent

\* The definitions of the two instances are the same.
LEMMA SameSteps ==
  /\ \A c \in Calls : Output!Enter(c) => Facts!Enter(c)
  /\ \A c \in Calls : Output!Step(c) => Facts!Step(c)
  /\ Output!Disturb => Facts!Disturb
<1>1. ASSUME NEW c \in Calls, Output!Enter(c) PROVE Facts!Enter(c)
  BY <1>1 DEF Output!Enter, Output!Absent, Facts!Enter, Facts!Absent
<1>2. ASSUME NEW c \in Calls, Output!Step(c) PROVE Facts!Step(c)
  <2>1. Output!MakeStaging(c) => Facts!MakeStaging(c)
    BY DEF Output!MakeStaging, Output!Goes, Output!Unmoved, Output!NameFree, Output!Absent,
           Facts!MakeStaging, Facts!Goes, Facts!Unmoved, Facts!NameFree, Facts!Absent
  <2>2. Output!WriteFile(c) => Facts!WriteFile(c)
    BY DEF Output!WriteFile, Output!Goes, Output!Unmoved,
           Facts!WriteFile, Facts!Goes, Facts!Unmoved
  <2>3. Output!Recheck(c) => Facts!Recheck(c)
    BY DEF Output!Recheck, Output!Goes, Output!Unmoved, Output!NameFree, Output!Absent,
           Facts!Recheck, Facts!Goes, Facts!Unmoved, Facts!NameFree, Facts!Absent
  <2>4. Output!Rename(c) => Facts!Rename(c)
    BY DEF Output!Rename, Output!RenameSucceeds, Output!Goes, Output!NameFree, Output!Absent, Output!Entry,
           Facts!Rename, Facts!RenameSucceeds, Facts!Goes, Facts!NameFree, Facts!Absent, Facts!Entry
  <2>5. Output!Return(c) => Facts!Return(c)
    BY DEF Output!Return, Output!Goes,
           Facts!Return, Facts!Goes
  <2>6. Output!CleanUp(c) => Facts!CleanUp(c)
    BY DEF Output!CleanUp, Output!Goes, Output!InReach,
           Facts!CleanUp, Facts!Goes, Facts!InReach
  <2> QED
    BY <1>2, <2>1, <2>2, <2>3, <2>4, <2>5, <2>6 DEF Output!Step, Facts!Step
<1>3. ASSUME Output!Disturb PROVE Facts!Disturb
  <2>1. ASSUME NEW c \in Calls, Output!Interrupt(c) PROVE Facts!Interrupt(c)
    BY <2>1 DEF Output!Interrupt, Output!Mishap, Output!InTry,
         Facts!Interrupt, Facts!Mishap, Facts!InTry
  <2>2. ASSUME NEW c \in Calls, Output!Die(c) PROVE Facts!Die(c)
    BY <2>2 DEF Output!Die, Output!Mishap, Output!InTry, Output!Goes,
         Facts!Die, Facts!Mishap, Facts!InTry, Facts!Goes
  <2>3. ASSUME NEW c \in Calls, Output!RemoveStaging(c) PROVE Facts!RemoveStaging(c)
    BY <2>3 DEF Output!RemoveStaging, Output!Mishap, Facts!RemoveStaging, Facts!Mishap
  <2>4. Output!MoveParent => Facts!MoveParent
    BY DEF Output!MoveParent, Output!Mishap, Facts!MoveParent, Facts!Mishap
  <2>5. Output!TakeName => Facts!TakeName
    BY DEF Output!TakeName, Output!Mishap, Output!Absent, Output!Entry,
           Facts!TakeName, Facts!Mishap, Facts!Absent, Facts!Entry
  <2> QED
    BY <1>3, <2>1, <2>2, <2>3, <2>4, <2>5 DEF Output!Disturb, Facts!Disturb
<1> QED
  BY <1>1, <1>2, <1>3

\* A step of the bundle is a step of the output or leaves it alone.
LEMMA PublicationSteps == [BundleNext]_<<vars, publication>> => [Facts!Next]_Facts!vars
<1> SUFFICES ASSUME [BundleNext]_<<vars, publication>> PROVE [Facts!Next]_Facts!vars
  OBVIOUS
<1>1. CASE UNCHANGED publication
  BY <1>1 DEF publication, Facts!vars
<1>2. CASE Publish
  BY <1>2, SameSteps DEF Publish, Facts!Next
<1>3. CASE Disturbed
  BY <1>3, SameSteps DEF Disturbed, Facts!Next
<1> QED
  BY <1>1, <1>2, <1>3 DEF BundleNext

\* The invariant of AtomicOutput_proof holds at first.
LEMMA OutputAtFirst == BundleInit => Facts!IInv
BY StartsEmpty, Facts!InitIInv, CallsAssumption, BoundsAssumption
   DEF Facts!CallsAssumption, Facts!BoundsAssumption

\* Every step of the composition keeps it, those of the search included.
LEMMA OutputPreserved == Facts!IInv /\ [BundleNext]_<<vars, publication>> => Facts!IInv'
BY PublicationSteps, Facts!NextIInv, CallsAssumption, BoundsAssumption
   DEF Facts!CallsAssumption, Facts!BoundsAssumption

\* It holds of the publication, whatever the search does meanwhile.
THEOREM OutputInvariance == BundleSpec => []Facts!IInv
BY OutputAtFirst, OutputPreserved, PTL DEF BundleSpec

\* A call of the integration that returned has published its bundle; one that
\* raised has left nothing staged, and has published only if it was interrupted.
THEOREM BundleAnswers == BundleSpec => []AnswersAreTrue
<1>1. Facts!IInv => AnswersAreTrue
  BY DEF Facts!IInv, Facts!CallInv, Facts!Published, Facts!Directories,
         AnswersAreTrue, Output!AnswersAreTrue, Output!Directories
<1> QED
  BY <1>1, OutputInvariance, PTL

\* No bundle is replaced, by the other call or by anyone, and none is in parts.
THEOREM BundleIsFinal == BundleSpec => PublishedIsFinal
<1>1. BundleSpec => Facts!Spec
  BY StartsEmpty, PublicationSteps, PTL DEF BundleSpec, Facts!Spec
<1>2. Facts!Spec => Facts!PublishedIsFinal
  BY Facts!FinalOutput, CallsAssumption, BoundsAssumption
     DEF Facts!CallsAssumption, Facts!BoundsAssumption
<1>3. Facts!PublishedIsFinal => PublishedIsFinal
  BY DEF PublishedIsFinal, Output!PublishedIsFinal, Output!Directories, Output!Absent,
         Output!vars, Facts!PublishedIsFinal, Facts!Directories, Facts!Absent, Facts!vars
<1> QED
  BY <1>1, <1>2, <1>3

-----------------------------------------------------------------------------
(* The search of the bundle. *)

\* A step of the bundle is a step of the search or leaves it alone.
LEMMA SearchSteps == [BundleNext]_<<vars, publication>> => [Next]_vars
BY DEF BundleNext, Publish, Disturbed

SearchInv == PlanInv /\ RunInv /\ ReportInv /\ RowsInv

\* The invariants of the plan, of the run, of its report and of its rows hold at
\* first and stay.
THEOREM SearchInvariance == BundleSpec => []SearchInv
<1>1. BundleInit => SearchInv
  BY InitPlan, InitRun, InitReport, InitRows DEF BundleInit, PlanInv, SearchInv
<1>2. SearchInv /\ [BundleNext]_<<vars, publication>> => SearchInv'
  <2> SUFFICES ASSUME SearchInv, [BundleNext]_<<vars, publication>> PROVE SearchInv'
    OBVIOUS
  <2>1. [Next]_vars
    BY SearchSteps
  <2>2. PlanInv'
    BY <2>1, NextPlan DEF PlanInv, SearchInv
  <2>3. RunInv'
    BY <2>1, <2>2, NextRuns DEF SearchInv
  <2>4. ReportInv'
    BY <2>1, <2>2, <2>3, NextReports DEF SearchInv
  <2>5. RowsInv'
    BY <2>1, <2>3, NextRows DEF SearchInv
  <2> QED
    BY <2>2, <2>3, <2>4, <2>5 DEF SearchInv
<1> QED
  BY <1>1, <1>2, PTL DEF BundleSpec

\* The plan stays within the cap on domains, leaves out no source that would
\* fit, and no wave loses a source before its reserve is used: for any waves,
\* reserves, catalogs and limits.
THEOREM BundleKeepsReserves == BundleSpec => []PlanKeepsReserves
<1>1. SearchInv => PlanKeepsReserves
  BY PlanKept DEF SearchInv
<1> QED
  BY <1>1, SearchInvariance, PTL

\* No row follows one of the same source that opened its circuit, no attempt is
\* made twice, and requests and domains stay within their limits.
THEOREM BundleFailsOver == BundleSpec => []SourcesFailOver
<1>1. SearchInv => SourcesFailOver
  BY FromRun DEF SearchInv
<1> QED
  BY <1>1, SearchInvariance, PTL

\* A run that ends has written every row to its ledger, and the validator
\* (validate_source_search_run) accepts the report that it returns - waves,
\* sources, routes, zero results, stops and status recomputed from that ledger -
\* exactly if every answer recorded agrees with itself and no attempt took longer
\* than the run may: for any waves, reserves, catalogs, limits and connectors.
THEOREM BundleReconciles == BundleSpec => []ReportReconciles
<1>1. SearchInv => ReportReconciles
  BY FromReport DEF SearchInv
<1> QED
  BY <1>1, SearchInvariance, PTL

\* Search and publication stay in their types, and the rows within their bound.
THEOREM BundleTypes == BundleSpec => []BundleTypeOK
<1>1. SearchInv /\ Facts!IInv => BundleTypeOK
  BY FromRun DEF SearchInv, BundleTypeOK, Output!TypeOK, Output!Entries, Output!Absent, Output!Entry, Output!CallStates,
       Output!InTry, Output!Ended, Output!Directories,
       Facts!IInv, Facts!TypeOK, Facts!Entries, Facts!Absent, Facts!Entry, Facts!CallStates, Facts!InTry, Facts!Ended,
       Facts!Directories
<1> QED
  BY <1>1, SearchInvariance, OutputInvariance, PTL

=============================================================================
