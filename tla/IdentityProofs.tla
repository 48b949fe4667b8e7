--------------------------- MODULE IdentityProofs ---------------------------
(***************************************************************************)
(* The walks of validate_chain and the reading of the console keys, for    *)
(* every list of certificates and every root.                              *)
(*                                                                         *)
(* A walk is a path through the listed certificates, which is determined   *)
(* by where it starts.  It ends at the root or is refused, and that is the *)
(* same as being in, or not in, the layers of certificates that Trusted    *)
(* is made of.  The invariant accounts for each listed certificate: it is  *)
(* in the map, refused, under way or still in the queue.                   *)
(***************************************************************************)
EXTENDS Identity, SequenceFacts, WellFoundedInduction

Kept(class) == class \in findings

-----------------------------------------------------------------------------
(* The walk up from a certificate, as a path: p[i] is the certificate that *)
(* validate_chain looks at after i issuers.                                *)

At(leaf, p, i) == [leaf |-> leaf, current |-> p[i], hops |-> i]

Path(leaf, p, n) ==
    /\ leaf \in ListedCerts /\ Startable(leaf)
    /\ p[0] = leaf
    /\ \A i \in 0..(n - 1) : /\ Climbs(At(leaf, p, i))
                             /\ p[i + 1] = Get(Found(At(leaf, p, i)))

PathValidates(leaf) == \E n \in Nat : \E p : Path(leaf, p, n) /\ Reaches(At(leaf, p, n))

PathFails(leaf) ==
    \E n \in Nat : \E p : /\ Path(leaf, p, n)
                          /\ ~Reaches(At(leaf, p, n)) /\ ~Climbs(At(leaf, p, n))

\* The certificate is refused before or on its way.
Refused(c) == c \in ListedCerts /\ (~Startable(c) \/ PathFails(c))

\* A nonempty set of natural numbers has a least element.
LEMMA LeastNat ==
    ASSUME NEW T \in SUBSET Nat, T # {}
    PROVE  \E x \in T : \A y \in T : x <= y
  <1>1. PICK x \in T : \A y \in T : ~(<<y, x>> \in OpToRel(<, Nat))
    BY NatLessThanWellFounded, WFMin, Zenon
  <1>2. \A y \in T : ~(y < x)
    BY <1>1, Zenon DEF OpToRel
  <1> QED
    BY <1>2

\* What Min gives is the least number of the set.
LEMMA MinLeast ==
    ASSUME NEW S \in SUBSET Nat, S # {}
    PROVE  Min(S) \in S /\ \A x \in S : Min(S) <= x
  BY LeastNat, Zenon DEF Min

\* The issuer that was found is listed, and has the name or cannot be read.
LEMMA FoundListed ==
    ASSUME NEW w, Found(w) # None, Listed \in Seq(ListedCerts)
    PROVE  /\ Get(Found(w)) \in ListedCerts
           /\ Get(Found(w)) # w.leaf
           /\ ~Readable(Get(Found(w))) \/ Get(Found(w)).subject = w.current.issuer
  <1>1. Hits(w) # {} /\ Found(w) = Some(Listed[Min(Hits(w))])
    BY DEF Found
  <1>2. Hits(w) \in SUBSET Nat
    BY DEF Hits, Pool
  <1>3. Min(Hits(w)) \in Hits(w)
    BY <1>1, <1>2, MinLeast
  <1>4. Get(Found(w)) = Listed[Min(Hits(w))]
    BY <1>1 DEF Get, Some
  <1> QED
    BY <1>3, <1>4, Zenon DEF Hits, Pool, ListedCerts

\* All certificates on a path are listed and valid at the time of verification.
LEMMA PathValid ==
    ASSUME NEW leaf, NEW p, NEW n \in Nat, Path(leaf, p, n), Listed \in Seq(ListedCerts)
    PROVE  \A k \in 0..n : p[k] \in ListedCerts /\ Startable(p[k])
  <1> DEFINE Bad == {k \in 0..n : ~(p[k] \in ListedCerts /\ Startable(p[k]))}
  <1> SUFFICES ASSUME Bad # {} PROVE FALSE
    OBVIOUS
  <1>0. Bad \in SUBSET Nat
    OBVIOUS
  <1>1. PICK k \in Bad : \A j \in Bad : k <= j
    <2> HIDE DEF Bad
    <2> QED BY <1>0, LeastNat
  <1>2. k # 0
    BY <1>1 DEF Path
  <1>3. PICK i \in 0..(n - 1) : i + 1 = k
    BY <1>1, <1>2
  <1>4. Startable(p[i])
    BY <1>1, <1>3
  <1>5. Climbs(At(leaf, p, i)) /\ p[k] = Get(Found(At(leaf, p, i)))
    BY <1>3 DEF Path
  <1>6. Found(At(leaf, p, i)) # None /\ Issues(p[k], At(leaf, p, i).current)
    BY <1>5 DEF Climbs
  <1>7. p[k] \in ListedCerts
    BY <1>5, <1>6, FoundListed
  <1>8. Startable(p[k])
    BY <1>4, <1>6 DEF Startable, Issues
  <1> QED
    BY <1>1, <1>7, <1>8

\* The walk is deterministic: two paths from the same certificate agree.
LEMMA PathsAgree ==
    ASSUME NEW leaf, NEW p, NEW n \in Nat, Path(leaf, p, n),
           NEW q, NEW m \in Nat, Path(leaf, q, m)
    PROVE  \A k \in Nat : k <= n /\ k <= m => p[k] = q[k]
  <1> DEFINE Bad == {k \in Nat : k <= n /\ k <= m /\ p[k] # q[k]}
  <1> SUFFICES ASSUME Bad # {} PROVE FALSE
    OBVIOUS
  <1>1. PICK k \in Bad : \A j \in Bad : k <= j
    BY LeastNat, Zenon
  <1>2. k # 0
    BY <1>1 DEF Path
  <1>3. PICK i \in Nat : i + 1 = k
    BY <1>1, <1>2
  <1>4. p[i] = q[i]
    BY <1>1, <1>3
  <1>5. p[k] = Get(Found(At(leaf, p, i))) /\ q[k] = Get(Found(At(leaf, q, i)))
    BY <1>1, <1>3 DEF Path
  <1>6. At(leaf, p, i) = At(leaf, q, i)
    BY <1>4 DEF At
  <1> QED
    BY <1>1, <1>5, <1>6

\* So no certificate is both validated and refused.
LEMMA OneOutcome ==
    ASSUME NEW c, PathValidates(c), Refused(c)
    PROVE  FALSE
  <1>1. PICK n \in Nat : \E p : Path(c, p, n) /\ Reaches(At(c, p, n))
    BY DEF PathValidates
  <1>2. PICK p : Path(c, p, n) /\ Reaches(At(c, p, n))
    BY <1>1
  <1>3. PICK m \in Nat : \E q : /\ Path(c, q, m)
                                /\ ~Reaches(At(c, q, m)) /\ ~Climbs(At(c, q, m))
    BY <1>2 DEF Refused, PathFails, Path
  <1>4. PICK q : Path(c, q, m) /\ ~Reaches(At(c, q, m)) /\ ~Climbs(At(c, q, m))
    BY <1>3
  <1>5. ~Climbs(At(c, p, n))
    BY <1>2 DEF Reaches, Climbs
  <1>6. CASE n = m
    <2>1. p[n] = q[m]
      BY <1>2, <1>4, <1>6, PathsAgree
    <2> QED
      BY <1>2, <1>4, <1>6, <2>1 DEF At
  <1>7. CASE n < m
    <2>1. p[n] = q[n]
      BY <1>2, <1>4, <1>7, PathsAgree
    <2>2. Climbs(At(c, q, n))
      BY <1>4, <1>7 DEF Path
    <2> QED
      BY <1>5, <2>1, <2>2 DEF At
  <1>8. CASE m < n
    <2>1. p[m] = q[m]
      BY <1>2, <1>4, <1>8, PathsAgree
    <2>2. Climbs(At(c, p, m))
      BY <1>2, <1>8 DEF Path
    <2> QED
      BY <1>4, <2>1, <2>2 DEF At
  <1> QED
    BY <1>6, <1>7, <1>8

\* TrustedWithin is what its recursive definition says, layer by layer.
LEMMA TrustedLayers ==
    /\ TrustedWithin[0] = {}
    /\ \A n \in 1..MAX_HOPS : TrustedWithin[n] = IssuedBy(TrustedWithin[n - 1])
  <1> DEFINE Layers(m, f) ==
        f = [n \in 0..m |-> IF n = 0 THEN {} ELSE IssuedBy(f[n - 1])]
  <1>1. \A m \in Nat : \E f : Layers(m, f)
    <2> DEFINE Bad == {m \in Nat : ~\E f : Layers(m, f)}
    <2> SUFFICES ASSUME Bad # {} PROVE FALSE
      BY Zenon
    <2>0. Bad \in SUBSET Nat
      OBVIOUS
    <2>1. PICK m \in Bad : \A j \in Bad : m <= j
      <3> HIDE DEF Bad
      <3> QED BY <2>0, LeastNat
    <2>2. m # 0
      <3>1. Layers(0, [n \in 0..0 |-> {}])
        OBVIOUS
      <3> QED
        BY <2>1, <3>1, Zenon
    <2>3. PICK k \in Nat : k + 1 = m
      BY <2>1, <2>2
    <2>a. k \notin Bad
      <3> HIDE DEF Bad
      <3> QED BY <2>0, <2>1, <2>3
    <2>4. PICK f : Layers(k, f)
      <3> HIDE DEF Layers
      <3> QED BY <2>a
    <2> DEFINE g == [n \in 0..m |-> IF n <= k THEN f[n] ELSE IssuedBy(f[k])]
    <2>5. Layers(m, g)
      <3>1. \A n \in 0..k : g[n] = f[n]
        BY <2>3
      <3>2. \A n \in 0..m : g[n] = IF n = 0 THEN {} ELSE IssuedBy(g[n - 1])
        <4> TAKE n \in 0..m
        <4>1. CASE n <= k
          <5>1. g[n] = f[n] /\ n \in 0..k
            BY <3>1, <4>1
          <5>2. f[n] = IF n = 0 THEN {} ELSE IssuedBy(f[n - 1])
            BY <2>4, <5>1, Zenon
          <5>3. n # 0 => g[n - 1] = f[n - 1]
            BY <3>1, <5>1
          <5> HIDE DEF g
          <5> QED
            BY <5>1, <5>2, <5>3
        <4>2. CASE ~(n <= k)
          <5>1. n = k + 1 /\ n # 0 /\ n - 1 = k
            BY <2>3, <4>2
          <5>2. g[n] = IssuedBy(f[k]) /\ g[k] = f[k]
            BY <3>1, <4>2
          <5> HIDE DEF g
          <5> QED
            BY <5>1, <5>2
        <4> QED
          BY <4>1, <4>2
      <3>3. g = [n \in 0..m |-> g[n]]
        OBVIOUS
      <3> HIDE DEF g
      <3> QED
        BY <3>2, <3>3, Zenon
    <2> QED
      BY <2>1, <2>5, Zenon
  <1>2. MAX_HOPS \in Nat
    BY DEF MAX_HOPS
  <1>3. \E f : Layers(MAX_HOPS, f)
    <2> HIDE DEF Layers
    <2> QED BY <1>1, <1>2
  <1>4. Layers(MAX_HOPS, TrustedWithin)
    BY <1>3, Zenon DEF TrustedWithin
  <1>5. \A n \in 0..MAX_HOPS :
           TrustedWithin[n] = IF n = 0 THEN {} ELSE IssuedBy(TrustedWithin[n - 1])
    <2> DEFINE T == TrustedWithin
    <2>1. T = [n \in 0..MAX_HOPS |-> IF n = 0 THEN {} ELSE IssuedBy(T[n - 1])]
      BY <1>4, Zenon
    <2> HIDE DEF T
    <2>2. \A n \in 0..MAX_HOPS : T[n] = IF n = 0 THEN {} ELSE IssuedBy(T[n - 1])
      BY <2>1, Zenon
    <2> QED
      BY <2>2 DEF T
  <1> QED
    BY <1>2, <1>5
\* A longer chain is allowed wherever a shorter one is.
LEMMA TrustedMonotone ==
    ASSUME NEW m \in 0..MAX_HOPS, NEW n \in 0..MAX_HOPS, m <= n
    PROVE  TrustedWithin[m] \subseteq TrustedWithin[n]
  <1> DEFINE Bad == {k \in Nat : k < MAX_HOPS /\ ~(TrustedWithin[k] \subseteq TrustedWithin[k + 1])}
  <1>0. MAX_HOPS \in Nat
    BY DEF MAX_HOPS
  <1>1. Bad = {}
    <2> SUFFICES ASSUME Bad # {} PROVE FALSE
      OBVIOUS
    <2>0. Bad \in SUBSET Nat
      OBVIOUS
    <2>1. PICK k \in Bad : \A j \in Bad : k <= j
      <3> HIDE DEF Bad
      <3> QED BY <2>0, LeastNat
    <2>2. k # 0
      BY <2>1, TrustedLayers
    <2>3. PICK i \in Nat : i + 1 = k
      BY <2>1, <2>2
    <2>4. i < MAX_HOPS /\ i \notin Bad
      BY <1>0, <2>1, <2>3
    <2>5. TrustedWithin[i] \subseteq TrustedWithin[k]
      BY <2>3, <2>4
    <2>6. /\ TrustedWithin[k] = IssuedBy(TrustedWithin[i])
          /\ TrustedWithin[k + 1] = IssuedBy(TrustedWithin[k])
      <3>1. k \in 1..MAX_HOPS /\ k + 1 \in 1..MAX_HOPS /\ k - 1 = i /\ (k + 1) - 1 = k
        BY <1>0, <2>1, <2>3
      <3> QED
        BY <3>1, TrustedLayers
    <2>7. \A S, T : S \subseteq T => IssuedBy(S) \subseteq IssuedBy(T)
      BY DEF IssuedBy, IsIssuer
    <2> QED
      BY <2>1, <2>5, <2>6, <2>7
  <1> DEFINE Beyond == {k \in Nat : m <= k /\ k <= MAX_HOPS
                                    /\ ~(TrustedWithin[m] \subseteq TrustedWithin[k])}
  <1>2. Beyond = {}
    <2> SUFFICES ASSUME Beyond # {} PROVE FALSE
      OBVIOUS
    <2>0. Beyond \in SUBSET Nat
      OBVIOUS
    <2>1. PICK k \in Beyond : \A j \in Beyond : k <= j
      <3> HIDE DEF Beyond
      <3> QED BY <2>0, LeastNat
    <2>2. k # m
      BY <2>1
    <2>3. PICK i \in Nat : i + 1 = k /\ m <= i
      BY <2>1, <2>2
    <2>4. i < MAX_HOPS /\ i \notin Beyond
      BY <1>0, <2>1, <2>3
    <2>5. TrustedWithin[m] \subseteq TrustedWithin[i]
      BY <1>0, <2>3, <2>4
    <2>6. TrustedWithin[i] \subseteq TrustedWithin[k]
      BY <1>1, <2>3, <2>4
    <2> QED
      BY <2>1, <2>5, <2>6
  <1> QED
    BY <1>0, <1>2

\* A certificate whose path ends at the root has a chain of trust.
LEMMA ValidatedTrusted ==
    ASSUME NEW c, PathValidates(c), Listed \in Seq(ListedCerts),
           root_pems # <<>>, PemParses(Listed)
    PROVE  c \in Trusted
  <1>1. PICK n \in Nat : \E p : Path(c, p, n) /\ Reaches(At(c, p, n))
    BY DEF PathValidates
  <1>2. PICK p : Path(c, p, n) /\ Reaches(At(c, p, n))
    BY <1>1
  <1>3. \A k \in 0..n : p[k] \in ListedCerts /\ Startable(p[k])
    BY <1>2, PathValid
  <1>4. MAX_HOPS \in Nat /\ n + 1 <= MAX_HOPS
    BY <1>2 DEF Reaches, Deeper, At, MAX_HOPS
  <1>5. p[n].issuer = Root.subject /\ p[n].signer = Root.key /\ Root.is_ca /\ HasKey(c)
    BY <1>2 DEF Reaches, AtRoot, RootSigned, At
  <1> DEFINE Bad == {j \in Nat : j <= n /\ p[n - j] \notin TrustedWithin[j + 1]}
  <1>6. Bad = {}
    <2> SUFFICES ASSUME Bad # {} PROVE FALSE
      OBVIOUS
    <2>0. Bad \in SUBSET Nat
      OBVIOUS
    <2>1. PICK j \in Bad : \A i \in Bad : j <= i
      <3> HIDE DEF Bad
      <3> QED BY <2>0, LeastNat
    <2>2. p[n - j] \in ListedCerts /\ Startable(p[n - j])
      BY <1>3, <2>1
    <2>3. TrustedWithin[j + 1] = IssuedBy(TrustedWithin[j])
      <3>1. j + 1 \in 1..MAX_HOPS /\ (j + 1) - 1 = j
        BY <1>4, <2>1
      <3> QED
        BY <3>1, TrustedLayers
    <2>4. CASE j = 0
      <3>1. n - j = n
        BY <2>4
      <3>2. p[n - j] \in IssuedBy(TrustedWithin[j])
        BY <1>5, <2>2, <3>1 DEF IssuedBy, IsIssuer
      <3> QED
        BY <2>1, <2>3, <3>2
    <2>5. CASE j # 0
      <3>1. PICK i \in Nat : i + 1 = j
        BY <2>1, <2>5
      <3>2. i \notin Bad /\ i <= n
        BY <2>1, <3>1
      <3>3. p[n - i] \in TrustedWithin[j]
        BY <3>1, <3>2
      <3>4. PICK k \in 0..(n - 1) : k = n - j /\ k + 1 = n - i
        BY <2>1, <3>1
      <3>5. Climbs(At(c, p, k)) /\ p[n - i] = Get(Found(At(c, p, k)))
        BY <1>2, <3>4, SMTT(30) DEF Path
      <3>6. Found(At(c, p, k)) # None /\ Issues(p[n - i], p[k])
        BY <3>5 DEF Climbs, At
      <3>7. p[n - i].subject = p[k].issuer
        BY <3>5, <3>6, FoundListed DEF Issues, At
      <3>8. p[k] \in IssuedBy(TrustedWithin[j])
        BY <2>2, <3>3, <3>4, <3>6, <3>7, Zenon DEF IssuedBy, IsIssuer, Issues
      <3> QED
        BY <2>1, <2>3, <3>4, <3>8
    <2> QED
      BY <2>4, <2>5
  <1>7. p[0] \in TrustedWithin[n + 1]
    <2>1. n \notin Bad
      BY <1>6, Zenon
    <2>2. n - n = 0
      OBVIOUS
    <2> QED
      BY <2>1, <2>2
  <1>8. c \in TrustedWithin[MAX_HOPS]
    <2>1. n + 1 \in 0..MAX_HOPS /\ MAX_HOPS \in 0..MAX_HOPS /\ n + 1 <= MAX_HOPS
      BY <1>4
    <2>2. TrustedWithin[n + 1] \subseteq TrustedWithin[MAX_HOPS]
      BY <2>1, TrustedMonotone
    <2> QED
      BY <1>2, <1>7, <2>2 DEF Path
  <1> QED
    BY <1>5, <1>8 DEF Trusted
\* When names are unique, the issuer of a certificate that is trusted within n
\* signatures is the root, or the one the walk finds: it is trusted within n - 1.
LEMMA IssuerFound ==
    ASSUME Unambiguous, Listed \in Seq(ListedCerts),
           NEW leaf, NEW cert, NEW hops,
           NEW n \in 1..MAX_HOPS, cert \in TrustedWithin[n], leaf \notin TrustedWithin[n - 1]
    PROVE  LET w == [leaf |-> leaf, current |-> cert, hops |-> hops]
           IN  \/ AtRoot(w) /\ RootSigned(w)
               \/ /\ ~AtRoot(w)
                  /\ Found(w) # None
                  /\ Get(Found(w)) \in TrustedWithin[n - 1]
                  /\ Issues(Get(Found(w)), cert)
  <1> DEFINE w == [leaf |-> leaf, current |-> cert, hops |-> hops]
  <1>1. cert \in IssuedBy(TrustedWithin[n - 1])
    BY TrustedLayers
  <1>2. Startable(cert) /\ RootsParse
    BY <1>1 DEF IssuedBy, IsIssuer, Startable
  <1>3. PICK ca \in TrustedWithin[n - 1] \cup {Root} :
           ca.subject = cert.issuer /\ ca.key = cert.signer /\ ca.is_ca
    BY <1>1 DEF IssuedBy, IsIssuer
  <1>4. ca = Root \/ (ca \in ListedCerts /\ Startable(ca))
    <2>1. CASE ca \in TrustedWithin[n - 1]
      <3>1. n - 1 \in 1..MAX_HOPS \/ n - 1 = 0
        BY DEF MAX_HOPS
      <3>2. n - 1 # 0
        BY <2>1, TrustedLayers
      <3>3. TrustedWithin[n - 1] = IssuedBy(TrustedWithin[n - 1 - 1])
        BY <3>1, <3>2, TrustedLayers
      <3> QED
        BY <2>1, <3>3 DEF IssuedBy, IsIssuer
    <2> QED
      BY <1>3, <2>1
  <1>5. /\ \A c \in ListedCerts \cup {Root} : Readable(c)
        /\ \A c, d \in ListedCerts \cup {Root} : c.subject = d.subject => c = d
    BY <1>2 DEF Unambiguous
  <1>6. CASE AtRoot(w)
    <2>1. cert.issuer = Root.subject
      BY <1>6 DEF AtRoot
    <2>2. ca = Root
      BY <1>3, <1>4, <1>5, <2>1
    <2>3. RootSigned(w)
      BY <1>3, <2>2 DEF RootSigned
    <2> QED
      BY <1>6, <2>3
  <1>7. CASE ~AtRoot(w)
    <2>1. cert.issuer # Root.subject
      BY <1>7 DEF AtRoot
    <2>2. ca \in TrustedWithin[n - 1] /\ ca \in ListedCerts /\ Startable(ca) /\ ca # leaf
      BY <1>3, <1>4, <2>1
    <2>3. PICK i \in DOMAIN Listed : Listed[i] = ca
      BY <2>2 DEF ListedCerts
    <2>4. i \in Hits(w)
      BY <1>3, <2>2, <2>3 DEF Hits, Pool
    <2>5. Found(w) # None
      BY <2>4 DEF Found, Some, None
    <2>6. /\ Get(Found(w)) \in ListedCerts
          /\ ~Readable(Get(Found(w))) \/ Get(Found(w)).subject = w.current.issuer
      <3> HIDE DEF w
      <3> QED BY <2>5, FoundListed
    <2>7. Get(Found(w)) = ca
      BY <1>3, <1>5, <2>2, <2>6
    <2>8. Issues(ca, cert)
      BY <1>3, <2>2, SMTT(30) DEF Issues, Startable
    <2> QED
      BY <1>7, <2>2, <2>5, <2>7, <2>8
  <1> QED
    BY <1>6, <1>7

\* When names are unique, no certificate that is refused has a chain of trust.
LEMMA RefusedUntrusted ==
    ASSUME NEW c, Refused(c), Unambiguous, Listed \in Seq(ListedCerts)
    PROVE  c \notin Trusted
  <1> SUFFICES ASSUME c \in Trusted PROVE FALSE
    OBVIOUS
  <1>0. MAX_HOPS \in Nat /\ MAX_HOPS # 0
    BY DEF MAX_HOPS
  <1>1. c \in TrustedWithin[MAX_HOPS] /\ HasKey(c)
    BY DEF Trusted
  <1> DEFINE Within == {n \in Nat : n <= MAX_HOPS /\ c \in TrustedWithin[n]}
  <1>2. PICK m \in Within : \A j \in Within : m <= j
    <2>1. Within \in SUBSET Nat /\ Within # {}
      BY <1>0, <1>1
    <2> HIDE DEF Within
    <2> QED BY <2>1, LeastNat
  <1>3. m \in 1..MAX_HOPS /\ c \in TrustedWithin[m]
    BY <1>0, <1>2, TrustedLayers
  <1>4. \A j \in 0..MAX_HOPS : j < m => c \notin TrustedWithin[j]
    BY <1>2
  <1>5. Startable(c)
    BY <1>3, TrustedLayers DEF IssuedBy, IsIssuer
  <1>6. PICK n \in Nat : \E p : /\ Path(c, p, n)
                                /\ ~Reaches(At(c, p, n)) /\ ~Climbs(At(c, p, n))
    BY <1>5, Zenon DEF Refused, PathFails
  <1>7. PICK p : Path(c, p, n) /\ ~Reaches(At(c, p, n)) /\ ~Climbs(At(c, p, n))
    BY <1>6
  <1>8. ASSUME NEW k \in 0..n, k < m, p[k] \in TrustedWithin[m - k]
        PROVE  \/ AtRoot(At(c, p, k)) /\ RootSigned(At(c, p, k))
               \/ /\ ~AtRoot(At(c, p, k))
                  /\ Found(At(c, p, k)) # None
                  /\ Get(Found(At(c, p, k))) \in TrustedWithin[m - (k + 1)]
                  /\ Issues(Get(Found(At(c, p, k))), p[k])
    <2>1. m - k \in 1..MAX_HOPS /\ (m - k) - 1 = m - (k + 1)
      BY <1>0, <1>3, <1>8
    <2>2. c \notin TrustedWithin[(m - k) - 1]
      BY <1>0, <1>3, <1>4, <1>8
    <2> QED
      BY <1>8, <2>1, <2>2, IssuerFound DEF At
  <1> DEFINE Bad == {k \in Nat : k <= n /\ ~(k < m /\ p[k] \in TrustedWithin[m - k])}
  <1>9. Bad = {}
    <2> SUFFICES ASSUME Bad # {} PROVE FALSE
      OBVIOUS
    <2>0. Bad \in SUBSET Nat
      OBVIOUS
    <2>1. PICK k \in Bad : \A j \in Bad : k <= j
      <3> HIDE DEF Bad
      <3> QED BY <2>0, LeastNat
    <2>2. k # 0
      <3>1. m - 0 = m /\ 0 < m
        BY <1>3
      <3> QED
        BY <1>3, <1>7, <2>1, <3>1 DEF Path
    <2>3. PICK i \in Nat : i + 1 = k
      BY <2>1, <2>2
    <2>4. i \notin Bad /\ i \in 0..n /\ i \in 0..(n - 1)
      BY <2>1, <2>3
    <2>5. i < m /\ p[i] \in TrustedWithin[m - i]
      BY <2>4
    <2>6. Climbs(At(c, p, i)) /\ p[k] = Get(Found(At(c, p, i)))
      BY <1>7, <2>3, <2>4, SMTT(30) DEF Path
    <2>7. p[k] \in TrustedWithin[m - k]
      BY <1>8, <2>3, <2>4, <2>5, <2>6, SMTT(30) DEF Climbs
    <2>8. m - k # 0
      BY <2>7, TrustedLayers
    <2> QED
      BY <1>3, <2>1, <2>3, <2>5, <2>7, <2>8
  <1>10. n < m /\ p[n] \in TrustedWithin[m - n]
    <2>1. n \notin Bad
      BY <1>9
    <2> QED
      BY <2>1
  <1>11. Deeper(At(c, p, n)) <= MAX_HOPS
    BY <1>0, <1>3, <1>10 DEF Deeper, At
  <1> QED
    BY <1>1, <1>7, <1>8, <1>10, <1>11 DEF Reaches, Climbs, At
-----------------------------------------------------------------------------
(* The loop over the listed certificates. *)

\* What the program was given has the form of files and options.
FilesInv ==
    /\ WellFormed(identity)
    /\ IsOption(options.console_key)
    /\ options.console_key # None => IsOption(Get(options.console_key))

CanWalk == root_pems # <<>> /\ identity # None /\ PemParses(Listed)

\* The walk in progress is a path.
OnPath(w) == w.hops \in Nat /\ \E p : Path(w.leaf, p, w.hops) /\ w = At(w.leaf, p, w.hops)

NothingWalked ==
    queue = <<>> /\ walk = None /\ DOMAIN cert_map = {} /\ ~Kept("cert_unvalidated")

\* A certificate in the map went up to the root; every listed certificate is in
\* the map, was refused with a finding, or is still to come.
WalkInv ==
    /\ step \in {"arguments", "container", "roots", "certs"} => NothingWalked
    /\ \A c \in DOMAIN cert_map : PathValidates(c) /\ cert_map[c] = c.key
    /\ walk # None => /\ step = "walks" /\ walk = Some(Get(walk))
                      /\ OnPath(Get(walk))
    /\ step \in {"walks", "keys"} =>
          /\ queue \in Seq(ListedCerts)
          /\ ~CanWalk => NothingWalked
          /\ Kept("cert_unvalidated") => \E c : Refused(c)
          /\ CanWalk => \A c \in ListedCerts :
                \/ c \in DOMAIN cert_map
                \/ Refused(c) /\ Kept("cert_unvalidated")
                \/ \E i \in DOMAIN queue : queue[i] = c
                \/ walk # None /\ Get(walk).leaf = c
    /\ step = "keys" => queue = <<>>

LEMMA ListedSeq ==
    ASSUME FilesInv
    PROVE  Listed \in Seq(ListedCerts)
  <1>1. CASE identity = None
    BY <1>1 DEF Listed, ListedCerts
  <1>2. CASE identity # None
    <2>1. Listed \in Seq(Range(Listed))
      BY <1>2 DEF FilesInv, WellFormed, Listed
    <2> QED
      BY <2>1 DEF Range, ListedCerts
  <1> QED
    BY <1>1, <1>2


\* What the paths are depends on the listed certificates, the roots and the time.
LEMMA PathsKept ==
    ASSUME UNCHANGED <<identity, now_unix, root_pems>>
    PROVE  /\ Listed' = Listed /\ ListedCerts' = ListedCerts
           /\ CanWalk' = CanWalk
           /\ \A c : Startable(c)' = Startable(c)
           /\ \A w : Reaches(w)' = Reaches(w) /\ Climbs(w)' = Climbs(w) /\ Found(w)' = Found(w)
           /\ \A c, p, n : Path(c, p, n)' = Path(c, p, n)
           /\ \A c : PathValidates(c)' = PathValidates(c) /\ Refused(c)' = Refused(c)
           /\ \A w : OnPath(w)' = OnPath(w)
  <1>1. Listed' = Listed
    BY DEF Listed
  <1>2. ListedCerts' = ListedCerts
    BY <1>1 DEF ListedCerts
  <1>3. RootsParse' = RootsParse /\ Root' = Root
    BY DEF RootsParse, Root, PemParses
  <1>4. PemParses(Listed)' = PemParses(Listed)
    BY <1>1, <1>3 DEF PemParses
  <1>5. CanWalk' = CanWalk
    BY <1>4 DEF CanWalk
  <1>6. \A c : Startable(c)' = Startable(c)
    BY <1>3, <1>4 DEF Startable, Readable, ValidAt
  <1>7. \A w : Hits(w)' = Hits(w)
    BY <1>1 DEF Hits, Pool, Readable
  <1>8. \A w : Found(w)' = Found(w)
    BY <1>1, <1>7 DEF Found
  <1>9. \A w : AtRoot(w)' = AtRoot(w) /\ RootSigned(w)' = RootSigned(w)
    BY <1>3 DEF AtRoot, RootSigned
  <1>10. \A c, d : Issues(c, d)' = Issues(c, d)
    BY DEF Issues, Readable, ValidAt
  <1>11. \A w : Reaches(w)' = Reaches(w)
    BY <1>9 DEF Reaches, Deeper, HasKey, MAX_HOPS
  <1>12. \A w : Climbs(w)' = Climbs(w)
    BY <1>8, <1>9, <1>10 DEF Climbs, Deeper, MAX_HOPS
  <1>13. \A c, p, n : Path(c, p, n)' = Path(c, p, n)
    BY <1>2, <1>6, <1>8, <1>12 DEF Path, At
  <1>14. \A c : PathValidates(c)' = PathValidates(c)
    BY <1>11, <1>13, Zenon DEF PathValidates, At
  <1>15. \A c : Refused(c)' = Refused(c)
    BY <1>2, <1>6, <1>11, <1>12, <1>13, Zenon DEF Refused, PathFails, At
  <1>16. \A w : OnPath(w)' = OnPath(w)
    BY <1>13 DEF OnPath, At
  <1> QED
    BY <1>1, <1>2, <1>5, <1>6, <1>8, <1>11, <1>12, <1>13, <1>14, <1>15, <1>16

\* Steps that leave the walks and the certificates alone.
LEMMA WalkKept ==
    ASSUME WalkInv, UNCHANGED <<identity, now_unix, root_pems, queue, walk, cert_map>>,
           step' \in {"arguments", "container", "roots", "certs"} =>
              step \in {"arguments", "container", "roots", "certs"},
           step' \in {"walks", "keys"} =>
              step \in {"walks", "keys"} /\ (step' = "keys" => queue = <<>>),
           walk # None => step' = "walks",
           Kept("cert_unvalidated")' = Kept("cert_unvalidated") \/
              step' \notin {"arguments", "container", "roots", "certs", "walks", "keys"}
    PROVE  WalkInv'
  <1>1. NothingWalked => NothingWalked' \/
              step' \notin {"arguments", "container", "roots", "certs", "walks", "keys"}
    BY SMTT(30) DEF NothingWalked
  <1>2. \A c \in DOMAIN cert_map' : PathValidates(c)' /\ cert_map'[c] = c.key
    BY PathsKept DEF WalkInv
  <1>3. walk' # None => step' = "walks" /\ walk' = Some(Get(walk')) /\ OnPath(Get(walk))'
    <2>1. OnPath(Get(walk)) => OnPath(Get(walk))'
      <3>1. \A w : OnPath(w)' = OnPath(w)
        BY PathsKept, SMTT(30)
      <3> QED
        BY <3>1
    <2> QED
      BY <2>1 DEF WalkInv
  <1>4. ASSUME step' \in {"walks", "keys"}
        PROVE  /\ queue' \in Seq(ListedCerts')
               /\ ~CanWalk' => NothingWalked'
               /\ Kept("cert_unvalidated")' => \E c : Refused(c)'
               /\ CanWalk' => \A c \in ListedCerts' :
                     \/ c \in DOMAIN cert_map'
                     \/ Refused(c)' /\ Kept("cert_unvalidated")'
                     \/ \E i \in DOMAIN queue' : queue'[i] = c
                     \/ walk' # None /\ Get(walk').leaf = c
    BY <1>1, <1>4, PathsKept, SMTT(30) DEF WalkInv
  <1> QED
    BY <1>1, <1>2, <1>3, <1>4 DEF WalkInv


\* A walk that ends leaves one certificate in the map, or one more refused.
LEMMA WalkEnds ==
    ASSUME WalkInv, step = "walks", step' = "walks", CanWalk,
           UNCHANGED <<identity, now_unix, root_pems>>,
           queue' \in Seq(ListedCerts),
           NEW leaf, leaf \in ListedCerts,
           \A i \in DOMAIN queue : queue[i] = leaf \/ \E j \in DOMAIN queue' : queue'[j] = queue[i],
           walk # None => Get(walk).leaf = leaf,
           walk' = None,
           \/ /\ PathValidates(leaf)
              /\ cert_map' = [c \in DOMAIN cert_map \cup {leaf} |-> c.key]
              /\ findings' = findings
           \/ /\ Refused(leaf)
              /\ cert_map' = cert_map
              /\ findings' = findings \cup {"cert_unvalidated"}
    PROVE  WalkInv'
  <1>1. \A c \in DOMAIN cert_map' : PathValidates(c)' /\ cert_map'[c] = c.key
    BY PathsKept DEF WalkInv
  <1>2. Kept("cert_unvalidated")' => \E c : Refused(c)'
    BY PathsKept DEF WalkInv, Kept
  <1>3. leaf \in DOMAIN cert_map' \/ (Refused(leaf)' /\ Kept("cert_unvalidated")')
    BY PathsKept DEF Kept
  <1>4. /\ DOMAIN cert_map \subseteq DOMAIN cert_map'
        /\ Kept("cert_unvalidated") => Kept("cert_unvalidated")'
    BY DEF Kept
  <1>5. ASSUME NEW c \in ListedCerts'
        PROVE  \/ c \in DOMAIN cert_map'
               \/ Refused(c)' /\ Kept("cert_unvalidated")'
               \/ \E i \in DOMAIN queue' : queue'[i] = c
    <2>1. \/ c \in DOMAIN cert_map
          \/ Refused(c) /\ Kept("cert_unvalidated")
          \/ \E i \in DOMAIN queue : queue[i] = c
          \/ walk # None /\ Get(walk).leaf = c
      BY <1>5, PathsKept DEF WalkInv
    <2>2. Refused(c) => Refused(c)'
      BY PathsKept
    <2> QED
      BY <1>3, <1>4, <2>1, <2>2
  <1>6. queue' \in Seq(ListedCerts') /\ CanWalk'
    BY PathsKept
  <1> QED
    BY <1>1, <1>2, <1>5, <1>6 DEF WalkInv

LEMMA WalkIdentity ==
    ASSUME FilesInv, WalkInv, IdentityNext
    PROVE  WalkInv'
  <1>1. CASE SelectRoots
    <2>1. /\ step = "roots" /\ step' = "certs" /\ UNCHANGED <<queue, walk, cert_map>>
          /\ Kept("cert_unvalidated")' = Kept("cert_unvalidated")
      BY <1>1 DEF SelectRoots, Kept
    <2>2. NothingWalked'
      BY <2>1 DEF WalkInv, NothingWalked
    <2> QED
      BY <2>1, <2>2 DEF WalkInv, NothingWalked
  <1>2. CASE ListCerts
    <2>1. /\ step = "certs" /\ step' = "walks"
          /\ UNCHANGED <<identity, now_unix, root_pems, walk, cert_map>>
          /\ Kept("cert_unvalidated")' = Kept("cert_unvalidated")
      BY <1>2 DEF ListCerts, givenVars, CertFindings, Kept
    <2>2. NothingWalked
      BY <2>1 DEF WalkInv
    <2>3. queue' = IF CanWalk THEN Listed ELSE <<>>
      BY <1>2 DEF ListCerts, CertFindings, CanWalk
    <2>4. queue' \in Seq(ListedCerts')
      BY <2>1, <2>3, ListedSeq, PathsKept
    <2>5. ~CanWalk' => NothingWalked'
      BY <2>1, <2>2, <2>3, PathsKept DEF NothingWalked
    <2>6. CanWalk' => \A c \in ListedCerts' : \E i \in DOMAIN queue' : queue'[i] = c
      BY <2>1, <2>3, PathsKept, Zenon DEF ListedCerts
    <2> QED
      BY <2>1, <2>2, <2>4, <2>5, <2>6 DEF WalkInv, NothingWalked
  <1>3. CASE BeginWalk
    <2>1. /\ step = "walks" /\ step' = "walks" /\ walk = None /\ queue # <<>>
          /\ queue' = Tail(queue)
          /\ UNCHANGED <<identity, now_unix, root_pems, cert_map>>
      BY <1>3 DEF BeginWalk, givenVars
    <2>2. CanWalk /\ queue \in Seq(ListedCerts)
      BY <2>1 DEF WalkInv, NothingWalked
    <2>a. PICK leaf : leaf = Head(queue)
      OBVIOUS
    <2>3. /\ leaf \in ListedCerts /\ leaf = queue[1]
          /\ queue' \in Seq(ListedCerts)
      BY <2>1, <2>2, <2>a
    <2>4. \A i \in DOMAIN queue : queue[i] = leaf \/ \E j \in DOMAIN queue' : queue'[j] = queue[i]
      <3> SUFFICES ASSUME NEW i \in DOMAIN queue, i # 1
                   PROVE  \E j \in DOMAIN queue' : queue'[j] = queue[i]
        BY <2>3
      <3>0. i \in 1..Len(queue) /\ Len(queue) \in Nat
        BY <2>2
      <3>1. PICK j \in Nat : j + 1 = i
        BY <3>0
      <3>2. j \in 1..(Len(queue) - 1) /\ i \in 1..Len(queue)
        BY <3>0, <3>1
      <3>3. IsSeq(queue)
        BY <2>2 DEF IsSeq
      <3>4. queue'[j] = queue[i] /\ j \in DOMAIN queue'
        BY <2>1, <2>2, <2>3, <3>1, <3>2, <3>3, TailFacts, SMTT(30)
      <3> QED
        BY <3>4
    <2>5. CASE ~Startable(leaf)
      <3>1. /\ findings' = findings \cup {"cert_unvalidated"} /\ walk' = None
            /\ cert_map' = cert_map
        BY <1>3, <2>1, <2>a, <2>5 DEF BeginWalk
      <3>2. Refused(leaf)
        BY <2>3, <2>5 DEF Refused
      <3> QED
        BY <2>1, <2>2, <2>3, <2>4, <3>1, <3>2, WalkEnds, Zenon
    <2>6. CASE Startable(leaf)
      <3>a. PICK w : w = [leaf |-> leaf, current |-> leaf, hops |-> 0]
        BY Zenon
      <3>1. walk' = Some(w) /\ findings' = findings
        BY <1>3, <2>a, <2>6, <3>a DEF BeginWalk
      <3>2. OnPath(w)
        <4> DEFINE p == [i \in {0} |-> leaf]
        <4>1. Path(leaf, p, 0)
          BY <2>3, <2>6 DEF Path
        <4>2. w = At(leaf, p, 0)
          BY <3>a DEF At
        <4> HIDE DEF p
        <4> QED
          BY <3>a, <4>1, <4>2 DEF OnPath
      <3>3. Get(walk') = w /\ walk' # None
        BY <3>1 DEF Get, Some, None
      <3>4. OnPath(Get(walk))'
        <4>1. OnPath(w)'
          BY <2>1, <3>2, PathsKept
        <4> QED
          BY <3>3, <4>1
      <3>5. Kept("cert_unvalidated")' = Kept("cert_unvalidated")
        BY <3>1 DEF Kept
      <3>6. \A c \in ListedCerts' :
                \/ c \in DOMAIN cert_map'
                \/ Refused(c)' /\ Kept("cert_unvalidated")'
                \/ \E i \in DOMAIN queue' : queue'[i] = c
                \/ walk' # None /\ Get(walk').leaf = c
        <4> SUFFICES ASSUME NEW c \in ListedCerts
                     PROVE  \/ c \in DOMAIN cert_map
                            \/ Refused(c)' /\ Kept("cert_unvalidated")'
                            \/ \E i \in DOMAIN queue' : queue'[i] = c
                            \/ w.leaf = c
          BY <2>1, <3>3, PathsKept, SMTT(30)
        <4>1. \/ c \in DOMAIN cert_map
              \/ Refused(c) /\ Kept("cert_unvalidated")
              \/ \E i \in DOMAIN queue : queue[i] = c
          BY <2>1, <2>2 DEF WalkInv
        <4>2. Refused(c)' = Refused(c)
          BY <2>1, PathsKept, SMTT(30)
        <4> QED
          BY <2>4, <3>a, <3>5, <4>1, <4>2, SMTT(30)
      <3>7. /\ \A c \in DOMAIN cert_map' : PathValidates(c)' /\ cert_map'[c] = c.key
            /\ Kept("cert_unvalidated")' => \E c : Refused(c)'
            /\ queue' \in Seq(ListedCerts') /\ CanWalk'
        BY <2>1, <2>2, <2>3, <3>5, PathsKept DEF WalkInv
      <3>8. walk' = Some(Get(walk'))
        BY <3>1, <3>3
      <3> QED
        BY <2>1, <3>3, <3>4, <3>6, <3>7, <3>8 DEF WalkInv
    <2> QED
      BY <2>5, <2>6
  <1>4. CASE ReachRoot \/ GiveUpWalk
    <2>1. /\ walk # None /\ walk' = None /\ step' = step /\ queue' = queue
          /\ UNCHANGED <<identity, now_unix, root_pems>>
      BY <1>4 DEF ReachRoot, GiveUpWalk, givenVars
    <2> DEFINE w == Get(walk)
    <2>2. step = "walks" /\ OnPath(w)
      BY <2>1 DEF WalkInv
    <2>3. PICK p : Path(w.leaf, p, w.hops) /\ w = At(w.leaf, p, w.hops)
      BY <2>2 DEF OnPath
    <2>4. w.hops \in Nat /\ w.leaf \in ListedCerts
      BY <2>2, <2>3 DEF OnPath, Path
    <2>5. CanWalk /\ queue \in Seq(ListedCerts)
      BY <2>1, <2>2 DEF WalkInv, NothingWalked
    <2>6. \/ /\ PathValidates(w.leaf)
             /\ cert_map' = [c \in DOMAIN cert_map \cup {w.leaf} |-> c.key]
             /\ findings' = findings
          \/ /\ Refused(w.leaf)
             /\ cert_map' = cert_map
             /\ findings' = findings \cup {"cert_unvalidated"}
      <3>1. CASE ReachRoot
        <4>1. Reaches(w)
          BY <3>1 DEF ReachRoot
        <4>2. PathValidates(w.leaf)
          <5> HIDE DEF w
          <5> QED BY <2>3, <2>4, <4>1 DEF PathValidates
        <4> QED
          BY <3>1, <4>2, SMTT(30) DEF ReachRoot
      <3>2. CASE GiveUpWalk
        <4>1. ~Reaches(w) /\ ~Climbs(w)
          BY <3>2 DEF GiveUpWalk
        <4>2. Refused(w.leaf)
          <5> HIDE DEF w
          <5> QED BY <2>3, <2>4, <4>1 DEF Refused, PathFails
        <4> QED
          BY <3>2, <4>2 DEF GiveUpWalk
      <3> QED
        BY <1>4, <3>1, <3>2
    <2> QED
      BY <2>1, <2>2, <2>4, <2>5, <2>6, WalkEnds, Zenon
  <1>5. CASE ClimbToIssuer
    <2>1. /\ walk # None /\ Climbs(Get(walk)) /\ step' = step
          /\ UNCHANGED <<identity, now_unix, root_pems, queue, cert_map, findings>>
          /\ walk' = Some([Get(walk) EXCEPT !.current = Get(Found(Get(walk))),
                                            !.hops = Deeper(Get(walk))])
      BY <1>5 DEF ClimbToIssuer, givenVars
    <2>2. PICK w : w = Get(walk)
      OBVIOUS
    <2>3. step = "walks" /\ OnPath(w)
      BY <2>1, <2>2 DEF WalkInv
    <2>4. PICK p : Path(w.leaf, p, w.hops) /\ w = At(w.leaf, p, w.hops)
      BY <2>3 DEF OnPath
    <2>5. w.hops \in Nat
      BY <2>3 DEF OnPath
    <2>6. PICK n \in Nat : n = w.hops
      BY <2>5
    <2>7. PICK leaf : leaf = w.leaf
      OBVIOUS
    <2>8. PICK ca : ca = Get(Found(w))
      OBVIOUS
    <2>9. w = At(leaf, p, n) /\ Path(leaf, p, n) /\ Climbs(w)
      BY <2>1, <2>2, <2>4, <2>6, <2>7, SMTT(30)
    <2> DEFINE q == [i \in 0..(n + 1) |-> IF i <= n THEN p[i] ELSE ca]
    <2>10. \A i \in 0..n : q[i] = p[i] /\ At(leaf, q, i) = At(leaf, p, i)
      BY DEF At
    <2>11. q[n + 1] = ca
      OBVIOUS
    <2>12. Path(leaf, q, n + 1)
      <3> HIDE DEF q
      <3>1. leaf \in ListedCerts /\ Startable(leaf) /\ q[0] = leaf
        BY <2>9, <2>10 DEF Path
      <3>2. ASSUME NEW i \in 0..n
            PROVE  /\ Climbs(At(leaf, q, i))
                   /\ q[i + 1] = Get(Found(At(leaf, q, i)))
        <4>1. CASE i = n
          BY <2>8, <2>9, <2>10, <2>11, <4>1
        <4>2. CASE i # n
          <5>1. i \in 0..(n - 1) /\ i + 1 \in 0..n
            BY <3>2, <4>2
          <5> QED
            BY <2>9, <2>10, <5>1 DEF Path
        <4> QED
          BY <4>1, <4>2
      <3>3. (n + 1) - 1 = n
        OBVIOUS
      <3> QED
        BY <3>1, <3>2, <3>3 DEF Path
    <2>13. walk' = Some(At(leaf, q, n + 1))
      <3>1. w = [leaf |-> leaf, current |-> p[n], hops |-> n]
        BY <2>9 DEF At
      <3>2. [[leaf |-> leaf, current |-> p[n], hops |-> n] EXCEPT !.current = ca, !.hops = n + 1]
               = [leaf |-> leaf, current |-> ca, hops |-> n + 1]
        <4> DEFINE v == [[leaf |-> leaf, current |-> p[n], hops |-> n] EXCEPT
                            !.current = ca, !.hops = n + 1]
        <4>1. /\ DOMAIN v = {"leaf", "current", "hops"}
              /\ v.leaf = leaf /\ v.current = ca /\ v.hops = n + 1
          OBVIOUS
        <4>2. v = [f \in DOMAIN v |-> v[f]]
          BY Zenon
        <4> HIDE DEF v
        <4>3. v = [f \in {"leaf", "current", "hops"} |-> v[f]]
          BY <4>1, <4>2
        <4>4. v = [leaf |-> leaf, current |-> ca, hops |-> n + 1]
          BY <4>1, <4>3
        <4> QED
          BY <4>4 DEF v
      <3> HIDE DEF q
      <3> QED
        BY <2>1, <2>2, <2>6, <2>8, <2>11, <3>1, <3>2 DEF At, Deeper
    <2>14. Get(walk') = At(leaf, q, n + 1) /\ walk' # None
      BY <2>13 DEF Get, Some, None
    <2> HIDE DEF q
    <2>15. OnPath(At(leaf, q, n + 1)) /\ At(leaf, q, n + 1).leaf = leaf
      <3>1. At(leaf, q, n + 1).leaf = leaf /\ At(leaf, q, n + 1).hops = n + 1
        BY DEF At
      <3> QED
        BY <2>12, <3>1 DEF OnPath
    <2>16. OnPath(Get(walk))'
      <3>1. \A v : OnPath(v)' = OnPath(v)
        BY <2>1, PathsKept, SMTT(30)
      <3> QED
        BY <2>14, <2>15, <3>1
    <2>17. Get(walk').leaf = Get(walk).leaf
      BY <2>2, <2>7, <2>14, <2>15
    <2>18. Kept("cert_unvalidated")' = Kept("cert_unvalidated")
      BY <2>1 DEF Kept
    <2>19. CanWalk
      BY <2>1, <2>3 DEF WalkInv, NothingWalked
    <2>20. /\ \A c \in DOMAIN cert_map' : PathValidates(c)' /\ cert_map'[c] = c.key
           /\ queue' \in Seq(ListedCerts') /\ CanWalk'
           /\ Kept("cert_unvalidated")' => \E c : Refused(c)'
      BY <2>1, <2>3, <2>18, <2>19, PathsKept DEF WalkInv
    <2>21. \A c \in ListedCerts' :
                \/ c \in DOMAIN cert_map'
                \/ Refused(c)' /\ Kept("cert_unvalidated")'
                \/ \E i \in DOMAIN queue' : queue'[i] = c
                \/ walk' # None /\ Get(walk').leaf = c
      BY <2>1, <2>3, <2>14, <2>17, <2>18, <2>19, PathsKept DEF WalkInv
    <2> QED
      BY <2>1, <2>3, <2>13, <2>14, <2>16, <2>20, <2>21 DEF WalkInv
  <1>6. CASE EndWalks \/ OverrideConsoleKey \/ ReadConsoleKey \/ EndConsoleKeys
             \/ CheckRevocations
    <2>1. /\ UNCHANGED <<identity, now_unix, root_pems, queue, walk, cert_map>>
          /\ \/ step = "walks" /\ step' = "keys" /\ queue = <<>> /\ walk = None
             \/ step = "keys" /\ step' \in {"keys", "revocations"}
             \/ step = "revocations" /\ step' = "chain"
      BY <1>6, SMTT(30) DEF EndWalks, OverrideConsoleKey, ReadConsoleKey, EndConsoleKeys,
                  CheckRevocations, givenVars
    <2>2. step' = "keys" => Kept("cert_unvalidated")' = Kept("cert_unvalidated")
      BY <1>6, SMTT(30) DEF EndWalks, OverrideConsoleKey, ReadConsoleKey, EndConsoleKeys,
                  CheckRevocations, KeyFindings, Kept
    <2>3. step = "keys" => queue = <<>>
      BY DEF WalkInv
    <2>4. walk # None => step = "walks"
      BY DEF WalkInv
    <2> QED
      BY <2>1, <2>2, <2>3, <2>4, WalkKept, SMTT(30)
  <1> QED
    BY <1>1, <1>2, <1>3, <1>4, <1>5, <1>6, SMTT(30) DEF IdentityNext

\* What the invariant says when the walks are over.
LEMMA WalkFacts ==
    ASSUME FilesInv, WalkInv
    PROVE  WalkExact
  <1>0. Listed \in Seq(ListedCerts)
    BY ListedSeq
  <1>1. ASSUME step \in {"walks", "keys"} PROVE DOMAIN cert_map \subseteq Trusted
    <2>1. CASE ~CanWalk
      BY <1>1, <2>1, SMTT(30) DEF WalkInv, NothingWalked
    <2>2. CASE CanWalk
      BY <1>0, <2>2, ValidatedTrusted DEF WalkInv, CanWalk
    <2> QED
      BY <2>1, <2>2, SMTT(30)
  <1>2. ASSUME step = "keys", CanWalk
        PROVE  \A c \in ListedCerts : c \notin DOMAIN cert_map =>
                  Refused(c) /\ Kept("cert_unvalidated")
    BY <1>2 DEF WalkInv
  <1>3. ASSUME step = "keys", Unambiguous PROVE Trusted \subseteq DOMAIN cert_map
    <2>1. CASE ~CanWalk
      <3>1. Trusted = {}
        BY <2>1 DEF Trusted, CanWalk, PemParses, Listed, None
      <3> QED
        BY <3>1
    <2>2. CASE CanWalk
      <3>1. Trusted \subseteq ListedCerts
        <4>1. MAX_HOPS \in 1..MAX_HOPS
          BY DEF MAX_HOPS
        <4> QED
          BY <4>1, TrustedLayers DEF Trusted, IssuedBy, IsIssuer
      <3> QED
        BY <1>0, <1>2, <1>3, <2>2, <3>1, RefusedUntrusted
    <2> QED
      BY <2>1, <2>2
  <1>4. ASSUME step = "keys"
        PROVE  "cert_unvalidated" \in findings <=>
                  CanWalk /\ ListedCerts \ DOMAIN cert_map # {}
    <2>1. ASSUME Kept("cert_unvalidated") PROVE CanWalk /\ ListedCerts \ DOMAIN cert_map # {}
      <3>1. CanWalk
        BY <1>4, <2>1, SMTT(30) DEF WalkInv, NothingWalked
      <3>2. PICK c : Refused(c)
        BY <1>4, <2>1 DEF WalkInv
      <3>3. ~PathValidates(c)
        BY <3>2, OneOutcome
      <3>4. c \in ListedCerts /\ c \notin DOMAIN cert_map
        BY <3>2, <3>3 DEF WalkInv, Refused
      <3> QED
        BY <3>1, <3>4
    <2>2. ASSUME CanWalk, ListedCerts \ DOMAIN cert_map # {} PROVE Kept("cert_unvalidated")
      BY <1>2, <1>4, <2>2
    <2> QED
      BY <2>1, <2>2 DEF Kept
  <1>5. Constrained \subseteq Trusted
    BY Zenon DEF Constrained
  <1> QED
    BY <1>1, <1>3, <1>4, <1>5 DEF WalkExact, CanWalk

\* When the root's key is in a set of keys whose signatures stay in it, so is the
\* key of every certificate that was validated: signature by signature down.
LEMMA GenuineChain ==
    ASSUME FilesInv, NEW Keys, RootsParse => Root.key \in Keys,
           \A d \in ListedCerts : d.signer \in Keys => d.key \in Keys,
           NEW c, PathValidates(c)
    PROVE  c.key \in Keys
  <1>1. PICK n \in Nat : \E p : Path(c, p, n) /\ Reaches(At(c, p, n))
    BY DEF PathValidates
  <1>2. PICK p : Path(c, p, n) /\ Reaches(At(c, p, n))
    BY <1>1
  <1>3. Listed \in Seq(ListedCerts)
    BY ListedSeq, SMTT(30)
  <1>4. Root.key \in Keys
    BY <1>2, SMTT(30) DEF Path, Startable
  <1>5. p[0] = c /\ p[n].signer = Root.key
    BY <1>2, SMTT(30) DEF Path, Reaches, RootSigned, At
  <1>6. \A i \in 0..(n - 1) : p[i + 1] \in ListedCerts /\ p[i].signer = p[i + 1].key
    <2> TAKE i \in 0..(n - 1)
    <2>1. Climbs(At(c, p, i)) /\ p[i + 1] = Get(Found(At(c, p, i)))
      BY <1>2, Zenon DEF Path
    <2>2. Found(At(c, p, i)) # None /\ Issues(p[i + 1], p[i])
      BY <2>1 DEF Climbs, At
    <2> QED
      BY <1>3, <2>1, <2>2, FoundListed, SMTT(30) DEF Issues
  <1>7. \A i \in 0..n : p[i] \in ListedCerts
    <2> TAKE i \in 0..n
    <2>1. i = 0 \/ (i - 1 \in 0..(n - 1) /\ (i - 1) + 1 = i)
      BY SMTT(30)
    <2>2. p[0] \in ListedCerts
      BY <1>2 DEF Path
    <2> QED
      BY <1>6, <2>1, <2>2
  <1> DEFINE Bad == {j \in 0..n : p[n - j].key \notin Keys}
  <1>9. Bad = {}
    <2> SUFFICES ASSUME Bad # {} PROVE FALSE
      OBVIOUS
    <2>0. Bad \in SUBSET Nat
      OBVIOUS
    <2>1. PICK j \in Bad : \A k \in Bad : j <= k
      <3> HIDE DEF Bad
      <3> QED BY <2>0, LeastNat
    <2>2. j \in 0..n /\ n - j \in 0..n /\ p[n - j].key \notin Keys
      BY <2>1
    <2>3. p[n - j].signer \notin Keys
      BY <1>7, <2>2
    <2>4. j # 0
      BY <1>4, <1>5, <2>3
    <2>5. n - j \in 0..(n - 1) /\ n - (j - 1) = (n - j) + 1 /\ j - 1 \in 0..n
      BY <2>2, <2>4
    <2>6. p[n - (j - 1)].key \notin Keys
      BY <1>6, <2>3, <2>5
    <2>7. j - 1 \in Bad
      BY <2>5, <2>6
    <2> HIDE DEF Bad
    <2> QED
      BY <2>1, <2>2, <2>7
  <1>10. n \in 0..n /\ n - n = 0
    OBVIOUS
  <1>11. n \notin Bad
    <2> HIDE DEF Bad
    <2> QED BY <1>9, Zenon
  <1> QED
    BY <1>5, <1>10, <1>11

-----------------------------------------------------------------------------
(* Console keys. *)

Entries == Get(identity).console_keys

\* What KeysVouched says of one key.
Vouched(id, key) ==
    \/ options.console_key = Some(Some(key))
    \/ \E k \in RootKeys, e \in Range(Entries) :
          /\ e.statement.key_id = id /\ e.statement.key = Some(key)
          /\ e.signature = Some(IdentitySignature(k, e.statement))
    \/ Kept("console_key_unattested")

\* The entries still to be read are entries of the bundle, and nothing is read
\* before its turn.
KeysInv ==
    /\ step \in {"arguments", "container", "roots", "certs", "walks"} =>
          DOMAIN key_map = {} /\ entries = <<>>
    /\ step = "keys" /\ options.console_key # None => DOMAIN key_map = {} /\ entries = <<>>
    /\ step = "keys" /\ entries # <<>> =>
          /\ identity # None /\ entries \in Seq(Range(Entries))
    /\ step \in {"keys", "revocations"} =>
          \A id \in DOMAIN key_map : Vouched(id, key_map[id])

LEMMA VouchedKept ==
    ASSUME UNCHANGED <<options, identity, root_pems>>, findings \subseteq findings',
           NEW id, NEW key, Vouched(id, key)
    PROVE  Vouched(id, key)'
  <1>1. RootKeys' = RootKeys /\ Entries' = Entries
    BY DEF RootKeys, Entries
  <1> QED
    BY <1>1 DEF Vouched, Kept

LEMMA KeysIdentity ==
    ASSUME FilesInv, KeysInv, IdentityNext, findings \subseteq findings'
    PROVE  KeysInv'
  <1>1. CASE SelectRoots \/ ListCerts \/ BeginWalk
    <2>1. /\ step \in {"roots", "certs", "walks"} /\ step' \in {"certs", "walks"}
          /\ UNCHANGED <<key_map, entries>>
      BY <1>1 DEF SelectRoots, ListCerts, BeginWalk
    <2> QED
      BY <2>1, SMTT(30) DEF KeysInv
  <1>2. CASE ReachRoot \/ ClimbToIssuer \/ GiveUpWalk
    <2>1. UNCHANGED <<options, identity, root_pems, step, key_map, entries>>
      BY <1>2 DEF ReachRoot, ClimbToIssuer, GiveUpWalk, givenVars
    <2>2. \A id \in DOMAIN key_map : Vouched(id, key_map[id]) => Vouched(id, key_map[id])'
      BY <2>1, VouchedKept
    <2>3. Entries' = Entries
      BY <2>1 DEF Entries
    <2> QED
      BY <2>1, <2>2, <2>3 DEF KeysInv
  <1>3. CASE EndWalks
    <2>1. /\ step = "walks" /\ step' = "keys" /\ UNCHANGED <<options, identity, key_map>>
          /\ entries' = IF identity = None \/ options.console_key # None THEN <<>> ELSE Entries
      BY <1>3 DEF EndWalks, givenVars, Entries
    <2>2. DOMAIN key_map = {}
      BY <2>1 DEF KeysInv
    <2>3. Entries' = Entries
      BY <2>1 DEF Entries
    <2>4. identity # None => Entries \in Seq(Range(Entries))
      BY DEF FilesInv, WellFormed, Entries
    <2> QED
      BY <2>1, <2>2, <2>3, <2>4 DEF KeysInv
  <1>4. CASE OverrideConsoleKey
    <2>1. /\ step = "keys" /\ step' = "revocations" /\ options.console_key # None
          /\ UNCHANGED <<options, identity, entries>>
      BY <1>4 DEF OverrideConsoleKey, givenVars
    <2>2. DOMAIN key_map = {}
      BY <2>1 DEF KeysInv
    <2>3. PICK given : given = Get(options.console_key)
      OBVIOUS
    <2>4. options.console_key = Some(given)
      BY <2>1, <2>3 DEF FilesInv, IsOption
    <2>5. CASE given = None
      <3>1. key_map' = key_map
        BY <1>4, <2>3, <2>5 DEF OverrideConsoleKey
      <3> QED
        BY <2>1, <2>2, <3>1 DEF KeysInv
    <2>6. CASE given # None
      <3>1. given = Some(Get(given))
        BY <2>1, <2>3, <2>6 DEF FilesInv, IsOption
      <3>2. key_map' = KeyMapWith("override", Get(given))
        BY <1>4, <2>3, <2>6 DEF OverrideConsoleKey
      <3>3. \A id \in DOMAIN key_map' : key_map'[id] = Get(given)
        BY <2>2, <3>2 DEF KeyMapWith
      <3>4. \A id \in DOMAIN key_map' : options'.console_key = Some(Some(key_map'[id]))
        BY <2>1, <2>4, <3>1, <3>3
      <3>5. \A id \in DOMAIN key_map' : Vouched(id, key_map[id])'
        BY <3>4 DEF Vouched
      <3> QED
        BY <2>1, <3>5 DEF KeysInv
    <2> QED
      BY <2>5, <2>6
  <1>5. CASE ReadConsoleKey
    <2>1. /\ step = "keys" /\ step' = "keys" /\ entries # <<>> /\ entries' = Tail(entries)
          /\ UNCHANGED <<options, identity, root_pems>>
      BY <1>5 DEF ReadConsoleKey, givenVars
    <2>2. /\ options.console_key = None /\ identity # None
          /\ entries \in Seq(Range(Entries))
      BY <2>1 DEF KeysInv
    <2>3. PICK entry : entry = Head(entries)
      OBVIOUS
    <2>4. entry \in Range(Entries) /\ entries' \in Seq(Range(Entries))
      BY <2>1, <2>2, <2>3, SMTT(30)
    <2>5. IsOption(entry.statement.key) /\ IsOption(entry.signature)
      BY <2>2, <2>4, SMTT(30) DEF FilesInv, WellFormed, Entries
    <2>6. /\ findings' = findings \cup KeyFindings(entry)
          /\ key_map' = IF KeyFindings(entry) \subseteq {"console_key_unattested"}
                        THEN KeyMapWith(entry.statement.key_id, Get(entry.statement.key))
                        ELSE key_map
      BY <1>5, <2>3 DEF ReadConsoleKey
    <2>8. ASSUME NEW id \in DOMAIN key_map', NEW key, key = key_map'[id]
          PROVE  Vouched(id, key)'
      <3>1. CASE id \in DOMAIN key_map /\ key = key_map[id]
        <4>1. Vouched(id, key)
          BY <2>1, <3>1 DEF KeysInv
        <4> QED
          BY <2>1, <4>1, VouchedKept, SMTT(30)
      <3>2. CASE ~(id \in DOMAIN key_map /\ key = key_map[id])
        <4>1. /\ KeyFindings(entry) \subseteq {"console_key_unattested"}
              /\ id = entry.statement.key_id /\ key = Get(entry.statement.key)
          BY <2>6, <2>8, <3>2, SMTT(30) DEF KeyMapWith
        <4>2. entry.statement.key # None
          BY <4>1 DEF KeyFindings
        <4>3. entry.statement.key = Some(key)
          BY <2>5, <4>1, <4>2, SMTT(30) DEF IsOption
        <4>4. CASE entry.signature = None
          <5>1. "console_key_unattested" \in findings'
            BY <2>6, <4>2, <4>4 DEF KeyFindings
          <5> QED
            BY <5>1, SMTT(30) DEF Vouched, Kept
        <4>5. CASE entry.signature # None
          <5>1. Attested(entry)
            BY <4>1, <4>2, <4>5, SMTT(30) DEF KeyFindings
          <5>2. entry.signature = Some(Get(entry.signature))
            BY <2>5, <4>5 DEF IsOption
          <5>3. PICK k \in RootKeys : Get(entry.signature) = IdentitySignature(k, entry.statement)
            BY <5>1, SMTT(30) DEF Attested
          <5>4. Vouched(id, key)
            BY <2>4, <4>1, <4>3, <5>2, <5>3, Zenon DEF Vouched
          <5> QED
            BY <2>1, <5>4, VouchedKept, SMTT(30)
        <4> QED
          BY <4>4, <4>5
      <3> QED
        BY <3>1, <3>2
    <2>9. \A id \in DOMAIN key_map' : Vouched(id, key_map[id])'
      BY <2>8
    <2>10. Entries' = Entries
      BY <2>1 DEF Entries
    <2> QED
      BY <2>1, <2>2, <2>4, <2>9, <2>10, SMTT(30) DEF KeysInv
  <1>6. CASE EndConsoleKeys \/ CheckRevocations
    <2>1. /\ UNCHANGED <<options, identity, root_pems, key_map, entries>>
          /\ \/ step = "keys" /\ step' = "revocations"
             \/ step' = "chain"
      BY <1>6 DEF EndConsoleKeys, CheckRevocations, givenVars
    <2>2. \A id \in DOMAIN key_map : Vouched(id, key_map[id]) => Vouched(id, key_map[id])'
      BY <2>1, VouchedKept
    <2> QED
      BY <2>1, <2>2 DEF KeysInv
  <1> QED
    BY <1>1, <1>2, <1>3, <1>4, <1>5, <1>6, SMTT(30) DEF IdentityNext
=============================================================================
