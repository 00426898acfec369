--------------------------- MODULE MembershipProofs ---------------------------
(***************************************************************************)
(* Proofs about etcdserver/api/membership, whose processes agree on the    *)
(* members of a new cluster without talking to each other, for any number  *)
(* of processes, any configurations and any hash, also one that clashes.   *)
(***************************************************************************)
EXTENDS ClusterBootstrap, FiniteSetTheorems, TLAPS

\* The time a leaf is given; the ones meant for Zenon name it.
USE SMTT(60)

-----------------------------------------------------------------------------
(* Sorted ids, whatever the order of entries and names *)

\* A finite set of numbers can be written in ascending order: each element at the
\* place that counts those up to it.
LEMMA AscendingExists ==
  ASSUME NEW S \in SUBSET Nat, IsFiniteSet(S)
  PROVE  \E s \in [1..Cardinality(S) -> S] : \A i, j \in 1..Cardinality(S) : i < j => s[i] < s[j]
<1> DEFINE n == Cardinality(S)
           Upto(x) == {y \in S : y <= x}
           rank == [x \in S |-> Cardinality(Upto(x))]
<1>0. n \in Nat /\ \A x \in S : x \in Nat
  BY FS_CardinalityType
<1>1. ASSUME NEW x \in S PROVE IsFiniteSet(Upto(x)) /\ Cardinality(Upto(x)) \in 1..n
  <2>1. IsFiniteSet(Upto(x)) /\ Cardinality(Upto(x)) <= n
    BY FS_Subset
  <2>2. Cardinality(Upto(x)) \in Nat
    BY <2>1, FS_CardinalityType
  <2>3. x \in Upto(x)
    OBVIOUS
  <2>4. Cardinality(Upto(x)) # 0
    BY <2>1, <2>3, FS_EmptySet
  <2> QED BY <1>0, <2>1, <2>2, <2>4
<1>2. ASSUME NEW x \in S, NEW y \in S, x < y PROVE Cardinality(Upto(x)) < Cardinality(Upto(y))
  <2>0. x \in Nat /\ y \in Nat
    BY <1>0
  <2>1. Upto(x) \in SUBSET Upto(y) /\ y \in Upto(y) /\ y \notin Upto(x)
    <3>1. ASSUME NEW z \in Upto(x) PROVE z \in Upto(y)
      <4>1. z \in S /\ z <= x /\ z \in Nat
        BY <1>0
      <4> QED BY <1>2, <2>0, <4>1
    <3>2. y \in Upto(y) /\ y \notin Upto(x)
      BY <1>2, <2>0
    <3> HIDE DEF Upto
    <3> QED BY <3>1, <3>2
  <2>2. Cardinality(Upto(x)) <= Cardinality(Upto(y)) /\ Cardinality(Upto(y)) # Cardinality(Upto(x))
    BY <1>1, <2>1, FS_Subset
  <2>3. Cardinality(Upto(x)) \in Nat /\ Cardinality(Upto(y)) \in Nat
    BY <1>0, <1>1
  <2> QED BY <2>2, <2>3
<1>3. rank \in [S -> 1..n]
  BY <1>1
<1>4. ASSUME NEW x \in S, NEW y \in S, rank[x] = rank[y] PROVE x = y
  <2>1. Cardinality(Upto(x)) = Cardinality(Upto(y)) /\ Cardinality(Upto(x)) \in Nat
    BY <1>0, <1>1, <1>4
  <2>2. ~(x < y) /\ ~(y < x)
    BY <1>2, <2>1
  <2> QED BY <2>2
<1>5. rank \in Injection(S, 1..n)
  BY ZenonT(60), <1>3, <1>4 DEF Injection, IsInjective
<1>6. IsFiniteSet(1..n) /\ Cardinality(1..n) = n
  BY <1>0, FS_Interval
<1>7. rank \in Surjection(S, 1..n)
  BY <1>5, <1>6, FS_Injection
<1>8. \A k \in 1..n : \E x \in S : rank[x] = k
  BY ZenonT(60), <1>7 DEF Surjection
<1> DEFINE s == [k \in 1..n |-> CHOOSE x \in S : rank[x] = k]
<1>9. ASSUME NEW k \in 1..n PROVE s[k] \in S /\ rank[s[k]] = k
  BY ZenonT(60), <1>8
<1>10. s \in [1..n -> S]
  BY ZenonT(60), <1>9
<1>11. ASSUME NEW i \in 1..n, NEW j \in 1..n, i < j PROVE s[i] < s[j]
  <2>1. s[i] \in S /\ s[j] \in S /\ rank[s[i]] = i /\ rank[s[j]] = j
    BY ZenonT(60), <1>9
  <2> HIDE DEF s, rank
  <2>2. s[j] < s[i] => rank[s[j]] < rank[s[i]]
    BY ZenonT(60), <1>2, <2>1 DEF rank
  <2>3. s[i] \in Nat /\ s[j] \in Nat
    BY ZenonT(60), <1>0, <2>1
  <2>4. s[i] # s[j]
    <3>1. i # j
      BY <1>0, <1>11
    <3> QED BY Zenon, <2>1, <3>1
  <2>5. ~(s[j] < s[i])
    <3>1. ~(j < i)
      BY <1>0, <1>11
    <3> QED BY Zenon, <2>1, <2>2, <3>1
  <2> QED BY <2>3, <2>4, <2>5
<1> QED BY ZenonT(60), <1>10, <1>11

\* sort: the result is ascending, and has every element of the set.
LEMMA AscendingIs ==
  ASSUME NEW S \in SUBSET Nat, IsFiniteSet(S)
  PROVE  /\ Ascending(S) \in [1..Cardinality(S) -> S]
         /\ Range(Ascending(S)) = S
<1> DEFINE n == Cardinality(S)
           s == Ascending(S)
<1>1. s \in [1..n -> S] /\ \A i, j \in 1..n : i < j => s[i] < s[j]
  BY AscendingExists DEF Ascending
<1> HIDE DEF s
<1>2. n \in Nat
  BY FS_CardinalityType
<1>3. ASSUME NEW i \in 1..n, NEW j \in 1..n, s[i] = s[j] PROVE i = j
  <2>0. s[i] \in Nat /\ s[j] \in Nat
    BY ZenonT(60), <1>1
  <2>1. ~(i < j) /\ ~(j < i)
    BY <1>1, <1>3, <2>0
  <2> QED BY <1>2, <2>1
<1>4. s \in Injection(1..n, S)
  BY <1>1, <1>3 DEF Injection, IsInjective
<1>5. Cardinality(1..n) = n
  BY <1>2, FS_Interval
<1>6. s \in Surjection(1..n, S)
  BY <1>4, <1>5, FS_Injection
<1>7. Range(s) = S
  BY <1>1, <1>6 DEF Surjection, Range
<1> QED BY <1>1, <1>7 DEF s

\* A listing has every element of the set.
LEMMA ListingIs ==
  ASSUME NEW S, IsFiniteSet(S), NEW s \in Listings(S)
  PROVE  /\ DOMAIN s = 1..Cardinality(S) /\ Cardinality(S) \in Nat
         /\ Range(s) = S
<1>1. Cardinality(S) \in Nat
  BY FS_CardinalityType
<1>2. Cardinality(1..Cardinality(S)) = Cardinality(S)
  BY <1>1, FS_Interval
<1>3. s \in Injection(1..Cardinality(S), S)
  BY DEF Listings
<1>4. s \in Surjection(1..Cardinality(S), S)
  BY <1>2, <1>3, FS_Injection
<1> QED BY <1>1, <1>4 DEF Surjection, Range

\* parse: the URLs of a name, as a set.
LEMMA UrlsAre ==
  ASSUME NEW config \in Configs, NEW p \in Procs, given[p] \in Listings(config), NEW name
  PROVE  Range(UrlsOf(p, name)) = {e[2] : e \in {f \in config : f[1] = name}}
<1> DEFINE s == given[p]
           P == {i \in DOMAIN s : s[i][1] = name}
           u == [i \in DOMAIN Ascending(P) |-> s[Ascending(P)[i]][2]]
<1>1. DOMAIN s = 1..Cardinality(config) /\ Cardinality(config) \in Nat /\ Range(s) = config
  BY ConfigAssumption, ListingIs
<1>2. P \in SUBSET Nat /\ IsFiniteSet(P)
  <2>1. P \in SUBSET (1..Cardinality(config)) /\ IsFiniteSet(1..Cardinality(config))
    BY <1>1, FS_Interval
  <2>2. IsFiniteSet(P)
    <3> HIDE DEF P
    <3> QED BY ZenonT(60), <2>1, FS_Subset
  <2> QED BY <2>1, <2>2
<1>3. Range(Ascending(P)) = P
  BY ZenonT(60), <1>2, AscendingIs
<1>4. UrlsOf(p, name) = u
  BY DEF UrlsOf
<1>5. Range(u) = {s[i][2] : i \in P}
  <2> DEFINE a == Ascending(P)
  <2>1. Range(u) = {s[a[k]][2] : k \in DOMAIN a}
    BY DEF Range
  <2>2. P = {a[k] : k \in DOMAIN a}
    BY ZenonT(60), <1>3 DEF Range
  <2> HIDE DEF P, a, u
  <2> QED BY <2>1, <2>2
<1>6. {s[i][2] : i \in P} = {e[2] : e \in {f \in config : f[1] = name}}
  BY <1>1 DEF Range
<1> QED BY ZenonT(60), <1>4, <1>5, <1>6

\* What a process makes of a configuration c, with the hash h and the token t.
NamesIn(c) == {e[1] : e \in c}
\* Parse finds no bad URL; the id NewMember computes; two names with one id.
AllGood(c) == \A e \in c : e[2] # BadUrl
Id(h, c, t, name) == h[Text(Ascending({e[2] : e \in {f \in c : f[1] = name}})) \o t]
Clashes(h, c, t) ==
  \E n \in NamesIn(c) : Id(h, c, t, n) = None \/ \E m \in NamesIn(c) : m # n /\ Id(h, c, t, m) = Id(h, c, t, n)

\* parse, newMember: it does not depend on the order of the entries.
LEMMA OrderDoesNotMatter ==
  ASSUME NEW c \in Configs, NEW p \in Procs, given[p] \in Listings(c)
  PROVE  /\ NamesOf(p) = NamesIn(c)
         /\ Accepted(p) <=> AllGood(c)
         /\ \A name : MemberID(p, name) = Id(hash, c, token[p], name)
<1>1. Range(given[p]) = c
  BY ConfigAssumption, ListingIs
<1>2. NamesOf(p) = NamesIn(c)
  BY <1>1 DEF NamesOf, NamesIn
<1>3. Accepted(p) <=> AllGood(c)
  BY <1>1 DEF Accepted, AllGood
<1>4. ASSUME NEW name PROVE MemberID(p, name) = Id(hash, c, token[p], name)
  <2>1. Range(UrlsOf(p, name)) = {e[2] : e \in {f \in c : f[1] = name}}
    BY UrlsAre
  <2> QED BY <2>1, Zenon DEF MemberID, Id
<1> QED BY <1>2, <1>3, <1>4

\* newMember: ids are numbers.
LEMMA IdsAre ==
  ASSUME NEW h \in Hashes, NEW c \in Configs, AllGood(c), NEW n \in NamesIn(c), NEW t \in Tokens
  PROVE  Id(h, c, t, n) \in Nat
<1> DEFINE text(name) == Text(Ascending({e[2] : e \in {f \in c : f[1] = name}})) \o t
<1>1. PICK e \in c : n = e[1]
  BY DEF NamesIn
<1>2. text(n) \in DOMAIN h
  BY ZenonT(60), <1>1, HashAssumption DEF AllGood
<1>3. \A x \in DOMAIN h : h[x] \in Nat
  BY HashAssumption
<1>4. Id(h, c, t, n) = h[text(n)]
  BY ZenonT(60) DEF Id
<1> HIDE DEF text
<1> QED BY ZenonT(60), <1>2, <1>3, <1>4

\* A configuration has finitely many names, and so ids.
LEMMA IdsFinite ==
  ASSUME NEW h, NEW c \in Configs, NEW t PROVE IsFiniteSet({Id(h, c, t, n) : n \in NamesIn(c)})
<1> DEFINE f == [e \in c |-> Id(h, c, t, e[1])]
           T == {Id(h, c, t, n) : n \in NamesIn(c)}
<1>1. f \in Surjection(c, T)
  BY DEF Surjection, NamesIn
<1>2. IsFiniteSet(c)
  BY ConfigAssumption
<1> HIDE DEF f, T
<1>3. IsFiniteSet(T)
  BY <1>1, <1>2, FS_Surjection
<1> QED BY <1>3 DEF T

\* NewClusterFromURLsMap: the map m has the names the loop has reached, all but left.
Mapped(h, c, t, left, m) ==
  /\ left \subseteq NamesIn(c)
  /\ m \in [{Id(h, c, t, n) : n \in NamesIn(c) \ left} -> NamesIn(c)]
  /\ \A n \in NamesIn(c) \ left : Id(h, c, t, n) # None /\ m[Id(h, c, t, n)] = n

\* NewServer, startNode: what is known of a process n from where it is (at), with
\* the hash h and the token t, and with the names left, the map m, the ids l and i
\* and the log b that it has.
Known(c, n, h, t, at, left, m, l, i, b) ==
  /\ at \in {"parse", "members", "started", "failed"}
  /\ at = "parse" => m = <<>>
  /\ at \in {"members", "started"} => Mapped(h, c, t, left, m) /\ AllGood(c) /\ n \in NamesIn(c)
  /\ at = "failed" => ~AllGood(c) \/ n \notin NamesIn(c) \/ Clashes(h, c, t)
  /\ at = "started" => left = {} /\ b = Ascending(DOMAIN m) /\ i = b /\ l \in DOMAIN m /\ m[l] = n

\* The same of the process p.
BootInv(c, p) == Known(c, Name[p], hash, token[p], pc[p], todo[p], members[p], local[p], cid[p], boot[p])

\* The types, the order every process was given the one configuration in, and
\* the inductive invariant: every process works through that configuration.
BootTypeOK ==
  /\ hash \in Hashes /\ token \in [Procs -> Tokens]
  /\ DOMAIN pc = Procs /\ DOMAIN todo = Procs /\ DOMAIN members = Procs
  /\ DOMAIN local = Procs /\ DOMAIN cid = Procs /\ DOMAIN boot = Procs
GivenInv(c) == \A p \in Procs : given[p] \in Listings(c)
Works(c) == GivenInv(c) /\ \A p \in Procs : BootInv(c, p)
ClusterInv == BootTypeOK /\ \E c \in Configs : Works(c)

\* A step of p leaves hash and flags, and the other processes as they are.
OthersStay(p) ==
  /\ hash' = hash /\ given' = given /\ token' = token
  /\ \A q \in Procs : q # p =>
       /\ pc'[q] = pc[q] /\ todo'[q] = todo[q] /\ members'[q] = members[q]
       /\ local'[q] = local[q] /\ cid'[q] = cid[q] /\ boot'[q] = boot[q]

\* What that says at each of the places, of any values.
LEMMA KnownAt ==
  ASSUME NEW c, NEW n, NEW h, NEW t, NEW at, NEW left, NEW m, NEW l, NEW i, NEW b,
         Known(c, n, h, t, at, left, m, l, i, b)
  PROVE  /\ at \in {"parse", "members", "started", "failed"}
         /\ at = "parse" => m = <<>>
         /\ at = "members" => Mapped(h, c, t, left, m) /\ AllGood(c) /\ n \in NamesIn(c)
         /\ at = "failed" => ~AllGood(c) \/ n \notin NamesIn(c) \/ Clashes(h, c, t)
         /\ at = "started" =>
              /\ Mapped(h, c, t, {}, m) /\ AllGood(c) /\ b = Ascending(DOMAIN m) /\ i = b
              /\ l \in DOMAIN m /\ m[l] = n
<1> QED BY DEF Known

\* The same of those of the process p.
LEMMA KnownIs ==
  ASSUME NEW c, NEW p, BootInv(c, p)
  PROVE  /\ pc[p] \in {"parse", "members", "started", "failed"}
         /\ pc[p] = "parse" => members[p] = <<>>
         /\ pc[p] = "members" =>
              Mapped(hash, c, token[p], todo[p], members[p]) /\ AllGood(c) /\ Name[p] \in NamesIn(c)
         /\ pc[p] = "failed" => ~AllGood(c) \/ Name[p] \notin NamesIn(c) \/ Clashes(hash, c, token[p])
         /\ pc[p] = "started" =>
              /\ Mapped(hash, c, token[p], {}, members[p]) /\ AllGood(c)
              /\ boot[p] = Ascending(DOMAIN members[p]) /\ cid[p] = boot[p]
              /\ local[p] \in DOMAIN members[p] /\ members[p][local[p]] = Name[p]
<1> QED BY KnownAt DEF BootInv

\* No process has read its flag yet.
LEMMA ClusterInit == Init => ClusterInv
<1> SUFFICES ASSUME Init PROVE ClusterInv
  OBVIOUS
<1>1. PICK c \in Configs : given \in [Procs -> Listings(c)]
  BY DEF Init
<1>2. GivenInv(c)
  BY <1>1 DEF GivenInv
<1>3. BootTypeOK
  BY DEF Init, BootTypeOK
<1>4. ASSUME NEW p \in Procs PROVE BootInv(c, p)
  <2>1. pc[p] = "parse" /\ members[p] = <<>>
    BY DEF Init
  <2> QED BY <2>1 DEF BootInv, Known
<1> QED BY <1>2, <1>3, <1>4 DEF ClusterInv, Works

\* Such a step leaves what is said of the others.
LEMMA ClusterFrame ==
  ASSUME NEW c \in Configs, NEW p \in Procs, Works(c), OthersStay(p), BootTypeOK', BootInv(c, p)'
  PROVE  ClusterInv'
<1>1. ASSUME NEW q \in Procs, q # p PROVE BootInv(c, q)'
  <2>1. BootInv(c, q)
    BY DEF Works
  <2>2. /\ hash' = hash /\ token'[q] = token[q]
        /\ pc'[q] = pc[q] /\ todo'[q] = todo[q] /\ members'[q] = members[q]
        /\ local'[q] = local[q] /\ cid'[q] = cid[q] /\ boot'[q] = boot[q]
    BY <1>1 DEF OthersStay
  <2> QED BY <2>1, <2>2 DEF BootInv
<1>2. GivenInv(c)'
  BY DEF GivenInv, Works, OthersStay
<1> QED BY <1>1, <1>2 DEF ClusterInv, Works

\* NewClusterFromURLsMap: a name whose id is taken or is None tells of a clash.
LEMMA Taken ==
  ASSUME NEW h, NEW c, NEW t, NEW left, NEW m, Mapped(h, c, t, left, m), NEW name \in left,
         Id(h, c, t, name) \in DOMAIN m \/ Id(h, c, t, name) = None
  PROVE  Clashes(h, c, t)
<1>1. DOMAIN m = {Id(h, c, t, n) : n \in NamesIn(c) \ left} /\ name \in NamesIn(c)
  BY DEF Mapped
<1>2. CASE Id(h, c, t, name) = None
  BY <1>1, <1>2 DEF Clashes
<1>3. CASE Id(h, c, t, name) \in DOMAIN m
  <2>1. PICK n \in NamesIn(c) \ left : Id(h, c, t, name) = Id(h, c, t, n)
    BY <1>1, <1>3
  <2>2. n \in NamesIn(c) /\ n # name
    OBVIOUS
  <2> QED BY <1>1, <2>1, <2>2 DEF Clashes
<1> QED BY <1>2, <1>3

\* newMember, NewClusterFromURLsMap: any other name is one more entry of the map.
LEMMA OneMore ==
  ASSUME NEW h, NEW c, NEW t, NEW left, NEW m, Mapped(h, c, t, left, m), NEW name \in left,
         Id(h, c, t, name) \notin DOMAIN m, Id(h, c, t, name) # None
  PROVE  Mapped(h, c, t, left \ {name}, With(m, Id(h, c, t, name), name))
<1> DEFINE id(n) == Id(h, c, t, n)
           before == NamesIn(c) \ left
           new == With(m, id(name), name)
<1>1. DOMAIN m = {id(n) : n \in before} /\ name \in NamesIn(c) /\ name \notin before /\ left \subseteq NamesIn(c)
  BY DEF Mapped
<1>2. NamesIn(c) \ (left \ {name}) = before \cup {name}
  BY <1>1
<1>3. {id(n) : n \in before \cup {name}} = DOMAIN m \cup {id(name)}
  BY <1>1
<1>4. \A x \in DOMAIN m : m[x] \in NamesIn(c)
  BY DEF Mapped
<1>5. new \in [DOMAIN m \cup {id(name)} -> NamesIn(c)]
  BY <1>1, <1>4 DEF With
<1>6. ASSUME NEW n \in before \cup {name} PROVE id(n) # None /\ new[id(n)] = n
  <2>1. CASE n = name
    BY <2>1 DEF With
  <2>2. CASE n \in before
    <3>1. id(n) \in DOMAIN m /\ id(n) # None /\ m[id(n)] = n
      BY <1>1, <2>2 DEF Mapped
    <3> QED BY <3>1 DEF With
  <2> QED BY <2>1, <2>2
<1> HIDE DEF new
<1>7. Mapped(h, c, t, left \ {name}, new)
  BY <1>1, <1>2, <1>3, <1>5, <1>6 DEF Mapped
<1> QED BY <1>7 DEF new

\* PeerURLsMapAndToken, VerifyBootstrap.
LEMMA ParseStep ==
  ASSUME ClusterInv, NEW p \in Procs, Parse(p) PROVE ClusterInv'
<1>1. PICK c \in Configs : Works(c)
  BY DEF ClusterInv
<1>2. given[p] \in Listings(c) /\ BootInv(c, p)
  BY <1>1 DEF Works, GivenInv
<1>3. NamesOf(p) = NamesIn(c) /\ (Accepted(p) <=> AllGood(c))
  BY <1>2, OrderDoesNotMatter
<1>4. DOMAIN pc = Procs /\ DOMAIN todo = Procs /\ BootTypeOK
  BY DEF ClusterInv, BootTypeOK
<1>5. /\ pc[p] = "parse" /\ hash' = hash /\ given' = given /\ token' = token /\ members' = members
      /\ local' = local /\ cid' = cid /\ boot' = boot
  BY DEF Parse, nodeVars
<1>6. members[p] = <<>>
  BY <1>2, <1>5, KnownIs
<1>7. CASE ~AllGood(c) \/ Name[p] \notin NamesIn(c)
  <2>1. pc' = [pc EXCEPT ![p] = "failed"] /\ todo' = todo
    BY <1>3, <1>7 DEF Parse, HasLocalMember
  <2>2. BootInv(c, p)'
    BY <1>4, <1>5, <1>7, <2>1 DEF BootInv, Known
  <2>3. BootTypeOK'
    BY <1>4, <1>5, <2>1 DEF BootTypeOK
  <2>4. OthersStay(p)
    BY <1>4, <1>5, <2>1 DEF OthersStay
  <2> QED BY <1>1, <2>2, <2>3, <2>4, ClusterFrame
<1>8. CASE AllGood(c) /\ Name[p] \in NamesIn(c)
  <2>1. pc' = [pc EXCEPT ![p] = "members"] /\ todo' = [todo EXCEPT ![p] = NamesIn(c)]
    BY <1>3, <1>8 DEF Parse, HasLocalMember
  <2>2. Mapped(hash, c, token[p], NamesIn(c), members[p])
    BY <1>6 DEF Mapped
  <2>3. BootInv(c, p)'
    BY <1>4, <1>5, <1>8, <2>1, <2>2 DEF BootInv, Known
  <2>4. BootTypeOK'
    BY <1>4, <1>5, <2>1 DEF BootTypeOK
  <2>5. OthersStay(p)
    BY <1>4, <1>5, <2>1 DEF OthersStay
  <2> QED BY <1>1, <2>3, <2>4, <2>5, ClusterFrame
<1> QED BY <1>7, <1>8

\* NewClusterFromURLsMap: the name the map yields next.
LEMMA AddStep ==
  ASSUME ClusterInv, NEW p \in Procs, NEW name, AddMember(p, name) PROVE ClusterInv'
<1>1. PICK c \in Configs : Works(c)
  BY DEF ClusterInv
<1> DEFINE id == MemberID(p, name)
           new == With(members[p], id, name)
<1>2. given[p] \in Listings(c) /\ BootInv(c, p)
  BY <1>1 DEF Works, GivenInv
<1>3. DOMAIN pc = Procs /\ DOMAIN todo = Procs /\ DOMAIN members = Procs /\ BootTypeOK
  BY DEF ClusterInv, BootTypeOK
<1>4. /\ pc[p] = "members" /\ name \in todo[p]
      /\ hash' = hash /\ given' = given /\ token' = token /\ local' = local /\ cid' = cid /\ boot' = boot
  BY DEF AddMember, nodeVars
<1>5. Mapped(hash, c, token[p], todo[p], members[p]) /\ AllGood(c) /\ Name[p] \in NamesIn(c)
  BY <1>2, <1>4, KnownIs
<1>6. id = Id(hash, c, token[p], name)
  BY <1>2, OrderDoesNotMatter
<1>7. CASE id \in DOMAIN members[p] \/ id = None
  <2>1. pc' = [pc EXCEPT ![p] = "failed"] /\ members' = members /\ todo' = todo
    BY <1>7 DEF AddMember
  <2>2. Clashes(hash, c, token[p])
    BY <1>4, <1>5, <1>6, <1>7, Taken
  <2>3. BootInv(c, p)'
    BY <1>3, <1>4, <2>1, <2>2 DEF BootInv, Known
  <2>4. BootTypeOK'
    BY <1>3, <1>4, <2>1 DEF BootTypeOK
  <2>5. OthersStay(p)
    BY <1>3, <1>4, <2>1 DEF OthersStay
  <2> QED BY <1>1, <2>3, <2>4, <2>5, ClusterFrame
<1>8. CASE id \notin DOMAIN members[p] /\ id # None
  <2>1. members' = [members EXCEPT ![p] = new] /\ todo' = [todo EXCEPT ![p] = todo[p] \ {name}] /\ pc' = pc
    BY <1>8 DEF AddMember
  <2>2. Mapped(hash, c, token[p], todo[p] \ {name}, new)
    BY <1>4, <1>5, <1>6, <1>8, OneMore
  <2> HIDE DEF new
  <2>3. members'[p] = new /\ todo'[p] = todo[p] \ {name} /\ pc'[p] = "members"
    BY <1>3, <1>4, <2>1
  <2>4. BootInv(c, p)'
    BY <1>4, <1>5, <2>2, <2>3 DEF BootInv, Known
  <2>5. BootTypeOK'
    BY <1>3, <1>4, <2>1 DEF BootTypeOK
  <2>6. OthersStay(p)
    BY <1>3, <1>4, <2>1 DEF OthersStay
  <2> QED BY <1>1, <2>4, <2>5, <2>6, ClusterFrame
<1> QED BY <1>7, <1>8

\* NewServer, startNode: VerifyBootstrap has seen that the name is there.
LEMMA StartStep ==
  ASSUME ClusterInv, NEW p \in Procs, StartNode(p) PROVE ClusterInv'
<1>1. PICK c \in Configs : Works(c)
  BY DEF ClusterInv
<1>2. pc[p] = "members" /\ todo[p] = {} /\ BootInv(c, p)
  BY ZenonT(60), <1>1 DEF StartNode, Works
<1>3. Mapped(hash, c, token[p], {}, members[p]) /\ AllGood(c) /\ Name[p] \in NamesIn(c)
  <2>1. Mapped(hash, c, token[p], todo[p], members[p]) /\ AllGood(c) /\ Name[p] \in NamesIn(c)
    BY ZenonT(60), <1>2, KnownIs
  <2> QED BY ZenonT(60), <1>2, <2>1
<1>4. Id(hash, c, token[p], Name[p]) \in MemberByName(p)
  BY <1>3 DEF MemberByName, Mapped
<1> DEFINE it == CHOOSE id \in MemberByName(p) : TRUE
<1>5. it \in MemberByName(p)
  BY <1>4
<1> HIDE DEF it
<1>6. /\ DOMAIN pc = Procs /\ DOMAIN local = Procs /\ DOMAIN cid = Procs /\ DOMAIN boot = Procs /\ BootTypeOK
  BY DEF ClusterInv, BootTypeOK
<1>7. /\ hash' = hash /\ given' = given /\ token' = token /\ todo' = todo /\ members' = members
      /\ pc' = [pc EXCEPT ![p] = "started"] /\ local' = [local EXCEPT ![p] = it]
      /\ cid' = [cid EXCEPT ![p] = MemberIDs(p)] /\ boot' = [boot EXCEPT ![p] = MemberIDs(p)]
  BY ZenonT(60), <1>4 DEF StartNode, GenID, it
<1>8. pc'[p] = "started" /\ local'[p] = it /\ cid'[p] = MemberIDs(p) /\ boot'[p] = MemberIDs(p)
  BY <1>6, <1>7
<1>9. it \in DOMAIN members[p] /\ members[p][it] = Name[p] /\ MemberIDs(p) = Ascending(DOMAIN members[p])
  BY <1>5 DEF MemberByName, MemberIDs
<1>10. Known(c, Name[p], hash, token[p], "started", {}, members[p], it, MemberIDs(p), MemberIDs(p))
  <2> HIDE DEF it
  <2> QED BY <1>3, <1>9 DEF Known
<1>11. BootInv(c, p)'
  BY <1>2, <1>7, <1>8, <1>10 DEF BootInv
<1>12. BootTypeOK'
  BY <1>6, <1>7 DEF BootTypeOK
<1>13. OthersStay(p)
  BY <1>6, <1>7 DEF OthersStay
<1> QED BY <1>1, <1>11, <1>12, <1>13, ClusterFrame

\* Every step of one process keeps the invariant, the others unchanged.
LEMMA ClusterStep == ClusterInv /\ [Next]_vars => ClusterInv'
<1>1. ASSUME ClusterInv, UNCHANGED vars PROVE ClusterInv'
  <2>1. BootTypeOK'
    BY <1>1 DEF ClusterInv, BootTypeOK, vars, nodeVars
  <2>2. ASSUME NEW c \in Configs, Works(c) PROVE Works(c)'
    BY <1>1, <2>2 DEF Works, GivenInv, BootInv, vars, nodeVars
  <2> QED BY <1>1, <2>1, <2>2 DEF ClusterInv
<1>2. ASSUME ClusterInv, Next PROVE ClusterInv'
  BY <1>2, ParseStep, AddStep, StartStep DEF Next
<1> QED BY <1>1, <1>2

\* The inductive invariant holds in every state of every run.
LEMMA ClusterAlways == Spec => []ClusterInv
<1> QED BY ClusterInit, ClusterStep, PTL DEF Spec

\* NewClusterFromURLsMap, VerifyBootstrap: every process of a configuration takes it,
\* or every one refuses it.
THEOREM VerdictIsShared == Spec => []SameVerdict
<1>1. ASSUME ClusterInv, NEW p \in Procs, NEW q \in Procs, Done(p), Done(q), SameToken(p, q),
             {Name[p], Name[q]} \subseteq NamesOf(p)
      PROVE  pc[p] = pc[q]
  <2>1. PICK c \in Configs : Works(c)
    BY <1>1 DEF ClusterInv
  <2>2. NamesOf(p) = NamesIn(c)
    <3>1. given[p] \in Listings(c)
      BY <2>1 DEF Works, GivenInv
    <3> QED BY <3>1, OrderDoesNotMatter
  <2>3. Name[p] \in NamesIn(c) /\ Name[q] \in NamesIn(c) /\ token[p] = token[q]
    BY <1>1, <2>2 DEF SameToken
  <2>4. ASSUME NEW r \in Procs, pc[r] = "started" PROVE AllGood(c) /\ ~Clashes(hash, c, token[r])
    <3>1. BootInv(c, r)
      BY <2>1 DEF Works
    <3>2. Mapped(hash, c, token[r], {}, members[r]) /\ AllGood(c)
      BY <2>4, <3>1, KnownIs
    <3> QED BY <3>2 DEF Mapped, Clashes
  <2>5. BootInv(c, p) /\ BootInv(c, q)
    BY <2>1 DEF Works
  <2>6. pc[p] \in {"started", "failed"} /\ pc[q] \in {"started", "failed"}
    BY <1>1, <2>5, KnownIs DEF Done
  <2>7. ASSUME NEW r \in Procs, pc[r] = "failed"
        PROVE  ~AllGood(c) \/ Name[r] \notin NamesIn(c) \/ Clashes(hash, c, token[r])
    <3>1. BootInv(c, r)
      BY <2>1 DEF Works
    <3> QED BY <2>7, <3>1, KnownIs
  <2> QED BY <2>3, <2>4, <2>6, <2>7
<1>2. ClusterInv => SameVerdict
  BY <1>1 DEF SameVerdict
<1> QED BY <1>2, ClusterAlways, PTL

\* NewServer, MemberByName: the member of the process is among the members, so
\* startNode follows no nil pointer.
MemberIsFound == \A p \in Procs : pc[p] # "panicked"

\* VerifyBootstrap, MemberByName: a process that gets as far as startNode is a
\* member of its own map.
THEOREM MemberAlwaysFound == Spec => []MemberIsFound
<1>1. ASSUME ClusterInv, NEW p \in Procs PROVE pc[p] # "panicked"
  <2>1. PICK c \in Configs : BootInv(c, p)
    BY <1>1 DEF ClusterInv, Works
  <2> QED BY <2>1, KnownIs
<1>2. ClusterInv => MemberIsFound
  BY <1>1 DEF MemberIsFound
<1> QED BY <1>2, ClusterAlways, PTL

\* What startNode starts from: the ids of all the names, which are numbers.
LEMMA StartedIs ==
  ASSUME ClusterInv, NEW c \in Configs, NEW p \in Procs, BootInv(c, p), Started(p)
  PROVE  /\ DOMAIN members[p] = {Id(hash, c, token[p], n) : n \in NamesIn(c)}
         /\ \A n \in NamesIn(c) : members[p][Id(hash, c, token[p], n)] = n
         /\ members[p] \in [DOMAIN members[p] -> NamesIn(c)]
         /\ Range(boot[p]) = DOMAIN members[p] /\ cid[p] = boot[p] /\ boot[p] = Ascending(DOMAIN members[p])
         /\ local[p] \in DOMAIN members[p] /\ members[p][local[p]] = Name[p] /\ AllGood(c)
<1> DEFINE T == {Id(hash, c, token[p], n) : n \in NamesIn(c)}
<1>1. /\ Mapped(hash, c, token[p], {}, members[p]) /\ AllGood(c)
      /\ boot[p] = Ascending(DOMAIN members[p]) /\ cid[p] = boot[p]
      /\ local[p] \in DOMAIN members[p] /\ members[p][local[p]] = Name[p]
  BY KnownIs DEF Started
<1>2. NamesIn(c) \ {} = NamesIn(c)
  OBVIOUS
<1>3. members[p] \in [T -> NamesIn(c)] /\ \A n \in NamesIn(c) : members[p][Id(hash, c, token[p], n)] = n
  BY ZenonT(60), <1>1, <1>2 DEF Mapped
<1>4. hash \in Hashes /\ token[p] \in Tokens
  BY ZenonT(60) DEF ClusterInv, BootTypeOK
<1>5. T \in SUBSET Nat
  BY <1>1, <1>4, IdsAre
<1>6. IsFiniteSet(T)
  BY IdsFinite
<1>7. DOMAIN members[p] = T
  BY <1>3
<1> HIDE DEF T
<1>8. Range(Ascending(T)) = T
  BY <1>5, <1>6, AscendingIs
<1> QED BY ZenonT(60), <1>1, <1>3, <1>7, <1>8 DEF T

\* NewClusterFromURLsMap, genID, startNode: the processes of a cluster start from the
\* same members, id and log, whatever order operators and maps have.
THEOREM BootstrapIsShared == Spec => []SameBootstrap
<1>1. ASSUME ClusterInv, NEW p \in Procs, NEW q \in Procs, Started(p), Started(q), SameToken(p, q)
      PROVE  /\ boot[p] = boot[q] /\ cid[p] = cid[q] /\ members[p] = members[q]
             /\ local[p] \in Range(boot[p])
             /\ local[p] = local[q] => Name[p] = Name[q]
  <2>1. PICK c \in Configs : Works(c)
    BY <1>1 DEF ClusterInv
  <2> DEFINE D(r) == DOMAIN members[r]
             id(r, n) == Id(hash, c, token[r], n)
  <2>2. ASSUME NEW r \in {p, q}
        PROVE  /\ D(r) = {id(r, n) : n \in NamesIn(c)} /\ \A n \in NamesIn(c) : members[r][id(r, n)] = n
               /\ members[r] \in [D(r) -> NamesIn(c)]
               /\ Range(boot[r]) = D(r) /\ cid[r] = boot[r] /\ boot[r] = Ascending(D(r))
               /\ local[r] \in D(r) /\ members[r][local[r]] = Name[r] /\ AllGood(c)
    <3>1. r \in Procs /\ Started(r) /\ BootInv(c, r)
      BY <1>1, <2>1 DEF Works
    <3> QED BY <1>1, <3>1, StartedIs
  <2>3. members[p] = members[q]
    <3>1. \A n \in NamesIn(c) : id(p, n) = id(q, n)
      BY <1>1 DEF SameToken
    <3>2. D(p) = D(q)
      BY <2>2, <3>1
    <3>3. ASSUME NEW x \in D(p) PROVE members[p][x] = members[q][x]
      <4>1. PICK n \in NamesIn(c) : x = id(p, n)
        BY <2>2
      <4> QED BY <2>2, <3>1, <4>1
    <3> QED BY <2>2, <3>2, <3>3
  <2> HIDE DEF D, id
  <2>4. D(p) = D(q)
    BY <2>3 DEF D
  <2>5. boot[p] = boot[q] /\ cid[p] = cid[q]
    BY <2>2, <2>4
  <2>6. local[p] \in Range(boot[p])
    BY <2>2
  <2>7. local[p] = local[q] => Name[p] = Name[q]
    BY <2>2, <2>3
  <2> QED BY <2>3, <2>5, <2>6, <2>7
<1>2. ClusterInv => SameBootstrap
  BY <1>1 DEF SameBootstrap
<1> QED BY <1>2, ClusterAlways, PTL

=============================================================================
