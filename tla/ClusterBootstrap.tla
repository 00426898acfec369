-------------------------- MODULE ClusterBootstrap --------------------------
(***************************************************************************)
(* How the processes of a new cluster agree on its members without talking *)
(* to each other: every process reads --initial-cluster, which lists the   *)
(* members in the order its operator wrote them, turns it into a map, goes *)
(* through the map in the random order of Go, hashes URLs and token into   *)
(* ids, and starts raft from the sorted ids (types.NewURLsMap,             *)
(* membership.NewClusterFromURLsMap, startNode).                           *)
(*                                                                         *)
(* A URL is a number, in the order of the strings, and has a text; what is *)
(* hashed is the texts one after the other, with nothing between them, and *)
(* the token.  The first 8 bytes of sha1 are any function of the text,     *)
(* chosen at the start; a result may be raft.None.  The id of the cluster, *)
(* a hash of the sorted ids, is the sequence of them.                      *)
(***************************************************************************)
EXTENDS Naturals, Sequences, FiniteSets, Functions

CONSTANTS
  Procs,    \* the processes
  Name,     \* Name[p]: --name of the process
  Configs,  \* sets of pairs of a name and a URL an operator may mean
  UrlText,  \* UrlText[u]: the text of a URL, a sequence of pieces
  Tokens,   \* values of --initial-cluster-token, as texts
  Hashes,   \* functions from texts to ids
  BadUrl    \* a URL NewURLs does not accept

None == 0   \* raft.None

\* sort.Strings, sort.Sort: the elements of S, which are all different, in order.
Ascending(S) ==
  CHOOSE s \in [1..Cardinality(S) -> S] : \A i, j \in 1..Cardinality(S) : i < j => s[i] < s[j]

\* The ways to write S down, each element once.
Listings(S) == Injection(1..Cardinality(S), S)

\* The loop of newMember over the URLs: their texts in one.
Text(urls) ==
  LET b[i \in 0..Len(urls)] == IF i = 0 THEN <<>> ELSE b[i - 1] \o UrlText[urls[i]]
  IN  b[Len(urls)]

\* A configuration is finite.
ASSUME ConfigAssumption ==
  \A config \in Configs : IsFiniteSet(config) /\ \A e \in config : e[2] \in Nat

\* The hash is known for every member that can come up.  It need not tell texts apart.
ASSUME HashAssumption ==
  \A h \in Hashes :
    /\ \A x \in DOMAIN h : h[x] \in Nat
    /\ \A config \in Configs : (\A e \in config : e[2] # BadUrl) =>
         \A e \in config, t \in Tokens :
           Text(Ascending({f[2] : f \in {g \in config : g[1] = e[1]}})) \o t \in DOMAIN h

VARIABLES
  hash,     \* sha1
  given,    \* per process: --initial-cluster, a sequence of pairs
  token,    \* per process: --initial-cluster-token
  pc,       \* per process: "parse", "members", "started", "failed" or "panicked"
  todo,     \* per process: names the loop over the map has not reached
  members,  \* per process: RaftCluster.members, the name of every id
  local,    \* per process: the id it starts raft with
  cid,      \* per process: RaftCluster.cid
  boot      \* per process: the ids of its bootstrap entries, in order

nodeVars == <<local, cid, boot>>
vars == <<hash, given, token, pc, todo, members, nodeVars>>

Init ==
  /\ hash \in Hashes
  /\ \E config \in Configs : given \in [Procs -> Listings(config)]
  /\ token \in [Procs -> Tokens]
  /\ pc = [p \in Procs |-> "parse"] /\ todo = [p \in Procs |-> {}]
  /\ members = [p \in Procs |-> <<>>]
  /\ local = [p \in Procs |-> None] /\ cid = [p \in Procs |-> <<>>] /\ boot = [p \in Procs |-> <<>>]

\* parse: the names, and the URLs of a name in the order given.
NamesOf(p) == {e[1] : e \in Range(given[p])}
UrlsOf(p, name) ==
  LET entries == Ascending({i \in DOMAIN given[p] : given[p][i][1] = name})
  IN [i \in DOMAIN entries |-> given[p][entries[i]][2]]

\* NewURLs fails on a URL it does not accept.
Accepted(p) == BadUrl \notin {e[2] : e \in Range(given[p])}

\* VerifyBootstrap
HasLocalMember(p) == Name[p] \in NamesOf(p)

\* PeerURLsMapAndToken and VerifyBootstrap
Parse(p) ==
  /\ pc[p] = "parse"
  /\ IF ~Accepted(p) \/ ~HasLocalMember(p)
     THEN pc' = [pc EXCEPT ![p] = "failed"] /\ UNCHANGED todo
     ELSE pc' = [pc EXCEPT ![p] = "members"] /\ todo' = [todo EXCEPT ![p] = NamesOf(p)]
  /\ UNCHANGED <<hash, given, token, members, nodeVars>>

\* Mistake: the URLs are hashed in the order given.
MemberIDUnsorted(p, name) == hash[Text(UrlsOf(p, name)) \o token[p]]

\* newMember: the hash of the sorted URLs and the token; the name is not part of it.
MemberID(p, name) == hash[Text(Ascending(Range(UrlsOf(p, name)))) \o token[p]]

\* The map m with one more member.
With(m, id, name) == [x \in DOMAIN m \cup {id} |-> IF x = id THEN name ELSE m[x]]

\* Mistake: a member replaces another one with the same id.
AddMemberReplaces(p, name) ==
  /\ pc[p] = "members" /\ name \in todo[p]
  /\ members' = [members EXCEPT ![p] = With(@, MemberID(p, name), name)]
  /\ todo' = [todo EXCEPT ![p] = @ \ {name}]
  /\ UNCHANGED <<hash, given, token, pc, nodeVars>>

\* The loop of NewClusterFromURLsMap, for the name the map yields next.
AddMember(p, name) ==
  /\ pc[p] = "members" /\ name \in todo[p]
  /\ LET id == MemberID(p, name)
     IN IF id \in DOMAIN members[p] \/ id = None
        THEN pc' = [pc EXCEPT ![p] = "failed"] /\ UNCHANGED <<members, todo>>
        ELSE /\ members' = [members EXCEPT ![p] = With(@, id, name)]
             /\ todo' = [todo EXCEPT ![p] = @ \ {name}]
             /\ UNCHANGED pc
  /\ UNCHANGED <<hash, given, token, nodeVars>>

\* RaftCluster.MemberIDs
MemberIDs(p) == Ascending(DOMAIN members[p])

\* RaftCluster.genID: a hash of the sorted ids
GenID(p) == MemberIDs(p)

\* RaftCluster.MemberByName
MemberByName(p) == {id \in DOMAIN members[p] : members[p][id] = Name[p]}

\* isMemberBootstrapped asks the other members, but getClusterFromRemotePeers
\* returns an error whatever they answer.
IsMemberBootstrapped(p) == FALSE

\* NewServer, startNode: raft starts from the sorted ids.  A name without member
\* would be a nil pointer.
StartNode(p) ==
  /\ pc[p] = "members" /\ todo[p] = {} /\ ~IsMemberBootstrapped(p)
  /\ pc' = [pc EXCEPT ![p] = IF MemberByName(p) = {} THEN "panicked" ELSE "started"]
  /\ cid' = [cid EXCEPT ![p] = GenID(p)]
  /\ boot' = [boot EXCEPT ![p] = MemberIDs(p)]
  /\ local' = [local EXCEPT ![p] = IF MemberByName(p) = {} THEN None ELSE CHOOSE id \in MemberByName(p) : TRUE]
  /\ UNCHANGED <<hash, given, token, todo, members>>

Next == \E p \in Procs : Parse(p) \/ StartNode(p) \/ \E name \in NamesOf(p) : AddMember(p, name)

Spec == Init /\ [][Next]_vars

-----------------------------------------------------------------------------

SameToken(p, q) == token[p] = token[q]
Started(p) == pc[p] = "started"
Done(p) == pc[p] \in {"started", "failed", "panicked"}

\* NewClusterFromURLsMap, genID, startNode: processes of one cluster start from the
\* same members, the same cluster id and the same bootstrap log, however their
\* operators ordered the flag and in whatever order Go walks the maps.  The
\* bootstrap entries are committed without a vote, so a difference would be two
\* logs that disagree on committed entries.  Each process has an id of its own, which
\* the log adds.
SameBootstrap ==
  \A p, q \in Procs : Started(p) /\ Started(q) /\ SameToken(p, q) =>
    /\ boot[p] = boot[q] /\ cid[p] = cid[q] /\ members[p] = members[q]
    /\ local[p] \in Range(boot[p])
    /\ local[p] = local[q] => Name[p] = Name[q]

\* NewClusterFromURLsMap: a configuration is refused by all processes it lists or
\* by none; which of two clashing members the map yields first does not matter.
SameVerdict ==
  \A p, q \in Procs :
    Done(p) /\ Done(q) /\ SameToken(p, q) /\ {Name[p], Name[q]} \subseteq NamesOf(p) => pc[p] = pc[q]

=============================================================================
